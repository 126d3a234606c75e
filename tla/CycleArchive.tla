--------------------------- MODULE CycleArchive ---------------------------
(***************************************************************************)
(* What the archiver promises about the cycle chain, without any of the    *)
(* machinery: it accepts cycle records in ascending order of their         *)
(* counters, and every record it accepted is written to the cycles table   *)
(* at some later point, in any order, unless the write itself fails.       *)
(* CycleProcessing implements this specification.                          *)
(***************************************************************************)
EXTENDS Integers

CONSTANTS
  Record,     \* cycle records; a record is identified by its marker
  Counter,    \* Counter[r] is the cycle number of record r
  Stored      \* the records in the table when the archiver starts

VARIABLES
  accepted,   \* records the archiver has taken into its chain
  stored,     \* records in the cycles table
  failed      \* accepted records whose write failed

archiveVars == <<accepted, stored, failed>>

Init ==
  /\ accepted = Stored
  /\ stored = Stored
  /\ failed = {}

Accept(r) ==
  /\ \A a \in accepted : Counter[a] < Counter[r]
  /\ accepted' = accepted \cup {r}
  /\ UNCHANGED <<stored, failed>>

Store(r) ==
  /\ r \in accepted
  /\ stored' = stored \cup {r}
  /\ UNCHANGED <<accepted, failed>>

Fail(r) ==
  /\ r \in accepted
  /\ failed' = failed \cup {r}
  /\ UNCHANGED <<accepted, stored>>

Next == \E r \in Record : Accept(r) \/ Store(r) \/ Fail(r)

Spec == Init /\ [][Next]_archiveVars

\* No accepted record is forgotten: it is written, or its write fails.  An implementation
\* has to establish this from the fairness of its own steps.
Written == \A r \in Record : r \in accepted ~> r \in stored \cup failed

=============================================================================
