---------------------------- MODULE DataLogWriter ----------------------------
(***************************************************************************)
(* The writer of one of the archiver's data logs (Data/DataLogWriter.ts):  *)
(* entries are queued, one call writes them, and full files are rotated.   *)
(*                                                                         *)
(* A file is the sequence of its lines.  Files log1 to logN are written in *)
(* turn, and half of them at a time is renamed to old-log files.           *)
(***************************************************************************)
EXTENDS Integers, FiniteSetsExt, SequencesExt

CONSTANTS
  maxLogFiles, maxNumberEntriesPerLog,
  MaxEntries, MaxQueue, MaxCrashes, MaxErrors    \* bounds

\* Assumed of the constants.
LogAssumption ==
  /\ maxLogFiles \in Nat /\ maxLogFiles > 2 /\ maxLogFiles % 2 = 0
  /\ maxNumberEntriesPerLog \in Nat \ {0} /\ MaxEntries \in Nat /\ MaxQueue \in Nat
  /\ MaxCrashes \in Nat /\ MaxErrors \in Nat

VARIABLES
  files, activeLog,    \* name |-> lines, and the number in active-log.txt
  logCounter, stream,  \* the stream's file, Ended or None
  totalNumberOfEntries, writeQueue, dataWriteIndex,
  at, position,        \* where insertDataLog is, and its i
  entries, crashes, errors,
  lost,                \* history: entries queued or buffered when the archiver crashed
  broken               \* history: a rotation was cut short

state == <<files, activeLog, logCounter, stream, totalNumberOfEntries>>
loop == <<writeQueue, dataWriteIndex, at, position>>
vars == <<state, loop, entries, crashes, errors, lost, broken>>

Log(n) == <<"log", n>>
Old(n) == <<"old-log", n>>
Ended == <<"ended", 0>>
None == <<"none", 0>>
EndLine == 0
Half == maxLogFiles \div 2

-----------------------------------------------------------------------------
(* Files.                                                                  *)

Opened(fs, name) ==
  [n \in DOMAIN fs \cup {name} |-> IF n \in DOMAIN fs THEN fs[n] ELSE <<>>]

\* Lines written to a stream that has ended are lost.
Written(fs, name, line) == IF name \in {Ended, None} THEN fs ELSE [fs EXCEPT ![name] = Append(@, line)]

\* rotateOldLogs: which numbers to rename when the counter reaches a half or the end, and what to
\* delete before.  The second half is only renamed when there were old files.
OldFiles(fs) == {name \in DOMAIN fs : name[1] = "old-log"}
\* Wrong on purpose: the last file of the first half stays.
RenamedLess(fs, counter) ==
  CASE counter = Half -> IF OldFiles(fs) = {} THEN {} ELSE (Half + 1)..maxLogFiles
    [] counter = maxLogFiles -> 1..(Half - 1)
    [] OTHER -> {}

Renamed(fs, counter) ==
  CASE counter = Half -> IF OldFiles(fs) = {} THEN {} ELSE (Half + 1)..maxLogFiles
    [] counter = maxLogFiles -> 1..Half
    [] OTHER -> {}
Deleted(fs, counter) == IF counter \in {Half, maxLogFiles} THEN OldFiles(fs) ELSE {}

\* The files after some of the calls to unlink and rename, which run side by side.
Rotated(fs, unlinked, renamed) ==
  LET old == {Old(n) : n \in renamed}
      left == DOMAIN fs \ (unlinked \cup {Log(n) : n \in renamed})
  IN [name \in old \cup left |-> IF name \in old THEN fs[Log(name[2])] ELSE fs[name]]

RotationFails(fs, counter) == \E n \in Renamed(fs, counter) : Log(n) \notin DOMAIN fs
Renamable(fs, counter) == {n \in Renamed(fs, counter) : Log(n) \in DOMAIN fs}
RotateLogFile(fs, counter) == Rotated(fs, Deleted(fs, counter), Renamable(fs, counter))
Wrapped(counter) == IF counter > maxLogFiles THEN 1 ELSE counter

-----------------------------------------------------------------------------
(* insertDataLog, from one await to the next.                              *)

Left == position <= Len(writeQueue)
Full == totalNumberOfEntries = maxNumberEntriesPerLog

\* writeToLog: the call that finds no other writing starts with the entry.
WriteToLog ==
  /\ entries < MaxEntries /\ Len(writeQueue) < MaxQueue
  /\ entries' = entries + 1
  /\ writeQueue' = Append(writeQueue, entries')
  /\ IF at = "idle"
     THEN position' = 1 /\ at' = "loop"
     ELSE UNCHANGED <<at, position>>
  /\ UNCHANGED <<state, dataWriteIndex, crashes, errors, lost, broken>>

\* Without a stream the call throws, and the loop is left and entered again for ever.
AppendEntry ==
  /\ at = "append" \/ (at = "loop" /\ Left /\ ~Full)
  /\ stream # None
  /\ files' = Written(files, stream, writeQueue[position])
  /\ dataWriteIndex' = dataWriteIndex + 1
  /\ totalNumberOfEntries' = totalNumberOfEntries + 1
  /\ position' = position + 1
  /\ at' = "loop"
  /\ UNCHANGED <<writeQueue, activeLog, logCounter, stream, entries, crashes, errors, lost, broken>>

\* The entries written leave the queue.  There are more of them than entries in it after an error.
SpliceQueue ==
  /\ at = "loop" /\ ~Left
  /\ writeQueue' = SubSeq(writeQueue, dataWriteIndex + 1, Len(writeQueue))
  /\ dataWriteIndex' = 0
  /\ position' = 1
  /\ at' = IF writeQueue' = <<>> THEN "idle" ELSE "loop"
  /\ UNCHANGED <<state, entries, crashes, errors, lost, broken>>

EndFile ==
  /\ at = "loop" /\ Left /\ Full
  /\ files' = Written(files, stream, EndLine)
  /\ stream' = Ended
  /\ totalNumberOfEntries' = 0
  /\ logCounter' = logCounter + 1
  /\ at' = "rotate"
  /\ UNCHANGED <<activeLog, writeQueue, dataWriteIndex, position, entries, crashes, errors, lost, broken>>

\* After an error the loop starts again with the first entry of the queue.
Again ==
  /\ position' = 1
  /\ at' = "loop"
  /\ broken' = TRUE

Rotate ==
  /\ at = "rotate"
  /\ files' = RotateLogFile(files, logCounter)
  /\ IF RotationFails(files, logCounter)
     THEN Again /\ UNCHANGED logCounter
     ELSE /\ logCounter' = Wrapped(logCounter)
          /\ at' = "setActive"
          /\ UNCHANGED <<position, broken>>
  /\ UNCHANGED <<activeLog, stream, totalNumberOfEntries, writeQueue, dataWriteIndex, entries,
                 crashes, errors, lost>>

SetActiveLog ==
  /\ at = "setActive"
  /\ files' = Opened(files, Log(logCounter))
  /\ stream' = Log(logCounter)
  /\ \/ /\ activeLog' = logCounter
        /\ at' = "append"
        /\ UNCHANGED <<position, errors, broken>>
     \/ /\ errors < MaxErrors     \* active-log.txt cannot be written
        /\ errors' = errors + 1
        /\ Again
        /\ UNCHANGED activeLog
  /\ UNCHANGED <<logCounter, totalNumberOfEntries, writeQueue, dataWriteIndex, entries, crashes, lost>>

-----------------------------------------------------------------------------
(* Crashes.                                                                *)

\* What a crash leaves of the files: the lines of the active file up to some buffered ones, and some
\* of the files of a rotation under way unlinked or renamed.
CrashFiles ==
  CASE at = "rotate" ->
         {Rotated(files, unlinked, renamed) :
            unlinked \in SUBSET Deleted(files, logCounter), renamed \in SUBSET Renamable(files, logCounter)}
    [] at = "setActive" -> {files, Opened(files, Log(logCounter))}
    [] at \notin {"rotate", "setActive"} /\ stream \in DOMAIN files ->
         {[files EXCEPT ![stream] = SubSeq(@, 1, k)] : k \in 0..Len(files[stream])}
    [] OTHER -> {files}

\* init: an active file that is full is ended and rotated at once; without it there is no stream.
ActiveFound(fs) == Log(activeLog) \in DOMAIN fs
ReopenFull(fs) == ActiveFound(fs) /\ Len(fs[Log(activeLog)]) >= maxNumberEntriesPerLog
ReopenFails(fs) == ReopenFull(fs) /\ RotationFails(fs, activeLog + 1)

Reopen(fs) ==
  LET name == Log(activeLog)
      next == Wrapped(activeLog + 1)
      rotated == RotateLogFile(Written(fs, name, EndLine), activeLog + 1)
  IN CASE ~ActiveFound(fs) ->
          /\ logCounter' = activeLog /\ totalNumberOfEntries' = 0
          /\ IF activeLog = 1 THEN files' = Opened(fs, name) /\ stream' = name
                              ELSE files' = fs /\ stream' = None
          /\ UNCHANGED activeLog
       [] ActiveFound(fs) /\ ~ReopenFull(fs) ->
          /\ logCounter' = activeLog /\ stream' = name /\ totalNumberOfEntries' = Len(fs[name])
          /\ files' = fs
          /\ UNCHANGED activeLog
       [] ReopenFull(fs) ->
          /\ logCounter' = next /\ totalNumberOfEntries' = 0
          /\ IF ReopenFails(fs)
             THEN files' = rotated /\ stream' = Ended /\ UNCHANGED activeLog
             ELSE files' = Opened(rotated, Log(next)) /\ stream' = Log(next) /\ activeLog' = next

\* A restart rotates the full file that is still the active one again.
CutShort(fs) ==
  \/ at = "rotate" /\ DOMAIN fs # DOMAIN files
  \/ at = "setActive" /\ logCounter \in {Half, maxLogFiles}

LinesOf(fs) == UNION {ToSet(fs[name]) : name \in DOMAIN fs}

Restart ==
  /\ crashes < MaxCrashes
  /\ crashes' = crashes + 1
  /\ \E fs \in CrashFiles :
       /\ Reopen(fs)
       /\ broken' = (broken \/ CutShort(fs) \/ ReopenFails(fs))
       /\ lost' = lost \cup ToSet(writeQueue) \cup (LinesOf(files) \ LinesOf(fs))
  /\ writeQueue' = <<>> /\ dataWriteIndex' = 0 /\ at' = "idle" /\ position' = 1
  /\ UNCHANGED <<entries, errors>>

-----------------------------------------------------------------------------
Init ==
  /\ files = [name \in {Log(1)} |-> <<>>] /\ activeLog = 1 /\ logCounter = 1 /\ stream = Log(1)
  /\ totalNumberOfEntries = 0 /\ writeQueue = <<>> /\ dataWriteIndex = 0
  /\ at = "idle" /\ position = 1
  /\ entries = 0 /\ crashes = 0 /\ errors = 0 /\ lost = {} /\ broken = FALSE

Next ==
  \/ WriteToLog \/ AppendEntry \/ SpliceQueue \/ EndFile \/ Rotate \/ SetActiveLog \/ Restart

Spec == Init /\ [][Next]_vars

-----------------------------------------------------------------------------
TypeOK ==
  /\ \A name \in DOMAIN files : name[1] \in {"log", "old-log"} /\ name[2] \in 1..maxLogFiles
  /\ activeLog \in 1..maxLogFiles /\ logCounter \in 1..(maxLogFiles + 1)
  /\ stream \in DOMAIN files \cup {Ended, None}
  /\ totalNumberOfEntries \in 0..maxNumberEntriesPerLog
  /\ at \in {"idle", "loop", "append", "rotate", "setActive"}
  /\ Len(writeQueue) <= MaxQueue /\ dataWriteIndex \in Nat

EntriesOf(name) == {i \in DOMAIN files[name] : files[name][i] # EndLine}
FilesWith(entry) == {name \in DOMAIN files : entry \in ToSet(files[name])}
Later(entry) == {e \in LinesOf(files) : e > entry}

\* While no rotation is cut short, each entry is in one place of one file, in the order of the calls,
\* no file has more entries than it may, and no entry is missing but those not written yet, those
\* lost in a crash, and those that full files after them have pushed out.
LogComplete ==
  ~broken =>
    /\ \A name \in DOMAIN files :
         /\ Cardinality(EntriesOf(name)) <= maxNumberEntriesPerLog
         /\ \A i, j \in EntriesOf(name) : i < j => files[name][i] < files[name][j]
    /\ \A e \in 1..entries : Cardinality(FilesWith(e)) <= 1
    /\ \A e \in 1..entries \ (lost \cup ToSet(writeQueue)) :
         \/ FilesWith(e) # {}
         \/ Cardinality(Later(e)) >= (maxLogFiles - 1) * maxNumberEntriesPerLog
=============================================================================
