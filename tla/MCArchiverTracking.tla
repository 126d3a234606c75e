------------------------- MODULE MCArchiverTracking -------------------------
EXTENDS ArchiverTracking

Quiet == [joined |-> {}, leaving |-> {}, refreshed |-> {}, lost |-> {}]
MCChanges ==
  {Quiet, [Quiet EXCEPT !.joined = {4}], [Quiet EXCEPT !.leaving = {1}],
   [Quiet EXCEPT !.refreshed = {3}], [Quiet EXCEPT !.lost = {3}], [Quiet EXCEPT !.lost = {2}]}
=============================================================================
