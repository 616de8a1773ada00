--------------------------- MODULE MCSyncCounters ---------------------------
(* Instances of SyncCounters for TLC.                                      *)
EXTENDS SyncCounters, TLC

CONSTANTS c1, c2, k1, k2

MCSigns == {-1, 1}
MCDeltas == {-1, 0, 1}
Symmetry == Permutations(Clients) \cup Permutations(Counters)

\* Awaits of every type on two counters; awaits that should not be; an alarm
\* that fires and advances among awaits; one that moves between two counters;
\* and alarms that are changed in ways that are refused, one of them so that
\* its loop has no end.
MCScenarios == {
  [habits |-> {"await"}, types |-> TestTypes, counters |-> 2],
  [habits |-> {"await", "same", "own"}, types |-> Comparisons, counters |-> 1],
  [habits |-> {"await", "alarm"}, types |-> Comparisons, counters |-> 1],
  [habits |-> {"alarm"}, types |-> {"NegativeComparison"}, counters |-> 2],
  [habits |-> {"alarm", "mismatch"}, types |-> Comparisons, counters |-> 1],
  [habits |-> {"alarm", "mismatch"}, types |-> Positive, counters |-> 1],
  [habits |-> {"alarm", "overflow"}, types |-> {"PositiveComparison"}, counters |-> 2]}
=============================================================================
