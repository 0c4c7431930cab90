-------------------------- MODULE MC_ReaderSummary --------------------------
(* ReaderSummary over the files of MC_PyVRSReader, opened with either facade *)
EXTENDS ReaderSummary

CONSTANTS Star

MCStreamIds == {[rt |-> 100, inst |-> 1], [rt |-> 200, inst |-> 1]}
MCStreamArgs == MCStreamIds \cup {[rt |-> 300, inst |-> 1]}
MCPatterns == {[rt |-> 100, inst |-> Star], [rt |-> Star, inst |-> 1],
               [rt |-> 300, inst |-> Star]}
MCRecordTypes == {"configuration", "data"}
MCTypeArgs == {"data", "state"}
MCTimestamps == 0 .. 2
MCTimeArgs == {1}
MCEpsilons == {None}
MCPositions == {0}
=============================================================================
