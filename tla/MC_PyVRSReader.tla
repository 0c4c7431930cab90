--------------------------- MODULE MC_PyVRSReader ---------------------------
(* Instantiates PyVRSReader for TLC: files of up to three records of two   *)
(* streams ("100-1", "200-1"), configuration and data records, timestamps *)
(* 0..1.  Callers also name a stream no file has ("300-1").              *)
EXTENDS PyVRSReader

CONSTANTS Star

MCStreamIds == {[rt |-> 100, inst |-> 1], [rt |-> 200, inst |-> 1]}
MCStreamArgs == MCStreamIds \cup {[rt |-> 300, inst |-> 1]}

(* "100-*" keeps one stream, "*-1" both, "300-*" none *)
MCPatterns == {[rt |-> 100, inst |-> Star], [rt |-> Star, inst |-> 1],
               [rt |-> 300, inst |-> Star]}

MCRecordTypes == {"configuration", "data"}

(* "state" is a valid type name that no file here contains *)
MCTypeArgs == {"data", "state"}
MCTimestamps == 0 .. 1
MCTimeArgs == {1}
MCEpsilons == {None, 1}

(* An explicit epsilon of 0 *)
MCEpsilonsWithZero == {None, 0, 1}
MCPositions == -1 .. 3
=============================================================================
