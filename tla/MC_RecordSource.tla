--------------------------- MODULE MC_RecordSource ---------------------------
(* PyVRSReader checked against RecordSource: the filtered reader's index    *)
(* list is the abstract subset, lastRead the abstract result and a history *)
(* variable the abstract call.  Files of up to three records on two        *)
(* streams with timestamps 0..2.                                            *)
EXTENDS PyVRSReader

CONSTANTS Star

(* History: the method, object and arguments of the call that returned     *)
(* the record in lastRead; RecordSource's contract depends on them.        *)
VARIABLE lastCall

hvars == <<vars, lastCall>>

NoCall == <<"none">>
Called(c) == lastCall' = IF lastRead'.kind = "ok" THEN c ELSE NoCall

HInit == Init /\ lastCall = NoCall

(* PyVRSReader's Next, each call also recording itself.  Left out are the *)
(* reads whose divergence from the contract has a run of its own: a       *)
(* filtered reader's read_record_by_time (filtered_read_by_time) and its   *)
(* neighbour reads (filtered_neighbor_anchor); an epsilon of 0             *)
(* (epsilon_zero) is not among the Epsilons.                               *)
HNext ==
  \/ /\ \E sa \in {None} \cup {{p} : p \in Patterns},
           ta \in {None} \cup {{t} : t \in TypeArgs},
           lo, hi \in {None} \cup TimeArgs : FilteredByFields(sa, ta, lo, hi)
     /\ lastCall' = NoCall
  \/ Refilter /\ lastCall' = NoCall
  \/ \E on \in Targets, i \in Positions :
       GetItem(on, i) /\ Called(<<"item", on, i>>)
  \/ \E on \in Targets, s \in StreamArgs, t \in Timestamps, e \in Epsilons :
       GetRecordIndexByTimeCall(on, s, t, e) /\ lastCall' = NoCall
  \/ \E s \in StreamArgs, t \in Timestamps, e \in Epsilons :
       ReadRecordByTime("base", s, t, e) /\ Called(<<"by_time", "base", s, t, e>>)
  \/ \E s \in StreamArgs, rt \in RecordTypes, i \in BasePositions("base") :
       \/ ReadPrevRecord("base", s, rt, i) /\ Called(<<"read_prev", "base", s, rt, i>>)
       \/ ReadNextRecord("base", s, rt, i) /\ Called(<<"read_next", "base", s, rt, i>>)
  \/ \E on \in Targets : \E i \in BasePositions(on) :
       GetTimestampForIndex(on, i) /\ lastCall' = NoCall
  \/ \E on \in Targets : GetTimestampList(on) /\ lastCall' = NoCall

HSpec == HInit /\ [][HNext]_hvars

RS == INSTANCE RecordSource
        WITH subset <- IF view = None THEN None ELSE ToSet(view.indices),
             result <- lastRead,
             call <- lastCall

(* Every behaviour of the Python readers is one the BaseVRSReader contract *)
(* allows: a view is a subset of the file made once, each read returns     *)
(* the record its method's docstring names for its arguments and decodes   *)
(* it through the store, and calls that read nothing or raise change       *)
(* nothing.                                                                 *)
RSSpec == RS!ASpec

MCStreamIds == {[rt |-> 100, inst |-> 1], [rt |-> 200, inst |-> 1]}

(* Calls name only the file's streams (on an unknown stream they only      *)
(* raise), views are filtered by stream glob and by type, not by time.     *)
MCPatternsOfFile == {[rt |-> 100, inst |-> Star], [rt |-> Star, inst |-> 1]}
MCRecordTypes == {"configuration", "data"}

(* a record two apart lies outside an epsilon of 1 *)
MCTimestamps == 0 .. 2
MCEpsilons == {None, 1}

(* from the end, the first, and the last of three (past the end of fewer) *)
MCPositions == {-1, 0, 2}
=============================================================================
