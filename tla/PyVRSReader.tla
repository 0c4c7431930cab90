----------------------------- MODULE PyVRSReader -----------------------------
(***************************************************************************)
(* The Python index/filter/search layer of pyvrs over one open file:       *)
(* SyncVRSReader (reader.py), the SyncFilteredVRSReader it creates with    *)
(* filtered_by_fields (filter.py), list indexing (slice.py) and the        *)
(* stream-id / record-type expansion helpers (utils.py).                   *)
(*                                                                         *)
(* Every call is one action.  What a call returns is a pure function of   *)
(* the file, the view and its arguments (the *Result operators), so the   *)
(* properties about results quantify over all arguments in every state.   *)
(* What a read returned is kept in lastRead, because the decoder state     *)
(* that makes it interpretable is changed by the read itself.  A reader   *)
(* owns at most one filtered view here: views are immutable and           *)
(* independent, so one is enough to relate a view to the calls on it.     *)
(***************************************************************************)
EXTENDS VRSStore

CONSTANTS
  None,           \* Python's None: an omitted argument
  AnyPart,        \* a '*' component in a stream-id glob pattern
  Patterns,       \* stream-id globs a caller may pass to filtered_by_fields
  TypeArgs,       \* record types a caller may pass (possibly unknown ones)
  TimeArgs,       \* min_timestamp / max_timestamp arguments
  Epsilons,       \* epsilon arguments of the by-time lookups (None allowed)
  Positions,      \* integer indices / positions callers pass
  StreamArgs      \* stream ids callers pass (those of the file and others)

ASSUME None \notin Timestamps \cup Positions
ASSUME Positions \subseteq Int /\ TimeArgs \subseteq Nat
ASSUME StreamIds \subseteq StreamArgs

VARIABLES
  view,     \* the SyncFilteredVRSReader created from this reader, or None
  lastRead  \* outcome of the last call if it read a record, else None

vars == <<file, auto, decoded, view, lastRead>>

(***************************************************************************)
(* Stream ids are "<recordable type>-<instance>"; a glob replaces either   *)
(* part by '*'.  fnmatch is modelled on that shape of pattern.             *)
(***************************************************************************)
Fnmatch(id, p) == /\ p.rt \in {id.rt, AnyPart}
                  /\ p.inst \in {id.inst, AnyPart}

(* utils._filter_set_on_condition, the condition given as the set of     *)
(* pairs <<a, b>> for which cond_func(a, b) holds                          *)
FilterSetOnCondition(s, items, cond) ==
  { a \in s : \E b \in items : <<a, b>> \in cond }

(* Stream-id arguments compared literally, without glob expansion *)
FilterByStreamIdsLiteral(available, patterns) == available \cap patterns

(* utils.filter_by_stream_ids: glob matching *)
FilterByStreamIds(available, patterns) ==
  FilterSetOnCondition(available, patterns,
                       { ab \in available \X patterns : Fnmatch(ab[1], ab[2]) })

(* utils.filter_by_record_type: exact matches only *)
SameType(a, b) == a = b
FilterByRecordType(available, requested) ==
  FilterSetOnCondition(available, requested,
                       { ab \in available \X requested : SameType(ab[1], ab[2]) })

(***************************************************************************)
(* Python list indexing: negative positions count from the end.            *)
(***************************************************************************)
PyIndexOk(L, i) == -Len(L) <= i /\ i < Len(L)
PyAt(L, i) == IF i >= 0 THEN L[i + 1] ELSE L[Len(L) + i + 1]

(* bisect.bisect (bisect_right) on an ascending list *)
Bisect(L, x) == Cardinality({ k \in 1 .. Len(L) : L[k] <= x })

(* VRSReader.__getitem__ indexes range(n_records) *)
BaseList == [k \in 1 .. NRecords |-> k - 1]
ListOf(on) == IF on = "base" THEN BaseList ELSE view.indices

(* The truth value of the epsilon argument: `if epsilon:` *)
Truthy(e) == e # None /\ e # 0

(* VRSReader._generate_filtered_indices, which a filtered reader calls on *)
(* its reader: the store regenerates the enabled indices for the filter.   *)
GenerateFilteredIndices(rf) ==
  RegenerateEnabledIndices(rf.record_types, rf.stream_ids,
                           rf.min_timestamp, rf.max_timestamp)

(***************************************************************************)
(* FilteredVRSReader.__init__: derive the index list, then the first and   *)
(* last enabled timestamps (0 when the view is empty).                     *)
(***************************************************************************)
(* A view that reports its filter's bounds as its first and last timestamps *)
NewFilteredReaderFilterBounds(rf, request) ==
  [record_filter |-> rf,
   request       |-> request,
   indices       |-> GenerateFilteredIndices(rf),
   min_timestamp |-> rf.min_timestamp,
   max_timestamp |-> rf.max_timestamp]

NewFilteredReader(rf, request) ==
  LET F == GenerateFilteredIndices(rf)
  IN  [record_filter |-> rf,
       request       |-> request,
       indices       |-> F,
       min_timestamp |-> IF Len(F) = 0 THEN 0 ELSE file[F[1]].timestamp,
       max_timestamp |-> IF Len(F) = 0 THEN 0 ELSE file[F[Len(F)]].timestamp]

(* The outcome of a call that reads a record, or None for any other call *)
Done(res) == lastRead' = res
Reads(res) == /\ IF res.kind = "ok" THEN ReadRecord(res.val) ELSE UNCHANGED decoded
              /\ Done(res)

(***************************************************************************)
(* SyncVRSReader.filtered_by_fields: omitted arguments default to the      *)
(* reader's own sets and bounds, then types and stream globs are resolved  *)
(* against the available ones.  A str argument is the one-element set.    *)
(***************************************************************************)
FilteredByFields(sa, ta, lo, hi) ==
  LET streams == IF sa = None THEN AvailableStreamIds ELSE sa
      types   == IF ta = None THEN AvailableRecordTypes ELSE ta
      mn      == IF lo = None THEN MinAvailableTimestamp ELSE lo
      mx      == IF hi = None THEN MaxAvailableTimestamp ELSE hi
      rf == [record_types  |-> FilterByRecordType(AvailableRecordTypes, types),
             stream_ids    |-> FilterByStreamIds(AvailableStreamIds, streams),
             min_timestamp |-> mn,
             max_timestamp |-> mx]
  IN  /\ view = None
      /\ view' = NewFilteredReader(rf, [stream_ids |-> sa, record_types |-> ta,
                                        min_timestamp |-> lo,
                                        max_timestamp |-> hi])
      /\ Done(NoneResult)
      /\ UNCHANGED <<file, auto, decoded>>

(* A FilteredVRSReader has no filtered_by_fields: re-filtering fails with  *)
(* AttributeError and changes nothing.                                     *)
Refilter ==
  /\ view # None
  /\ Done(NoneResult)
  /\ UNCHANGED <<file, auto, decoded, view>>

(***************************************************************************)
(* __getitem__ with an integer: index_or_slice_records reads the absolute  *)
(* index at that position of the reader's list.                            *)
(***************************************************************************)
GetItemResult(on, i) ==
  LET L == ListOf(on) IN
  IF PyIndexOk(L, i) THEN Ok(PyAt(L, i)) ELSE Raise("IndexError")

GetItem(on, i) ==
  /\ Reads(GetItemResult(on, i))
  /\ UNCHANGED <<file, auto, view>>

(* VRSReader.get_record_index_by_time *)
BaseIndexByTime(s, t, e) ==
  IF s \notin AvailableStreamIds THEN Raise("AssertionError")
  ELSE IF Truthy(e) THEN GetNearestRecordIndexByTime(t, e, s)
  ELSE GetRecordIndexByTime(s, t)

(* The remapping done with bisect_left instead of bisect *)
BisectLeft(L, x) == Cardinality({ k \in 1 .. Len(L) : L[k] < x })
FilteredIndexByTimeBisectLeft(s, t, e) ==
  LET r == BaseIndexByTime(s, t, e) IN
  IF s \notin view.record_filter.stream_ids THEN Raise("AssertionError")
  ELSE IF r.kind # "ok" THEN r
  ELSE Ok(Max({BisectLeft(view.indices, r.val) - 1, 0}))

(* FilteredVRSReader.get_record_index_by_time: the whole-file result is    *)
(* mapped to the last view position whose index is not after it.          *)
FilteredIndexByTime(s, t, e) ==
  LET r == BaseIndexByTime(s, t, e) IN
  IF s \notin view.record_filter.stream_ids THEN Raise("AssertionError")
  ELSE IF r.kind # "ok" THEN r
  ELSE Ok(Max({Bisect(view.indices, r.val) - 1, 0}))

IndexByTimeResult(on, s, t, e) ==
  IF on = "base" THEN BaseIndexByTime(s, t, e) ELSE FilteredIndexByTime(s, t, e)

(* A lookup returns IndexByTimeResult and changes nothing *)
GetRecordIndexByTimeCall(on, s, t, e) ==
  /\ Done(NoneResult)
  /\ UNCHANGED <<file, auto, decoded, view>>

(* read_record_by_time guarded by the assertion of get_record_index_by_time *)
IndexForTimeChecked(s, t, e) == BaseIndexByTime(s, t, e)

(* read_record_by_time that always takes the lower bound, epsilon or not *)
IndexForTimeLowerBound(s, t, e) == GetRecordIndexByTime(s, t)

(* read_record_by_time: the filtered reader delegates to the whole file,   *)
(* so both read what the whole-file lookup finds.                         *)
IndexForTime(s, t, e) ==
  IF Truthy(e) THEN GetNearestRecordIndexByTime(t, e, s)
               ELSE GetRecordIndexByTime(s, t)

ReadRecordByTime(on, s, t, e) ==
  /\ Reads(IndexForTime(s, t, e))
  /\ UNCHANGED <<file, auto, view>>

(***************************************************************************)
(* read_prev_record / read_next_record.  The whole-file reader turns an    *)
(* IndexError of the store into None.  The filtered reader first maps its  *)
(* position to an absolute index; read_next_record catches an IndexError   *)
(* there, read_prev_record does not.                                       *)
(***************************************************************************)
(* Neighbour reads of a filtered reader that pass the view position on as *)
(* if it were an absolute index                                          *)
NeighborResultUnmapped(op, on, s, rt, i) ==
  LET L == ListOf(on)
      mapped == on = "filtered" => PyIndexOk(L, i)
      r == IF op = "read_prev" THEN GetPrevIndex(s, rt, i)
                               ELSE GetNextIndex(s, rt, i)
  IN  IF ~mapped
        THEN IF op = "read_next" THEN NoneResult ELSE Raise("IndexError")
      ELSE IF r.kind = "IndexError" THEN NoneResult
      ELSE r

NeighborResult(op, on, s, rt, i) ==
  LET L == ListOf(on)
      mapped == on = "filtered" => PyIndexOk(L, i)
      anchor == IF on = "base" THEN i ELSE PyAt(L, i)
      r == IF op = "read_prev" THEN GetPrevIndex(s, rt, anchor)
                               ELSE GetNextIndex(s, rt, anchor)
  IN  IF ~mapped
        THEN IF op = "read_next" THEN NoneResult ELSE Raise("IndexError")
      ELSE IF r.kind = "IndexError" THEN NoneResult
      ELSE r

ReadPrevRecord(on, s, rt, i) ==
  /\ Reads(NeighborResult("read_prev", on, s, rt, i))
  /\ UNCHANGED <<file, auto, view>>

ReadNextRecord(on, s, rt, i) ==
  /\ Reads(NeighborResult("read_next", on, s, rt, i))
  /\ UNCHANGED <<file, auto, view>>

(* A filtered lookup that hands the view position to the whole-file reader *)
(* (a negative one then counts from the end of the file)                   *)
TimestampForIndexResultUnmapped(on, i) ==
  LET L == ListOf(on) IN
  IF i >= Len(L) \/ ~PyIndexOk(L, i) THEN Raise("IndexError")
  ELSE Ok(file[PyAt(BaseList, i)].timestamp)

(* get_timestamp_for_index: only index >= len is checked before indexing *)
TimestampForIndexResult(on, i) ==
  LET L == ListOf(on) IN
  IF i >= Len(L) \/ ~PyIndexOk(L, i) THEN Raise("IndexError")
  ELSE Ok(file[PyAt(L, i)].timestamp)

(* returns TimestampForIndexResult and changes nothing *)
GetTimestampForIndex(on, i) ==
  /\ Done(NoneResult)
  /\ UNCHANGED <<file, auto, decoded, view>>

(* get_timestamp_list: the timestamps of range(n_records), or of the      *)
(* filtered reader's index list, as the store reports them                 *)
TimestampListResult(on) == [k \in 1 .. Len(ListOf(on)) |-> file[ListOf(on)[k]].timestamp]

(* returns TimestampListResult and changes nothing *)
GetTimestampList(on) ==
  /\ Done(NoneResult)
  /\ UNCHANGED <<file, auto, decoded, view>>

(***************************************************************************)
(* What a reader says about itself: n_records, record_types,              *)
(* min_timestamp and max_timestamp are the store's, read once in          *)
(* VRSReader.__init__; a filtered reader's are the length of its index    *)
(* list, its filter's types and the bounds its __init__ derived.           *)
(***************************************************************************)
NRecordsOf(on) == IF on = "base" THEN NRecords ELSE Len(view.indices)
RecordTypesOf(on) ==
  IF on = "base" THEN AvailableRecordTypes ELSE view.record_filter.record_types
MinTimestampOf(on) ==
  IF on = "base" THEN MinAvailableTimestamp ELSE view.min_timestamp
MaxTimestampOf(on) ==
  IF on = "base" THEN MaxAvailableTimestamp ELSE view.max_timestamp
(* BaseVRSReader.time_range *)
TimeRange(on) == MaxTimestampOf(on) - MinTimestampOf(on)

Init ==
  /\ StoreInit
  /\ view = None
  /\ lastRead = NoneResult

Targets == {"base"} \cup IF view = None THEN {} ELSE {"filtered"}

(* Positions the whole-file reader may be given: the native neighbour and  *)
(* timestamp lookups are not defined for negative indices.                 *)
BasePositions(on) == IF on = "base" THEN { i \in Positions : i >= 0 }
                                    ELSE Positions

Next ==
  \/ \E sa \in {None} \cup {{p} : p \in Patterns},
        ta \in {None} \cup {{t} : t \in TypeArgs},
        lo, hi \in {None} \cup TimeArgs : FilteredByFields(sa, ta, lo, hi)
  \/ Refilter
  \/ \E on \in Targets, i \in Positions : GetItem(on, i)
  \/ \E on \in Targets, s \in StreamArgs, t \in Timestamps, e \in Epsilons :
       \/ GetRecordIndexByTimeCall(on, s, t, e)
       \/ ReadRecordByTime(on, s, t, e)
  \/ \E on \in Targets, s \in StreamArgs, rt \in RecordTypes :
       \E i \in BasePositions(on) : \/ ReadPrevRecord(on, s, rt, i)
                                   \/ ReadNextRecord(on, s, rt, i)
  \/ \E on \in Targets : \/ \E i \in BasePositions(on) : GetTimestampForIndex(on, i)
                        \/ GetTimestampList(on)

Spec == Init /\ [][Next]_vars

-----------------------------------------------------------------------------
(***************************************************************************)
(* Properties                                                              *)
(***************************************************************************)
Results == [kind : {"ok"}, val : Int] \cup
           [kind : {"None", "IndexError", "ValueError", "StreamNotFoundError",
                    "TimestampNotFoundError"}, val : {-1}]

TypeOK ==
  /\ StoreTypeOK
  /\ view = None \/ view.indices \in Seq(Indices)
  /\ lastRead \in Results

(* A filtered view holds exactly the records of the file that the caller's *)
(* request admits, where an omitted argument means "no restriction", types  *)
(* match exactly and stream ids match the globs (filtered_by_fields, the    *)
(* utils expansion helpers and FilteredVRSReader.__init__ together).       *)
FilterSelectsExactlyRequested ==
  view # None =>
    LET rq == view.request
        Admits(i) ==
          /\ rq.record_types = None \/ file[i].record_type \in rq.record_types
          /\ rq.stream_ids = None
             \/ \E p \in rq.stream_ids : Fnmatch(file[i].stream_id, p)
          /\ rq.min_timestamp = None \/ rq.min_timestamp <= file[i].timestamp
          /\ rq.max_timestamp = None \/ file[i].timestamp <= rq.max_timestamp
    IN  ToSet(view.indices) = { i \in Indices : Admits(i) }

(* Arguments of the lookups by time and of the neighbour reads *)
TimeQueries == StreamArgs \X Timestamps \X Epsilons
NeighborQueries == {"read_prev", "read_next"} \X StreamArgs \X RecordTypes \X Positions

(* When the whole-file lookup by time lands on a record of the view, the   *)
(* filtered get_record_index_by_time returns that record's position.       *)
RemapExactOnHit ==
  view # None =>
    \A q \in TimeQueries :
      LET r == BaseIndexByTime(q[1], q[2], q[3])
          f == FilteredIndexByTime(q[1], q[2], q[3])
      IN  (f.kind = "ok" /\ r.val \in ToSet(view.indices))
            => view.indices[f.val + 1] = r.val

(* read_prev_record / read_next_record return the matching record nearest  *)
(* to the anchor on the requested side (the anchor of a filtered reader is *)
(* the record at the given view position), and None only when no record   *)
(* on that side matches.                                                    *)
NeighborIsNearestMatch ==
  \A on \in Targets, q \in NeighborQueries :
    LET op == q[1]  s == q[2]  rt == q[3]  i == q[4]
        L == ListOf(on)
        res == NeighborResult(op, on, s, rt, i)
        a == IF on = "base" THEN i ELSE PyAt(L, i)
        Side(j) == IF op = "read_prev" THEN j <= a ELSE j >= a
        M == { j \in Indices : Side(j) /\ Matches(j, s, rt) }
        Nearest(j) == \A k \in M : IF op = "read_prev" THEN k <= j ELSE k >= j
    IN  (/\ i \in BasePositions(on)
         /\ on = "filtered" => PyIndexOk(L, i)
         /\ res.kind \in {"ok", "None"})
          => IF res.kind = "None" THEN M = {}
             ELSE res.val \in M /\ Nearest(res.val)

(* The docstrings of the by-time lookups: when epsilon is given, the record *)
(* found lies within epsilon of the requested time.                        *)
EpsilonBoundsResult ==
  \A q \in TimeQueries :
    LET r == BaseIndexByTime(q[1], q[2], q[3])
    IN  (q[3] # None /\ r.kind = "ok") => Dist(r.val, q[2]) <= q[3]

(* A record read by time through a filtered reader belongs to the view.    *)
FilteredReadByTimeInView ==
  view # None =>
    \A q \in TimeQueries :
      LET r == IndexForTime(q[1], q[2], q[3])
      IN  r.kind = "ok" => r.val \in ToSet(view.indices)

(* The docstrings of read_prev_record / read_next_record (base.py, and    *)
(* filter.py's own) and spec.md 4.5: `index` is an absolute index of the  *)
(* file, and the record returned is the nearest match at or before (after) *)
(* it, for the filtered reader too.                                        *)
NeighborAnchorIsAbsolute ==
  \A q \in NeighborQueries :
    LET op == q[1]  s == q[2]  rt == q[3]  i == q[4]
        res == NeighborResult(op, "filtered", s, rt, i)
        M == { j \in Indices : Matches(j, s, rt) /\
                               IF op = "read_prev" THEN j <= i ELSE j >= i }
    IN  (view # None /\ i >= 0 /\ res.kind = "ok") =>
          /\ res.val \in M
          /\ \A k \in M : IF op = "read_prev" THEN k <= res.val ELSE k >= res.val

(* The timestamp calls describe the records the list gives: for every      *)
(* position the reader accepts, get_timestamp_for_index succeeds exactly   *)
(* when obj[i] does, and gives the timestamp of the record obj[i] reads,   *)
(* which is also the i-th entry of get_timestamp_list().  A negative       *)
(* position of a filtered reader passes the `index >= len` check and wraps *)
(* as obj[i] does (filter.py).                                             *)
TimestampsAgreeWithItems ==
  \A on \in Targets : \A i \in BasePositions(on) :
    LET item == GetItemResult(on, i)
        ts   == TimestampForIndexResult(on, i)
        tl   == TimestampListResult(on)
    IN  /\ (item.kind = "ok") <=> (ts.kind = "ok")
        /\ item.kind = "ok" =>
             /\ ts.val = file[item.val].timestamp
             /\ ts.val = PyAt(tl, i)

(* A reader describes the records it reads: obj[0] .. obj[n_records - 1]  *)
(* are n_records distinct records, each of a type in record_types, and     *)
(* min_timestamp and max_timestamp (so time_range) are the least and       *)
(* greatest of their timestamps, or 0 for a reader that reads none.  For  *)
(* a filtered reader the bounds are cached by FilteredVRSReader.__init__   *)
(* from the first and last entries of its index list, which is right only *)
(* because the store returns the list in file, hence timestamp, order.     *)
ViewDescribesItsRecords ==
  \A on \in Targets :
    LET R == { GetItemResult(on, i).val : i \in 0 .. NRecordsOf(on) - 1 }
        T == { file[r].timestamp : r \in R }
    IN  /\ Cardinality(R) = NRecordsOf(on)
        /\ \A r \in R : file[r].record_type \in RecordTypesOf(on)
        /\ IF R = {} THEN MinTimestampOf(on) = 0 /\ MaxTimestampOf(on) = 0
                     ELSE MinTimestampOf(on) = Min(T) /\ MaxTimestampOf(on) = Max(T)
        /\ TimeRange(on) >= 0
=============================================================================
