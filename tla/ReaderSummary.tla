---------------------------- MODULE ReaderSummary ----------------------------
(***************************************************************************)
(* The human-readable summary of a reader (VRSReader.__str__) and of its    *)
(* filtered view (SyncFilteredVRSReader.__str__ / AsyncFilteredVRSReader.   *)
(* __str__), with the per-stream count memo they fill: the reader's         *)
(* _record_counts_by_type, which a filtered view shares because its         *)
(* _record_count_by_type_from_stream_id delegates to the reader.            *)
(*                                                                         *)
(* Which facade opened the file (SyncVRSReader or AsyncVRSReader) decides   *)
(* the class of the view filtered_by_fields returns.  The summary string is *)
(* kept as the facts it reports; its layout and the file tags are left out. *)
(***************************************************************************)
EXTENDS PyVRSReader

CONSTANTS
  Facades    \* the reader classes a file may be opened with: "sync", "async"

ASSUME Facades \subseteq {"sync", "async"}

VARIABLES
  facade,    \* the class of the reader
  memo,      \* _record_counts_by_type: stream id -> counts by record type
  lastStr    \* the outcome of the last str() call, None before any

svars == <<file, auto, decoded, view, lastRead, facade, memo, lastStr>>

(* A count by type that also lists the types the stream lacks, as 0 *)
RecordCountByTypeWithZeros(s) ==
  [rt \in RecordTypes |-> Cardinality({ i \in OnStream(s) : file[i].record_type = rt })]

(* The store's record_count_by_type_from_stream_id (spec-modelled) *)
RecordCountByTypeFromStreamId(s) ==
  LET types == { file[i].record_type : i \in OnStream(s) }
  IN  [rt \in types |-> Cardinality({ i \in OnStream(s) : file[i].record_type = rt })]

(* The record-reading methods each reader class defines *)
ReaderMethods(f) == IF f = "async" THEN {"_read_record", "_async_read_record"}
                    ELSE {"_read_record"}

(* dict assignment *)
Put(f, key, v) == (key :> v) @@ f

(* VRSReader._record_count_by_type_from_stream_id: the memo after asking   *)
(* for stream s (asked of the store on first use); a filtered view passes *)
(* the call on to its reader.                                              *)
RecordCountMemo(on, m, s) ==
  IF s \in DOMAIN m THEN m ELSE Put(m, s, RecordCountByTypeFromStreamId(s))

(* The memo after the summary's loop over the object's stream ids *)
RECURSIVE FillMemo(_, _, _)
FillMemo(on, m, S) ==
  IF S = {} THEN m
  ELSE LET s == CHOOSE x \in S : TRUE
       IN  FillMemo(on, RecordCountMemo(on, m, s), S \ {s})

(* The stream ids the summary lists: all of the file, or the view's *)
StreamsOf(on) == IF on = "base" THEN AvailableStreamIds
                 ELSE view.record_filter.stream_ids

(* The facts VRSReader.__str__ reports, given the memo after its loop *)
BaseSummary(m) ==
  [enabled |-> NRecords, total |-> NRecords, auto |-> auto,
   streams |-> AvailableStreamIds, types |-> AvailableRecordTypes,
   ranges |-> IF NRecords > 0
                THEN <<<<MinAvailableTimestamp, MaxAvailableTimestamp>>>>
                ELSE <<>>,
   counts |-> [s \in AvailableStreamIds |-> m[s]]]

(* The facts SyncFilteredVRSReader.__str__ reports: enabled of total       *)
(* records, the view's streams and types, both time ranges when records   *)
(* are enabled, and the counts of the view's streams.                      *)
FilteredSummary(m) ==
  [enabled |-> Len(view.indices), total |-> NRecords, auto |-> auto,
   streams |-> view.record_filter.stream_ids,
   types |-> view.record_filter.record_types,
   ranges |-> IF Len(view.indices) > 0
                THEN <<<<MinAvailableTimestamp, MaxAvailableTimestamp>>,
                       <<view.min_timestamp, view.max_timestamp>>>>
                ELSE <<>>,
   counts |-> [s \in view.record_filter.stream_ids |-> m[s]]]

Summary(on, m) == IF on = "base" THEN BaseSummary(m) ELSE FilteredSummary(m)

(* str(obj).  AsyncFilteredVRSReader.__str__ reads                         *)
(* self._auto_read_configuration_records, which a filtered reader never    *)
(* sets: AttributeError before the loop, so nothing is memoized.           *)
Str(on) ==
  LET m == FillMemo(on, memo, StreamsOf(on)) IN
  /\ IF on = "filtered" /\ facade = "async"
       THEN /\ lastStr' = Raise("AttributeError")
            /\ UNCHANGED memo
       ELSE /\ memo' = m
            /\ lastStr' = Ok(Summary(on, m))
  /\ UNCHANGED <<file, auto, decoded, view, lastRead, facade>>

(* filtered_by_fields of either facade: the same derivation; the async one *)
(* returns an AsyncFilteredVRSReader, whose __init__ check that the reader *)
(* has _async_read_record passes for an AsyncVRSReader.                    *)
FilteredByFieldsOf(sa, ta, lo, hi) ==
  /\ FilteredByFields(sa, ta, lo, hi)
  /\ facade = "async" => "_async_read_record" \in ReaderMethods(facade)
  /\ UNCHANGED <<facade, memo, lastStr>>

SInit ==
  /\ Init
  /\ facade \in Facades
  /\ memo = <<>>
  /\ lastStr = NoneResult

SNext ==
  \/ \E sa \in {None} \cup {{p} : p \in Patterns},
        ta \in {None} \cup {{t} : t \in TypeArgs},
        lo, hi \in {None} \cup TimeArgs : FilteredByFieldsOf(sa, ta, lo, hi)
  \/ \E on \in Targets : Str(on)

SSpec == SInit /\ [][SNext]_svars

-----------------------------------------------------------------------------
Counts == UNION { [T -> 1 .. MaxRecords] : T \in SUBSET RecordTypes }

STypeOK ==
  /\ TypeOK
  /\ facade \in Facades
  /\ DOMAIN memo \subseteq StreamIds /\ \A s \in DOMAIN memo : memo[s] \in Counts
  /\ lastStr.kind \in {"ok", "None", "AttributeError"}

(* str() of a reader or of a filtered reader returns a summary (spec.md 7: *)
(* the summary string is part of the exposed contract).                    *)
SummaryNeverRaises == lastStr.kind # "AttributeError"
=============================================================================
