------------------------------ MODULE VRSStore ------------------------------
(***************************************************************************)
(* The native record store that pyvrs drives (vrsbindings.Reader and       *)
(* AsyncReader).  Its C++ code is not part of the Python sources, so every *)
(* definition here is modelled from the specification (spec.md sections   *)
(* 1, 4.3, 4.5, 4.6 and 6): the file's timestamp-ordered index, lower-bound *)
(* and nearest-by-time lookup, previous/next matching index, recomputation *)
(* of an enabled index subset, and record reads that, in automatic mode,   *)
(* first read the stream's latest preceding configuration record.          *)
(*                                                                         *)
(* Absolute indices are 0-based, as in Python: the file is a function      *)
(* from 0..n-1 to records.                                                 *)
(***************************************************************************)
EXTENDS Integers, Sequences, FiniteSets, FiniteSetsExt, SequencesExt

CONSTANTS
  StreamIds,      \* stream ids that may occur in a file
  RecordTypes,    \* record types that may occur in a file
  Timestamps,     \* record timestamps (a small set of integers)
  MaxRecords,     \* the largest file considered
  AutoModes       \* values of auto_read_configuration_records considered

CONFIGURATION == "configuration"

ASSUME CONFIGURATION \in RecordTypes
ASSUME Timestamps \subseteq Nat /\ Timestamps # {}
ASSUME MaxRecords \in Nat
ASSUME AutoModes \subseteq BOOLEAN

VARIABLES
  file,       \* the opened file: absolute index -> record; never changes
  auto,       \* auto_read_configuration_records, fixed at construction
  decoded     \* stream id -> index of the configuration record the decoder
              \* last read for that stream, -1 when none

storeVars == <<file, auto, decoded>>

Record == [stream_id : StreamIds, record_type : RecordTypes,
           timestamp : Timestamps]

(* Every file of at most MaxRecords records whose index is timestamp-ordered *)
Files ==
  UNION { { f \in [0 .. (n - 1) -> Record] :
              \A i \in 1 .. (n - 1) : f[i - 1].timestamp <= f[i].timestamp }
          : n \in 0 .. MaxRecords }

Indices == DOMAIN file
NRecords == Cardinality(Indices)

(* get_available_stream_ids / get_available_record_types *)
AvailableStreamIds == { file[i].stream_id : i \in Indices }
AvailableRecordTypes == { file[i].record_type : i \in Indices }

(* get_min/max_available_timestamp; 0 for a file without records *)
MinAvailableTimestamp ==
  IF NRecords = 0 THEN 0 ELSE Min({ file[i].timestamp : i \in Indices })
MaxAvailableTimestamp ==
  IF NRecords = 0 THEN 0 ELSE Max({ file[i].timestamp : i \in Indices })

(* Results of store and reader calls: a value, Python's None, or an error *)
Ok(v) == [kind |-> "ok", val |-> v]
NoneResult == [kind |-> "None", val |-> -1]
Raise(e) == [kind |-> e, val |-> -1]

OnStream(s) == { i \in Indices : file[i].stream_id = s }
Dist(i, t) == IF file[i].timestamp >= t THEN file[i].timestamp - t
                                        ELSE t - file[i].timestamp

(* get_record_index_by_time: the first record of the stream whose          *)
(* timestamp is at or after t (lower bound), ValueError when none.         *)
GetRecordIndexByTime(s, t) ==
  LET after == { i \in OnStream(s) : file[i].timestamp >= t }
  IN  IF s \notin AvailableStreamIds THEN Raise("StreamNotFoundError")
      ELSE IF after = {} THEN Raise("ValueError")
      ELSE Ok(Min(after))

(* get_nearest_record_index_by_time: the record of the stream nearest to t *)
(* strictly within epsilon, ties to the smaller index.                     *)
GetNearestRecordIndexByTime(t, e, s) ==
  LET near == { i \in OnStream(s) : Dist(i, t) < e }
      best == { i \in near : \A j \in near : Dist(i, t) <= Dist(j, t) }
  IN  IF s \notin AvailableStreamIds THEN Raise("StreamNotFoundError")
      ELSE IF near = {} THEN Raise("TimestampNotFoundError")
      ELSE Ok(Min(best))

Matches(i, s, rt) == file[i].stream_id = s /\ file[i].record_type = rt

(* get_prev_index / get_next_index: IndexError when no record matches *)
GetPrevIndex(s, rt, index) ==
  LET before == { j \in Indices : j <= index /\ Matches(j, s, rt) }
  IN  IF s \notin AvailableStreamIds THEN Raise("StreamNotFoundError")
      ELSE IF before = {} THEN Raise("IndexError") ELSE Ok(Max(before))

GetNextIndex(s, rt, index) ==
  LET after == { j \in Indices : j >= index /\ Matches(j, s, rt) }
  IN  IF s \notin AvailableStreamIds THEN Raise("StreamNotFoundError")
      ELSE IF after = {} THEN Raise("IndexError") ELSE Ok(Min(after))

(* regenerate_enabled_indices: the ascending list of the absolute indices  *)
(* whose type, stream and timestamp satisfy the criteria (bounds included) *)
RegenerateEnabledIndices(types, streams, lo, hi) ==
  SetToSortSeq({ i \in Indices : /\ file[i].record_type \in types
                                 /\ file[i].stream_id \in streams
                                 /\ lo <= file[i].timestamp
                                 /\ file[i].timestamp <= hi }, <)

(* The configuration record a record of stream s at index i depends on *)
LastConfigBefore(s, i) ==
  LET cfgs == { j \in OnStream(s) : j < i /\ file[j].record_type = CONFIGURATION }
  IN  IF cfgs = {} THEN -1 ELSE Max(cfgs)

(* read_record(i): decoding a configuration record makes it the stream's   *)
(* current one; in automatic mode, reading any other record first reads    *)
(* the latest preceding configuration record when the decoder lacks it.    *)
ReadRecord(i) ==
  LET s == file[i].stream_id
      c == LastConfigBefore(s, i)
  IN  IF file[i].record_type = CONFIGURATION
        THEN decoded' = [decoded EXCEPT ![s] = i]
      ELSE IF auto /\ c # -1 /\ decoded[s] # c
        THEN decoded' = [decoded EXCEPT ![s] = c]
      ELSE UNCHANGED decoded

(* A record can be interpreted when the decoder holds the configuration    *)
(* record that precedes it on its stream.                                  *)
Interpretable(i) ==
  LET s == file[i].stream_id
  IN  file[i].record_type = CONFIGURATION
      \/ LastConfigBefore(s, i) = -1
      \/ decoded[s] = LastConfigBefore(s, i)

StoreInit ==
  /\ file \in Files
  /\ auto \in AutoModes
  /\ decoded = [s \in StreamIds |-> -1]

StoreTypeOK ==
  /\ file \in Files
  /\ auto \in BOOLEAN
  /\ decoded \in [StreamIds -> {-1} \cup 0 .. (MaxRecords - 1)]
=============================================================================
