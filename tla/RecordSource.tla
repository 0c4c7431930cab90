---------------------------- MODULE RecordSource ----------------------------
(***************************************************************************)
(* What every reader promises: the contract of the abstract BaseVRSReader  *)
(* (base.py), stated without the index lists, bisection and delegation of  *)
(* its subclasses.  A reader is a filterable list over an immutable file;  *)
(* a filtered reader is a subset of the file, made once and never          *)
(* re-filtered; each read returns a record its method's docstring allows,  *)
(* and reading decodes the record through the store (VRSStore), which in   *)
(* automatic mode leaves it interpretable.  Calls that read nothing, and   *)
(* calls that end in an exception, change nothing.                         *)
(***************************************************************************)
EXTENDS VRSStore

CONSTANTS
  None         \* Python's None

VARIABLES
  subset,   \* the records of the filtered reader, None before filtered_by_fields
  result,   \* the outcome of the last call: Ok(absolute index), None, or an error
  call      \* the method, object and arguments of the call that returned a
            \* record, <<"none">> after any other call

avars == <<file, auto, decoded, subset, result, call>>

NoCall == <<"none">>

(* A reader behaves as a list: all of the file, or the filtered subset, in *)
(* file order                                                              *)
RecordsOf(on) == IF on = "base" THEN Indices ELSE subset
ListOf(on) == SetToSortSeq(RecordsOf(on), <)

(* The record at position i, a negative i counting from the end *)
At(L, i) == IF i >= 0 THEN L[i + 1] ELSE L[Len(L) + i + 1]
Holds(L, i) == -Len(L) <= i /\ i < Len(L)

(* __getitem__ with an integer: the record at that position of the list *)
ItemAllowed(on, i, r) ==
  LET L == ListOf(on) IN Holds(L, i) /\ r = At(L, i)

(* read_record_by_time: a record of the object's subset of the file (the *)
(* whole file, or the filtered records) on the stream; with epsilon, the  *)
(* nearest such record within epsilon of the time; without, the lower     *)
(* bound: the first such record at or after the time.                     *)
ByTimeAllowed(on, s, t, e, r) ==
  LET Own == OnStream(s) \cap RecordsOf(on) IN
  /\ r \in Own
  /\ IF e # None
       THEN /\ Dist(r, t) <= e
            /\ \A j \in Own : Dist(r, t) <= Dist(j, t)
       ELSE /\ file[r].timestamp >= t
            /\ \A j \in Own : j < r => file[j].timestamp < t

(* read_prev_record / read_next_record: among the object's records, the   *)
(* last one matching stream and type at or before the given absolute      *)
(* index of the file, or the first one at or after it.                    *)
NeighborAllowed(op, on, s, rt, i, r) ==
  LET Between(j) == IF op = "read_prev" THEN r < j /\ j <= i ELSE i <= j /\ j < r
  IN  /\ r \in RecordsOf(on) /\ Matches(r, s, rt)
      /\ IF op = "read_prev" THEN r <= i ELSE r >= i
      /\ \A j \in RecordsOf(on) : Between(j) => ~Matches(j, s, rt)

(* What a call c may return *)
Allowed(c, r) ==
  CASE c[1] = "item"    -> ItemAllowed(c[2], c[3], r)
    [] c[1] = "by_time" -> ByTimeAllowed(c[2], c[3], c[4], c[5], r)
    [] OTHER            -> NeighborAllowed(c[1], c[2], c[3], c[4], c[5], r)

(* A successful read of record r: the store decodes it, changing only its  *)
(* stream's decoder state; a configuration record becomes current, and in *)
(* automatic mode any other record is interpretable afterwards.            *)
Decode(r) ==
  LET s == file[r].stream_id IN
  /\ \A x \in StreamIds \ {s} : decoded'[x] = decoded[x]
  /\ IF file[r].record_type = CONFIGURATION
       THEN decoded'[s] = r
       ELSE decoded'[s] \in {decoded[s], LastConfigBefore(s, r)}
  /\ auto => Interpretable(r)'
  /\ result' = Ok(r)
  /\ call' # NoCall /\ Allowed(call', r)
  /\ UNCHANGED <<file, auto, subset>>

(* filtered_by_fields: a subset of the file, once *)
Filter ==
  /\ subset = None
  /\ subset' # None /\ subset' \subseteq Indices
  /\ result' = NoneResult /\ call' = NoCall
  /\ UNCHANGED <<file, auto, decoded>>

(* A call that reads no record, or a neighbour read that finds none *)
Query ==
  /\ result' = NoneResult /\ call' = NoCall
  /\ UNCHANGED <<file, auto, decoded, subset>>

(* A call that ends in an exception *)
Fail ==
  /\ result'.kind \notin {"ok", "None"} /\ call' = NoCall
  /\ UNCHANGED <<file, auto, decoded, subset>>

Read == \E r \in Indices : Decode(r)

AInit ==
  /\ StoreInit
  /\ subset = None
  /\ result = NoneResult
  /\ call = NoCall

ANext == Filter \/ Query \/ Fail \/ Read

ASpec == AInit /\ [][ANext]_avars
=============================================================================
