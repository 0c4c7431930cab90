------------------------------- MODULE Slicing -------------------------------
(***************************************************************************)
(* Slicing a reader, a filtered reader or a slice: index_or_slice_records  *)
(* (slice.py) evaluates `vrs_indices[indices]` on the object's index list  *)
(* and wraps the result in a new VRSReaderSlice, which can be sliced again *)
(* (VRSReaderSlice.__getitem__); the async variants do the same, and so   *)
(* does VRSBlocks.__getitem__ (record.py) on a record's block range.      *)
(*                                                                         *)
(* The list operation is Python's: the slice's start, stop and step are    *)
(* normalised against the length (PySlice_AdjustIndices) and the items at  *)
(* start, start + step, ... before stop are taken.  PySlice below follows  *)
(* that computation.                                                       *)
(***************************************************************************)
EXTENDS Integers, Sequences, SequencesExt, FiniteSetsExt

CONSTANTS
  None,       \* an omitted start, stop or step
  MaxLen,     \* the longest index list of a reader
  Bounds,     \* start / stop values a caller passes
  Steps,      \* step values a caller passes (0 included)
  MaxChain    \* how many slices are taken one of another

ASSUME MaxLen \in Nat /\ MaxChain \in Nat
ASSUME Bounds \subseteq Int /\ Steps \subseteq Int /\ None \notin Int

VARIABLES
  indices,   \* the index list of the object being sliced
  chain,     \* how many slices were taken to reach it
  lastItem   \* the outcome of the last call, an absolute index or an error

vars == <<indices, chain, lastItem>>

Ok(v) == [kind |-> "ok", val |-> v]
Raise(e) == [kind |-> e, val |-> -1]

(* A reader's list, range(n_records), or a filtered view's: an ascending  *)
(* list of absolute indices                                                *)
ReaderLists == { SetToSortSeq(S, <) : S \in SUBSET (0 .. MaxLen - 1) }

(* Normalising a given start or stop: relative to the end when negative,   *)
(* then clamped to the range the direction of the step allows.            *)
Adjust(x, n, step) ==
  IF x < 0 THEN IF x + n < 0 THEN (IF step < 0 THEN -1 ELSE 0) ELSE x + n
  ELSE IF x >= n THEN (IF step < 0 THEN n - 1 ELSE n)
  ELSE x

StartOf(a, n, step) == IF a = None THEN (IF step < 0 THEN n - 1 ELSE 0)
                       ELSE Adjust(a, n, step)
StopOf(b, n, step)  == IF b = None THEN (IF step < 0 THEN -1 ELSE n)
                       ELSE Adjust(b, n, step)

(* The number of items taken *)
SliceLength(start, stop, step) ==
  IF step < 0 THEN IF stop < start THEN (start - stop - 1) \div (-step) + 1 ELSE 0
  ELSE IF start < stop THEN (stop - start - 1) \div step + 1 ELSE 0

StepOf(c) == IF c = None THEN 1 ELSE c

(* L[a:b:c] for a step that is not 0 *)
PySlice(L, a, b, c) ==
  LET step  == StepOf(c)
      start == StartOf(a, Len(L), step)
      stop  == StopOf(b, Len(L), step)
  IN  [k \in 1 .. SliceLength(start, stop, step) |-> L[start + (k - 1) * step + 1]]

(* A record's image, audio, custom and metadata block lists (record.py):  *)
(* each is a VRSBlocks over range(n_blocks), which __getitem__ indexes and *)
(* slices as a list, as index_or_slice_records does; what is returned for *)
(* an item is the block at that position of the range.                    *)
BlockRanges == { [k \in 1 .. n |-> k - 1] : n \in 0 .. MaxLen }

Init ==
  /\ indices \in ReaderLists \cup BlockRanges
  /\ chain = 0
  /\ lastItem = Ok(-1)

(* Python's vrs_indices[i] for an integer i *)
PyIndexOk(L, i) == -Len(L) <= i /\ i < Len(L)
PyAt(L, i) == IF i >= 0 THEN L[i + 1] ELSE L[Len(L) + i + 1]

(* An integer index used as the absolute index without the list lookup *)
ItemUnmapped(i) ==
  /\ lastItem' = IF PyIndexOk(indices, i) THEN Ok(i) ELSE Raise("IndexError")
  /\ UNCHANGED <<indices, chain>>

(* obj[i] for an integer: the record at vrs_indices[i] is read (IndexError *)
(* when i is out of range); the object is unchanged.                       *)
Item(i) ==
  /\ lastItem' = IF PyIndexOk(indices, i) THEN Ok(PyAt(indices, i))
                 ELSE Raise("IndexError")
  /\ UNCHANGED <<indices, chain>>

(* obj[a:b:c]: a new slice over the selected indices *)
SliceOf(a, b, c) ==
  /\ chain < MaxChain
  /\ StepOf(c) # 0
  /\ indices' = PySlice(indices, a, b, c)
  /\ chain' = chain + 1
  /\ lastItem' = Ok(-1)

(* obj[a:b:0]: the list raises ValueError and no slice is made. *)
SliceStepZero ==
  /\ lastItem' = Raise("ValueError")
  /\ UNCHANGED <<indices, chain>>

Next ==
  \/ \E i \in Bounds : Item(i)
  \/ \E a, b \in Bounds \cup {None}, c \in Steps \cup {None} : SliceOf(a, b, c)
  \/ 0 \in Steps /\ SliceStepZero

Spec == Init /\ [][Next]_vars

-----------------------------------------------------------------------------
TypeOK ==
  /\ indices \in Seq(0 .. MaxLen - 1)
  /\ chain \in 0 .. MaxChain
  /\ lastItem \in { Ok(x) : x \in -1 .. MaxLen - 1 }
                   \cup { Raise(e) : e \in {"IndexError", "ValueError"} }

=============================================================================
