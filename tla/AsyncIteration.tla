---------------------------- MODULE AsyncIteration ----------------------------
(***************************************************************************)
(* `async for` over an AsyncVRSReader (reader.py), an AsyncFilteredVRSReader *)
(* (filter.py) or an AsyncVRSReaderSlice (slice.py).  The three share one   *)
(* protocol: __aiter__ stores a cursor in the object itself and returns the *)
(* object, and __anext__ checks the cursor against len, awaits the record  *)
(* at the cursor (the store's decode is the only suspension point) and     *)
(* only then advances the cursor.                                          *)
(*                                                                         *)
(* Each object's __getitem__ hands its own list of absolute record indices *)
(* to async_index_or_slice_records (slice.py): range(n_records) for the   *)
(* reader, _filtered_indices for the filtered reader, _indices for a      *)
(* slice.  An integer reads the record at that position of the list; a    *)
(* slice makes a new AsyncVRSReaderSlice over that part of the list.  A    *)
(* record is identified by its absolute index.                            *)
(*                                                                         *)
(* The loops run in asyncio tasks of one event loop.  In each task at most *)
(* one loop is active: the innermost of a stack of nested `async for`      *)
(* loops, each over one of the objects.  Tasks interleave at their steps;  *)
(* a task is suspended only in the awaited decode, so each step below is   *)
(* atomic.  Whether a loop may iterate an object that another loop, of the *)
(* same task or of another, is iterating is a parameter of the callers'    *)
(* behaviour: spec.md section 5 makes sharing one reader between           *)
(* concurrent consumers unsupported.  A loop ends by StopAsyncIteration,   *)
(* by a break in its body, by being cancelled while it awaits a record,   *)
(* or by an IndexError out of the read, which ends the task's loops.       *)
(* Between loops, or in a loop's body, a task may slice any object.       *)
(***************************************************************************)
EXTENDS Integers, Sequences, SequencesExt, FiniteSetsExt

CONSTANTS
  Reader,          \* the AsyncVRSReader
  Filtered,        \* an AsyncFilteredVRSReader made from it
  Tasks,           \* the asyncio tasks that iterate
  Slices,          \* slots for the AsyncVRSReaderSlice objects the callers make
  NRecords,        \* the reader's n_records
  FilteredIndices, \* the filtered reader's _filtered_indices
  SliceArgs,       \* the <<start, stop, step>> the caller slices with
  None,            \* an omitted start, stop or step
  MaxDepth,        \* how deeply loops are nested
  ReenterSame      \* whether a loop may iterate an object another loop iterates

Objects == {Reader, Filtered} \cup Slices
RecordIds == 0 .. NRecords - 1

ASSUME /\ NRecords \in Nat
       /\ FilteredIndices \in Seq(RecordIds)
       /\ SliceArgs \subseteq (Int \cup {None}) \X (Int \cup {None}) \X ((Int \ {0}) \cup {None})
       /\ MaxDepth \in Nat \ {0}
       /\ ReenterSame \in BOOLEAN

VARIABLES
  index,         \* index[o]: o._index (o.index for a slice); -1 before any __aiter__
  loops,         \* loops[t]: the stack of task t's running loops, innermost last
  sliceIndices,  \* sliceIndices[s]: the _indices of the slice in slot s
  root,          \* root[s]: Reader or Filtered, whichever slot s was sliced down from;
                 \* None while the slot holds no slice
  raised         \* raised[t]: an IndexError ended task t's loops

vars == <<index, loops, sliceIndices, root, raised>>

SL == INSTANCE Slicing WITH MaxLen <- NRecords, Bounds <- {}, Steps <- {},
                            MaxChain <- 0, indices <- <<>>, chain <- <<>>,
                            lastItem <- None

Loop == [obj : Objects, pc : {"next", "awaiting", "body"}, pos : Int,
         yielded : Seq(RecordIds)]

Top(t) == loops[t][Len(loops[t])]
(* where task t's innermost loop is, "none" when it runs no loop *)
Active(t) == IF loops[t] = <<>> THEN "none" ELSE Top(t).pc
SetTop(t, l) == loops' = [loops EXCEPT ![t][Len(loops[t])] = l]
(* task t can start a loop or slice: it is between loops or in a body *)
Free(t) == ~raised[t] /\ Active(t) \in {"none", "body"}

(* the objects the caller holds *)
Held == {Reader, Filtered} \cup {s \in Slices : root[s] # None}
Iterated(o) == \E t \in Tasks : \E l \in 1 .. Len(loops[t]) : loops[t][l].obj = o
(* the object a new loop may iterate *)
Iterable(o) == ReenterSame \/ ~Iterated(o)

(* The reader's list off by one: range(1, n_records + 1) *)
ListOfOneBased(o) ==
  CASE o = Reader   -> [k \in 1 .. NRecords |-> k]
    [] o = Filtered -> FilteredIndices
    [] OTHER        -> sliceIndices[o]

(* the list of absolute indices o.__getitem__ passes on *)
ListOf(o) ==
  CASE o = Reader   -> [k \in 1 .. NRecords |-> k - 1]
    [] o = Filtered -> FilteredIndices
    [] OTHER        -> sliceIndices[o]

(* len(o) *)
Length(o) ==
  CASE o = Reader   -> NRecords
    [] o = Filtered -> Len(FilteredIndices)
    [] OTHER        -> Len(sliceIndices[o])

(* await o[i] for an integer i: the record at vrs_indices[i] *)
ReadItem(o, i) == SL!PyAt(ListOf(o), i)

(* A slice made over positions instead of absolute indices *)
SliceIndicesRelative(o, a, b, c) ==
  SL!PySlice([k \in 1 .. Len(ListOf(o)) |-> k - 1], a, b, c)

(* await o[a:b:c]: the _indices of the new AsyncVRSReaderSlice *)
SliceIndices(o, a, b, c) == SL!PySlice(ListOf(o), a, b, c)

Init ==
  /\ index = [o \in Objects |-> -1]
  /\ loops = [t \in Tasks |-> <<>>]
  /\ sliceIndices = [s \in Slices |-> <<>>]
  /\ root = [s \in Slices |-> None]
  /\ raised = [t \in Tasks |-> FALSE]

(* An __aiter__ that sets the cursor only when there is none yet *)
StartLoopKeepCursor(t, o) ==
  /\ Len(loops[t]) < MaxDepth /\ Free(t)
  /\ o \in Held /\ Iterable(o)
  /\ index' = [index EXCEPT ![o] = IF @ = -1 THEN 0 ELSE @]
  /\ loops' = [loops EXCEPT ![t] = Append(@, [obj |-> o, pc |-> "next",
                                              pos |-> -1, yielded |-> <<>>])]
  /\ UNCHANGED <<sliceIndices, root, raised>>

(* A (nested) `async for` in task t begins: __aiter__ sets the cursor to 0 *)
(* and returns the object itself.                                          *)
StartLoop(t, o) ==
  /\ Len(loops[t]) < MaxDepth /\ Free(t)
  /\ o \in Held /\ Iterable(o)
  /\ index' = [index EXCEPT ![o] = 0]
  /\ loops' = [loops EXCEPT ![t] = Append(@, [obj |-> o, pc |-> "next",
                                              pos |-> -1, yielded |-> <<>>])]
  /\ UNCHANGED <<sliceIndices, root, raised>>

(* __anext__ at the end: StopAsyncIteration ends the innermost loop. *)
Stop(t) ==
  /\ Active(t) = "next"
  /\ index[Top(t).obj] = Length(Top(t).obj)
  /\ loops' = [loops EXCEPT ![t] = Front(@)]
  /\ UNCHANGED <<index, sliceIndices, root, raised>>

(* self[self._index] runs up to the store's await: vrs_indices[i] is taken *)
(* first, and an IndexError there propagates out of every loop of the task.*)
AwaitItem(t) ==
  LET o == Top(t).obj
  IN  IF SL!PyIndexOk(ListOf(o), index[o])
      THEN /\ SetTop(t, [Top(t) EXCEPT !.pc = "awaiting", !.pos = index[o]])
           /\ UNCHANGED raised
      ELSE /\ loops' = [loops EXCEPT ![t] = <<>>]
           /\ raised' = [raised EXCEPT ![t] = TRUE]

(* An __anext__ without the end-of-list check *)
AnextUnchecked(t) ==
  /\ Active(t) = "next"
  /\ AwaitItem(t)
  /\ UNCHANGED <<index, sliceIndices, root>>

(* __anext__ otherwise: self[self._index] is evaluated and awaited. *)
Anext(t) ==
  /\ Active(t) = "next"
  /\ index[Top(t).obj] # Length(Top(t).obj)
  /\ AwaitItem(t)
  /\ UNCHANGED <<index, sliceIndices, root>>

(* The record arrives: the cursor is advanced and the record yielded. *)
Resume(t) ==
  /\ Active(t) = "awaiting"
  /\ index' = [index EXCEPT ![Top(t).obj] = @ + 1]
  /\ SetTop(t, [Top(t) EXCEPT !.pc = "body",
                              !.yielded = Append(@, ReadItem(Top(t).obj, Top(t).pos))])
  /\ UNCHANGED <<sliceIndices, root, raised>>

(* The loop body finishes an iteration. *)
BodyDone(t) ==
  /\ Active(t) = "body"
  /\ SetTop(t, [Top(t) EXCEPT !.pc = "next"])
  /\ UNCHANGED <<index, sliceIndices, root, raised>>

(* The loop body breaks out of the loop. *)
Break(t) ==
  /\ Active(t) = "body"
  /\ loops' = [loops EXCEPT ![t] = Front(@)]
  /\ UNCHANGED <<index, sliceIndices, root, raised>>

(* The loop's await of the next item is cancelled, e.g. by a timeout      *)
(* around the loop, and the code around the loop handles it; only this    *)
(* loop ends.                                                              *)
Cancel(t) ==
  /\ Active(t) = "awaiting"
  /\ loops' = [loops EXCEPT ![t] = Front(@)]
  /\ UNCHANGED <<index, sliceIndices, root, raised>>

(* `s = await o[a:b:c]`: a new AsyncVRSReaderSlice, without a cursor, is   *)
(* put in a slot no loop iterates (the object it replaces is dropped).     *)
GetSlice(t, o, s, a, b, c) ==
  /\ Free(t)
  /\ o \in Held /\ s # o /\ ~Iterated(s)
  /\ sliceIndices' = [sliceIndices EXCEPT ![s] = SliceIndices(o, a, b, c)]
  /\ root' = [root EXCEPT ![s] = IF o \in Slices THEN root[o] ELSE o]
  /\ index' = [index EXCEPT ![s] = -1]
  /\ UNCHANGED <<loops, raised>>

Next ==
  \E t \in Tasks :
    \/ \E o \in Objects : StartLoop(t, o)
    \/ Stop(t) \/ Anext(t) \/ Resume(t) \/ BodyDone(t) \/ Break(t) \/ Cancel(t)
    \/ \E o \in Objects, s \in Slices, sa \in SliceArgs :
         GetSlice(t, o, s, sa[1], sa[2], sa[3])

Spec == Init /\ [][Next]_vars

-----------------------------------------------------------------------------
TypeOK ==
  /\ index \in [Objects -> -1 .. NRecords]
  /\ loops \in [Tasks -> Seq(Loop)]
  /\ \A t \in Tasks : Len(loops[t]) <= MaxDepth
  /\ sliceIndices \in [Slices -> Seq(RecordIds)]
  /\ root \in [Slices -> {Reader, Filtered, None}]
  /\ raised \in [Tasks -> BOOLEAN]

(* The records object o contains: all of the file, the records that pass  *)
(* the filter, or the part of its parent a slice was made over.           *)
Contents(o) ==
  CASE o = Reader   -> [k \in 1 .. NRecords |-> k - 1]
    [] o = Filtered -> FilteredIndices
    [] OTHER        -> sliceIndices[o]

(* the loops of all tasks *)
AllLoops == UNION { { loops[t][l] : l \in 1 .. Len(loops[t]) } : t \in Tasks }

(* Like iterating a list: a loop that runs to StopAsyncIteration has       *)
(* yielded every record of the object once, in order, whatever loops over  *)
(* the same object ran, broke or were cancelled before it, in its own task *)
(* or in others.                                                           *)
EachLoopYieldsAll ==
  [][ \A t \in Tasks :
        (Active(t) = "next" /\ Len(loops'[t]) < Len(loops[t]) /\ ~raised'[t])
          => Top(t).yielded = Contents(Top(t).obj) ]_vars

(* __anext__ never raises IndexError: the cursor it reads is a position of *)
(* the list __getitem__ indexes, whichever loops and tasks moved it before. *)
NoIndexError == \A t \in Tasks : ~raised[t]

(* However often the callers slice and re-slice the filtered reader, a     *)
(* loop over anything made from it only ever yields records that pass the  *)
(* filter: the slices hold absolute indices of the file.                   *)
SlicesOfFilteredStayFiltered ==
  \A l \in AllLoops :
    (l.obj = Filtered \/ (l.obj \in Slices /\ root[l.obj] = Filtered))
      => \A k \in 1 .. Len(l.yielded) : l.yielded[k] \in ToSet(FilteredIndices)

=============================================================================
