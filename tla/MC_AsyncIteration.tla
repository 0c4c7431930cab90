------------------------- MODULE MC_AsyncIteration -------------------------
(* An AsyncVRSReader of three records and an AsyncFilteredVRSReader of    *)
(* records 0 and 2, sliced into two slots from a start or with a         *)
(* reversing step, iterated by loops nested two deep.  Negative bounds   *)
(* and other steps are the Slicing model's.                               *)
EXTENDS AsyncIteration

MCFilteredIndices == <<1>>

MCSliceArgs == { <<None, None, -1>> }

=============================================================================
