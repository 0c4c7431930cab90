---------------------------- MODULE MC_Slicing ----------------------------
(* Index lists of up to four records, slices of slices two deep, start and *)
(* stop from -6 to 6 (beyond both ends of every list) and steps -2..2.    *)
EXTENDS Slicing

MCBounds == -6 .. 6
MCSteps == -2 .. 2
=============================================================================
