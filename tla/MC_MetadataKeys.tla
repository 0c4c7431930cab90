--------------------------- MODULE MC_MetadataKeys ---------------------------
(* Names "acceleration", "other" and "acceleration<int>" (a name that looks *)
(* like a synthesized key, as in the repository's tests), three types.    *)
EXTENDS MetadataKeys

CONSTANTS acceleration, other, int, float, double

MCTypeNames == {int, float, double}
MCNames == {<<acceleration>>, <<other>>, Bracket(<<acceleration>>, int, 1)}

=============================================================================
