------------------------------- MODULE MCMem -------------------------------
(* Addresses at the seams of the branches of mem.c, inside them, in the hole *)
(* and beyond the memory.                                                    *)
EXTENDS Mem

Addresses == {1023, 1024, 1025, 4096, 753664, 753665, 950272, 1048576}
RegionStarts == {1024, 753664, 950272, 1048576}
\* A word in the middle of a region.
Inside == {1022, 1023}
TwoValues == {16706, 65281}

ASSUME \A a \in RegionStarts \cap Addr : WordFits(a)
==========================================================================
