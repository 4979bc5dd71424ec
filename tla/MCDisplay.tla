----------------------------- MODULE MCDisplay -----------------------------
(* A 3 x 2 screen: the end of its first row, and its last cell.              *)
EXTENDS Display

ThreeCells == {0, 2, 5}
TwoChars == {65, 66}
=============================================================================
