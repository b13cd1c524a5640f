---------------------------- MODULE MCFolderPages ----------------------------
(* Instances of FolderPages for TLC.                                       *)
EXTENDS FolderPages, TLC

CONSTANTS nameA, nameB, nameC, dot

ThreeNames == {nameA, nameB, nameC}
OneHidden == {dot}

\* int has MaxInt + 1 = 8 negative values: the extremes, the values around
\* zero and one, and what overflows with each other.
EdgeOffsets == {-(MaxInt + 1), 0, 1, 2, MaxInt}
EdgeLimits == {-(MaxInt + 1), -1, 0, 2, MaxInt}
OneAndTwo == {1, 2}

\* The names are interchangeable.
Symmetry == Permutations(ThreeNames)
=============================================================================
