--------------------------- MODULE MCMdnsdRecords ---------------------------
(***************************************************************************)
(* Instances of MdnsdRecords for TLC.                                      *)
(***************************************************************************)
EXTENDS MdnsdRecords, TLC

CONSTANTS r1, r2, r3, k1, k2, d1, d2

\* Records and data values are interchangeable: no definition tells them apart.
\* (Init maps every record that does not exist yet to one fixed key, so keys
\* are left out.)
Symmetry == Permutations(Rec) \cup Permutations(Data)
=============================================================================
