---------------------------- MODULE MCMdnsdQueries ----------------------------
(***************************************************************************)
(* Instances of MdnsdQueries for TLC.                                      *)
(***************************************************************************)
EXTENDS MdnsdQueries, TLC

CONSTANTS host, service, d1, d2

\* Both names are on one chain of the cache, as the SRV and TXT records of one
\* service are.
OneChain == [k \in Key |-> 0]

\* No definition tells data values apart.
Symmetry == Permutations(Data)
=============================================================================
