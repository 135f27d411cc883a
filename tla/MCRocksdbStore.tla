--------------------------- MODULE MCRocksdbStore ---------------------------
(***************************************************************************)
(* Instances of RocksdbStore for TLC.                                      *)
(***************************************************************************)
EXTENDS RocksdbStore, TLC

\* Sessions, IDs and tags are interchangeable: nothing orders them.
Symmetry == Permutations(Sessions) \cup Permutations(Ids) \cup Permutations(Tags)
=============================================================================
