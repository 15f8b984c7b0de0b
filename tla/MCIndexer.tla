------------------------------ MODULE MCIndexer ------------------------------
(* Instances of Indexer and its refinement for TLC.  Block salts are interchangeable. *)
EXTENDS IndexerRefinement, TLC

SaltSymmetry == Permutations(Salt)
=============================================================================
