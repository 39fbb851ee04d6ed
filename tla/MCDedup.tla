------------------------------ MODULE MCDedup ------------------------------
(* Small instances of Dedup: sessions and ids are interchangeable.          *)
EXTENDS Dedup, TLC

Interchangeable == Permutations(Handlers) \cup Permutations(Ids)
=============================================================================
