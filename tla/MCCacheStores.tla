--------------------------- MODULE MCCacheStores ---------------------------
(* TLC instance of CacheStores. *)
EXTENDS CacheStores
=============================================================================
