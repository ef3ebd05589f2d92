--------------------------- MODULE MCBlockFetcher ---------------------------
(* Small instances of the block fetcher *)
EXTENDS BlockFetcher
=============================================================================
