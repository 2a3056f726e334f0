------------------------------ MODULE MemPoolMC ------------------------------
(* TLC instance of MemPool.                                                  *)
EXTENDS MemPool

Pool(size, count) == [block_size |-> size, block_count |-> count]

(* Small, medium and large blocks, not in order.                             *)
ThreePools == <<Pool(8, 2), Pool(4, 4), Pool(16, 1)>>
==============================================================================
