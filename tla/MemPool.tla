------------------------------- MODULE MemPool -------------------------------
(***************************************************************************)
(* The pools behind lwIP's mem_malloc and mem_free: src/src/drivers/mem.c    *)
(* with the pools lwip_init asks for.  Their owner is LWIP_POOL, so their    *)
(* pressure is the global level, which throttles every receiver.            *)
(*                                                                         *)
(* A pool is its blocks: the set of those its bitmap marks, the count        *)
(* pool_used_blocks kept beside it, and the header at the start of each      *)
(* allocation.  An allocation is named by its pool and first block.  lwIP,   *)
(* the caller, keeps the set of its allocations and frees each once.  The    *)
(* pools have step 0: they never shrink.                                     *)
(***************************************************************************)
EXTENDS MemBuffer, FiniteSetsExt

CONSTANTS Pools,      \* the pool configurations of lwip_init, as a sequence
          Sizes,      \* the sizes lwIP asks for
          Rings,      \* the bytes the Ethernet rings may hold
          ClearPct,   \* mem_set_pressure_clear_pct
          None        \* nothing

ASSUME MemPoolAssumption ==
  /\ Pools \in Seq([block_size : Nat, block_count : Nat])
  /\ \A i \in DOMAIN Pools : Pools[i].block_size > 2 /\ Pools[i].block_count > 0
  /\ Sizes \subseteq Nat \ {0} /\ Rings \subseteq Nat /\ 0 \in Rings
  /\ ClearPct \in 0..100 /\ None \notin Nat

VARIABLES pools,   \* g_lwip_pools, sorted
          heap,    \* g_mem_cfg.heap_used, without the rings'
          ring,    \* what the rings have charged
          level,   \* g_pressure_global_level
          live,    \* what lwIP has allocated and not freed
          ret      \* what the last call returned, if it was mem_malloc

vars == <<pools, heap, ring, level, live, ret>>

HEADER == 2          \* MEM_POOL_HEADER_SIZE
Unused == 0          \* a header nobody wrote

CeilDiv(a, b) == (a + b - 1) \div b

------------------------------------------------------------------------------
(* The cost of a pool: its struct, its blocks and its bitmap.                *)
PoolCost(k) == StructSize + k.block_size * k.block_count + CeilDiv(k.block_count, 8)

(* The pool mem_buffer_create makes with BUFFER_MALLOC_TYPE.                 *)
NewPool(k) ==
  [block_size |-> k.block_size, block_count |-> k.block_count,
   used |-> {}, used_blocks |-> 0,
   header |-> [b \in 0..(k.block_count - 1) |-> Unused], last |-> NONE]

Init == pools = <<>> /\ heap = 0 /\ ring = 0 /\ level = NONE /\ live = {} /\ ret = None

(* mem_buffer_sort_pools: by the size of their blocks.  Its exchanges may     *)
(* leave two pools of equal blocks in either order.                          *)
Sorted(s) ==
  {[i \in DOMAIN s |-> s[p[i]]] : p \in
     {q \in Bijection(DOMAIN s, DOMAIN s) :
        \A i, j \in DOMAIN s : i < j => s[q[i]].block_size <= s[q[j]].block_size}}

(* mem_buffer_lwip_init_pools: the pools whose blocks the C library has and  *)
(* the budget allows, one after the other.                                   *)
CreatePools(granted) ==
  LET made[i \in 0..Len(Pools)] ==
        IF i = 0 THEN [pools |-> <<>>, heap |-> heap]
        ELSE LET before == made[i - 1]
                 cost == PoolCost(Pools[i])
             IN IF i \in granted /\ Chargeable(before, cost)
                THEN [pools |-> Append(before.pools, NewPool(Pools[i])),
                      heap |-> Charged(before.heap, cost)]
                ELSE before
  IN made[Len(Pools)]

mem_buffer_lwip_init_pools(granted) ==
  LET made == CreatePools(granted)
  IN /\ pools = <<>> /\ made.pools # <<>>
     /\ pools' \in Sorted(made.pools) /\ heap' = made.heap
     /\ UNCHANGED <<ring, level, live, ret>>

------------------------------------------------------------------------------
Usage(p) == UsagePct([heap |-> heap + ring], p.block_size * p.block_count,
                     p.block_size * p.block_count, p.used_blocks * p.block_size)

(* Mutant of Scan: the last block is never looked at.                        *)
ScanShort(p, k) ==
  LET fits == {b \in 0..(p.block_count - 1 - k) : b..(b + k - 1) \cap p.used = {}}
  IN IF fits = {} THEN None ELSE Min(fits)

(* The scan of mem_buffer_malloc over the first i blocks: the length and the *)
(* first block of the free run that ends there, and the first block of the   *)
(* earliest run of k.                                                        *)
Scan(p, k) ==
  LET scan[i \in 0..p.block_count] ==
        IF i = 0 THEN [run |-> 0, start |-> 0, found |-> None]
        ELSE LET before == scan[i - 1]
                 run == IF (i - 1) \in p.used THEN 0 ELSE before.run + 1
                 start == IF before.run = 0 THEN i - 1 ELSE before.start
             IN IF before.found # None THEN before
                ELSE [run |-> run, start |-> start,
                      found |-> IF run = k THEN start ELSE None]
  IN scan[p.block_count].found

BlocksNeeded(p, size) == CeilDiv(size + HEADER, p.block_size)

(* The first block mem_buffer_malloc would give, or None.                    *)
FirstFit(p, size) ==
  IF BlocksNeeded(p, size) > p.block_count THEN None
  ELSE Scan(p, BlocksNeeded(p, size))

(* The pool with k blocks more in use, from start.                           *)
Taken(p, start, k) ==
  [p EXCEPT !.used = @ \cup start..(start + k - 1),
            !.header[start] = k, !.used_blocks = @ + k]

(* The level a pool tells before it is tried, NONE when there is no news.    *)
News(p) ==
  LET l == LevelFromUsage(Usage(p)) IN IF l = p.last THEN NONE ELSE l

Warned(p) == IF News(p) # NONE THEN [p EXCEPT !.last = News(p)] ELSE p

Highest(S) == IF S = {} THEN NONE ELSE Max(S)

(* mem_buffer_custom_malloc.  The pools whose block holds the request are    *)
(* tried first, the smallest first, and each tells its level; when all are   *)
(* full the first of them reports CRITICAL, and the pools with smaller       *)
(* blocks are tried for a run of them.                                       *)
mem_buffer_custom_malloc(size) ==
  LET needed == size + HEADER
      fit == {i \in DOMAIN pools : needed <= pools[i].block_size * pools[i].block_count}
      large == {i \in fit : pools[i].block_size >= needed}
      served(S) == {i \in S : FirstFit(pools[i], size) # None}
      tried == {i \in large : \A j \in served(large) : i <= j}
      full == large # {} /\ served(large) = {}
      told == [i \in DOMAIN pools |->
                 IF full /\ i = Min(large) THEN [pools[i] EXCEPT !.last = CRITICAL]
                 ELSE IF i \in tried THEN Warned(pools[i]) ELSE pools[i]]
      from == IF served(large) # {} THEN served(large) ELSE served(fit \ large)
      i == Min(from)
      k == BlocksNeeded(pools[i], size)
      start == FirstFit(pools[i], size)
      raised == Highest({News(pools[j]) : j \in tried}
                        \cup (IF full THEN {CRITICAL} ELSE {}))
  IN /\ pools # <<>>
     /\ level' = Larger(level, raised)
     /\ IF from = {}
        THEN /\ pools' = told /\ UNCHANGED live
             /\ ret' = [pool |-> 0, start |-> 0, size |-> size]
        ELSE /\ pools' = [told EXCEPT ![i] = Taken(told[i], start, k)]
             /\ ret' = [pool |-> i, start |-> start, size |-> size]
             /\ live' = live \cup {ret'}
     /\ UNCHANGED <<heap, ring>>

------------------------------------------------------------------------------
(* Mutant of Freed: a run of several blocks gives back its first only.       *)
FreedFirst(p, start) ==
  [p EXCEPT !.used = @ \ {start}, !.used_blocks = @ - 1]

(* The pool without the allocation at start: its header says how long it is. *)
(* What is left in the block afterwards is nobody's.                         *)
Freed(p, start) ==
  LET k == p.header[start]
  IN [p EXCEPT !.used = @ \ start..(start + k - 1), !.header[start] = Unused,
               !.used_blocks = IF @ >= k THEN @ - k ELSE 0]

(* Mutant of PoolsLevel: the levels told last, not relieved.                 *)
LastTold(ps) == Highest({ps[i].last : i \in DOMAIN ps})

(* mem_pressure_pools_level                                                  *)
PoolsLevel(ps) ==
  LET relieved == Highest({Relief(ps[i].last, Usage(ps[i])) : i \in DOMAIN ps})
      over == \E i \in DOMAIN ps : Usage(ps[i]) > ClearPct
  IN IF relieved = NONE /\ over THEN MILD ELSE relieved

(* mem_pressure_pools_below_clear                                            *)
BelowClear(ps) == \A i \in DOMAIN ps : Usage(ps[i]) <= ClearPct

(* mem_buffer_custom_free and mem_buffer_free of an allocation, with the     *)
(* mem_pressure_maybe_clear that ends it.                                    *)
mem_buffer_custom_free(a) ==
  LET p == Freed(pools[a.pool], a.start)
      freed == [pools EXCEPT ![a.pool] = [p EXCEPT !.last = Relief(@, Usage(p))]]
  IN /\ pools' = freed
     /\ level' = IF level # NONE /\ BelowClear(freed) THEN NONE ELSE PoolsLevel(freed)
     /\ live' = live \ {a} /\ ret' = None
     /\ UNCHANGED <<heap, ring>>

(* The Ethernet rings, elsewhere in mem.c, are created, grow, shrink and go. *)
RingCharge(bytes) ==
  /\ pools # <<>> /\ Chargeable([heap |-> heap], bytes)
  /\ ring' = bytes /\ ret' = None
  /\ UNCHANGED <<pools, heap, level, live>>

Next ==
  \/ \E granted \in SUBSET DOMAIN Pools : mem_buffer_lwip_init_pools(granted)
  \/ \E size \in Sizes : mem_buffer_custom_malloc(size)
  \/ \E a \in live : mem_buffer_custom_free(a)
  \/ \E bytes \in Rings : RingCharge(bytes)

Spec == Init /\ [][Next]_vars

------------------------------------------------------------------------------
(* The blocks of an allocation.                                              *)
BlocksOf(a) == a.start..(a.start + BlocksNeeded(pools[a.pool], a.size) - 1)

TypeOK ==
  /\ heap \in Nat /\ ring \in Rings /\ level \in Levels
  /\ \A i \in DOMAIN pools :
       /\ pools[i].used \subseteq 0..(pools[i].block_count - 1)
       /\ pools[i].used_blocks \in 0..pools[i].block_count
       /\ pools[i].last \in Levels
  /\ \A a \in live : a.pool \in DOMAIN pools /\ a.size \in Sizes

(* No block is lent twice: two allocations of lwIP never share a block,      *)
(* through any order of requests and frees, in one block or in a run.  The    *)
(* bitmap and the count beside it are exactly what lwIP holds: nothing leaks, *)
(* and a free gives back what the header of its own allocation says.         *)
(* (And all variables have their types.)                                     *)
Accounted ==
  /\ TypeOK
  /\ \A a, b \in live : a # b /\ a.pool = b.pool => BlocksOf(a) \cap BlocksOf(b) = {}
  /\ \A i \in DOMAIN pools :
       /\ pools[i].used = UNION {BlocksOf(a) : a \in {b \in live : b.pool = i}}
       /\ pools[i].used_blocks = Cardinality(pools[i].used)

(* Memory is refused only when no pool has room for it: none has the run of  *)
(* free blocks the request needs.                                            *)
RefusedOnlyWhenFull ==
  ret # None /\ ret.pool = 0 =>
    \A i \in DOMAIN pools :
      LET k == BlocksNeeded(pools[i], ret.size)
      IN \A s \in 0..(pools[i].block_count - k) : s..(s + k - 1) \cap pools[i].used # {}

(* A full pool that refused a request is not forgotten: the level stays at   *)
(* HIGH or above, where the driver receives nothing (eth_should_schedule_rx), *)
(* until one of its blocks is freed.  And such a level is not invented: a    *)
(* call, a free that relieves another pool included, raises the level to     *)
(* HIGH or above only while a pool's usage is at the HIGH mark.              *)
OverHigh == \E i \in DOMAIN pools : Usage(pools[i]) >= 85
FullRemembered == \A i \in DOMAIN pools : pools[i].last = CRITICAL => level >= HIGH
PressureFollows ==
  /\ []FullRemembered
  /\ [][level' > level /\ level' >= HIGH => OverHigh']_vars
==============================================================================
