------------------------------ MODULE MemBuffer ------------------------------
(***************************************************************************)
(* The ring buffer of src/src/drivers/mem.c and the memory pressure it       *)
(* reports, as operators.                                                    *)
(*                                                                         *)
(* The allocator is a record m: the bytes charged to the shared budget       *)
(* (g_mem_cfg.heap_used), the ring, the pressure levels of the lwIP pools    *)
(* and of the Ethernet ring, the effective level the driver was told last,   *)
(* and the calls of the driver's hook made by the current operation.  The    *)
(* flags g_pressure_*_active are level # NONE, which every assignment keeps. *)
(* An operation that can fail returns [ok, m].  The C library is external:   *)
(* alloc says whether it has the block the operation asks for.               *)
(***************************************************************************)
EXTENDS Integers, Sequences

CONSTANTS MaxHeap,       \* mem_init's max_heap, 0 for no limit
          StructSize,    \* sizeof(struct mem_buffer)
          Data,          \* the values of a byte
          Junk           \* a byte of a fresh block

ASSUME MemBufferAssumption ==
  /\ MaxHeap \in Nat /\ StructSize \in Nat
  /\ 0 \in Data /\ Junk \notin Data

SIZE_MAX == 16777215     \* size_t has 24 bits
UINT16 == 65536
Hold == 1                \* MEM_SHRINK_HOLD_DEFAULT, the hold of every ring

NONE == 0
MILD == 1
HIGH == 2
CRITICAL == 3
Levels == NONE..CRITICAL

Larger(a, b) == IF a > b THEN a ELSE b
Smaller(a, b) == IF a < b THEN a ELSE b

(* F(x), written so that x is evaluated once.                                *)
Then(x, F(_)) == CHOOSE y \in {F(z) : z \in {x}} : TRUE

Done(m) == [ok |-> TRUE, m |-> m]
Failed(m) == [ok |-> FALSE, m |-> m]

------------------------------------------------------------------------------
(* The budget.                                                              *)

Chargeable(m, bytes) == MaxHeap = 0 \/ m.heap + bytes <= MaxHeap

(* mem_buffer_charge, when it succeeds.                                      *)
Charged(heap, bytes) == IF MaxHeap = 0 THEN heap ELSE heap + bytes

(* Mutant of Released: nothing is given back.                                *)
Unreleased(heap, bytes) == heap

(* mem_buffer_release                                                        *)
Released(heap, bytes) == IF heap >= bytes THEN heap - bytes ELSE 0

------------------------------------------------------------------------------
(* Pressure.                                                                *)

(* mem_buffer_usage_pct: the larger of the buffer's share of what it may     *)
(* grow to and the budget's share of max_heap.                               *)
UsagePct(m, cap, max_cap, used) ==
  LET limit == IF max_cap = SIZE_MAX THEN cap ELSE Larger(max_cap, cap)
      buf_pct == (Smaller(used, limit) * 100) \div limit
      heap_pct == IF MaxHeap = 0 THEN 0
                  ELSE (Smaller(m.heap, MaxHeap) * 100) \div MaxHeap
  IN Larger(heap_pct, buf_pct)

RingUsage(m, used) == UsagePct(m, m.ring.cap, m.ring.max_cap, used)

LevelFromUsage(pct) ==
  IF pct >= 85 THEN HIGH ELSE IF pct >= 70 THEN MILD ELSE NONE

(* mem_pressure_level_relief: one tier at a time on the way down.            *)
Relief(current, pct) ==
  LET level == LevelFromUsage(pct)
  IN CASE current = CRITICAL -> Larger(level, HIGH)
       [] current = HIGH     -> Larger(level, MILD)
       [] OTHER              -> level

(* mem_pressure_update_effective: lwIP pools throttle everything, and the    *)
(* hook is called when the driver's level changes.                           *)
UpdateEffective(m) ==
  LET level == Larger(m.pool, m.eth)
  IN IF level = m.effective THEN m
     ELSE [m EXCEPT !.effective = level, !.calls = Append(@, level)]

(* Mutant of Mark: a lower level replaces a higher.                          *)
MarksLower(m, level) ==
  IF m.ring.owner = "ETH_RX" THEN UpdateEffective([m EXCEPT !.eth = level]) ELSE m

(* mem_pressure_mark for a ring                                              *)
Mark(m, level) ==
  IF m.ring.owner = "ETH_RX" /\ level > m.eth
  THEN UpdateEffective([m EXCEPT !.eth = level])
  ELSE m

(* mem_buffer_notify_lowmem.  The callbacks it makes are NULL in this        *)
(* program.                                                                  *)
NotifyLowmem(m, level) ==
  [Mark(m, level) EXCEPT !.ring.last_pressure_level = level]

(* mem_pressure_maybe_clear for a ring                                       *)
MaybeClear(m) ==
  LET level == Relief(m.ring.last_pressure_level, RingUsage(m, m.ring.len))
      relieved == [m EXCEPT !.ring.last_pressure_level = level]
  IN IF m.ring.owner = "ETH_RX" THEN UpdateEffective([relieved EXCEPT !.eth = level])
     ELSE relieved

------------------------------------------------------------------------------
(* The ring.                                                                *)

(* The capacity a new ring works with.                                       *)
CreateCap(k) == IF k.lock /\ k.lock_size > 0 THEN k.lock_size ELSE k.initial

(* The ring mem_buffer_create returns, with a block of size bytes.           *)
Created(k, size) ==
  [owner |-> k.owner, lock |-> k.lock, secure |-> k.secure,
   cap |-> CreateCap(k), max_cap |-> Larger(k.max, CreateCap(k)),
   size |-> size, buf |-> [j \in 0..(size - 1) |-> Junk],
   len |-> 0, head |-> 0, last_pressure_level |-> NONE,
   step |-> 0, grow_threshold_pct |-> 0, shrink_threshold_pct |-> 0,
   shrink_hold_next |-> Hold, shrink_stage |-> 0, shrink_hits |-> 0]

CreateCharge(k) == StructSize + k.initial

(* Where byte i of the content is: the copies of peek, pop and resize take   *)
(* what lies before the end of buf, then the rest from its start.            *)
Slot(r, i) == IF r.head + i < r.cap THEN r.head + i ELSE r.head + i - r.cap

Bytes(r, offset, len) == [i \in 1..len |-> r.buf[Slot(r, offset + i - 1)]]
Content(r) == Bytes(r, 0, r.len)

(* Mutant of ResizedBuf: the block is moved as it is, whatever head says.    *)
MovesRaw(r, new_cap) ==
  [j \in 0..(new_cap - 1) |-> IF j < r.size THEN r.buf[j] ELSE Junk]

(* The new block of a resize: realloc keeps it as it is when the content     *)
(* starts at its first byte, otherwise the content is copied in order.       *)
ResizedBuf(r, new_cap) ==
  [j \in 0..(new_cap - 1) |->
     IF r.head = 0 THEN IF j < r.size THEN r.buf[j] ELSE Junk
     ELSE IF j < r.len THEN r.buf[Slot(r, j)] ELSE Junk]

(* The ring after the block has been replaced.                               *)
Resized(r, new_cap) ==
  [r EXCEPT !.buf = ResizedBuf(r, new_cap), !.size = new_cap, !.cap = new_cap,
            !.head = 0, !.shrink_hits = 0, !.shrink_stage = 0,
            !.shrink_hold_next = Hold]

(* The refusals of mem_buffer_resize before it asks for memory.              *)
Resizable(m, new_cap) ==
  LET r == m.ring
  IN /\ new_cap >= r.len /\ ~r.lock
     /\ r.max_cap = SIZE_MAX \/ new_cap <= r.max_cap
     /\ new_cap > r.cap => Chargeable(m, new_cap - r.cap)

(* The budget after a resize that succeeds.                                  *)
HeapAfter(m, new_cap) ==
  IF new_cap > m.ring.cap THEN Charged(m.heap, new_cap - m.ring.cap)
  ELSE Released(m.heap, m.ring.cap - new_cap)

(* mem_buffer_resize.  A failed realloc reports CRITICAL, a failed malloc    *)
(* leaves that to the caller; both give the charge back.                     *)
Resize(m, new_cap, alloc) ==
  CASE new_cap = m.ring.cap -> Done(m)
    [] new_cap # m.ring.cap /\ ~Resizable(m, new_cap) -> Failed(m)
    [] new_cap # m.ring.cap /\ Resizable(m, new_cap) /\ ~alloc ->
         Failed(IF m.ring.head = 0 THEN NotifyLowmem(m, CRITICAL) ELSE m)
    [] OTHER ->
         Done([m EXCEPT !.heap = HeapAfter(m, new_cap),
                        !.ring = Resized(m.ring, new_cap)])

ThresholdBytes(cap, pct) == (cap * pct) \div 100

AlignStep(value, step) ==
  IF step = 0 \/ value % step = 0 THEN value ELSE value + (step - (value % step))

(* The size mem_buffer_maybe_grow asks for: the step that holds what is      *)
(* needed, one more step if it is no larger than now, at most max_cap.       *)
GrowTarget(r, needed) ==
  LET aligned == AlignStep(Larger(r.cap, needed), r.step)
      wanted == Larger(IF aligned <= r.cap THEN r.cap + r.step ELSE aligned, needed)
  IN IF r.max_cap # SIZE_MAX THEN Smaller(wanted, r.max_cap) ELSE wanted

(* Mutant of MaybeGrow: a failed resize is reported as success.              *)
GrowIgnoresFailure(m, incoming, alloc) ==
  LET needed == m.ring.len + incoming
  IN IF m.ring.lock \/ needed < ThresholdBytes(m.ring.cap, m.ring.grow_threshold_pct)
     THEN IF needed <= m.ring.cap THEN Done(m) ELSE Failed(m)
     ELSE Done(Resize(m, GrowTarget(m.ring, needed), alloc).m)

(* mem_buffer_maybe_grow: room for incoming bytes more.  It grows from       *)
(* grow_threshold_pct on, though there may be room, and a growth that fails  *)
(* is an answer of no, though there may be room.                             *)
MaybeGrow(m, incoming, alloc) ==
  LET needed == m.ring.len + incoming
      level == LevelFromUsage(RingUsage(m, needed))
      told == IF level # NONE /\ level # m.ring.last_pressure_level
              THEN NotifyLowmem(m, level) ELSE m
      r == told.ring
      target == GrowTarget(r, needed)
      resized == Resize(told, target, alloc)
      grows == ~r.lock /\ ~(/\ needed <= r.cap
                            /\ needed < ThresholdBytes(r.cap, r.grow_threshold_pct))
  IN CASE ~grows /\ needed <= r.cap -> Done(told)
       [] grows /\ target >= needed /\ resized.ok -> resized
       [] grows /\ target >= needed /\ ~resized.ok ->
            Failed(NotifyLowmem(resized.m, CRITICAL))
       [] OTHER -> Failed(NotifyLowmem(told, CRITICAL))

(* mem_buffer_hold_for_stage                                                 *)
HoldForStage(stage) == (Hold * 2^Smaller(stage, 15)) % UINT16

(* mem_buffer_maybe_shrink, after a pop that may have brought head back to   *)
(* the first byte.                                                           *)
MaybeShrink(m, wrapped, alloc) ==
  LET r == m.ring
      full == r.len > ThresholdBytes(r.cap, r.shrink_threshold_pct)
      hit == (r.shrink_hits + 1) % UINT16
      m1 == Resize([m EXCEPT !.ring.shrink_hits = hit],
                   Larger(r.cap - r.step, r.len), alloc).m
      stage == (m1.ring.shrink_stage + 1) % 256
      considered == /\ ~r.lock /\ r.step # 0 /\ r.cap > r.step
                    /\ wrapped /\ r.head = 0
  IN CASE considered /\ full ->
            [m EXCEPT !.ring.shrink_hits = 0, !.ring.shrink_stage = 0,
                      !.ring.shrink_hold_next = Hold]
       [] considered /\ ~full /\ hit < r.shrink_hold_next ->
            [m EXCEPT !.ring.shrink_hits = hit]
       [] considered /\ ~full /\ hit >= r.shrink_hold_next ->
            [m1 EXCEPT !.ring.shrink_hits = 0, !.ring.shrink_stage = stage,
                       !.ring.shrink_hold_next = HoldForStage(stage)]
       [] OTHER -> m

(* The two memcpys of mem_buffer_push at the tail.                           *)
Written(r, d) ==
  LET tail == (r.head + r.len) % r.cap
      first == Smaller(r.cap - tail, Len(d))
  IN [j \in 0..(r.size - 1) |->
        IF j < Len(d) - first THEN d[first + j + 1]
        ELSE IF j >= tail /\ j < tail + first THEN d[j - tail + 1]
        ELSE r.buf[j]]

(* mem_buffer_push                                                           *)
Push(m, d, alloc) ==
  LET grown == MaybeGrow(m, Len(d), alloc)
      r == grown.m.ring
  IN IF Len(d) = 0 THEN Failed(m)
     ELSE IF ~grown.ok THEN grown
     ELSE Done([grown.m EXCEPT !.ring.buf = Written(r, d), !.ring.len = @ + Len(d)])

(* mem_buffer_reserve: room now, which nothing keeps.                        *)
Reserve(m, len, alloc) == IF len = 0 THEN Failed(m) ELSE MaybeGrow(m, len, alloc)

(* mem_buffer_peek                                                           *)
CanPeek(r, offset, len) == len # 0 /\ offset + len <= r.len
Peek(r, offset, len) == Bytes([r EXCEPT !.head = (r.head + offset) % r.cap], 0, len)

(* The memsets of mem_buffer_pop.                                            *)
Scrub(r, len) ==
  [j \in 0..(r.size - 1) |->
     IF \/ j >= r.head /\ j < r.head + Smaller(r.cap - r.head, len)
        \/ j < len - Smaller(r.cap - r.head, len)
     THEN 0 ELSE r.buf[j]]

(* The ring without its first len bytes.                                     *)
Popped(r, len) ==
  [r EXCEPT !.buf = IF r.secure THEN Scrub(r, len) ELSE @,
            !.head = (r.head + len) % r.cap, !.len = @ - len]

(* mem_buffer_pop                                                            *)
CanPop(r, len) == len # 0 /\ len <= r.len
Pop(m, len, alloc) ==
  Then(Then([m EXCEPT !.ring = Popped(m.ring, len)],
            LAMBDA k : MaybeShrink(k, m.ring.head + len >= m.ring.cap, alloc)), MaybeClear)
==============================================================================
