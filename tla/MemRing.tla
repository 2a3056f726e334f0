------------------------------- MODULE MemRing -------------------------------
(***************************************************************************)
(* A ring of src/src/drivers/mem.c in the hands of any caller: created with  *)
(* any arguments, tuned, filled, drained and destroyed in any order.  (The    *)
(* pressure of the lwIP pools joins it in EthRx.)                            *)
(*                                                                         *)
(* What can go wrong is a set of faults, fixed for a behaviour: "oom", the   *)
(* C library refuses any of the blocks it is asked for; "lockdown", a caller *)
(* locks a ring to less than its initial size.                               *)
(***************************************************************************)
EXTENDS MemBuffer

CONSTANTS Worlds,     \* the sets of faults to consider
          Makes,      \* the arguments mem_buffer_create may be called with
          Grows,      \* the arguments of mem_buffer_set_grow
          Shrinks,    \* the arguments of mem_buffer_set_shrink
          MaxSizes,   \* the arguments of mem_buffer_set_max_size
          Pushes,     \* the byte strings pushed
          Base,       \* bytes other buffers have charged
          MaxStage,   \* bound on shrink_stage, that is on failed shrinks in a row
          NULL        \* no ring

FaultKinds == {"oom", "lockdown"}

ASSUME MemRingAssumption ==
  /\ Worlds \subseteq SUBSET FaultKinds
  /\ Base \in Nat /\ (IF MaxHeap = 0 THEN Base = 0 ELSE Base <= MaxHeap)
  /\ \A k \in Makes : /\ k.initial \in Nat /\ k.max \in Nat /\ k.lock_size \in Nat
                      /\ k.lock \in BOOLEAN /\ k.secure \in BOOLEAN
  /\ \A t \in Grows \cup Shrinks : t.pct \in Nat /\ t.step \in Nat
  /\ MaxSizes \subseteq Nat /\ Pushes \subseteq Seq(Data) /\ MaxStage \in Nat

VARIABLES m,       \* the allocator and the ring, see MemBuffer
          given,   \* the bytes the last operation was called with, if a push
          got,     \* the bytes the last operation gave, if a pop or a peek
          faults   \* the faults of this behaviour

vars == <<m, given, got, faults>>

Init == /\ m = [heap |-> Base, ring |-> NULL, pool |-> NONE, eth |-> NONE,
                effective |-> NONE, calls |-> <<>>]
        /\ given = <<>> /\ got = <<>> /\ faults \in Worlds

(* The answers the C library can give.                                       *)
Allocs == IF "oom" \in faults THEN BOOLEAN ELSE {TRUE}

(* No bytes pass between the caller and the ring.                            *)
Silent == given' = <<>> /\ got' = <<>>

(* The allocator between two operations.                                     *)
Settled(k) == [k EXCEPT !.calls = <<>>]

------------------------------------------------------------------------------
(* mem_buffer_create, and the set_owner its callers make at once.  A locked  *)
(* ring is moved to its locked size: up, or the creation fails; down, or the *)
(* larger block is kept and stays charged.  Every failure gives back what    *)
(* was charged.                                                              *)
mem_buffer_create(k, alloc, moved) ==
  LET cap == CreateCap(k)
      charged == [m EXCEPT !.heap = Charged(@, CreateCharge(k))]
      made == /\ k.initial # 0 /\ Chargeable(m, CreateCharge(k)) /\ alloc
              /\ cap > k.initial => Chargeable(charged, cap - k.initial) /\ moved
      size == IF moved THEN cap ELSE k.initial
      heap == IF cap > k.initial THEN Charged(charged.heap, cap - k.initial)
              ELSE IF moved THEN Released(charged.heap, k.initial - cap)
              ELSE charged.heap
  IN /\ m.ring = NULL
     /\ k.lock /\ k.lock_size > 0 /\ k.lock_size < k.initial => "lockdown" \in faults
     /\ made
     /\ m' = [m EXCEPT !.heap = heap, !.ring = Created(k, size)]
     /\ Silent

(* mem_buffer_destroy                                                        *)
mem_buffer_destroy ==
  /\ m.ring # NULL
  /\ m' = [m EXCEPT !.heap = Released(Released(@, m.ring.cap), StructSize),
                    !.ring = NULL]
  /\ Silent

(* mem_buffer_push                                                           *)
mem_buffer_push(d, alloc) ==
  /\ m.ring # NULL
  /\ LET pushed == Push(m, d, alloc)
     IN m' = Settled(pushed.m)
  /\ given' = d /\ got' = <<>>

(* mem_buffer_reserve                                                        *)
mem_buffer_reserve(len, alloc) ==
  /\ m.ring # NULL
  /\ m' = Settled(Reserve(m, len, alloc).m)
  /\ Silent

(* mem_buffer_pop; a shrink fails at most MaxStage times in a row.           *)
mem_buffer_pop(len, alloc) ==
  /\ m.ring # NULL
  /\ CanPop(m.ring, len)
  /\ alloc \/ m.ring.shrink_stage < MaxStage
  /\ m' = Settled(Pop(m, len, alloc))
  /\ got' = Bytes(m.ring, 0, len) /\ given' = <<>>

(* mem_buffer_peek                                                           *)
mem_buffer_peek(offset, len) ==
  /\ m.ring # NULL
  /\ CanPeek(m.ring, offset, len)
  /\ got' = Peek(m.ring, offset, len) /\ given' = <<>>
  /\ UNCHANGED m

(* mem_buffer_set_grow                                                       *)
mem_buffer_set_grow(t) ==
  /\ m.ring # NULL /\ t.pct <= 100
  /\ m' = [m EXCEPT !.ring.grow_threshold_pct = t.pct, !.ring.step = t.step]
  /\ Silent

(* mem_buffer_set_shrink                                                     *)
mem_buffer_set_shrink(t) ==
  /\ m.ring # NULL /\ t.pct <= 100
  /\ m' = [m EXCEPT !.ring.shrink_threshold_pct = t.pct, !.ring.step = t.step,
                    !.ring.shrink_hold_next = Hold, !.ring.shrink_stage = 0,
                    !.ring.shrink_hits = 0]
  /\ Silent

(* mem_buffer_set_max_size                                                   *)
mem_buffer_set_max_size(max) ==
  /\ m.ring # NULL
  /\ m' = [m EXCEPT !.ring.max_cap = Larger(max, m.ring.cap)]
  /\ Silent

Next ==
  /\ \/ \E k \in Makes, alloc \in Allocs, moved \in Allocs :
          mem_buffer_create(k, alloc, moved)
     \/ mem_buffer_destroy
     \/ \E d \in Pushes, alloc \in Allocs : mem_buffer_push(d, alloc)
     \/ \E len \in {Len(d) : d \in Pushes}, alloc \in Allocs :
          mem_buffer_reserve(len, alloc)
     \/ m.ring # NULL /\ \E len \in 1..m.ring.len :
          \/ \E alloc \in Allocs : mem_buffer_pop(len, alloc)
          \/ \E offset \in 0..m.ring.len : mem_buffer_peek(offset, len)
     \/ \E t \in Grows : mem_buffer_set_grow(t)
     \/ \E t \in Shrinks : mem_buffer_set_shrink(t)
     \/ \E max \in MaxSizes : mem_buffer_set_max_size(max)
  /\ UNCHANGED faults

Spec == Init /\ [][Next]_vars

------------------------------------------------------------------------------
TypeOK ==
  /\ m.heap \in Nat /\ m.pool \in Levels /\ m.eth \in Levels
  /\ m.effective \in Levels /\ m.calls = <<>>
  /\ given \in Seq(Data) /\ got \in Seq(Data)
  /\ faults \in SUBSET FaultKinds
  /\ m.ring # NULL =>
       /\ m.ring.last_pressure_level \in Levels
       /\ m.ring.step \in Nat /\ m.ring.shrink_hits \in Nat
       /\ m.ring.shrink_hold_next \in Nat /\ m.ring.shrink_stage \in 0..(MaxStage + 1)

(* The ring's own numbers: the content lies inside the block, and the block  *)
(* inside the limit, if it has one; every resize, with the content wrapped   *)
(* or not, and every creation must keep it.  In secure mode a byte that was  *)
(* popped is nowhere in the block.  (And all variables have their types.)    *)
InBlock(r) ==
  /\ r.cap \in Nat \ {0} /\ r.size \in Nat /\ r.max_cap \in Nat
  /\ r.len \in 0..r.cap /\ r.head \in 0..(r.cap - 1)
  /\ r.cap <= r.size /\ (r.max_cap = SIZE_MAX \/ r.cap <= r.max_cap)
  /\ DOMAIN r.buf = 0..(r.size - 1)
Scrubbed(r) ==
  \A j \in DOMAIN r.buf :
    \/ r.buf[j] \in {0, Junk}
    \/ \E i \in 0..(r.len - 1) : Slot(r, i) = j
RingOK ==
  /\ TypeOK
  /\ m.ring # NULL => InBlock(m.ring) /\ (m.ring.secure => Scrubbed(m.ring))

(* The bytes the live buffers hold.                                          *)
Held == Base + (IF m.ring = NULL THEN 0 ELSE StructSize + m.ring.cap)

(* heap_used is what the buffers hold, through every creation, growth,       *)
(* shrink and failure of one, so that a budget once used can be used again.  *)
(* The one exception is a ring locked to less than it was created with when  *)
(* realloc refuses to shrink the block: the difference stays charged.        *)
(* Whatever fails, heap_used never falls short of what is held nor exceeds   *)
(* max_heap.                                                                 *)
HeapExact ==
  MaxHeap # 0 => /\ m.heap >= Held /\ m.heap <= MaxHeap
                 /\ faults # FaultKinds => m.heap = Held

(* Nothing but a pop lowers the Ethernet level: a caller that has nothing to *)
(* pop keeps the pressure it has.                                            *)
OnlyPopRelieves ==
  [][m'.eth < m.eth =>
       m.ring # NULL /\ m'.ring # NULL /\ m'.ring.len < m.ring.len]_vars

(* The ring is a queue of bytes.                                             *)
Queue == INSTANCE ByteQueue
           WITH queue <- IF m.ring = NULL THEN <<>> ELSE Content(m.ring)
IsByteQueue == Queue!Spec
==============================================================================
