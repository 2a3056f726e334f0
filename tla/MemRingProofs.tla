---------------------------- MODULE MemRingProofs ----------------------------
(* Proofs about MemRing, for every budget, every arguments of the creation,   *)
(* of the tuning and of the pushes, and every answer of the C library.       *)
EXTENDS MemRing, SequenceTheorems, TLAPS

(* The values of a struct mem_buffer.                                        *)
Byte == Data \cup {Junk}
Blocks == UNION {[0..(n - 1) -> Byte] : n \in Nat}
RingRecords ==
  [owner : {k.owner : k \in Makes}, lock : BOOLEAN, secure : BOOLEAN,
   cap : Nat, max_cap : Nat, size : Nat, buf : Blocks, len : Nat, head : Nat,
   last_pressure_level : Levels, step : Nat, grow_threshold_pct : Nat,
   shrink_threshold_pct : Nat, shrink_hold_next : Nat, shrink_stage : Nat,
   shrink_hits : Nat]

(* The pointer to no ring is none of them.                                   *)
NullApart == NULL \notin RingRecords

(* The values of the allocator.                                              *)
MemRecords ==
  [heap : Nat, ring : RingRecords \cup {NULL}, pool : Levels, eth : Levels,
   effective : Levels, calls : Seq(Levels)]

(* A ring whose content is the bytes of some pushes.                         *)
SoundRing(r) ==
  /\ r \in RingRecords /\ r.buf \in [0..(r.size - 1) -> Byte]
  /\ InBlock(r) /\ (r.secure => Scrubbed(r)) /\ Content(r) \in Seq(Data)

(* An allocator with a ring, whose block is charged.                         *)
Sound(a) ==
  /\ a \in MemRecords /\ SoundRing(a.ring)
  /\ MaxHeap # 0 => a.heap >= a.ring.cap /\ a.heap <= MaxHeap

(* What all the operations but push and pop leave as it is: the content, and  *)
(* the bytes charged besides the block.                                      *)
Follows(a, b) ==
  /\ Sound(b) /\ Content(b.ring) = Content(a.ring) /\ b.ring.len = a.ring.len
  /\ b.ring.lock = a.ring.lock /\ b.ring.secure = a.ring.secure
  /\ MaxHeap # 0 => b.heap - b.ring.cap = a.heap - a.ring.cap

(* And what the pushes leave as it is besides.                               *)
Presses(a, b) == b.eth >= a.eth /\ b.ring.shrink_stage <= a.ring.shrink_stage

------------------------------------------------------------------------------
(* Levels.                                                                  *)

(* The pressure levels as numbers.                                           *)
LEMMA LevelsAre == Levels = 0..3 /\ NONE \in Levels /\ HIGH \in Levels /\ CRITICAL \in Levels
BY DEF Levels, NONE, HIGH, CRITICAL

(* A usage has a level.                                                      *)
LEMMA LevelIn ==
  ASSUME NEW pct
  PROVE  LevelFromUsage(pct) \in Levels
BY DEF LevelFromUsage, Levels, NONE, MILD, HIGH, CRITICAL

(* So has a relief.                                                          *)
LEMMA ReliefIn ==
  ASSUME NEW pct, NEW current
  PROVE  Relief(current, pct) \in Levels
<1>1. LevelFromUsage(pct) \in Levels
  BY LevelIn
<1> QED BY <1>1 DEF Relief, Larger, Levels, NONE, MILD, HIGH, CRITICAL

(* Recomputing the effective pressure leaves heap and ring alone.            *)
LEMMA UpdateFields ==
  ASSUME NEW a \in MemRecords
  PROVE  /\ UpdateEffective(a) \in MemRecords
         /\ UpdateEffective(a).heap = a.heap /\ UpdateEffective(a).ring = a.ring
         /\ UpdateEffective(a).eth = a.eth
<1> DEFINE level == Larger(a.pool, a.eth)
<1>1. level \in Levels
  BY LevelsAre DEF MemRecords, Larger
<1>2. a.calls \in Seq(Levels) /\ Append(a.calls, level) \in Seq(Levels)
  BY <1>1 DEF MemRecords
<1>3. CASE level = a.effective
  BY <1>3 DEF UpdateEffective
<1>4. CASE level # a.effective
  <2> DEFINE c == Append(a.calls, level)
  <2>1. UpdateEffective(a) = [a EXCEPT !.effective = level, !.calls = c]
    BY <1>4 DEF UpdateEffective
  <2> HIDE DEF level, c
  <2> QED BY <1>1, <1>2, <2>1 DEF MemRecords, c
<1> QED BY <1>3, <1>4

(* So does noting a level, which never lowers the pressure.                  *)
LEMMA MarkFields ==
  ASSUME NEW a \in MemRecords, NEW level \in Levels
  PROVE  /\ Mark(a, level) \in MemRecords
         /\ Mark(a, level).heap = a.heap /\ Mark(a, level).ring = a.ring
         /\ Mark(a, level).eth >= a.eth
<1>1. a.eth \in Levels
  BY DEF MemRecords
<1>2. CASE a.ring.owner = "ETH_RX" /\ level > a.eth
  <2> DEFINE b == [a EXCEPT !.eth = level]
  <2>1. b \in MemRecords /\ b.heap = a.heap /\ b.ring = a.ring /\ b.eth = level
    BY DEF MemRecords
  <2>2. Mark(a, level) = UpdateEffective(b)
    BY <1>2 DEF Mark
  <2> HIDE DEF b
  <2> QED BY <1>1, <1>2, <2>1, <2>2, UpdateFields, LevelsAre
<1>3. CASE ~(a.ring.owner = "ETH_RX" /\ level > a.eth)
  BY <1>1, <1>3, LevelsAre DEF Mark
<1> QED BY <1>2, <1>3

------------------------------------------------------------------------------
(* The same bytes in another record.                                         *)

SameBytes(r, s) ==
  /\ s.lock = r.lock /\ s.secure = r.secure /\ s.cap = r.cap /\ s.max_cap = r.max_cap
  /\ s.size = r.size /\ s.buf = r.buf /\ s.len = r.len /\ s.head = r.head

(* Rings with the same bytes have the same content.                          *)
LEMMA SameContent ==
  ASSUME NEW r, NEW s, SameBytes(r, s)
  PROVE  /\ Content(s) = Content(r) /\ (Scrubbed(r) => Scrubbed(s))
         /\ InBlock(r) => InBlock(s)
BY DEF SameBytes, Content, Bytes, Slot, Scrubbed, InBlock

(* ... and are sound together.                                               *)
LEMMA SameSound ==
  ASSUME NEW r, SoundRing(r), NEW s \in RingRecords, SameBytes(r, s)
  PROVE  SoundRing(s)
BY SameContent DEF SoundRing, SameBytes

(* A change that moves no byte and no heap.                                  *)
LEMMA SameFollows ==
  ASSUME NEW a, Sound(a), NEW b \in MemRecords, b.ring \in RingRecords,
         b.heap = a.heap, SameBytes(a.ring, b.ring)
  PROVE  Follows(a, b)
BY SameSound, SameContent DEF Sound, SoundRing, Follows, SameBytes

(* Steps that keep the content compose.                                      *)
LEMMA FollowsTransitive ==
  ASSUME NEW a, NEW b, NEW c, Follows(a, b), Follows(b, c)
  PROVE  Follows(a, c)
BY DEF Follows

(* mem_buffer_notify_lowmem                                                  *)
LEMMA NotifyFollows ==
  ASSUME NEW a, Sound(a), NEW level \in Levels
  PROVE  Follows(a, NotifyLowmem(a, level)) /\ Presses(a, NotifyLowmem(a, level))
<1> DEFINE b == Mark(a, level)
           r == [a.ring EXCEPT !.last_pressure_level = level]
           c == [b EXCEPT !.ring = r]
<1>1. a \in MemRecords /\ a.ring \in RingRecords
  BY DEF Sound, SoundRing
<1>2. b \in MemRecords /\ b.heap = a.heap /\ b.ring = a.ring /\ b.eth >= a.eth
  BY <1>1, MarkFields
<1>3. NotifyLowmem(a, level) = c
  BY <1>2 DEF NotifyLowmem
<1>4. /\ r \in RingRecords /\ SameBytes(a.ring, r)
      /\ r.shrink_stage = a.ring.shrink_stage /\ r.shrink_stage \in Nat
  BY <1>1 DEF RingRecords, SameBytes
<1> HIDE DEF b, r
<1>5. c \in MemRecords /\ c.ring = r /\ c.heap = a.heap /\ c.eth = b.eth
  BY <1>2, <1>4 DEF MemRecords
<1> HIDE DEF c
<1>6. Follows(a, c)
  BY <1>4, <1>5, SameFollows
<1>7. Presses(a, c)
  BY <1>2, <1>4, <1>5 DEF Presses
<1> QED BY <1>3, <1>6, <1>7
------------------------------------------------------------------------------
(* mem_buffer_resize                                                         *)

(* The numbers of a sound ring.                                              *)
LEMMA RingNumbers ==
  ASSUME NEW r, SoundRing(r)
  PROVE  /\ r.cap \in Nat \ {0} /\ r.size \in Nat /\ r.max_cap \in Nat
         /\ r.len \in 0..r.cap /\ r.head \in 0..(r.cap - 1) /\ r.cap <= r.size
         /\ r.step \in Nat /\ r.shrink_stage \in Nat /\ r.shrink_hits \in Nat
         /\ r.lock \in BOOLEAN /\ r.secure \in BOOLEAN
BY DEF SoundRing, InBlock, RingRecords

(* A slot of the ring lies in its block.                                     *)
LEMMA SlotIn ==
  ASSUME NEW r, SoundRing(r), NEW i \in 0..(r.cap - 1)
  PROVE  Slot(r, i) \in 0..(r.cap - 1)
BY RingNumbers DEF Slot

(* The content, byte by byte.                                                *)
LEMMA ContentIs ==
  ASSUME NEW r, r.len \in Nat
  PROVE  Content(r) = [i \in 1..r.len |-> r.buf[Slot(r, i - 1)]] /\ Len(Content(r)) = r.len
<1>1. \A i \in 1..r.len : 0 + i - 1 = i - 1
  OBVIOUS
<1>2. Content(r) = [i \in 1..r.len |-> r.buf[Slot(r, i - 1)]]
  BY <1>1 DEF Content, Bytes
<1> QED BY <1>2

(* A block of bytes.                                                         *)
LEMMA BlockIn ==
  ASSUME NEW n \in Nat, NEW f \in [0..(n - 1) -> Byte]
  PROVE  f \in Blocks
BY DEF Blocks

(* mem_buffer_resize moves the bytes to the front of the new block.          *)
LEMMA ResizedSound ==
  ASSUME NEW r, SoundRing(r), NEW new_cap \in Nat \ {0}, new_cap >= r.len,
         r.max_cap = SIZE_MAX \/ new_cap <= r.max_cap
  PROVE  /\ SoundRing(Resized(r, new_cap)) /\ Resized(r, new_cap).cap = new_cap
         /\ Resized(r, new_cap).len = r.len /\ Content(Resized(r, new_cap)) = Content(r)
         /\ Resized(r, new_cap).lock = r.lock /\ Resized(r, new_cap).secure = r.secure
         /\ Resized(r, new_cap).shrink_stage = 0
<1> DEFINE buf == ResizedBuf(r, new_cap)
           s == Resized(r, new_cap)
<1>1. /\ r.cap \in Nat \ {0} /\ r.size \in Nat /\ r.max_cap \in Nat
      /\ r.len \in 0..r.cap /\ r.head \in 0..(r.cap - 1) /\ r.cap <= r.size
      /\ r.buf \in [0..(r.size - 1) -> Byte] /\ r \in RingRecords
  BY RingNumbers DEF SoundRing
<1>2. \A j \in 0..(new_cap - 1) : j < r.len => Slot(r, j) \in 0..(r.size - 1)
  BY <1>1, SlotIn
<1>3. buf \in [0..(new_cap - 1) -> Byte]
  <2> SUFFICES ASSUME NEW j \in 0..(new_cap - 1)
               PROVE  (IF r.head = 0 THEN IF j < r.size THEN r.buf[j] ELSE Junk
                       ELSE IF j < r.len THEN r.buf[Slot(r, j)] ELSE Junk) \in Byte
    BY DEF ResizedBuf
  <2>1. j < r.size => r.buf[j] \in Byte
    BY <1>1
  <2>2. j < r.len => r.buf[Slot(r, j)] \in Byte
    BY <1>1, <1>2
  <2> QED BY <2>1, <2>2 DEF Byte
<1>4. \A j \in 0..(r.len - 1) : j \in 0..(new_cap - 1) /\ buf[j] = r.buf[Slot(r, j)]
  BY <1>1 DEF ResizedBuf, Slot
<1>5. \A j \in 0..(new_cap - 1) : buf[j] = Junk \/ j < r.len
                                   \/ (r.head = 0 /\ j < r.size /\ buf[j] = r.buf[j])
  BY DEF ResizedBuf
<1>6. buf \in Blocks
  <2> HIDE DEF buf
  <2> QED BY <1>3, BlockIn
<1>7. s = [r EXCEPT !.buf = buf, !.size = new_cap, !.cap = new_cap, !.head = 0,
                    !.shrink_hits = 0, !.shrink_stage = 0, !.shrink_hold_next = Hold]
  BY DEF Resized
<1> HIDE DEF buf, s
<1>8. Hold \in Nat
  BY DEF Hold
<1>9. /\ s \in RingRecords /\ s.buf = buf /\ s.size = new_cap /\ s.cap = new_cap
      /\ s.head = 0 /\ s.len = r.len /\ s.lock = r.lock /\ s.secure = r.secure
      /\ s.shrink_stage = 0 /\ s.max_cap = r.max_cap
  BY <1>1, <1>6, <1>7, <1>8 DEF RingRecords
<1>10. InBlock(s)
  BY <1>1, <1>3, <1>9 DEF InBlock
<1>11. \A j \in 0..(r.len - 1) : Slot(s, j) = j
  BY <1>1, <1>9 DEF Slot
<1>12. Content(s) = Content(r)
  <2>1. \A i \in 1..r.len : s.buf[Slot(s, i - 1)] = r.buf[Slot(r, i - 1)]
    BY <1>1, <1>4, <1>9, <1>11
  <2>2. Content(s) = [i \in 1..r.len |-> s.buf[Slot(s, i - 1)]]
    BY <1>1, <1>9, ContentIs
  <2>3. Content(r) = [i \in 1..r.len |-> r.buf[Slot(r, i - 1)]]
    BY <1>1, ContentIs
  <2> QED BY <2>1, <2>2, <2>3
<1>13. r.secure => Scrubbed(s)
  <2> SUFFICES ASSUME Scrubbed(r), NEW j \in 0..(new_cap - 1)
               PROVE  buf[j] \in {0, Junk} \/ \E i \in 0..(r.len - 1) : Slot(s, i) = j
    BY <1>3, <1>9 DEF Scrubbed, SoundRing
  <2>1. CASE j < r.len
    BY <1>1, <1>11, <2>1
  <2>2. CASE r.head = 0 /\ j < r.size /\ buf[j] = r.buf[j] /\ ~(j < r.len)
    <3>1. j \in DOMAIN r.buf /\ \A i \in 0..(r.len - 1) : Slot(r, i) # j
      BY <1>1, <2>2 DEF Slot
    <3> QED BY <2>2, <3>1 DEF Scrubbed
  <2> QED BY <1>5, <2>1, <2>2
<1>14. SoundRing(s)
  BY <1>3, <1>9, <1>10, <1>12, <1>13 DEF SoundRing
<1> QED BY <1>9, <1>12, <1>14 DEF s

(* ... and keeps the content whether or not the memory is there.             *)
LEMMA ResizeFollows ==
  ASSUME NEW a, Sound(a), NEW new_cap \in Nat \ {0}, NEW alloc \in BOOLEAN
  PROVE  LET res == Resize(a, new_cap, alloc)
         IN /\ Follows(a, res.m) /\ Presses(a, res.m)
            /\ res.ok => res.m.ring.cap = new_cap
            /\ alloc /\ new_cap < a.ring.cap /\ new_cap >= a.ring.len /\ ~a.ring.lock =>
                 res.m.ring.shrink_stage = 0
<1> DEFINE res == Resize(a, new_cap, alloc)
           r == a.ring
           s == Resized(r, new_cap)
           h == HeapAfter(a, new_cap)
           b == [a EXCEPT !.heap = h, !.ring = s]
<1>1. a \in MemRecords /\ SoundRing(r) /\ a.heap \in Nat /\ a.eth \in Levels
  BY DEF Sound, MemRecords
<1>2. /\ r.cap \in Nat \ {0} /\ r.max_cap \in Nat /\ r.len \in 0..r.cap
      /\ r.lock \in BOOLEAN /\ r.shrink_stage \in Nat
      /\ (r.max_cap = SIZE_MAX \/ r.cap <= r.max_cap)
  BY <1>1, RingNumbers DEF SoundRing, InBlock
<1>3. Follows(a, a) /\ Presses(a, a)
  BY <1>1, <1>2, LevelsAre DEF Follows, Presses
<1>4. CASE new_cap = r.cap
  <2>1. res = Done(a)
    BY <1>4 DEF Resize
  <2> QED BY <1>2, <1>3, <1>4, <2>1 DEF Done
<1>5. CASE new_cap # r.cap /\ ~Resizable(a, new_cap)
  <2>1. res = Failed(a)
    BY <1>5 DEF Resize
  <2>2. ~(new_cap < r.cap /\ new_cap >= r.len /\ ~r.lock)
    BY <1>2, <1>5 DEF Resizable
  <2> QED BY <1>3, <2>1, <2>2 DEF Failed
<1>6. CASE new_cap # r.cap /\ Resizable(a, new_cap) /\ ~alloc
  <2>1. res = Failed(IF r.head = 0 THEN NotifyLowmem(a, CRITICAL) ELSE a)
    BY <1>6 DEF Resize
  <2>2. Follows(a, NotifyLowmem(a, CRITICAL)) /\ Presses(a, NotifyLowmem(a, CRITICAL))
    BY NotifyFollows, LevelsAre
  <2> QED BY <1>3, <1>6, <2>1, <2>2 DEF Failed
<1>7. CASE new_cap # r.cap /\ Resizable(a, new_cap) /\ alloc
  <2>1. res = Done(b)
    BY <1>7 DEF Resize
  <2>2. /\ SoundRing(s) /\ s.cap = new_cap /\ s.len = r.len /\ Content(s) = Content(r)
        /\ s.lock = r.lock /\ s.secure = r.secure /\ s.shrink_stage = 0
    BY <1>1, <1>7, ResizedSound DEF Resizable
  <2>3. /\ h \in Nat
        /\ MaxHeap # 0 => h - new_cap = a.heap - r.cap /\ h <= MaxHeap /\ h >= new_cap
    BY <1>1, <1>2, <1>7, MemBufferAssumption
       DEF HeapAfter, Charged, Released, Resizable, Chargeable, Sound
  <2>4. s \in RingRecords
    BY <2>2 DEF SoundRing
  <2> HIDE DEF s, h
  <2>5. b \in MemRecords /\ b.heap = h /\ b.ring = s /\ b.eth = a.eth
    BY <1>1, <2>3, <2>4 DEF MemRecords
  <2> HIDE DEF b
  <2>6. Follows(a, b)
    BY <2>2, <2>3, <2>5 DEF Follows, Sound
  <2>7. Presses(a, b)
    BY <1>1, <1>2, <2>2, <2>5, LevelsAre DEF Presses
  <2> QED BY <2>1, <2>2, <2>5, <2>6, <2>7 DEF Done
<1> QED BY <1>4, <1>5, <1>6, <1>7
------------------------------------------------------------------------------
(* mem_buffer_maybe_grow and mem_buffer_push                                 *)

(* The capacity that growing aims at is a number.                            *)
LEMMA GrowTargetIn ==
  ASSUME NEW r, SoundRing(r), NEW needed \in Nat
  PROVE  GrowTarget(r, needed) \in Nat
<1> DEFINE v == Larger(r.cap, needed)
           aligned == AlignStep(v, r.step)
<1>1. r.cap \in Nat \ {0} /\ r.step \in Nat /\ r.max_cap \in Nat
  BY RingNumbers
<1>2. v \in Nat
  BY <1>1 DEF Larger
<1> HIDE DEF v
<1>3. aligned \in Nat
  <2>1. CASE r.step = 0 \/ v % r.step = 0
    BY <1>2, <2>1 DEF AlignStep
  <2>2. CASE ~(r.step = 0 \/ v % r.step = 0)
    <3>1. v % r.step \in 0..(r.step - 1)
      BY <1>1, <1>2, <2>2
    <3> QED BY <1>1, <1>2, <2>2, <3>1 DEF AlignStep
  <2> QED BY <2>1, <2>2
<1>4. GrowTarget(r, needed) =
        LET wanted == Larger(IF aligned <= r.cap THEN r.cap + r.step ELSE aligned, needed)
        IN IF r.max_cap # SIZE_MAX THEN Smaller(wanted, r.max_cap) ELSE wanted
  BY DEF GrowTarget, v
<1> HIDE DEF aligned
<1> QED BY <1>1, <1>3, <1>4 DEF Larger, Smaller

(* Either there is room, or the answer is no; in both cases the content is   *)
(* what it was.                                                              *)
LEMMA GrowFollows ==
  ASSUME NEW a, Sound(a), NEW incoming \in Nat \ {0}, NEW alloc \in BOOLEAN
  PROVE  LET res == MaybeGrow(a, incoming, alloc)
         IN /\ Follows(a, res.m) /\ Presses(a, res.m) /\ res.ok \in BOOLEAN
            /\ res.ok => a.ring.len + incoming <= res.m.ring.cap
<1> DEFINE res == MaybeGrow(a, incoming, alloc)
           needed == a.ring.len + incoming
           level == LevelFromUsage(RingUsage(a, needed))
           told == IF level # NONE /\ level # a.ring.last_pressure_level
                   THEN NotifyLowmem(a, level) ELSE a
           r == told.ring
           target == GrowTarget(r, needed)
           resized == Resize(told, target, alloc)
           grows == ~r.lock /\ ~(/\ needed <= r.cap
                                 /\ needed < ThresholdBytes(r.cap, r.grow_threshold_pct))
<1>1. res = CASE ~grows /\ needed <= r.cap -> Done(told)
              [] grows /\ target >= needed /\ resized.ok -> resized
              [] grows /\ target >= needed /\ ~resized.ok ->
                   Failed(NotifyLowmem(resized.m, CRITICAL))
              [] OTHER -> Failed(NotifyLowmem(told, CRITICAL))
  BY DEF MaybeGrow
<1>2. a.ring.len \in Nat /\ a.eth \in Levels /\ a.ring.shrink_stage \in Nat
  BY RingNumbers DEF Sound, MemRecords
<1>3. Follows(a, told) /\ Presses(a, told)
  <2>1. Follows(a, a) /\ Presses(a, a)
    BY <1>2, LevelsAre DEF Follows, Presses, Sound, MemRecords
  <2>2. level \in Levels
    BY LevelIn
  <2> HIDE DEF level
  <2>3. Follows(a, NotifyLowmem(a, level)) /\ Presses(a, NotifyLowmem(a, level))
    BY <2>2, NotifyFollows
  <2> QED BY <2>1, <2>3
<1>4. grows \in BOOLEAN
  OBVIOUS
<1> HIDE DEF told, grows
<1>5. Sound(told) /\ SoundRing(r)
  BY <1>3 DEF Follows, Sound
<1>6. target \in Nat
  BY <1>2, <1>5, GrowTargetIn
<1> HIDE DEF target
<1>7. ASSUME target >= needed
      PROVE  /\ Follows(told, resized.m) /\ Presses(told, resized.m)
             /\ resized.ok \in BOOLEAN
             /\ resized.ok => resized.m.ring.cap = target
  <2>1. target \in Nat \ {0}
    BY <1>2, <1>6, <1>7
  <2>2. resized.ok \in BOOLEAN
    BY DEF Resize, Done, Failed
  <2> QED BY <1>5, <2>1, <2>2, ResizeFollows
<1>8. ASSUME NEW b, Follows(a, b), Presses(a, b)
      PROVE  /\ Follows(a, NotifyLowmem(b, CRITICAL)) /\ Presses(a, NotifyLowmem(b, CRITICAL))
             /\ Sound(b)
  <2>1. Sound(b)
    BY <1>8 DEF Follows
  <2>2. Follows(b, NotifyLowmem(b, CRITICAL)) /\ Presses(b, NotifyLowmem(b, CRITICAL))
    BY <2>1, NotifyFollows, LevelsAre
  <2>3. Follows(a, NotifyLowmem(b, CRITICAL))
    BY <1>8, <2>2, FollowsTransitive
  <2>4. /\ b.eth \in Levels /\ b.ring.shrink_stage \in Nat
        /\ NotifyLowmem(b, CRITICAL).eth \in Levels
        /\ NotifyLowmem(b, CRITICAL).ring.shrink_stage \in Nat
    BY <2>1, <2>2, RingNumbers DEF Follows, Sound, MemRecords
  <2> QED BY <1>2, <1>8, <2>1, <2>2, <2>3, <2>4, LevelsAre DEF Presses
<1>9. CASE ~grows /\ needed <= r.cap
  <2>1. res = Done(told)
    BY <1>1, <1>9
  <2> QED BY <1>3, <1>9, <2>1 DEF Done
<1>10. ASSUME target >= needed
       PROVE  Follows(a, resized.m) /\ Presses(a, resized.m)
  <2>1. Follows(a, resized.m)
    BY <1>3, <1>7, <1>10, FollowsTransitive
  <2>2. /\ told.eth \in Levels /\ told.ring.shrink_stage \in Nat
        /\ resized.m.eth \in Levels /\ resized.m.ring.shrink_stage \in Nat
    BY <1>5, <2>1, RingNumbers DEF Follows, Sound, MemRecords
  <2> QED BY <1>2, <1>3, <1>7, <1>10, <2>1, <2>2, LevelsAre DEF Presses
<1>11. CASE grows /\ target >= needed /\ resized.ok
  <2>1. res = resized
    BY <1>1, <1>4, <1>11
  <2>2. resized.m.ring.cap = target
    BY <1>7, <1>11
  <2> QED BY <1>2, <1>6, <1>7, <1>10, <1>11, <2>1, <2>2
<1>12. CASE grows /\ target >= needed /\ ~resized.ok
  <2>1. res = Failed(NotifyLowmem(resized.m, CRITICAL))
    BY <1>1, <1>4, <1>12
  <2> HIDE DEF resized
  <2> QED BY <1>8, <1>10, <1>12, <2>1 DEF Failed
<1>13. CASE ~(~grows /\ needed <= r.cap) /\ ~(grows /\ target >= needed)
  <2>1. res = Failed(NotifyLowmem(told, CRITICAL))
    BY <1>1, <1>4, <1>13
  <2> QED BY <1>3, <1>8, <2>1 DEF Failed
<1> QED BY <1>4, <1>9, <1>11, <1>12, <1>13

(* The remainder of a number that is less than twice the divisor.            *)
LEMMA ModOnce ==
  ASSUME NEW c \in Nat \ {0}, NEW n \in Nat, n < 2 * c
  PROVE  n % c = IF n < c THEN n ELSE n - c
OBVIOUS

(* The numbers of a push of n bytes, behind len of a block of cap.           *)
At(head, cap, i) == IF head + i < cap THEN head + i ELSE head + i - cap

Placed(head, cap, len, n) ==
  LET tail == At(head, cap, len)
      first == Smaller(cap - tail, n)
  IN /\ (head + len) % cap = tail
     /\ tail \in 0..(cap - 1) /\ first \in Nat /\ first <= n
     /\ tail + first <= cap /\ n - first <= cap
     /\ \A i \in 0..(cap - 1) : At(head, cap, i) \in 0..(cap - 1)
     /\ \A i \in 0..(len - 1) :
          /\ ~(At(head, cap, i) < n - first)
          /\ ~(At(head, cap, i) >= tail /\ At(head, cap, i) < tail + first)
     /\ \A i \in 0..(first - 1) :
          At(head, cap, len + i) = tail + i /\ ~(tail + i < n - first)
     /\ \A i \in first..(n - 1) : At(head, cap, len + i) = i - first

(* The two copies of a push, before and after the end of the block, go to    *)
(* the slots behind the content.                                             *)
LEMMA Places ==
  ASSUME NEW cap \in Nat \ {0}, NEW head \in 0..(cap - 1), NEW len \in Nat,
         NEW n \in Nat \ {0}, len + n <= cap
  PROVE  Placed(head, cap, len, n)
<1> DEFINE tail == At(head, cap, len)
           first == Smaller(cap - tail, n)
<1>1. (head + len) % cap = tail
  <2> DEFINE x == head + len
  <2>1. x \in Nat /\ x < 2 * cap
    OBVIOUS
  <2>2. tail = IF x < cap THEN x ELSE x - cap
    BY DEF At
  <2> HIDE DEF x, tail
  <2>3. x % cap = tail
    BY <2>1, <2>2, ModOnce
  <2> QED BY <2>3 DEF x
<1>2. tail \in 0..(cap - 1) /\ (tail = head + len \/ tail = head + len - cap)
  BY DEF At
<1>3. tail = head + len => head + len < cap
  BY DEF At
<1> HIDE DEF tail
<1>4. first \in Nat /\ first <= n /\ tail + first <= cap /\ (first < n => tail + first = cap)
  BY <1>2 DEF Smaller
<1> HIDE DEF first
<1>5. n - first <= cap
  BY <1>4
<1>6. \A i \in 0..(cap - 1) : At(head, cap, i) \in 0..(cap - 1)
  BY DEF At
<1>7. \A i \in 0..(len - 1) :
        /\ ~(At(head, cap, i) < n - first)
        /\ ~(At(head, cap, i) >= tail /\ At(head, cap, i) < tail + first)
  BY <1>2, <1>3, <1>4 DEF At
<1>8. \A i \in 0..(first - 1) :
        At(head, cap, len + i) = tail + i /\ ~(tail + i < n - first)
  BY <1>2, <1>3, <1>4 DEF At
<1>9. \A i \in first..(n - 1) : At(head, cap, len + i) = i - first
  BY <1>2, <1>3, <1>4 DEF At
<1> QED BY <1>1, <1>2, <1>4, <1>5, <1>6, <1>7, <1>8, <1>9 DEF tail, first, Placed

(* The block and the content after a push.                                   *)
WrittenAt(head, cap, len, size, old, d) ==
  LET tail == (head + len) % cap
      first == Smaller(cap - tail, Len(d))
  IN [j \in 0..(size - 1) |->
        IF j < Len(d) - first THEN d[first + j + 1]
        ELSE IF j >= tail /\ j < tail + first THEN d[j - tail + 1]
        ELSE old[j]]

Wrote(head, cap, len, size, old, d, new) ==
  /\ new \in [0..(size - 1) -> Byte]
  /\ \A i \in 0..(len - 1) : new[At(head, cap, i)] = old[At(head, cap, i)]
  /\ \A i \in 0..(Len(d) - 1) : new[At(head, cap, len + i)] = d[i + 1]
  /\ \A j \in 0..(size - 1) :
       new[j] = old[j] \/ \E i \in 0..(len + Len(d) - 1) : At(head, cap, i) = j

(* What a push leaves in the block.                                          *)
LEMMA WrittenBlock ==
  ASSUME NEW cap \in Nat \ {0}, NEW head \in 0..(cap - 1), NEW len \in Nat,
         NEW size \in Nat, cap <= size, NEW old \in [0..(size - 1) -> Byte],
         NEW d \in Seq(Data), Len(d) # 0, len + Len(d) <= cap,
         NEW new, new = WrittenAt(head, cap, len, size, old, d)
  PROVE  Wrote(head, cap, len, size, old, d, new)
<1> DEFINE n == Len(d)
           tail == At(head, cap, len)
           first == Smaller(cap - tail, n)
<1>1. n \in Nat \ {0} /\ len + n <= cap /\ \A i \in 1..n : d[i] \in Data
  OBVIOUS
<1> HIDE DEF n
<1>2. /\ (head + len) % cap = tail
      /\ tail \in 0..(cap - 1) /\ first \in Nat /\ first <= n
      /\ tail + first <= cap /\ n - first <= cap
      /\ \A i \in 0..(cap - 1) : At(head, cap, i) \in 0..(cap - 1)
      /\ \A i \in 0..(len - 1) :
           /\ ~(At(head, cap, i) < n - first)
           /\ ~(At(head, cap, i) >= tail /\ At(head, cap, i) < tail + first)
      /\ \A i \in 0..(first - 1) :
           At(head, cap, len + i) = tail + i /\ ~(tail + i < n - first)
      /\ \A i \in first..(n - 1) : At(head, cap, len + i) = i - first
  <2>1. Placed(head, cap, len, n)
    BY <1>1, Places, Zenon
  <2> QED BY <2>1 DEF Placed
<1>3. new = [j \in 0..(size - 1) |->
               IF j < n - first THEN d[first + j + 1]
               ELSE IF j >= tail /\ j < tail + first THEN d[j - tail + 1]
               ELSE old[j]]
  BY <1>2 DEF n, WrittenAt
<1> HIDE DEF tail, first
<1>4. new \in [0..(size - 1) -> Byte]
  <2> SUFFICES ASSUME NEW j \in 0..(size - 1)
               PROVE  (IF j < n - first THEN d[first + j + 1]
                       ELSE IF j >= tail /\ j < tail + first THEN d[j - tail + 1]
                       ELSE old[j]) \in Byte
    BY <1>3
  <2>1. j < n - first => first + j + 1 \in 1..n
    BY <1>1, <1>2
  <2>2. j >= tail /\ j < tail + first => j - tail + 1 \in 1..n
    BY <1>1, <1>2
  <2> QED BY <1>1, <2>1, <2>2 DEF Byte
<1>5. ASSUME NEW i \in 0..(len - 1)
      PROVE  new[At(head, cap, i)] = old[At(head, cap, i)]
  <2>1. i \in 0..(cap - 1)
    BY <1>1
  <2> DEFINE p == At(head, cap, i)
  <2>2. p \in 0..(cap - 1)
    BY <1>2, <2>1
  <2>3. ~(p < n - first) /\ ~(p >= tail /\ p < tail + first)
    BY <1>2
  <2> HIDE DEF p
  <2>4. p \in 0..(size - 1)
    BY <2>2
  <2>5. new[p] = old[p]
    BY <1>3, <2>3, <2>4
  <2> QED BY <2>5 DEF p
<1>6. ASSUME NEW i \in 0..(n - 1)
      PROVE  new[At(head, cap, len + i)] = d[i + 1]
  <2>1. CASE i < first
    <3>1. i \in 0..(first - 1) /\ tail + i \in 0..(size - 1)
      BY <1>1, <1>2, <2>1
    <3>2. At(head, cap, len + i) = tail + i /\ ~(tail + i < n - first)
      BY <1>2, <3>1
    <3>3. tail + i >= tail /\ tail + i < tail + first /\ (tail + i) - tail + 1 = i + 1
      BY <1>1, <1>2, <2>1
    <3>4. new[tail + i] = d[(tail + i) - tail + 1]
      BY <1>3, <3>1, <3>2, <3>3
    <3> QED BY <3>2, <3>3, <3>4
  <2>2. CASE i >= first
    <3>1. /\ i \in first..(n - 1) /\ i - first \in 0..(size - 1) /\ i - first < n - first
          /\ first + (i - first) + 1 = i + 1
      BY <1>1, <1>2, <2>2
    <3>2. At(head, cap, len + i) = i - first
      BY <1>2, <3>1
    <3>3. new[i - first] = d[first + (i - first) + 1]
      BY <1>3, <3>1
    <3> QED BY <3>1, <3>2, <3>3
  <2> QED BY <1>1, <1>2, <2>1, <2>2
<1>7. ASSUME NEW j \in 0..(size - 1)
      PROVE  new[j] = old[j] \/ \E i \in 0..(len + n - 1) : At(head, cap, i) = j
  <2>1. CASE j < n - first
    <3>1. /\ first + j \in first..(n - 1) /\ first + j - first = j
          /\ len + (first + j) \in 0..(len + n - 1)
      BY <1>1, <1>2, <2>1
    <3>2. At(head, cap, len + (first + j)) = j
      BY <1>2, <3>1
    <3> QED BY <3>1, <3>2
  <2>2. CASE j >= tail /\ j < tail + first
    <3>1. /\ j - tail \in 0..(first - 1) /\ tail + (j - tail) = j
          /\ len + (j - tail) \in 0..(len + n - 1)
      BY <1>1, <1>2, <2>2
    <3>2. At(head, cap, len + (j - tail)) = j
      BY <1>2, <3>1
    <3> QED BY <3>1, <3>2
  <2>3. CASE ~(j < n - first) /\ ~(j >= tail /\ j < tail + first)
    BY <1>3, <2>3
  <2> QED BY <2>1, <2>2, <2>3
<1> QED BY <1>4, <1>5, <1>6, <1>7 DEF n, Wrote
(* Two sequences one after the other.                                        *)
LEMMA Joined ==
  ASSUME NEW S, NEW c \in Seq(S), NEW d \in Seq(S),
         NEW f \in [1..(Len(c) + Len(d)) -> S],
         \A i \in 1..Len(c) : f[i] = c[i],
         \A i \in 1..Len(d) : f[Len(c) + i] = d[i]
  PROVE  f = c \o d
<1> DEFINE n == Len(c) + Len(d)
           e == c \o d
<1>1. n \in Nat
  OBVIOUS
<1>2. f \in Seq(S) /\ Len(f) = n
  <2> HIDE DEF n
  <2>1. f \in [1..n -> S]
    BY DEF n
  <2> QED BY <1>1, <2>1
<1>3. /\ e \in Seq(S) /\ Len(e) = n
      /\ \A i \in 1..n : e[i] = IF i <= Len(c) THEN c[i] ELSE d[i - Len(c)]
  OBVIOUS
<1> HIDE DEF e
<1>4. ASSUME NEW i \in 1..n PROVE f[i] = e[i]
  <2>1. CASE i <= Len(c)
    BY <1>3, <2>1
  <2>2. CASE i > Len(c)
    <3> DEFINE k == i - Len(c)
    <3>1. k \in 1..Len(d) /\ i = Len(c) + k /\ ~(i <= Len(c))
      BY <2>2
    <3>2. e[i] = d[k]
      BY <1>3, <3>1
    <3> HIDE DEF k
    <3> QED BY <3>1, <3>2
  <2> QED BY <2>1, <2>2
<1>5. f = e
  BY <1>2, <1>3, <1>4, SeqEqual
<1> QED BY <1>5 DEF e

(* What the memcpys of a push do to the block.                               *)
LEMMA WrittenIs ==
  ASSUME NEW r, SoundRing(r), NEW d \in Seq(Data), Len(d) # 0, r.len + Len(d) <= r.cap
  PROVE  LET buf == Written(r, d)
         IN /\ buf \in [0..(r.size - 1) -> Byte] /\ buf \in Blocks
            /\ \A i \in 0..(r.len - 1) :
                 buf[At(r.head, r.cap, i)] = r.buf[At(r.head, r.cap, i)]
            /\ \A i \in 0..(Len(d) - 1) : buf[At(r.head, r.cap, r.len + i)] = d[i + 1]
            /\ \A j \in 0..(r.size - 1) :
                 buf[j] = r.buf[j]
                 \/ \E i \in 0..(r.len + Len(d) - 1) : At(r.head, r.cap, i) = j
<1> DEFINE buf == Written(r, d)
           cap == r.cap
           head == r.head
           len == r.len
           old == r.buf
           size == r.size
<1>1. /\ cap \in Nat \ {0} /\ size \in Nat
      /\ len \in Nat /\ head \in 0..(cap - 1) /\ cap <= size
      /\ old \in [0..(size - 1) -> Byte]
  BY RingNumbers DEF SoundRing
<1>2. buf = WrittenAt(head, cap, len, size, old, d)
  BY DEF Written, WrittenAt
<1>3. len + Len(d) <= cap
  OBVIOUS
<1> HIDE DEF buf, cap, head, len, old, size
<1>4. /\ buf \in [0..(size - 1) -> Byte]
      /\ \A i \in 0..(len - 1) : buf[At(head, cap, i)] = old[At(head, cap, i)]
      /\ \A i \in 0..(Len(d) - 1) : buf[At(head, cap, len + i)] = d[i + 1]
      /\ \A j \in 0..(size - 1) :
           buf[j] = old[j] \/ \E i \in 0..(len + Len(d) - 1) : At(head, cap, i) = j
  <2>1. Wrote(head, cap, len, size, old, d, buf)
    BY <1>1, <1>2, <1>3, WrittenBlock, Zenon
  <2> QED BY <2>1 DEF Wrote
<1>5. buf \in Blocks
  BY <1>1, <1>4, BlockIn
<1> QED BY <1>4, <1>5 DEF buf, cap, head, len, old, size

(* The bytes of a push come after those there are.                           *)
LEMMA WrittenContent ==
  ASSUME NEW r, SoundRing(r), NEW d \in Seq(Data), Len(d) # 0, r.len + Len(d) <= r.cap,
         NEW s \in RingRecords, s.buf = Written(r, d), s.len = r.len + Len(d),
         s.cap = r.cap, s.head = r.head, s.size = r.size, s.max_cap = r.max_cap,
         s.secure = r.secure
  PROVE  SoundRing(s) /\ Content(s) = Content(r) \o d
<1> DEFINE n == Len(d)
           buf == s.buf
           cap == r.cap
           head == r.head
           len == r.len
           old == r.buf
<1>1. /\ cap \in Nat \ {0} /\ r.size \in Nat /\ r.max_cap \in Nat
      /\ len \in 0..cap /\ head \in 0..(cap - 1) /\ cap <= r.size
      /\ old \in [0..(r.size - 1) -> Byte]
  BY RingNumbers DEF SoundRing
<1>2. n \in Nat \ {0} /\ len + n <= cap
  OBVIOUS
<1>4. \A i : Slot(r, i) = At(head, cap, i)
  BY DEF Slot, At
<1>6. /\ buf \in [0..(r.size - 1) -> Byte]
      /\ \A i \in 0..(len - 1) : buf[At(head, cap, i)] = old[At(head, cap, i)]
      /\ \A i \in 0..(n - 1) : buf[At(head, cap, len + i)] = d[i + 1]
      /\ \A j \in 0..(r.size - 1) :
           buf[j] = old[j] \/ \E i \in 0..(len + n - 1) : At(head, cap, i) = j
  BY WrittenIs
<1>9. \A i : Slot(s, i) = At(head, cap, i)
  BY DEF Slot, At
<1>8. s.len = len + n
  OBVIOUS
<1>7. Content(s) = [i \in 1..(len + n) |-> buf[At(head, cap, i - 1)]]
  <2>1. s.len \in Nat
    BY <1>1, <1>2
  <2>2. Content(s) = [i \in 1..s.len |-> s.buf[Slot(s, i - 1)]]
    BY <2>1, ContentIs
  <2> QED BY <1>9, <2>2
<1>10. n = Len(d)
  OBVIOUS
<1>11. InBlock(s)
  <2>1. r.max_cap = SIZE_MAX \/ cap <= r.max_cap
    BY DEF SoundRing, InBlock
  <2>2. DOMAIN buf = 0..(r.size - 1)
    BY <1>6
  <2> QED BY <1>1, <1>2, <1>8, <2>1, <2>2 DEF InBlock
<1> HIDE DEF n, buf, cap, head, len, old
<1>12. Content(s) = Content(r) \o d
  <2> DEFINE c == Content(r)
             e == Content(s)
  <2>1. c = [i \in 1..len |-> old[At(head, cap, i - 1)]] /\ c \in Seq(Data) /\ Len(c) = len
    BY <1>1, <1>4, ContentIs DEF SoundRing, len, old
  <2>2. e = [i \in 1..(len + n) |-> buf[At(head, cap, i - 1)]]
    BY <1>7
  <2> HIDE DEF c, e
  <2>3. ASSUME NEW i \in 1..len PROVE e[i] = c[i]
    <3>1. i - 1 \in 0..(len - 1) /\ i \in 1..(len + n)
      BY <1>1, <1>2
    <3>2. buf[At(head, cap, i - 1)] = old[At(head, cap, i - 1)]
      BY <1>6, <3>1
    <3> QED BY <2>1, <2>2, <3>1, <3>2
  <2>4. ASSUME NEW i \in 1..n PROVE e[len + i] = d[i]
    <3>1. i - 1 \in 0..(n - 1) /\ len + (i - 1) = (len + i) - 1 /\ (i - 1) + 1 = i
          /\ len + i \in 1..(len + n)
      BY <1>1, <1>2
    <3>2. buf[At(head, cap, len + (i - 1))] = d[(i - 1) + 1]
      BY <1>6, <1>10, <3>1
    <3>3. e[len + i] = buf[At(head, cap, (len + i) - 1)]
      BY <2>2, <3>1
    <3> QED BY <3>1, <3>2, <3>3
  <2>5. e \in [1..(len + n) -> Data]
    <3> SUFFICES ASSUME NEW i \in 1..(len + n) PROVE e[i] \in Data
      BY <2>2
    <3>1. CASE i <= len
      <4>1. i \in 1..len
        BY <1>1, <3>1
      <4>2. c[i] \in Data
        BY <2>1, <4>1, ElementOfSeq
      <4> QED BY <2>3, <4>1, <4>2
    <3>2. CASE i > len
      <4> DEFINE k == i - len
      <4>1. k \in 1..n /\ i = len + k
        BY <1>1, <1>2, <3>2
      <4> HIDE DEF k
      <4>2. d[k] \in Data
        BY <1>10, <4>1, ElementOfSeq
      <4> QED BY <2>4, <4>1, <4>2
    <3> QED BY <1>1, <3>1, <3>2
  <2>6. /\ e \in [1..(Len(c) + Len(d)) -> Data] /\ \A i \in 1..Len(c) : e[i] = c[i]
        /\ \A i \in 1..Len(d) : e[Len(c) + i] = d[i]
    <3>1. Len(c) = len
      BY <2>1
    <3> QED BY <1>10, <2>3, <2>4, <2>5, <3>1, Zenon
  <2>7. e = c \o d
    <3>1. c \in Seq(Data)
      BY <2>1
    <3> QED BY <2>6, <3>1, Joined, Zenon
  <2> QED BY <2>7 DEF e, c
<1>13. Content(s) \in Seq(Data)
  <2>1. Content(r) \in Seq(Data)
    BY DEF SoundRing
  <2>2. Content(r) \o d \in Seq(Data)
    BY <2>1, ConcatProperties
  <2> QED BY <1>12, <2>2
<1>14. s.secure => Scrubbed(s)
  <2> SUFFICES ASSUME r.secure, NEW j \in DOMAIN s.buf
               PROVE  s.buf[j] \in {0, Junk} \/ \E i \in 0..(s.len - 1) : Slot(s, i) = j
    BY DEF Scrubbed
  <2>3. SUFFICES buf[j] \in {0, Junk} \/ \E i \in 0..(len + n - 1) : At(head, cap, i) = j
    <3>1. \A i : Slot(s, i) = j <=> At(head, cap, i) = j
      BY <1>9
    <3>2. \A i : i \in 0..(s.len - 1) <=> i \in 0..(len + n - 1)
      BY <1>1, <1>2, <1>8
    <3> QED BY <2>3, <3>1, <3>2, Zenon DEF buf
  <2>4. j \in 0..(r.size - 1)
    BY <1>6 DEF buf
  <2>1. CASE \E i \in 0..(len + n - 1) : At(head, cap, i) = j
    BY <2>1
  <2>2. CASE buf[j] = old[j]
    <3>1. old[j] \in {0, Junk} \/ \E i \in 0..(len - 1) : At(head, cap, i) = j
      <4>1. j \in DOMAIN r.buf /\ Scrubbed(r)
        BY <1>1, <2>4 DEF SoundRing, old
      <4> QED BY <1>4, <4>1 DEF Scrubbed, len, old
    <3>2. \A i \in 0..(len - 1) : i \in 0..(len + n - 1)
      BY <1>1, <1>2
    <3> QED BY <2>2, <3>1, <3>2
  <2> QED BY <1>6, <2>1, <2>2, <2>4
<1> QED BY <1>6, <1>11, <1>12, <1>13, <1>14 DEF SoundRing, buf

(* mem_buffer_push adds all the bytes or leaves the content as it is.        *)
LEMMA PushAdds ==
  ASSUME NEW a, Sound(a), NEW d \in Seq(Data), NEW alloc \in BOOLEAN
  PROVE  LET b == Push(a, d, alloc).m
         IN /\ Sound(b) /\ Presses(a, b)
            /\ MaxHeap # 0 => b.heap - b.ring.cap = a.heap - a.ring.cap
            /\ Content(b.ring) \in {Content(a.ring), Content(a.ring) \o d}
<1> DEFINE grown == MaybeGrow(a, Len(d), alloc)
           g == grown.m
           r == g.ring
           s == [r EXCEPT !.buf = Written(r, d), !.len = @ + Len(d)]
           b == [g EXCEPT !.ring = s]
<1>1. a.eth \in Levels /\ a.ring.shrink_stage \in Nat /\ a.heap \in Nat /\ a.ring.cap \in Nat
  BY RingNumbers DEF Sound, MemRecords
<1>2. CASE Len(d) = 0
  <2>1. Push(a, d, alloc) = Failed(a)
    BY <1>2 DEF Push
  <2> QED BY <1>1, <2>1, LevelsAre DEF Failed, Presses
<1>3. CASE Len(d) # 0
  <2>1. Len(d) \in Nat \ {0}
    BY <1>3
  <2>2. /\ Follows(a, g) /\ Presses(a, g) /\ grown.ok \in BOOLEAN
        /\ grown.ok => a.ring.len + Len(d) <= r.cap
    BY <2>1, GrowFollows
  <2>3. CASE ~grown.ok
    <3>1. Push(a, d, alloc) = grown
      BY <1>3, <2>3 DEF Push
    <3> HIDE DEF grown
    <3> QED BY <2>2, <3>1 DEF Follows
  <2>4. CASE grown.ok
    <3>1. Push(a, d, alloc) = Done([g EXCEPT !.ring.buf = Written(r, d), !.ring.len = @ + Len(d)])
      BY <1>3, <2>4 DEF Push
    <3> HIDE DEF grown
    <3>2. g \in MemRecords /\ SoundRing(r) /\ r.len = a.ring.len /\ r \in RingRecords
      BY <2>2 DEF Follows, Sound, SoundRing
    <3>3. [g EXCEPT !.ring.buf = Written(r, d), !.ring.len = @ + Len(d)] = b
      BY <3>2 DEF MemRecords, RingRecords
    <3>4. r.len + Len(d) <= r.cap /\ r.len + Len(d) \in Nat
      BY <2>1, <2>2, <2>4, <3>2, RingNumbers
    <3>5. /\ SoundRing(s) /\ Content(s) = Content(r) \o d /\ s \in RingRecords
          /\ s.cap = r.cap /\ s.shrink_stage = r.shrink_stage
      <4> DEFINE buf == Written(r, d)
                 len == r.len + Len(d)
      <4> HIDE DEF r
      <4>1. buf \in Blocks
        BY <1>3, <3>2, <3>4, WrittenIs
      <4>2. s = [r EXCEPT !.buf = buf, !.len = len] /\ len \in Nat
        BY <3>4
      <4> HIDE DEF buf, len, s
      <4>3. /\ s \in RingRecords /\ s.buf = buf /\ s.len = len /\ s.cap = r.cap
            /\ s.head = r.head /\ s.size = r.size /\ s.max_cap = r.max_cap
            /\ s.secure = r.secure /\ s.shrink_stage = r.shrink_stage
        BY <3>2, <4>1, <4>2 DEF RingRecords
      <4>4. s.buf = Written(r, d) /\ s.len = r.len + Len(d)
        BY <4>3 DEF buf, len
      <4>5. SoundRing(s) /\ Content(s) = Content(r) \o d
        BY <1>3, <3>2, <3>4, <4>3, <4>4, WrittenContent
      <4> QED BY <4>3, <4>5
    <3> HIDE DEF s
    <3>6. b \in MemRecords /\ b.ring = s /\ b.heap = g.heap /\ b.eth = g.eth
      BY <3>2, <3>5 DEF MemRecords
    <3> HIDE DEF b
    <3>7. Sound(b) /\ (MaxHeap # 0 => b.heap - b.ring.cap = a.heap - a.ring.cap)
      BY <2>2, <3>5, <3>6 DEF Sound, Follows
    <3>8. Presses(a, b)
      BY <2>2, <3>5, <3>6 DEF Presses
    <3>9. Content(b.ring) = Content(a.ring) \o d
      BY <2>2, <3>5, <3>6 DEF Follows
    <3> QED BY <3>1, <3>3, <3>7, <3>8, <3>9 DEF Done
  <2> QED BY <2>2, <2>3, <2>4
<1> QED BY <1>2, <1>3
------------------------------------------------------------------------------
(* mem_buffer_pop                                                            *)

(* Where the memsets of a pop write zeros: the slots of the popped bytes.    *)
LEMMA ScrubbedSlots ==
  ASSUME NEW cap \in Nat \ {0}, NEW head \in 0..(cap - 1), NEW n \in 0..cap,
         NEW j \in 0..(cap - 1)
  PROVE  (\/ j >= head /\ j < head + Smaller(cap - head, n)
          \/ j < n - Smaller(cap - head, n))
           <=> \E i \in 0..(n - 1) : At(head, cap, i) = j
<1>1. CASE j >= head
  <2>1. j - head \in Nat /\ At(head, cap, j - head) = j
    BY <1>1 DEF At
  <2>2. \A i \in 0..(n - 1) : At(head, cap, i) = j => i = j - head
    BY <1>1 DEF At
  <2>3. (\/ j >= head /\ j < head + Smaller(cap - head, n)
         \/ j < n - Smaller(cap - head, n)) <=> j - head < n
    BY <1>1 DEF Smaller
  <2>4. j - head < n => j - head \in 0..(n - 1)
    BY <2>1
  <2> QED BY <2>1, <2>2, <2>3, <2>4
<1>2. CASE j < head
  <2>1. j + cap - head \in Nat /\ At(head, cap, j + cap - head) = j
    BY <1>2 DEF At
  <2>2. \A i \in 0..(n - 1) : At(head, cap, i) = j => i = j + cap - head
    BY <1>2 DEF At
  <2>3. (\/ j >= head /\ j < head + Smaller(cap - head, n)
         \/ j < n - Smaller(cap - head, n)) <=> j + cap - head < n
    BY <1>2 DEF Smaller
  <2>4. j + cap - head < n => j + cap - head \in 0..(n - 1)
    BY <2>1
  <2> QED BY <2>1, <2>2, <2>3, <2>4
<1> QED BY <1>1, <1>2

(* Different bytes of the content are in different slots.                    *)
LEMMA SlotsApart ==
  ASSUME NEW cap \in Nat \ {0}, NEW head \in 0..(cap - 1),
         NEW i \in 0..(cap - 1), NEW k \in 0..(cap - 1), At(head, cap, i) = At(head, cap, k)
  PROVE  i = k
BY DEF At

(* The block after a pop of n bytes of a secure ring.                        *)
ScrubAt(head, cap, size, old, n) ==
  [j \in 0..(size - 1) |->
     IF \/ j >= head /\ j < head + Smaller(cap - head, n)
        \/ j < n - Smaller(cap - head, n)
     THEN 0 ELSE old[j]]

Wiped(head, cap, len, size, old, n, new) ==
  /\ new \in [0..(size - 1) -> Byte]
  /\ \A i \in n..(len - 1) : new[At(head, cap, i)] = old[At(head, cap, i)]
  /\ \A j \in 0..(size - 1) :
       new[j] = 0 \/ (new[j] = old[j] /\ \A i \in 0..(n - 1) : At(head, cap, i) # j)

(* What the scrubbing of popped bytes leaves in it.                          *)
LEMMA ScrubBlock ==
  ASSUME NEW cap \in Nat \ {0}, NEW head \in 0..(cap - 1), NEW len \in 0..cap,
         NEW n \in 0..len, NEW size \in Nat, cap <= size,
         NEW old \in [0..(size - 1) -> Byte],
         NEW new, new = ScrubAt(head, cap, size, old, n)
  PROVE  Wiped(head, cap, len, size, old, n, new)
<1> DEFINE Hit(j) == \/ j >= head /\ j < head + Smaller(cap - head, n)
                     \/ j < n - Smaller(cap - head, n)
<1>1. new = [j \in 0..(size - 1) |-> IF Hit(j) THEN 0 ELSE old[j]]
  BY DEF ScrubAt
<1>2. \A j \in 0..(size - 1) : Hit(j) => j \in 0..(cap - 1)
  BY DEF Smaller
<1>3. \A j \in 0..(cap - 1) : Hit(j) <=> \E i \in 0..(n - 1) : At(head, cap, i) = j
  BY ScrubbedSlots
<1> HIDE DEF Hit
<1>4. \A i \in 0..(cap - 1) : At(head, cap, i) \in 0..(cap - 1)
  BY DEF At
<1>5. new \in [0..(size - 1) -> Byte]
  BY <1>1, MemBufferAssumption DEF Byte
<1>6. ASSUME NEW i \in n..(len - 1) PROVE new[At(head, cap, i)] = old[At(head, cap, i)]
  <2> DEFINE p == At(head, cap, i)
  <2>1. i \in 0..(cap - 1) /\ \A k \in 0..(n - 1) : k \in 0..(cap - 1) /\ k # i
    OBVIOUS
  <2>2. p \in 0..(cap - 1)
    BY <1>4, <2>1
  <2>3. \A k \in 0..(n - 1) : At(head, cap, k) # p
    BY <2>1, SlotsApart
  <2> HIDE DEF p
  <2>4. ~Hit(p) /\ p \in 0..(size - 1)
    BY <1>3, <2>2, <2>3
  <2>5. new[p] = old[p]
    BY <1>1, <2>4
  <2> QED BY <2>5 DEF p
<1>7. ASSUME NEW j \in 0..(size - 1)
      PROVE  new[j] = 0 \/ (new[j] = old[j] /\ \A i \in 0..(n - 1) : At(head, cap, i) # j)
  <2>1. CASE Hit(j)
    BY <1>1, <2>1
  <2>2. CASE ~Hit(j)
    <3>1. \A i \in 0..(n - 1) : At(head, cap, i) \in 0..(cap - 1)
      BY <1>4
    <3> QED BY <1>1, <1>3, <2>2, <3>1
  <2> QED BY <2>1, <2>2
<1> QED BY <1>5, <1>6, <1>7 DEF Wiped

(* The rest of a sequence.                                                   *)
LEMMA Remaining ==
  ASSUME NEW S, NEW c \in Seq(S), NEW n \in 0..Len(c),
         NEW f \in [1..(Len(c) - n) -> S], \A i \in 1..(Len(c) - n) : f[i] = c[n + i]
  PROVE  f = SubSeq(c, n + 1, Len(c))
<1>1. SubSeq(c, n + 1, Len(c)) = [i \in 1..(Len(c) - n) |-> c[n + i]]
  OBVIOUS
<1> QED BY <1>1

(* What a pop leaves: the content without its first n bytes, and in secure    *)
(* mode nothing of those.                                                    *)
LEMMA PoppedSound ==
  ASSUME NEW r, SoundRing(r), NEW n \in 1..r.len
  PROVE  LET s == Popped(r, n)
         IN /\ SoundRing(s) /\ Content(s) = SubSeq(Content(r), n + 1, r.len)
            /\ s.len = r.len - n /\ s.cap = r.cap /\ s.step = r.step /\ s.lock = r.lock
            /\ s.shrink_stage = r.shrink_stage
<1> DEFINE s == Popped(r, n)
           buf == IF r.secure THEN Scrub(r, n) ELSE r.buf
           h == (r.head + n) % r.cap
           cap == r.cap
           head == r.head
           len == r.len
           old == r.buf
           size == r.size
           rest == len - n
<1>1. /\ cap \in Nat \ {0} /\ size \in Nat /\ r.max_cap \in Nat
      /\ len \in 0..cap /\ head \in 0..(cap - 1) /\ cap <= size
      /\ old \in [0..(size - 1) -> Byte] /\ r \in RingRecords
      /\ n \in 0..cap /\ n \in 0..len /\ n # 0 /\ r.secure \in BOOLEAN
  BY RingNumbers DEF SoundRing
<1>2. buf = IF r.secure THEN ScrubAt(head, cap, size, old, n) ELSE old
  BY DEF Scrub, ScrubAt
<1>3. \A i : Slot(r, i) = At(head, cap, i)
  BY DEF Slot, At
<1>4. /\ Content(r) = [i \in 1..len |-> old[At(head, cap, i - 1)]] /\ Content(r) \in Seq(Data)
      /\ Len(Content(r)) = len
  BY <1>1, <1>3, ContentIs DEF SoundRing
<1>5. (r.max_cap = SIZE_MAX \/ cap <= r.max_cap) /\ (r.secure => Scrubbed(r))
  BY DEF SoundRing, InBlock
<1>6. s = [r EXCEPT !.buf = buf, !.head = h, !.len = rest]
  BY DEF Popped
<1>7. rest \in Nat /\ rest <= cap
  BY <1>1
<1> HIDE DEF buf, cap, head, len, old, size
<1>8. /\ buf \in [0..(size - 1) -> Byte]
      /\ \A i \in n..(len - 1) : buf[At(head, cap, i)] = old[At(head, cap, i)]
  <2>1. CASE r.secure
    <3>1. Wiped(head, cap, len, size, old, n, buf)
      BY <1>1, <1>2, <2>1, ScrubBlock, Zenon
    <3> QED BY <3>1 DEF Wiped
  <2>2. CASE ~r.secure
    BY <1>1, <1>2, <2>2
  <2> QED BY <1>1, <2>1, <2>2
<1>9. buf \in Blocks
  BY <1>1, <1>8, BlockIn
<1>10. h \in 0..(cap - 1) /\ \A i \in 0..(rest - 1) : At(h, cap, i) = At(head, cap, n + i)
  <2>1. (head + n) % cap = At(head, cap, n) /\ At(head, cap, n) \in 0..(cap - 1)
    <3> DEFINE x == head + n
    <3>1. x \in Nat /\ x < 2 * cap
      BY <1>1
    <3>2. At(head, cap, n) = IF x < cap THEN x ELSE x - cap
      BY <1>1 DEF At
    <3>3. At(head, cap, n) \in 0..(cap - 1)
      BY <1>1 DEF At
    <3> HIDE DEF x
    <3>4. x % cap = At(head, cap, n)
      BY <1>1, <3>1, <3>2, ModOnce
    <3> QED BY <3>3, <3>4 DEF x
  <2>2. h = At(head, cap, n)
    BY <2>1 DEF head, cap
  <2> HIDE DEF h
  <2>3. ASSUME NEW i \in 0..(rest - 1) PROVE At(At(head, cap, n), cap, i) = At(head, cap, n + i)
    BY <1>1 DEF At
  <2> QED BY <2>1, <2>2, <2>3
<1> HIDE DEF h, rest
<1>11. /\ s \in RingRecords /\ s.buf = buf /\ s.head = h /\ s.len = rest /\ s.cap = r.cap
       /\ s.size = r.size /\ s.max_cap = r.max_cap /\ s.secure = r.secure
       /\ s.shrink_stage = r.shrink_stage /\ s.step = r.step /\ s.lock = r.lock
  <2>1. h \in Nat
    BY <1>1, <1>10
  <2> HIDE DEF s
  <2> QED BY <1>1, <1>6, <1>7, <1>9, <2>1 DEF RingRecords
<1> HIDE DEF s
<1>12. s.cap = cap /\ s.size = size
  BY <1>11 DEF cap, size
<1>13. InBlock(s)
  <2>1. DOMAIN buf = 0..(size - 1)
    BY <1>8
  <2> QED BY <1>1, <1>5, <1>7, <1>10, <1>11, <1>12, <2>1 DEF InBlock
<1>14. \A i : Slot(s, i) = At(h, cap, i)
  BY <1>11, <1>12 DEF Slot, At
<1>15. rest = len - n
  BY DEF rest
<1>16. Content(s) \in Seq(Data) /\ Content(s) = SubSeq(Content(r), n + 1, len)
  <2> DEFINE c == Content(r)
             e == Content(s)
  <2>1. e = [i \in 1..rest |-> buf[At(h, cap, i - 1)]]
    <3>1. e = [i \in 1..s.len |-> s.buf[Slot(s, i - 1)]]
      BY <1>7, <1>11, ContentIs
    <3>2. \A i : s.buf[Slot(s, i - 1)] = buf[At(h, cap, i - 1)]
      BY <1>11, <1>14
    <3> QED BY <1>11, <3>1, <3>2
  <2>2. c \in Seq(Data) /\ Len(c) = len
    BY <1>4
  <2>3. \A i \in 1..len : c[i] = old[At(head, cap, i - 1)] /\ c[i] \in Data
    BY <1>4, <2>2, ElementOfSeq
  <2> HIDE DEF c, e
  <2>4. ASSUME NEW i \in 1..rest PROVE e[i] = c[n + i] /\ c[n + i] \in Data
    <3>1. /\ i - 1 \in 0..(rest - 1) /\ n + (i - 1) = (n + i) - 1 /\ n + i \in 1..len
          /\ n + (i - 1) \in n..(len - 1)
      BY <1>1, <1>15
    <3>2. At(h, cap, i - 1) = At(head, cap, n + (i - 1))
      BY <1>10, <3>1
    <3>3. buf[At(head, cap, n + (i - 1))] = old[At(head, cap, n + (i - 1))]
      BY <1>8, <3>1
    <3>4. c[n + i] = old[At(head, cap, (n + i) - 1)] /\ c[n + i] \in Data
      BY <2>3, <3>1
    <3>5. e[i] = buf[At(h, cap, i - 1)]
      BY <2>1
    <3> QED BY <3>1, <3>2, <3>3, <3>4, <3>5
  <2>5. e \in [1..rest -> Data]
    <3>1. \A i \in 1..rest : e[i] \in Data
      BY <2>4
    <3> QED BY <2>1, <3>1
  <2>6. e \in Seq(Data)
    BY <1>7, <2>5
  <2>7. /\ n \in 0..Len(c) /\ e \in [1..(Len(c) - n) -> Data]
        /\ \A i \in 1..(Len(c) - n) : e[i] = c[n + i]
    BY <1>1, <1>15, <2>2, <2>4, <2>5, Zenon
  <2>8. e = SubSeq(c, n + 1, Len(c))
    BY <2>2, <2>7, Remaining, Zenon
  <2> QED BY <2>2, <2>6, <2>8 DEF e, c
<1>17. s.secure => Scrubbed(s)
  <2> SUFFICES ASSUME r.secure, NEW j \in DOMAIN s.buf
               PROVE  s.buf[j] \in {0, Junk} \/ \E i \in 0..(s.len - 1) : Slot(s, i) = j
    BY <1>11 DEF Scrubbed
  <2>1. SUFFICES buf[j] \in {0, Junk} \/ \E i \in 0..(rest - 1) : At(h, cap, i) = j
    <3>1. \A i : Slot(s, i) = j <=> At(h, cap, i) = j
      BY <1>14
    <3> QED BY <1>11, <2>1, <3>1, Zenon
  <2>2. j \in 0..(size - 1)
    BY <1>8, <1>11
  <2>3. buf[j] = 0 \/ (buf[j] = old[j] /\ \A i \in 0..(n - 1) : At(head, cap, i) # j)
    <3>1. Wiped(head, cap, len, size, old, n, buf)
      BY <1>1, <1>2, ScrubBlock, Zenon
    <3> QED BY <2>2, <3>1 DEF Wiped
  <2>4. old[j] \in {0, Junk} \/ \E i \in 0..(len - 1) : At(head, cap, i) = j
    <3>1. j \in DOMAIN r.buf /\ Scrubbed(r)
      BY <1>1, <1>5, <2>2 DEF old
    <3> QED BY <1>3, <3>1 DEF Scrubbed, len, old
  <2>5. ASSUME NEW i \in 0..(len - 1), At(head, cap, i) = j, i \notin 0..(n - 1)
        PROVE  \E k \in 0..(rest - 1) : At(h, cap, k) = j
    <3>1. i - n \in 0..(rest - 1) /\ n + (i - n) = i
      BY <1>1, <1>15, <2>5
    <3>2. At(h, cap, i - n) = At(head, cap, n + (i - n))
      BY <1>10, <3>1
    <3> QED BY <2>5, <3>1, <3>2
  <2> QED BY <2>3, <2>4, <2>5
<1>18. SoundRing(s)
  BY <1>8, <1>11, <1>12, <1>13, <1>16, <1>17 DEF SoundRing
<1> QED BY <1>11, <1>15, <1>16, <1>18 DEF s, len
------------------------------------------------------------------------------
(* mem_buffer_maybe_shrink, mem_pressure_maybe_clear and mem_buffer_pop      *)

(* The hold time of a shrink stage is a number.                              *)
LEMMA HoldIn ==
  ASSUME NEW stage \in Nat
  PROVE  HoldForStage(stage) \in Nat
<1> DEFINE k == Smaller(stage, 15)
<1>1. k \in 0..15
  BY DEF Smaller
<1> HIDE DEF k
<1>2. /\ 2^0 \in Nat /\ 2^1 \in Nat /\ 2^2 \in Nat /\ 2^3 \in Nat
      /\ 2^4 \in Nat /\ 2^5 \in Nat /\ 2^6 \in Nat /\ 2^7 \in Nat
  OBVIOUS
<1>3. /\ 2^8 \in Nat /\ 2^9 \in Nat /\ 2^10 \in Nat /\ 2^11 \in Nat
      /\ 2^12 \in Nat /\ 2^13 \in Nat /\ 2^14 \in Nat /\ 2^15 \in Nat
  OBVIOUS
<1>4. \/ k = 0 \/ k = 1 \/ k = 2 \/ k = 3 \/ k = 4 \/ k = 5 \/ k = 6 \/ k = 7
      \/ k = 8 \/ k = 9 \/ k = 10 \/ k = 11 \/ k = 12 \/ k = 13 \/ k = 14 \/ k = 15
  BY <1>1
<1>5. 2^k \in Nat
  BY <1>2, <1>3, <1>4, Zenon
<1> DEFINE p == 2^k
<1> HIDE DEF p
<1>6. p \in Nat
  BY <1>5 DEF p
<1>7. (Hold * p) % UINT16 \in Nat
  BY <1>6 DEF Hold, UINT16
<1> QED BY <1>7 DEF HoldForStage, p, k

(* A ring with other numbers for the same bytes.                             *)
LEMMA TunedFollows ==
  ASSUME NEW a, Sound(a), NEW s \in RingRecords, SameBytes(a.ring, s),
         NEW b, b = [a EXCEPT !.ring = s]
  PROVE  Follows(a, b) /\ b.ring = s /\ b.eth = a.eth /\ b.heap = a.heap /\ b \in MemRecords
<1>1. b \in MemRecords /\ b.ring = s /\ b.eth = a.eth /\ b.heap = a.heap
  BY DEF Sound, MemRecords
<1> QED BY <1>1, SameFollows

(* A shrink keeps the content and gives the bytes of the block it frees back, *)
(* and only a failed one may pass to the next stage.                         *)
LEMMA ShrinkFollows ==
  ASSUME NEW a, Sound(a), a.ring.len < a.ring.cap, NEW wrapped \in BOOLEAN,
         NEW alloc \in BOOLEAN
  PROVE  LET b == MaybeShrink(a, wrapped, alloc)
         IN /\ Follows(a, b)
            /\ b.ring.shrink_stage \in {0, 1, a.ring.shrink_stage}
               \/ (~alloc /\ b.ring.shrink_stage <= a.ring.shrink_stage + 1)
<1> DEFINE r == a.ring
           full == r.len > ThresholdBytes(r.cap, r.shrink_threshold_pct)
           hit == (r.shrink_hits + 1) % UINT16
           r0 == [r EXCEPT !.shrink_hits = hit]
           m0 == [a EXCEPT !.ring = r0]
           new_cap == Larger(r.cap - r.step, r.len)
           m1 == Resize(m0, new_cap, alloc).m
           stage == (m1.ring.shrink_stage + 1) % 256
           considered == /\ ~r.lock /\ r.step # 0 /\ r.cap > r.step
                         /\ wrapped /\ r.head = 0
           b == MaybeShrink(a, wrapped, alloc)
           c1 == considered /\ full
           c2 == considered /\ ~full /\ hit < r.shrink_hold_next
           c3 == considered /\ ~full /\ hit >= r.shrink_hold_next
           r2 == [r EXCEPT !.shrink_hits = 0, !.shrink_stage = 0, !.shrink_hold_next = Hold]
           r3 == [m1.ring EXCEPT !.shrink_hits = 0, !.shrink_stage = stage,
                                 !.shrink_hold_next = HoldForStage(stage)]
<1>1. /\ a \in MemRecords /\ r \in RingRecords /\ SoundRing(r)
  BY DEF Sound, SoundRing
<1>2. /\ r.cap \in Nat \ {0} /\ r.len \in Nat /\ r.step \in Nat /\ r.shrink_hits \in Nat
      /\ r.shrink_stage \in Nat
  BY <1>1, RingNumbers
<1>3. hit \in Nat
  BY <1>2 DEF UINT16
<1>4. Follows(a, a)
  BY DEF Follows, Sound
<1>5. /\ [a EXCEPT !.ring.shrink_hits = hit] = m0
      /\ [a EXCEPT !.ring.shrink_hits = 0, !.ring.shrink_stage = 0,
                   !.ring.shrink_hold_next = Hold] = [a EXCEPT !.ring = r2]
  <2> HIDE DEF hit
  <2> QED BY <1>1 DEF MemRecords, RingRecords
<1>6. b = CASE c1 -> [a EXCEPT !.ring = r2]
            [] c2 -> m0
            [] c3 -> [m1 EXCEPT !.ring.shrink_hits = 0, !.ring.shrink_stage = stage,
                                !.ring.shrink_hold_next = HoldForStage(stage)]
            [] OTHER -> a
  BY <1>5, Zenon DEF MaybeShrink
<1>7. c1 \in BOOLEAN /\ c2 \in BOOLEAN /\ c3 \in BOOLEAN /\ ~(c1 /\ c2) /\ ~(c1 /\ c3)
  BY Zenon
<1>8. ~(c2 /\ c3)
  BY <1>1, <1>3 DEF RingRecords
<1>9. /\ r0 \in RingRecords /\ SameBytes(r, r0) /\ r0.shrink_stage = r.shrink_stage
  <2> HIDE DEF hit
  <2> QED BY <1>1, <1>3 DEF RingRecords, SameBytes
<1>10. /\ r2 \in RingRecords /\ SameBytes(r, r2) /\ r2.shrink_stage = 0
  BY <1>1 DEF RingRecords, SameBytes, Hold
<1> HIDE DEF r0, r2
<1>11. Follows(a, m0) /\ m0.ring = r0
  BY <1>9, TunedFollows
<1>12. CASE c1
  <2>1. b = [a EXCEPT !.ring = r2]
    BY <1>6, <1>7, <1>8, <1>12, Zenon
  <2> HIDE DEF b
  <2>2. Follows(a, b) /\ b.ring = r2
    BY <1>10, <2>1, TunedFollows
  <2> QED BY <1>10, <2>2 DEF b
<1>13. CASE c2
  <2>1. b = m0
    BY <1>6, <1>7, <1>8, <1>13, Zenon
  <2> QED BY <1>9, <1>11, <2>1, Zenon
<1>14. CASE c3
  <2>1. b = [m1 EXCEPT !.ring.shrink_hits = 0, !.ring.shrink_stage = stage,
                       !.ring.shrink_hold_next = HoldForStage(stage)]
    BY <1>6, <1>7, <1>8, <1>14, Zenon
  <2>2. ~r.lock /\ new_cap \in Nat \ {0} /\ new_cap < r.cap /\ new_cap >= r.len
    BY <1>2, <1>14 DEF Larger
  <2>3. /\ Sound(m0) /\ m0.ring.cap = r.cap /\ m0.ring.len = r.len /\ m0.ring.lock = r.lock
        /\ m0.ring.shrink_stage = r.shrink_stage
    BY <1>9, <1>11 DEF Follows, SameBytes
  <2> HIDE DEF m0, new_cap, hit
  <2>4. /\ Follows(m0, m1) /\ m1.ring.shrink_stage <= r.shrink_stage
        /\ alloc => m1.ring.shrink_stage = 0
    BY <2>2, <2>3, ResizeFollows DEF Presses
  <2> HIDE DEF m1
  <2>5. /\ Sound(m1) /\ m1 \in MemRecords /\ m1.ring \in RingRecords /\ m1.ring.shrink_stage \in Nat
    BY <2>4 DEF Follows, Sound, SoundRing, RingRecords
  <2>6. /\ stage \in Nat /\ stage <= m1.ring.shrink_stage + 1
        /\ m1.ring.shrink_stage = 0 => stage = 1
    BY <2>5
  <2>7. HoldForStage(stage) \in Nat
    BY <2>6, HoldIn
  <2> HIDE DEF stage
  <2>8. b = [m1 EXCEPT !.ring = r3]
    BY <2>1, <2>5 DEF MemRecords, RingRecords
  <2>9. /\ r3 \in RingRecords /\ SameBytes(m1.ring, r3) /\ r3.shrink_stage = stage
    <3> DEFINE hold == HoldForStage(stage)
    <3> HIDE DEF hold
    <3>1. hold \in Nat /\ r3 = [m1.ring EXCEPT !.shrink_hits = 0, !.shrink_stage = stage,
                                               !.shrink_hold_next = hold]
      BY <2>7 DEF hold
    <3> HIDE DEF r3
    <3> QED BY <2>5, <2>6, <3>1 DEF RingRecords, SameBytes
  <2> HIDE DEF r3, b
  <2>10. Follows(m1, b) /\ b.ring = r3
    BY <2>5, <2>8, <2>9, TunedFollows
  <2>11. Follows(a, b)
    BY <1>11, <2>4, <2>10, FollowsTransitive
  <2>12. b.ring.shrink_stage = stage
    BY <2>9, <2>10
  <2>13. alloc => stage = 1
    BY <2>4, <2>6
  <2>14. stage <= r.shrink_stage + 1
    BY <1>2, <2>4, <2>5, <2>6
  <2> QED BY <2>11, <2>12, <2>13, <2>14 DEF b
<1>15. CASE ~c1 /\ ~c2 /\ ~c3
  <2>1. b = a
    BY <1>6, <1>7, <1>15, Zenon
  <2> QED BY <1>4, <2>1, Zenon
<1> QED BY <1>12, <1>13, <1>14, <1>15, Zenon

(* The relief after a pop.                                                   *)
LEMMA ClearFollows ==
  ASSUME NEW a, Sound(a)
  PROVE  /\ Follows(a, MaybeClear(a))
         /\ MaybeClear(a).ring.shrink_stage = a.ring.shrink_stage
<1> DEFINE level == Relief(a.ring.last_pressure_level, RingUsage(a, a.ring.len))
           s == [a.ring EXCEPT !.last_pressure_level = level]
           b == [a EXCEPT !.ring = s]
           c == [b EXCEPT !.eth = level]
           d == MaybeClear(a)
<1>1. a \in MemRecords /\ a.ring \in RingRecords
  BY DEF Sound, SoundRing
<1>2. level \in Levels
  BY ReliefIn
<1>3. d = IF a.ring.owner = "ETH_RX" THEN UpdateEffective(c) ELSE b
  BY <1>1 DEF MaybeClear, MemRecords, RingRecords
<1> HIDE DEF level, d
<1>4. s \in RingRecords /\ SameBytes(a.ring, s) /\ s.shrink_stage = a.ring.shrink_stage
  BY <1>1, <1>2 DEF RingRecords, SameBytes
<1> HIDE DEF s
<1>5. Follows(a, b) /\ b.ring = s /\ b \in MemRecords /\ b.heap = a.heap
  BY <1>4, TunedFollows
<1> HIDE DEF b
<1>6. c \in MemRecords /\ c.ring = s /\ c.heap = a.heap
  BY <1>2, <1>5 DEF MemRecords
<1> HIDE DEF c
<1>7. CASE a.ring.owner = "ETH_RX"
  <2>1. d \in MemRecords /\ d.ring = s /\ d.heap = a.heap
    BY <1>3, <1>6, <1>7, UpdateFields
  <2>2. Follows(a, d)
    BY <1>4, <2>1, SameFollows
  <2> QED BY <1>4, <2>1, <2>2 DEF d
<1>8. CASE a.ring.owner # "ETH_RX"
  BY <1>3, <1>4, <1>5, <1>8 DEF d
<1> QED BY <1>7, <1>8

(* mem_buffer_pop takes the first n bytes.                                   *)
LEMMA PopTakes ==
  ASSUME NEW a, Sound(a), NEW n \in 1..a.ring.len, NEW alloc \in BOOLEAN
  PROVE  LET b == Pop(a, n, alloc)
         IN /\ Sound(b) /\ b.ring.len = a.ring.len - n
            /\ Content(b.ring) = SubSeq(Content(a.ring), n + 1, a.ring.len)
            /\ MaxHeap # 0 => b.heap - b.ring.cap = a.heap - a.ring.cap
            /\ b.ring.shrink_stage \in {0, 1, a.ring.shrink_stage}
               \/ (~alloc /\ b.ring.shrink_stage <= a.ring.shrink_stage + 1)
<1> DEFINE s == Popped(a.ring, n)
           p == [a EXCEPT !.ring = s]
           wrapped == a.ring.head + n >= a.ring.cap
           q == MaybeShrink(p, wrapped, alloc)
           b == Pop(a, n, alloc)
<1>1. b = MaybeClear(q)
  BY Zenon DEF Pop, Then
<1>2. a \in MemRecords /\ SoundRing(a.ring)
  BY DEF Sound
<1>3. /\ SoundRing(s) /\ Content(s) = SubSeq(Content(a.ring), n + 1, a.ring.len)
      /\ s.len = a.ring.len - n /\ s.cap = a.ring.cap
      /\ s.shrink_stage = a.ring.shrink_stage
  BY <1>2, PoppedSound
<1>4. s \in RingRecords
  BY <1>3 DEF SoundRing
<1>5. wrapped \in BOOLEAN /\ a.ring.len <= a.ring.cap /\ a.ring.len \in Nat /\ a.ring.cap \in Nat
  BY <1>2, RingNumbers
<1> HIDE DEF s, wrapped
<1>6. p \in MemRecords /\ p.ring = s /\ p.heap = a.heap
  BY <1>2, <1>4 DEF MemRecords
<1> HIDE DEF p
<1>7. Sound(p) /\ p.ring.len < p.ring.cap
  BY <1>3, <1>5, <1>6 DEF Sound
<1>8. /\ Follows(p, q)
      /\ q.ring.shrink_stage \in {0, 1, p.ring.shrink_stage}
         \/ (~alloc /\ q.ring.shrink_stage <= p.ring.shrink_stage + 1)
  BY <1>5, <1>7, ShrinkFollows
<1> HIDE DEF q, b
<1>9. Follows(q, b) /\ b.ring.shrink_stage = q.ring.shrink_stage
  <2>1. Sound(q)
    BY <1>8 DEF Follows
  <2> QED BY <1>1, <2>1, ClearFollows
<1>10. Follows(p, b)
  BY <1>8, <1>9, FollowsTransitive
<1>11. /\ Sound(b) /\ Content(b.ring) = Content(p.ring) /\ b.ring.len = p.ring.len
       /\ MaxHeap # 0 => b.heap - b.ring.cap = p.heap - p.ring.cap
  BY <1>10 DEF Follows
<1> QED BY <1>3, <1>6, <1>8, <1>9, <1>11 DEF b
------------------------------------------------------------------------------
(* mem_buffer_peek, and the bytes mem_buffer_pop gives                       *)

(* A part of a sequence: n elements, from the one after the first o.         *)
PartOf(c, o, n, f) == f = [i \in 1..n |-> f[i]] /\ \A i \in 1..n : f[i] = c[o + i]

(* A part of a sequence, byte by byte.                                       *)
LEMMA Part ==
  ASSUME NEW S, NEW c \in Seq(S), NEW o \in Nat, NEW n \in Nat, o + n <= Len(c),
         NEW f, PartOf(c, o, n, f)
  PROVE  f = SubSeq(c, o + 1, o + n) /\ f \in Seq(S)
<1>1. SubSeq(c, o + 1, o + n) = [i \in 1..n |-> c[o + i]]
  OBVIOUS
<1>2. f = [i \in 1..n |-> c[o + i]]
  BY Zenon DEF PartOf
<1>3. \A i \in 1..n : c[o + i] \in S
  <2> SUFFICES ASSUME NEW i \in 1..n PROVE c[o + i] \in S
    OBVIOUS
  <2>1. o + i \in 1..Len(c)
    OBVIOUS
  <2> QED BY <2>1, ElementOfSeq
<1>4. f \in Seq(S)
  BY <1>2, <1>3
<1> QED BY <1>1, <1>2, <1>4, Zenon

(* mem_buffer_peek returns that part of the content.                         *)
LEMMA PeekGives ==
  ASSUME NEW r, SoundRing(r), NEW o \in 0..r.len, NEW n \in 1..r.len, o + n <= r.len
  PROVE  /\ Peek(r, o, n) = SubSeq(Content(r), o + 1, o + n)
         /\ Peek(r, o, n) \in Seq(Data)
<1> DEFINE cap == r.cap
           head == r.head
           x == head + o
           h == x % cap
           s == [r EXCEPT !.head = h]
           f == Peek(r, o, n)
           c == Content(r)
<1>1. /\ cap \in Nat \ {0} /\ r.len \in 0..cap /\ head \in 0..(cap - 1) /\ r \in RingRecords
      /\ c \in Seq(Data)
  BY RingNumbers DEF SoundRing
<1>2. c = [i \in 1..r.len |-> r.buf[Slot(r, i - 1)]] /\ Len(c) = r.len
  BY <1>1, ContentIs
<1>3. f = Bytes(s, 0, n)
  BY DEF Peek
<1>4. x \in Nat /\ x < 2 * cap /\ o < cap
  BY <1>1
<1>5. h = IF x < cap THEN x ELSE x - cap
  <2> HIDE DEF x, cap, s
  <2> QED BY <1>1, <1>4, ModOnce
<1> HIDE DEF h
<1>6. s.head = h /\ s.cap = cap /\ s.buf = r.buf
  BY <1>1 DEF RingRecords
<1> HIDE DEF s
<1>7. f = [i \in 1..n |-> r.buf[Slot(s, 0 + i - 1)]]
  BY <1>3, <1>6 DEF Bytes
<1>8. ASSUME NEW i \in 1..n PROVE f[i] = c[o + i]
  <2>1. o + i \in 1..r.len
    BY <1>1
  <2>2. Slot(s, 0 + i - 1) = Slot(r, (o + i) - 1)
    <3>1. Slot(s, 0 + i - 1) = At(h, cap, i - 1)
      BY <1>6 DEF Slot, At
    <3>2. Slot(r, (o + i) - 1) = At(head, cap, (o + i) - 1)
      BY DEF Slot, At
    <3>3. At(h, cap, i - 1) = At(head, cap, (o + i) - 1)
      <4> HIDE DEF cap, head
      <4> QED BY <1>1, <1>4, <1>5, <2>1 DEF At, x
    <3> QED BY <3>1, <3>2, <3>3
  <2>3. f[i] = r.buf[Slot(s, 0 + i - 1)]
    BY <1>7
  <2>4. c[o + i] = r.buf[Slot(r, (o + i) - 1)]
    BY <1>2, <2>1
  <2> QED BY <2>2, <2>3, <2>4
<1>9. f = [i \in 1..n |-> f[i]]
  <2> HIDE DEF f
  <2> QED BY <1>7
<1>10. o \in Nat /\ n \in Nat /\ o + n <= Len(c)
  BY <1>1, <1>2
<1> HIDE DEF f, c
<1>11. f = SubSeq(c, o + 1, o + n) /\ f \in Seq(Data)
  <2>1. PartOf(c, o, n, f)
    BY <1>8, <1>9, Zenon DEF PartOf
  <2> QED BY <1>1, <1>10, <2>1, Part, Zenon
<1> QED BY <1>11 DEF f, c

(* mem_buffer_pop returns its first bytes.                                   *)
LEMMA PopGives ==
  ASSUME NEW r, SoundRing(r), NEW n \in 1..r.len
  PROVE  Bytes(r, 0, n) = SubSeq(Content(r), 1, n) /\ Bytes(r, 0, n) \in Seq(Data)
<1> DEFINE f == Bytes(r, 0, n)
           c == Content(r)
<1>1. r.len \in Nat /\ c \in Seq(Data)
  BY RingNumbers DEF SoundRing
<1>2. c = [i \in 1..r.len |-> r.buf[Slot(r, i - 1)]] /\ Len(c) = r.len
  BY <1>1, ContentIs
<1>3. f = [i \in 1..n |-> r.buf[Slot(r, 0 + i - 1)]]
  BY DEF Bytes
<1>4. \A i \in 1..n : f[i] = c[0 + i]
  <2> SUFFICES ASSUME NEW i \in 1..n PROVE f[i] = c[0 + i]
    OBVIOUS
  <2>1. 0 + i \in 1..r.len /\ 0 + i - 1 = (0 + i) - 1 /\ 0 + i = i
    BY <1>1
  <2> QED BY <1>2, <1>3, <2>1
<1>5. f = [i \in 1..n |-> f[i]]
  BY <1>3
<1>6. 0 \in Nat /\ n \in Nat /\ 0 + n <= Len(c)
  BY <1>1, <1>2
<1> HIDE DEF f, c
<1>7. f = SubSeq(c, 0 + 1, 0 + n) /\ f \in Seq(Data)
  <2>1. PartOf(c, 0, n, f)
    BY <1>4, <1>5, Zenon DEF PartOf
  <2> QED BY <1>1, <1>6, <2>1, Part, Zenon
<1>8. 0 + 1 = 1 /\ 0 + n = n
  OBVIOUS
<1> QED BY <1>7, <1>8 DEF f, c

------------------------------------------------------------------------------
(* mem_buffer_create: an empty ring, whose block is at least its capacity.   *)
LEMMA CreatedSound ==
  ASSUME NEW k \in Makes, k.initial # 0, NEW size \in Nat, size >= CreateCap(k)
  PROVE  LET r == Created(k, size)
         IN /\ SoundRing(r) /\ Content(r) = <<>> /\ r.cap = CreateCap(k)
            /\ r.shrink_stage = 0
<1> DEFINE r == Created(k, size)
           cap == CreateCap(k)
           max == Larger(k.max, cap)
           buf == [j \in 0..(size - 1) |-> Junk]
<1>1. cap \in Nat \ {0} /\ max \in Nat /\ cap <= max /\ k.lock \in BOOLEAN /\ k.secure \in BOOLEAN
  BY MemRingAssumption DEF CreateCap, Larger
<1>2. buf \in [0..(size - 1) -> Byte] /\ \A j \in DOMAIN buf : buf[j] = Junk
  BY DEF Byte
<1>3. buf \in Blocks
  BY <1>2, BlockIn
<1>4. r = [owner |-> k.owner, lock |-> k.lock, secure |-> k.secure, cap |-> cap,
           max_cap |-> max, size |-> size, buf |-> buf, len |-> 0, head |-> 0,
           last_pressure_level |-> NONE, step |-> 0, grow_threshold_pct |-> 0,
           shrink_threshold_pct |-> 0, shrink_hold_next |-> Hold, shrink_stage |-> 0,
           shrink_hits |-> 0]
  BY DEF Created
<1>5. cap <= size
  OBVIOUS
<1> HIDE DEF r, cap, max, buf
<1>6. /\ r \in RingRecords /\ r.cap = cap /\ r.max_cap = max /\ r.size = size /\ r.buf = buf
      /\ r.len = 0 /\ r.head = 0 /\ r.shrink_stage = 0
  BY <1>1, <1>3, <1>4, LevelsAre DEF RingRecords, Hold
<1>7. InBlock(r)
  BY <1>1, <1>2, <1>5, <1>6 DEF InBlock
<1>8. Scrubbed(r)
  BY <1>2, <1>6 DEF Scrubbed
<1>9. Content(r) = <<>>
  BY <1>6 DEF Content, Bytes
<1>10. Content(r) \in Seq(Data)
  BY <1>9
<1>11. r.buf \in [0..(r.size - 1) -> Byte]
  BY <1>2, <1>6
<1>12. SoundRing(r)
  BY <1>6, <1>7, <1>8, <1>10, <1>11 DEF SoundRing
<1> QED BY <1>6, <1>9, <1>12 DEF r, cap
------------------------------------------------------------------------------
(* The steps.                                                               *)

(* The inductive invariant: RingOK says nothing of the bytes, and that what  *)
(* pop and peek give are bytes that were pushed rests on all the content     *)
(* being such, never the junk of a fresh block.                              *)
IInv ==
  /\ m \in MemRecords /\ m.calls = <<>>
  /\ given \in Seq(Data) /\ got \in Seq(Data) /\ faults \in SUBSET FaultKinds
  /\ m.ring # NULL => SoundRing(m.ring) /\ m.ring.shrink_stage \in 0..(MaxStage + 1)
  /\ HeapExact

(* What the ring holds, for the queue it implements.                         *)
Holding == IF m.ring = NULL THEN <<>> ELSE Content(m.ring)

(* What is shown of a step.                                                  *)
Relieves ==
  m'.eth < m.eth => m.ring # NULL /\ m'.ring # NULL /\ m'.ring.len < m.ring.len
Good == IInv' /\ Relieves /\ Queue!Next

(* A step that keeps the ring is good if it accounts for the bytes.          *)
LEMMA Kept ==
  ASSUME NullApart, IInv, m.ring # NULL, UNCHANGED faults,
         Sound(m'), m'.calls = <<>>, m'.ring.shrink_stage <= MaxStage + 1,
         MaxHeap # 0 => m'.heap - m'.ring.cap = m.heap - m.ring.cap,
         given' \in Seq(Data), got' \in Seq(Data)
  PROVE  IInv' /\ m'.ring # NULL
<1>1. /\ m' \in MemRecords /\ SoundRing(m'.ring) /\ m'.ring \in RingRecords
      /\ MaxHeap # 0 => m'.heap <= MaxHeap
  BY DEF Sound, SoundRing
<1>2. m'.ring # NULL
  BY <1>1 DEF NullApart
<1>3. m'.ring.shrink_stage \in 0..(MaxStage + 1)
  BY <1>1, MemRingAssumption DEF RingRecords
<1>4. /\ m.heap \in Nat /\ m'.heap \in Nat /\ m.ring.cap \in Nat /\ m'.ring.cap \in Nat
  BY <1>1, RingNumbers DEF IInv, MemRecords
<1>5. HeapExact'
  <2>1. MaxHeap # 0 => /\ m.heap >= Base + (StructSize + m.ring.cap)
                       /\ faults # FaultKinds => m.heap = Base + (StructSize + m.ring.cap)
    BY DEF IInv, HeapExact, Held
  <2>2. MaxHeap # 0 => /\ m'.heap >= Base + (StructSize + m'.ring.cap)
                       /\ faults # FaultKinds => m'.heap = Base + (StructSize + m'.ring.cap)
    <3>1. Base \in Nat /\ StructSize \in Nat
      BY MemRingAssumption, MemBufferAssumption
    <3> SUFFICES ASSUME MaxHeap # 0
                 PROVE  /\ m'.heap >= Base + (StructSize + m'.ring.cap)
                        /\ faults # FaultKinds => m'.heap = Base + (StructSize + m'.ring.cap)
      OBVIOUS
    <3>2. m'.heap - m'.ring.cap = m.heap - m.ring.cap
      OBVIOUS
    <3> DEFINE h == m.heap
               i == m'.heap
               c == m.ring.cap
               d == m'.ring.cap
    <3>3. /\ h \in Nat /\ i \in Nat /\ c \in Nat /\ d \in Nat /\ i - d = h - c
          /\ h >= Base + (StructSize + c)
          /\ faults # FaultKinds => h = Base + (StructSize + c)
      BY <1>4, <2>1, <3>2, Zenon
    <3> HIDE DEF h, i, c, d
    <3>4. /\ i >= Base + (StructSize + d)
          /\ faults # FaultKinds => i = Base + (StructSize + d)
      BY <3>1, <3>3
    <3> QED BY <3>4 DEF i, d
  <2> QED BY <1>1, <1>2, <2>2 DEF HeapExact, Held
<1> QED BY <1>1, <1>2, <1>3, <1>5 DEF IInv

(* The ring of a state with the invariant.                                   *)
LEMMA IsSound ==
  ASSUME IInv, m.ring # NULL
  PROVE  Sound(m) /\ m.ring.shrink_stage \in 0..(MaxStage + 1) /\ m.ring.shrink_stage \in Nat
<1>1. m \in MemRecords /\ SoundRing(m.ring) /\ m.heap \in Nat /\ m.ring.cap \in Nat
  BY RingNumbers DEF IInv, MemRecords
<1>2. MaxHeap # 0 => m.heap >= m.ring.cap /\ m.heap <= MaxHeap
  <2>1. Base \in Nat /\ StructSize \in Nat
    BY MemRingAssumption, MemBufferAssumption
  <2>2. MaxHeap # 0 => m.heap >= Base + (StructSize + m.ring.cap) /\ m.heap <= MaxHeap
    BY DEF IInv, HeapExact, Held
  <2> QED BY <1>1, <2>1, <2>2
<1> QED BY <1>1, <1>2, MemRingAssumption DEF IInv, Sound

(* The end of a call.                                                        *)
LEMMA SettledIs ==
  ASSUME NEW b, Sound(b)
  PROVE  /\ Sound(Settled(b)) /\ Settled(b).calls = <<>> /\ Settled(b).ring = b.ring
         /\ Settled(b).heap = b.heap /\ Settled(b).eth = b.eth
<1> DEFINE c == Settled(b)
<1>1. b \in MemRecords
  BY DEF Sound
<1>2. /\ c \in MemRecords /\ c.calls = <<>> /\ c.ring = b.ring /\ c.heap = b.heap
      /\ c.eth = b.eth
  <2>1. <<>> \in Seq(Levels)
    OBVIOUS
  <2> QED BY <1>1, <2>1 DEF Settled, MemRecords
<1> HIDE DEF c
<1>3. Sound(c)
  BY <1>2 DEF Sound
<1> QED BY <1>2, <1>3 DEF c

(* The steps of the queue.                                                   *)
LEMMA QueueSteps ==
  /\ Holding' = Holding \o given' /\ got' = <<>> => Queue!Next
  /\ Holding' = Holding /\ got' = <<>> => Queue!Next
  /\ Holding' = <<>> /\ given' = <<>> /\ got' = <<>> => Queue!Next
  /\ \A n \in 1..Len(Holding) :
       got' = SubSeq(Holding, 1, n) /\ Holding' = SubSeq(Holding, n + 1, Len(Holding))
         /\ given' = <<>> => Queue!Next
  /\ \A offset \in 0..Len(Holding) : \A n \in 1..(Len(Holding) - offset) :
       got' = SubSeq(Holding, offset + 1, offset + n) /\ Holding' = Holding
         /\ given' = <<>> => Queue!Next
<1> USE DEF Queue!Next, Holding
<1>1. Holding' = Holding \o given' /\ got' = <<>> => Queue!Next
  BY DEF Queue!Put
<1>2. Holding' = Holding /\ got' = <<>> => Queue!Next
  BY DEF Queue!Refuse
<1>3. Holding' = <<>> /\ given' = <<>> /\ got' = <<>> => Queue!Next
  BY DEF Queue!Drop
<1>4. ASSUME NEW n \in 1..Len(Holding),
             got' = SubSeq(Holding, 1, n), Holding' = SubSeq(Holding, n + 1, Len(Holding)),
             given' = <<>>
      PROVE  Queue!Next
  BY <1>4 DEF Queue!Get
<1>5. ASSUME NEW offset \in 0..Len(Holding), NEW n \in 1..(Len(Holding) - offset),
             got' = SubSeq(Holding, offset + 1, offset + n),
             Holding' = Holding, given' = <<>>
      PROVE  Queue!Next
  BY <1>5 DEF Queue!Look
<1> HIDE DEF Queue!Next, Holding
<1> QED BY <1>1, <1>2, <1>3, <1>4, <1>5

(* No bytes are a sequence of bytes.                                         *)
LEMMA NoBytes == <<>> \in Seq(Data)
OBVIOUS

(* mem_buffer_create.                                                        *)
LEMMA CreateStep ==
  ASSUME NullApart, IInv, NEW k \in Makes, NEW alloc \in Allocs, NEW moved \in Allocs,
         mem_buffer_create(k, alloc, moved), UNCHANGED faults
  PROVE  Good
<1> DEFINE cap == CreateCap(k)
           initial == k.initial
           charged == [m EXCEPT !.heap = Charged(@, CreateCharge(k))]
           h == charged.heap
           size == IF moved THEN cap ELSE initial
           heap == IF cap > initial THEN Charged(h, cap - initial)
                   ELSE IF moved THEN Released(h, initial - cap)
                   ELSE h
           r == Created(k, size)
<1>1. /\ m.ring = NULL /\ initial # 0 /\ Chargeable(m, CreateCharge(k)) /\ alloc
      /\ cap > initial => Chargeable(charged, cap - initial) /\ moved
      /\ k.lock /\ k.lock_size > 0 /\ k.lock_size < initial => "lockdown" \in faults
      /\ m' = [m EXCEPT !.heap = heap, !.ring = r]
      /\ Silent
  BY Zenon DEF mem_buffer_create
<1>2. m \in MemRecords /\ m.heap \in Nat /\ m.eth \in Levels
  BY DEF IInv, MemRecords
<1>3. /\ cap \in Nat \ {0} /\ initial \in Nat \ {0} /\ moved \in BOOLEAN
      /\ ~moved => "oom" \in faults
      /\ cap < initial => "lockdown" \in faults
  <2>1. moved \in BOOLEAN /\ (~moved => "oom" \in faults)
    BY Zenon DEF Allocs
  <2>2. initial \in Nat /\ k.lock_size \in Nat /\ k.lock \in BOOLEAN
    BY MemRingAssumption
  <2>3. cap \in Nat \ {0} /\ (cap < initial => k.lock /\ k.lock_size > 0 /\ k.lock_size < initial)
    BY <1>1, <2>2 DEF CreateCap
  <2> QED BY <1>1, <2>1, <2>2, <2>3
<1>4. h = Charged(m.heap, StructSize + initial)
  BY <1>2 DEF MemRecords, CreateCharge
<1>5. size \in Nat /\ size >= cap
  BY <1>1, <1>3
<1>6. /\ SoundRing(r) /\ Content(r) = <<>> /\ r.cap = cap /\ r.shrink_stage = 0
  BY <1>1, <1>5, CreatedSound
<1>7. r \in RingRecords /\ r # NULL
  BY <1>6 DEF SoundRing, NullApart
<1>8. /\ heap \in Nat
      /\ MaxHeap # 0 => /\ heap <= MaxHeap /\ heap >= m.heap + (StructSize + cap)
                        /\ heap = m.heap + (StructSize + cap) \/ (cap < initial /\ ~moved)
  <2>1. MaxHeap # 0 => m.heap + (StructSize + initial) <= MaxHeap
    BY <1>1 DEF Chargeable, CreateCharge
  <2>2. cap > initial => MaxHeap = 0 \/ h + (cap - initial) <= MaxHeap
    BY <1>1 DEF Chargeable
  <2>3. h \in Nat /\ StructSize \in Nat /\ (MaxHeap # 0 => h = m.heap + (StructSize + initial))
    BY <1>2, <1>3, <1>4, MemBufferAssumption DEF Charged
  <2> DEFINE g == m.heap
  <2>4. g \in Nat /\ g = m.heap
    BY <1>2
  <2> HIDE DEF h, cap, initial, g
  <2>5. CASE cap > initial
    BY <1>2, <1>3, <2>2, <2>3, <2>4, <2>5 DEF Charged
  <2>6. CASE ~(cap > initial) /\ moved
    <3>1. heap = IF h >= initial - cap THEN h - (initial - cap) ELSE 0
      BY <2>6 DEF Released
    <3>2. MaxHeap # 0 => g + (StructSize + initial) <= MaxHeap /\ h = g + (StructSize + initial)
      BY <2>1, <2>3, <2>4
    <3> HIDE DEF heap
    <3>3. /\ heap \in Nat
          /\ MaxHeap # 0 => heap <= MaxHeap /\ heap = g + (StructSize + cap)
      BY <1>3, <2>3, <2>4, <2>6, <3>1, <3>2, MemBufferAssumption
    <3> QED BY <1>3, <2>3, <2>4, <3>3
  <2>7. CASE ~(cap > initial) /\ ~moved
    <3>1. heap = h
      BY <2>7
    <3>2. MaxHeap # 0 => g + (StructSize + initial) <= MaxHeap /\ h = g + (StructSize + initial)
      BY <2>1, <2>3, <2>4
    <3> HIDE DEF heap
    <3> QED BY <1>3, <2>3, <2>4, <2>7, <3>1, <3>2, MemBufferAssumption
  <2> QED BY <1>3, <2>5, <2>6, <2>7
<1>9. MaxHeap # 0 => m.heap >= Base /\ (faults # FaultKinds => m.heap = Base)
  BY <1>1, <1>2, MemRingAssumption DEF IInv, HeapExact, Held
<1> HIDE DEF h, cap, heap, r, initial, size
<1>10. /\ m' \in MemRecords /\ m'.heap = heap /\ m'.ring = r /\ m'.eth = m.eth
       /\ m'.calls = <<>>
  <2>1. m.calls = <<>>
    BY DEF IInv
  <2> QED BY <1>1, <1>2, <1>7, <1>8, <2>1 DEF MemRecords
<1>11. HeapExact'
  <2>1. cap < initial /\ ~moved => faults = FaultKinds
    BY <1>3 DEF IInv, FaultKinds
  <2>2. ASSUME MaxHeap # 0
        PROVE  /\ heap >= Base + (StructSize + cap) /\ heap <= MaxHeap
               /\ faults # FaultKinds => heap = Base + (StructSize + cap)
    <3>1. Base \in Nat /\ StructSize \in Nat
      BY MemRingAssumption, MemBufferAssumption
    <3> DEFINE g == m.heap
    <3>2. /\ g \in Nat /\ g >= Base /\ (faults # FaultKinds => g = Base)
          /\ heap <= MaxHeap /\ heap >= g + (StructSize + cap)
          /\ heap = g + (StructSize + cap) \/ (cap < initial /\ ~moved)
      BY <1>2, <1>8, <1>9, <2>2
    <3> HIDE DEF g
    <3> QED BY <1>3, <1>8, <2>1, <3>1, <3>2
  <2> QED BY <1>6, <1>7, <1>10, <2>2 DEF HeapExact, Held
<1>12. given' = <<>> /\ got' = <<>>
  BY <1>1 DEF Silent
<1>13. IInv'
  <2>1. m'.ring.shrink_stage \in 0..(MaxStage + 1)
    BY <1>6, <1>10, MemRingAssumption
  <2> QED BY <1>6, <1>10, <1>11, <1>12, <2>1, NoBytes DEF IInv
<1>14. Relieves
  BY <1>2, <1>10, LevelsAre DEF Relieves
<1>15. Queue!Next
  <2>1. Holding' = <<>>
    BY <1>6, <1>7, <1>10 DEF Holding
  <2> QED BY <1>12, <2>1, QueueSteps
<1> QED BY <1>13, <1>14, <1>15 DEF Good

(* mem_buffer_destroy.                                                       *)
LEMMA DestroyStep ==
  ASSUME NullApart, IInv, mem_buffer_destroy, UNCHANGED faults
  PROVE  Good
<1> DEFINE h == Released(Released(m.heap, m.ring.cap), StructSize)
<1>1. /\ m.ring # NULL /\ Silent
      /\ m' = [m EXCEPT !.heap = h, !.ring = NULL]
  BY DEF mem_buffer_destroy
<1>2. m \in MemRecords /\ SoundRing(m.ring) /\ m.heap \in Nat /\ m.eth \in Levels /\ m.calls = <<>>
  BY <1>1 DEF IInv, MemRecords
<1>3. m.ring.cap \in Nat /\ StructSize \in Nat /\ Base \in Nat
  BY <1>2, RingNumbers, MemRingAssumption, MemBufferAssumption
<1>4. /\ h \in Nat
      /\ MaxHeap # 0 => /\ h >= Base /\ h <= MaxHeap
                        /\ faults # FaultKinds => h = Base
  <2>1. MaxHeap # 0 => /\ m.heap >= Base + (StructSize + m.ring.cap) /\ m.heap <= MaxHeap
                       /\ faults # FaultKinds => m.heap = Base + (StructSize + m.ring.cap)
    BY <1>1 DEF IInv, HeapExact, Held
  <2> DEFINE g == m.heap
             c == m.ring.cap
  <2>2. g \in Nat /\ c \in Nat /\ h = Released(Released(g, c), StructSize)
    BY <1>2, <1>3
  <2>3. MaxHeap # 0 => /\ g >= Base + (StructSize + c) /\ g <= MaxHeap
                       /\ faults # FaultKinds => g = Base + (StructSize + c)
    BY <2>1
  <2> HIDE DEF g, c, h
  <2> QED BY <1>3, <2>2, <2>3, MemBufferAssumption DEF Released
<1> HIDE DEF h
<1>5. m' \in MemRecords /\ m'.heap = h /\ m'.ring = NULL /\ m'.eth = m.eth /\ m'.calls = <<>>
  BY <1>1, <1>2, <1>4 DEF MemRecords
<1>6. given' = <<>> /\ got' = <<>>
  BY <1>1 DEF Silent
<1>7. HeapExact'
  BY <1>3, <1>4, <1>5 DEF HeapExact, Held
<1>8. IInv'
  BY <1>5, <1>6, <1>7, NoBytes DEF IInv
<1>9. Relieves
  BY <1>2, <1>5, LevelsAre DEF Relieves
<1>10. Queue!Next
  <2>1. Holding' = <<>>
    BY <1>5 DEF Holding
  <2> QED BY <1>6, <2>1, QueueSteps
<1> QED BY <1>8, <1>9, <1>10 DEF Good

(* mem_buffer_push.                                                          *)
LEMMA PushStep ==
  ASSUME NullApart, IInv, NEW d \in Pushes, NEW alloc \in BOOLEAN,
         mem_buffer_push(d, alloc), UNCHANGED faults
  PROVE  Good
<1> DEFINE b == Push(m, d, alloc).m
<1>1. m.ring # NULL /\ m' = Settled(b) /\ given' = d /\ got' = <<>>
  BY DEF mem_buffer_push
<1>2. d \in Seq(Data) /\ MaxStage \in Nat
  BY MemRingAssumption
<1>3. Sound(m) /\ m.ring.shrink_stage \in 0..(MaxStage + 1)
  BY <1>1, IsSound
<1>4. /\ Sound(b) /\ Presses(m, b)
      /\ MaxHeap # 0 => b.heap - b.ring.cap = m.heap - m.ring.cap
      /\ Content(b.ring) \in {Content(m.ring), Content(m.ring) \o d}
  BY <1>2, <1>3, PushAdds
<1> HIDE DEF b
<1>5. /\ Sound(m') /\ m'.calls = <<>> /\ m'.ring = b.ring /\ m'.heap = b.heap /\ m'.eth = b.eth
  BY <1>1, <1>4, SettledIs
<1>6. m'.ring.shrink_stage <= MaxStage + 1
  <2>1. b.ring.shrink_stage \in Nat
    BY <1>4, RingNumbers DEF Sound
  <2> QED BY <1>2, <1>3, <1>4, <1>5, <2>1 DEF Presses
<1>7. IInv' /\ m'.ring # NULL
  BY <1>1, <1>2, <1>4, <1>5, <1>6, Kept, NoBytes
<1>8. Relieves
  <2>1. m.eth \in Levels /\ b.eth \in Levels
    BY <1>3, <1>4 DEF Sound, MemRecords
  <2> QED BY <1>4, <1>5, <2>1, LevelsAre DEF Presses, Relieves
<1>9. Queue!Next
  <2>1. Holding = Content(m.ring) /\ Holding' = Content(b.ring)
    BY <1>1, <1>5, <1>7 DEF Holding
  <2> QED BY <1>1, <1>4, <2>1, QueueSteps
<1> QED BY <1>7, <1>8, <1>9 DEF Good

(* A step that keeps the content.                                            *)
LEMMA QuietStep ==
  ASSUME NullApart, IInv, m.ring # NULL, NEW b, m' = Settled(b), Follows(m, b), Presses(m, b),
         Silent, UNCHANGED faults
  PROVE  Good
<1>1. Sound(m) /\ m.ring.shrink_stage \in 0..(MaxStage + 1)
  BY IsSound
<1>2. /\ Sound(b) /\ Content(b.ring) = Content(m.ring)
      /\ MaxHeap # 0 => b.heap - b.ring.cap = m.heap - m.ring.cap
  BY DEF Follows
<1>3. /\ Sound(m') /\ m'.calls = <<>> /\ m'.ring = b.ring /\ m'.heap = b.heap /\ m'.eth = b.eth
  BY <1>2, SettledIs
<1>4. m'.ring.shrink_stage <= MaxStage + 1
  <2>1. b.ring.shrink_stage \in Nat /\ MaxStage \in Nat
    BY <1>2, RingNumbers, MemRingAssumption DEF Sound
  <2> QED BY <1>1, <1>3, <2>1 DEF Presses
<1>5. given' = <<>> /\ got' = <<>>
  BY DEF Silent
<1>6. IInv' /\ m'.ring # NULL
  BY <1>2, <1>3, <1>4, <1>5, Kept, NoBytes
<1>7. Relieves
  <2>1. m.eth \in Levels /\ b.eth \in Levels
    BY <1>1, <1>2 DEF Sound, MemRecords
  <2> QED BY <1>3, <2>1, LevelsAre DEF Presses, Relieves
<1>8. Queue!Next
  <2>1. Holding' = Holding
    BY <1>2, <1>3, <1>6 DEF Holding
  <2> QED BY <1>5, <2>1, QueueSteps
<1> QED BY <1>6, <1>7, <1>8 DEF Good

(* mem_buffer_reserve.                                                       *)
LEMMA ReserveStep ==
  ASSUME NullApart, IInv, NEW len \in Nat, NEW alloc \in BOOLEAN,
         mem_buffer_reserve(len, alloc), UNCHANGED faults
  PROVE  Good
<1> DEFINE b == Reserve(m, len, alloc).m
<1>1. m.ring # NULL /\ m' = Settled(b) /\ Silent
  BY DEF mem_buffer_reserve
<1>2. Sound(m) /\ m.ring.shrink_stage \in Nat
  BY <1>1, IsSound
<1>3. Follows(m, b) /\ Presses(m, b)
  <2>1. CASE len = 0
    <3>1. b = m
      BY <2>1 DEF Reserve, Failed
    <3>2. m.eth \in Levels /\ Follows(m, m)
      BY <1>2 DEF Sound, MemRecords, Follows
    <3> QED BY <1>2, <3>1, <3>2, LevelsAre DEF Presses
  <2>2. CASE len # 0
    <3>1. b = MaybeGrow(m, len, alloc).m
      BY <2>2 DEF Reserve
    <3> QED BY <1>2, <2>2, <3>1, GrowFollows
  <2> QED BY <2>1, <2>2
<1> QED BY <1>1, <1>3, QuietStep

(* mem_buffer_pop.                                                           *)
LEMMA PopStep ==
  ASSUME NullApart, IInv, m.ring # NULL, NEW len \in 1..m.ring.len, NEW alloc \in BOOLEAN,
         mem_buffer_pop(len, alloc), UNCHANGED faults
  PROVE  Good
<1> DEFINE b == Pop(m, len, alloc)
           c == Content(m.ring)
<1>1. /\ alloc \/ m.ring.shrink_stage < MaxStage
      /\ m' = Settled(b) /\ got' = Bytes(m.ring, 0, len) /\ given' = <<>>
  BY DEF mem_buffer_pop
<1>2. Sound(m) /\ SoundRing(m.ring) /\ m.ring.shrink_stage \in 0..(MaxStage + 1)
  BY IsSound DEF Sound
<1>3. /\ Sound(b) /\ b.ring.len = m.ring.len - len
      /\ Content(b.ring) = SubSeq(c, len + 1, m.ring.len)
      /\ MaxHeap # 0 => b.heap - b.ring.cap = m.heap - m.ring.cap
      /\ b.ring.shrink_stage \in {0, 1, m.ring.shrink_stage}
         \/ (~alloc /\ b.ring.shrink_stage <= m.ring.shrink_stage + 1)
  BY <1>2, PopTakes
<1> HIDE DEF b
<1>4. /\ Sound(m') /\ m'.calls = <<>> /\ m'.ring = b.ring /\ m'.heap = b.heap
  BY <1>1, <1>3, SettledIs
<1>5. m'.ring.shrink_stage <= MaxStage + 1
  <2>1. b.ring.shrink_stage \in Nat /\ MaxStage \in Nat
    BY <1>3, RingNumbers, MemRingAssumption DEF Sound
  <2> QED BY <1>1, <1>2, <1>3, <1>4, <2>1
<1>6. got' = SubSeq(c, 1, len) /\ got' \in Seq(Data)
  BY <1>1, <1>2, PopGives
<1>7. IInv' /\ m'.ring # NULL
  BY <1>1, <1>3, <1>4, <1>5, <1>6, Kept, NoBytes
<1>8. m.ring.len \in Nat /\ Len(c) = m.ring.len
  <2>1. m.ring.len \in Nat
    BY <1>2, RingNumbers
  <2> QED BY <2>1, ContentIs
<1>9. Relieves
  BY <1>3, <1>4, <1>7, <1>8 DEF Relieves
<1>10. Queue!Next
  <2>1. Holding = c /\ Holding' = SubSeq(c, len + 1, Len(c))
    BY <1>3, <1>4, <1>7, <1>8 DEF Holding
  <2>2. len \in 1..Len(Holding)
    BY <1>8, <2>1
  <2> HIDE DEF c
  <2> QED BY <1>1, <1>6, <2>1, <2>2, QueueSteps
<1> QED BY <1>7, <1>9, <1>10 DEF Good

(* mem_buffer_peek.                                                          *)
LEMMA PeekStep ==
  ASSUME NullApart, IInv, m.ring # NULL, NEW len \in 1..m.ring.len,
         NEW offset \in 0..m.ring.len, mem_buffer_peek(offset, len), UNCHANGED faults
  PROVE  Good
<1> DEFINE c == Content(m.ring)
<1>1. /\ offset + len <= m.ring.len /\ got' = Peek(m.ring, offset, len) /\ given' = <<>>
      /\ m' = m
  BY DEF mem_buffer_peek, CanPeek
<1>2. SoundRing(m.ring) /\ m.eth \in Levels
  BY DEF IInv, MemRecords
<1>3. got' = SubSeq(c, offset + 1, offset + len) /\ got' \in Seq(Data)
  BY <1>1, <1>2, PeekGives
<1>4. IInv'
  BY <1>1, <1>3, NoBytes DEF IInv, HeapExact, Held
<1>5. Relieves
  BY <1>1, <1>2, LevelsAre DEF Relieves
<1>6. m.ring.len \in Nat /\ Len(c) = m.ring.len
  <2>1. m.ring.len \in Nat
    BY <1>2, RingNumbers
  <2> QED BY <2>1, ContentIs
<1>7. Queue!Next
  <2>1. Holding = c /\ Holding' = Holding
    BY <1>1 DEF Holding
  <2>2. offset \in 0..Len(Holding) /\ len \in 1..(Len(Holding) - offset)
    BY <1>1, <1>6, <2>1
  <2> HIDE DEF c
  <2> QED BY <1>1, <1>3, <2>1, <2>2, QueueSteps
<1> QED BY <1>4, <1>5, <1>7 DEF Good

(* mem_buffer_set_grow.                                                      *)
LEMMA GrowStep ==
  ASSUME NullApart, IInv, NEW t \in Grows, mem_buffer_set_grow(t), UNCHANGED faults
  PROVE  Good
<1> DEFINE s == [m.ring EXCEPT !.grow_threshold_pct = t.pct, !.step = t.step]
<1>1. m.ring # NULL /\ Silent
  BY DEF mem_buffer_set_grow
<1>2. Sound(m) /\ m \in MemRecords /\ m.ring \in RingRecords /\ m.eth \in Levels
  BY <1>1, IsSound DEF Sound, SoundRing, MemRecords
<1>3. t.pct \in Nat /\ t.step \in Nat
  BY MemRingAssumption
<1>4. m' = [m EXCEPT !.ring = s]
  BY <1>2 DEF mem_buffer_set_grow, MemRecords, RingRecords
<1>5. /\ s \in RingRecords /\ SameBytes(m.ring, s) /\ s.shrink_stage = m.ring.shrink_stage
      /\ s.shrink_stage \in Nat
  BY <1>2, <1>3 DEF RingRecords, SameBytes
<1> HIDE DEF s
<1>6. Follows(m, m') /\ m'.ring = s /\ m'.eth = m.eth /\ m' \in MemRecords
  BY <1>2, <1>4, <1>5, TunedFollows
<1>7. Presses(m, m')
  BY <1>2, <1>5, <1>6, LevelsAre DEF Presses
<1>8. m' = Settled(m')
  BY <1>2, <1>4 DEF IInv, Settled, MemRecords
<1> QED BY <1>1, <1>6, <1>7, <1>8, QuietStep

(* mem_buffer_set_shrink.                                                    *)
LEMMA ShrinkStep ==
  ASSUME NullApart, IInv, NEW t \in Shrinks, mem_buffer_set_shrink(t), UNCHANGED faults
  PROVE  Good
<1> DEFINE s == [m.ring EXCEPT !.shrink_threshold_pct = t.pct, !.step = t.step,
                               !.shrink_hold_next = Hold, !.shrink_stage = 0,
                               !.shrink_hits = 0]
<1>1. m.ring # NULL /\ Silent
  BY DEF mem_buffer_set_shrink
<1>2. Sound(m) /\ m \in MemRecords /\ m.ring \in RingRecords /\ m.eth \in Levels
  BY <1>1, IsSound DEF Sound, SoundRing, MemRecords
<1>3. t.pct \in Nat /\ t.step \in Nat
  BY MemRingAssumption
<1>4. m' = [m EXCEPT !.ring = s]
  BY <1>2 DEF mem_buffer_set_shrink, MemRecords, RingRecords
<1>5. /\ s \in RingRecords /\ SameBytes(m.ring, s) /\ s.shrink_stage = 0
      /\ m.ring.shrink_stage \in Nat
  BY <1>2, <1>3 DEF RingRecords, SameBytes, Hold
<1> HIDE DEF s
<1>6. Follows(m, m') /\ m'.ring = s /\ m'.eth = m.eth /\ m' \in MemRecords
  BY <1>2, <1>4, <1>5, TunedFollows
<1>7. Presses(m, m')
  BY <1>2, <1>5, <1>6, LevelsAre DEF Presses
<1>8. m' = Settled(m')
  BY <1>2, <1>4 DEF IInv, Settled, MemRecords
<1> QED BY <1>1, <1>6, <1>7, <1>8, QuietStep

(* mem_buffer_set_max_size.                                                  *)
LEMMA MaxSizeStep ==
  ASSUME NullApart, IInv, NEW max \in MaxSizes, mem_buffer_set_max_size(max), UNCHANGED faults
  PROVE  Good
<1> DEFINE r == m.ring
           lim == Larger(max, r.cap)
           s == [r EXCEPT !.max_cap = lim]
<1>1. m.ring # NULL /\ Silent
  BY DEF mem_buffer_set_max_size
<1>2. Sound(m) /\ m \in MemRecords /\ r \in RingRecords /\ m.eth \in Levels /\ SoundRing(r)
  BY <1>1, IsSound DEF Sound, SoundRing, MemRecords
<1>3. lim \in Nat /\ r.cap <= lim
  <2>1. max \in Nat /\ r.cap \in Nat
    BY <1>2, RingNumbers, MemRingAssumption
  <2> QED BY <2>1 DEF Larger
<1>4. m' = [m EXCEPT !.ring = s]
  BY DEF mem_buffer_set_max_size
<1> HIDE DEF lim
<1>5. /\ s \in RingRecords /\ s.shrink_stage = r.shrink_stage /\ s.shrink_stage \in Nat
      /\ s.max_cap = lim
      /\ s.lock = r.lock /\ s.secure = r.secure /\ s.cap = r.cap /\ s.size = r.size
      /\ s.buf = r.buf /\ s.len = r.len /\ s.head = r.head
  BY <1>2, <1>3 DEF RingRecords
<1> HIDE DEF s
<1>6. SoundRing(s) /\ Content(s) = Content(r)
  <2>1. InBlock(s)
    BY <1>2, <1>3, <1>5 DEF SoundRing, InBlock
  <2>2. Content(s) = Content(r) /\ (Scrubbed(r) => Scrubbed(s))
    BY <1>5 DEF Content, Bytes, Slot, Scrubbed
  <2> QED BY <1>2, <1>5, <2>1, <2>2 DEF SoundRing
<1>7. m' \in MemRecords /\ m'.ring = s /\ m'.heap = m.heap /\ m'.eth = m.eth /\ m'.calls = <<>>
  BY <1>2, <1>4, <1>5 DEF MemRecords, IInv
<1>8. Follows(m, m')
  BY <1>2, <1>5, <1>6, <1>7 DEF Follows, Sound
<1>9. Presses(m, m')
  BY <1>2, <1>5, <1>7, LevelsAre DEF Presses
<1>10. m' = Settled(m')
  BY <1>2, <1>4 DEF IInv, Settled, MemRecords
<1> QED BY <1>1, <1>8, <1>9, <1>10, QuietStep

(* One step per action.                                                      *)
LEMMA StepGood ==
  ASSUME NullApart, IInv, Next
  PROVE  Good
<1>1. UNCHANGED faults
  BY DEF Next
<1>2. \A alloc \in Allocs : alloc \in BOOLEAN
  BY DEF Allocs
<1>3. ASSUME NEW k \in Makes, NEW alloc \in Allocs, NEW moved \in Allocs,
             mem_buffer_create(k, alloc, moved)
      PROVE  Good
  BY <1>1, <1>3, CreateStep
<1>4. CASE mem_buffer_destroy
  BY <1>1, <1>4, DestroyStep
<1>5. ASSUME NEW d \in Pushes, NEW alloc \in Allocs, mem_buffer_push(d, alloc)
      PROVE  Good
  BY <1>1, <1>2, <1>5, PushStep
<1>6. ASSUME NEW len \in {Len(d) : d \in Pushes}, NEW alloc \in Allocs,
             mem_buffer_reserve(len, alloc)
      PROVE  Good
  <2>1. len \in Nat
    BY MemRingAssumption
  <2> QED BY <1>1, <1>2, <1>6, <2>1, ReserveStep
<1>7. ASSUME m.ring # NULL, NEW len \in 1..m.ring.len, NEW alloc \in Allocs,
             mem_buffer_pop(len, alloc)
      PROVE  Good
  BY <1>1, <1>2, <1>7, PopStep
<1>8. ASSUME m.ring # NULL, NEW len \in 1..m.ring.len, NEW offset \in 0..m.ring.len,
             mem_buffer_peek(offset, len)
      PROVE  Good
  BY <1>1, <1>8, PeekStep
<1>9. ASSUME NEW t \in Grows, mem_buffer_set_grow(t) PROVE Good
  BY <1>1, <1>9, GrowStep
<1>10. ASSUME NEW t \in Shrinks, mem_buffer_set_shrink(t) PROVE Good
  BY <1>1, <1>10, ShrinkStep
<1>11. ASSUME NEW max \in MaxSizes, mem_buffer_set_max_size(max) PROVE Good
  BY <1>1, <1>11, MaxSizeStep
<1> QED BY <1>3, <1>4, <1>5, <1>6, <1>7, <1>8, <1>9, <1>10, <1>11, Zenon DEF Next

(* Before the ring is made.                                                  *)
LEMMA InitGood == Init => IInv
<1> SUFFICES ASSUME Init PROVE IInv
  OBVIOUS
<1>1. /\ m.heap = Base /\ m.ring = NULL /\ m.pool = NONE /\ m.eth = NONE
      /\ m.effective = NONE /\ m.calls = <<>>
  BY DEF Init
<1>2. m \in MemRecords
  <2>1. <<>> \in Seq(Levels) /\ Base \in Nat
    BY MemRingAssumption
  <2> QED BY <2>1, LevelsAre DEF Init, MemRecords
<1>3. HeapExact
  BY <1>1, MemRingAssumption, MemBufferAssumption DEF HeapExact, Held
<1>4. given \in Seq(Data) /\ got \in Seq(Data) /\ faults \in SUBSET FaultKinds
  BY NoBytes, MemRingAssumption DEF Init
<1> QED BY <1>1, <1>2, <1>3, <1>4 DEF IInv

(* The invariant holds in every behaviour of the ring.                       *)
LEMMA Inductive ==
  ASSUME NullApart
  PROVE  Spec => []IInv
<1>1. Init => IInv
  BY InitGood
<1>2. IInv /\ [Next]_vars => IInv'
  <2>1. IInv /\ Next => IInv'
    BY StepGood DEF Good
  <2>2. IInv /\ UNCHANGED vars => IInv'
    BY DEF IInv, HeapExact, Held, vars
  <2> QED BY <2>1, <2>2
<1> QED BY <1>1, <1>2, PTL DEF Spec

------------------------------------------------------------------------------
(* Through every creation, growth, shrink, push and pop of mem.c, and every  *)
(* failure of one, the content of a ring lies inside its block, the block     *)
(* inside its limit, and in secure mode no popped byte stays in the block.   *)
THEOREM RingAlways ==
  ASSUME NullApart
  PROVE  Spec => []RingOK
<1>1. IInv => RingOK
  <2> SUFFICES ASSUME IInv PROVE RingOK
    OBVIOUS
  <2>1. m.heap \in Nat /\ m.pool \in Levels /\ m.eth \in Levels /\ m.effective \in Levels
    BY DEF IInv, MemRecords
  <2>2. ASSUME m.ring # NULL
        PROVE  /\ m.ring.last_pressure_level \in Levels
               /\ m.ring.step \in Nat /\ m.ring.shrink_hits \in Nat
               /\ m.ring.shrink_hold_next \in Nat
               /\ InBlock(m.ring) /\ (m.ring.secure => Scrubbed(m.ring))
    BY <2>2 DEF IInv, SoundRing, RingRecords
  <2> QED BY <2>1, <2>2 DEF IInv, RingOK, TypeOK
<1> QED BY <1>1, Inductive, PTL

(* mem_buffer_charge and mem_buffer_release balance: heap_used is what the    *)
(* buffers hold and never passes max_heap; only a ring locked down when      *)
(* realloc fails leaves more charged than it holds.                          *)
THEOREM HeapAlways ==
  ASSUME NullApart
  PROVE  Spec => []HeapExact
<1>1. IInv => HeapExact
  BY DEF IInv
<1> QED BY <1>1, Inductive, PTL

(* No operation but a mem_buffer_pop that takes bytes lowers the Ethernet     *)
(* pressure level, whatever the growths and failures on the way.             *)
THEOREM PopRelieves ==
  ASSUME NullApart
  PROVE  Spec => OnlyPopRelieves
<1>1. IInv /\ [Next]_vars => [Relieves]_vars
  BY StepGood DEF Good
<1>2. Spec => [][Relieves]_vars
  BY <1>1, Inductive, PTL DEF Spec
<1>3. [Relieves]_vars <=> [m'.eth < m.eth =>
       m.ring # NULL /\ m'.ring # NULL /\ m'.ring.len < m.ring.len]_vars
  BY DEF Relieves
<1> QED BY <1>2, <1>3, PTL DEF OnlyPopRelieves

(* The ring of mem.c implements the queue of bytes mem.h promises: wrapping,  *)
(* growing, shrinking and refusing lose, add and reorder no byte.            *)
THEOREM QueueImplemented ==
  ASSUME NullApart
  PROVE  Spec => IsByteQueue
<1>1. Init => Queue!Init
  BY DEF Init, Queue!Init
<1>2. IInv /\ [Next]_vars =>
        [Queue!Next]_<<IF m.ring = NULL THEN <<>> ELSE Content(m.ring), given, got>>
  <2>1. IInv /\ Next => Queue!Next
    BY StepGood DEF Good
  <2>2. UNCHANGED vars =>
          UNCHANGED <<IF m.ring = NULL THEN <<>> ELSE Content(m.ring), given, got>>
    BY DEF vars
  <2> QED BY <2>1, <2>2
<1> QED BY <1>1, <1>2, Inductive, PTL DEF Spec, IsByteQueue, Queue!Spec
==============================================================================
