---------------------------- MODULE MemPoolProofs ----------------------------
(* Proofs about MemPool, for every budget, every set of pools and every       *)
(* sizes lwIP asks for.                                                      *)
EXTENDS MemPool, FiniteSetTheorems, SequenceTheorems, NaturalsInduction,
        WellFoundedInduction, TLAPS

------------------------------------------------------------------------------
(* Recursive functions on an interval.                                       *)

(* Induction up to n, with the property given by the set Q of the numbers    *)
(* that have it.                                                             *)
LEMMA UpTo ==
  ASSUME NEW n \in Nat, NEW Q, 0 \in Q, \A i \in 0..n : i < n /\ i \in Q => i + 1 \in Q
  PROVE  \A i \in 0..n : i \in Q
<1> DEFINE B == {i \in Nat : i <= n /\ i \notin Q}
<1> SUFFICES ASSUME B # {} PROVE FALSE
  OBVIOUS
<1>1. PICK x \in B : \A y \in B : ~(<<y, x>> \in OpToRel(<, Nat))
  BY NatLessThanWellFounded, WFMin, Zenon
<1>2. x \in Nat /\ x <= n /\ x \notin Q /\ x # 0
  BY <1>1
<1> DEFINE y == x - 1
<1>3. y \in Nat /\ y < n /\ y < x
  BY <1>2
<1>4. y \in Q
  <2>1. y \notin B
    <3>1. y \in Nat /\ x \in Nat /\ y < x => <<y, x>> \in OpToRel(<, Nat)
      BY DEF OpToRel
    <3> QED BY <1>1, <1>2, <1>3, <3>1
  <2> QED BY <1>3, <2>1
<1>5. y + 1 \in Q
  <2> HIDE DEF y
  <2> QED BY <1>3, <1>4
<1> QED BY <1>2, <1>5

(* There is a function f with f[0] = b whose next value g computes.          *)
Computes(f, n, b, g) == f[0] = b /\ \A i \in 1..n : f[i] = g[<<i, f[i - 1]>>]

(* A function that is computed from the one before, with its step g given    *)
(* as a function, exists.                                                    *)
LEMMA Recursion ==
  ASSUME NEW n \in Nat, NEW S, NEW b \in S, NEW g \in [(1..n) \X S -> S]
  PROVE  \E f \in [0..n -> S] : Computes(f, n, b, g)
<1> DEFINE Is(f, k) == f[0] = b /\ \A i \in 1..k : f[i] = g[<<i, f[i - 1]>>]
           Q == {k \in 0..n : \E f \in [0..k -> S] : Is(f, k)}
<1>1. 0 \in Q
  <2> DEFINE f == [i \in 0..0 |-> b]
  <2>1. f \in [0..0 -> S] /\ f[0] = b
    OBVIOUS
  <2>2. Is(f, 0)
    BY <2>1
  <2> HIDE DEF f, Is
  <2> QED BY <2>1, <2>2
<1>2. ASSUME NEW k \in 0..n, k < n, k \in Q PROVE k + 1 \in Q
  <2>1. PICK f \in [0..k -> S] : Is(f, k)
    BY <1>2
  <2>2. f[k] \in S /\ k + 1 \in 1..n /\ f[0] = b
    BY <1>2, <2>1
  <2>3. g[<<k + 1, f[k]>>] \in S
    BY <2>2
  <2> DEFINE h == [i \in 0..(k + 1) |-> IF i <= k THEN f[i] ELSE g[<<k + 1, f[k]>>]]
  <2>4. h \in [0..(k + 1) -> S]
    BY <2>3
  <2>5. ASSUME NEW i \in 1..(k + 1) PROVE h[i] = g[<<i, h[i - 1]>>]
    <3>1. i - 1 \in 0..k /\ h[i - 1] = f[i - 1]
      BY <2>5
    <3>2. CASE i <= k
      <4>1. h[i] = f[i] /\ i \in 1..k
        BY <3>2
      <4> QED BY <2>1, <3>1, <4>1
    <3>3. CASE i = k + 1
      <4>1. h[i] = g[<<k + 1, f[k]>>] /\ i - 1 = k
        BY <3>3
      <4> QED BY <3>1, <3>3, <4>1
    <3> QED BY <3>2, <3>3
  <2>6. h[0] = b
    BY <2>2
  <2>7. Is(h, k + 1)
    BY <2>5, <2>6
  <2> HIDE DEF h, Is
  <2> QED BY <1>2, <2>4, <2>7
<1> HIDE DEF Q
<1>3. n \in Q
  BY <1>1, <1>2, UpTo
<1> QED BY <1>3 DEF Q, Computes

------------------------------------------------------------------------------
(* The scan of mem_buffer_malloc.                                            *)

Scans == [run : Nat, start : Nat, found : Nat \cup {None}]

(* One turn of the loop, for block i - 1.                                    *)
Turn(used, k, i, before) ==
  LET run == IF (i - 1) \in used THEN 0 ELSE before.run + 1
      start == IF before.run = 0 THEN i - 1 ELSE before.start
  IN IF before.found # None THEN before
     ELSE [run |-> run, start |-> start, found |-> IF run = k THEN start ELSE None]

(* A turn of the loop of the first fit search keeps the types of its         *)
(* variables.                                                                *)
LEMMA TurnIn ==
  ASSUME NEW used, NEW k \in Nat, NEW i \in Nat \ {0}, NEW before \in Scans
  PROVE  Turn(used, k, i, before) \in Scans
<1> DEFINE run == IF (i - 1) \in used THEN 0 ELSE before.run + 1
           start == IF before.run = 0 THEN i - 1 ELSE before.start
           found == IF run = k THEN start ELSE None
<1>1. before.run \in Nat /\ before.start \in Nat
  BY DEF Scans
<1>2. run \in Nat /\ start \in Nat
  BY <1>1
<1>3. found \in Nat \cup {None}
  BY <1>2
<1> HIDE DEF run, start, found
<1>4. [run |-> run, start |-> start, found |-> found] \in Scans
  BY <1>2, <1>3 DEF Scans
<1> QED BY <1>4 DEF Turn, run, start, found

(* The function the scan is: the states of the loop.                         *)
LEMMA ScanFunction ==
  ASSUME NEW p, p.block_count \in Nat, NEW k \in Nat
  PROVE  \E f \in [0..p.block_count -> Scans] :
           /\ f[0] = [run |-> 0, start |-> 0, found |-> None]
           /\ \A i \in 1..p.block_count : f[i] = Turn(p.used, k, i, f[i - 1])
           /\ Scan(p, k) = f[p.block_count].found
<1> DEFINE n == p.block_count
           b == [run |-> 0, start |-> 0, found |-> None]
           g == [x \in (1..n) \X Scans |-> Turn(p.used, k, x[1], x[2])]
           Rec(f) == f = [i \in 0..n |->
                IF i = 0 THEN b
                ELSE LET before == f[i - 1]
                         run == IF (i - 1) \in p.used THEN 0 ELSE before.run + 1
                         start == IF before.run = 0 THEN i - 1 ELSE before.start
                     IN IF before.found # None THEN before
                        ELSE [run |-> run, start |-> start,
                              found |-> IF run = k THEN start ELSE None]]
<1>1. Scan(p, k) = (CHOOSE f : Rec(f))[n].found
  BY Zenon DEF Scan
<1>2. b \in Scans
  BY DEF Scans
<1>3. g \in [(1..n) \X Scans -> Scans]
  <2>1. \A x \in (1..n) \X Scans : x[1] \in Nat \ {0} /\ x[2] \in Scans
    OBVIOUS
  <2>2. \A x \in (1..n) \X Scans : Turn(p.used, k, x[1], x[2]) \in Scans
    BY <2>1, TurnIn
  <2> QED BY <2>2
<1>4. \A i \in 1..n, x \in Scans : g[<<i, x>>] = Turn(p.used, k, i, x)
  OBVIOUS
<1> HIDE DEF b, g
<1>9. n \in Nat
  OBVIOUS
<1>5. PICK f \in [0..n -> Scans] : Computes(f, n, b, g)
  <2> HIDE DEF n, Rec
  <2> QED BY <1>2, <1>3, <1>9, Recursion, Zenon
<1>6. Rec(f)
  <2>1. f[0] = b /\ \A i \in 1..n : f[i] = Turn(p.used, k, i, f[i - 1])
    <3> HIDE DEF n, Rec
    <3>1. f[0] = b /\ \A i \in 1..n : f[i] = g[<<i, f[i - 1]>>]
      BY <1>5 DEF Computes
    <3>2. \A i \in 1..n : f[i - 1] \in Scans
      BY <1>9
    <3> QED BY <1>4, <3>1, <3>2
  <2>2. f = [i \in 0..n |-> IF i = 0 THEN b ELSE Turn(p.used, k, i, f[i - 1])]
    BY <2>1
  <2> QED BY <2>2, Zenon DEF Turn
<1> HIDE DEF Rec
<1>7. Rec(CHOOSE h : Rec(h))
  BY <1>6, Zenon
<1> DEFINE c == CHOOSE h : Rec(h)
<1>8. c \in [0..n -> Scans] /\ c[0] = b /\ \A i \in 1..n : c[i] = Turn(p.used, k, i, c[i - 1])
  <2> HIDE DEF c
  <2>1. c = [i \in 0..n |-> IF i = 0 THEN b ELSE Turn(p.used, k, i, c[i - 1])]
    BY <1>7, Zenon DEF c, Rec, Turn
  <2>2. c[0] = b /\ \A i \in 1..n : c[i] = Turn(p.used, k, i, c[i - 1])
    BY <2>1
  <2> DEFINE Q == {i \in 0..n : c[i] \in Scans}
  <2>3. 0 \in Q
    BY <1>2, <2>2
  <2>4. ASSUME NEW i \in 0..n, i < n, i \in Q PROVE i + 1 \in Q
    <3>1. i + 1 \in 1..n /\ (i + 1) - 1 = i
      BY <2>4
    <3>2. c[i + 1] = Turn(p.used, k, i + 1, c[i])
      BY <2>2, <3>1
    <3>3. c[i + 1] \in Scans
      BY <2>4, <3>1, <3>2, TurnIn
    <3> QED BY <3>1, <3>3
  <2> HIDE DEF Q
  <2>5. \A i \in 0..n : i \in Q
    BY <2>3, <2>4, UpTo
  <2>6. \A i \in 0..n : c[i] \in Scans
    BY <2>5 DEF Q
  <2> QED BY <2>1, <2>2, <2>6
<1> QED BY <1>1, <1>8 DEF b

(* What the loop knows of the first i blocks: the free run that ends there,  *)
(* and that no k of them in a row are free; or k free ones.                  *)
Fits(used, k, b) == \A c \in b..(b + k - 1) : c \notin used
Seen(used, k, i, s) ==
  IF s.found = None
  THEN /\ s.run <= i /\ s.run < k /\ (s.run # 0 => s.start = i - s.run)
       /\ \A b \in (i - s.run)..(i - 1) : b \notin used
       /\ s.run = i \/ (i - s.run - 1) \in used
       /\ \A b \in 0..(i - k) : ~Fits(used, k, b)
  ELSE s.found \in 0..(i - k) /\ Fits(used, k, s.found)

(* ... and what the loop knows of the blocks it has passed.                  *)
LEMMA TurnSees ==
  ASSUME NEW used, NEW k \in Nat \ {0}, NEW i \in Nat, NEW s \in Scans, Seen(used, k, i, s)
  PROVE  Seen(used, k, i + 1, Turn(used, k, i + 1, s))
<1> DEFINE t == Turn(used, k, i + 1, s)
           run == IF i \in used THEN 0 ELSE s.run + 1
           start == IF s.run = 0 THEN i ELSE s.start
<1>1. s.run \in Nat /\ s.start \in Nat /\ (i + 1) - 1 = i /\ s.found \in Nat \cup {None}
  BY DEF Scans
<1>2. CASE s.found # None
  <2>1. t = s
    BY <1>2 DEF Turn
  <2>2. s.found \in 0..((i + 1) - k)
    BY <1>1, <1>2 DEF Seen
  <2> QED BY <1>2, <2>1, <2>2 DEF Seen
<1>3. CASE s.found = None
  <2>1. t = [run |-> run, start |-> start, found |-> IF run = k THEN start ELSE None]
    BY <1>1, <1>3 DEF Turn
  <2>2. /\ s.run <= i /\ s.run < k /\ (s.run # 0 => s.start = i - s.run)
        /\ \A b \in (i - s.run)..(i - 1) : b \notin used
        /\ s.run = i \/ (i - s.run - 1) \in used
        /\ \A b \in 0..(i - k) : ~Fits(used, k, b)
    BY <1>3 DEF Seen
  <2>3. t.run = run /\ t.start = start /\ t.found = IF run = k THEN start ELSE None
    BY <2>1
  <2> HIDE DEF t
  <2>4. run \in Nat /\ run <= i + 1 /\ run <= k /\ (run # 0 => start = (i + 1) - run)
    BY <1>1, <2>2
  <2>5. \A b \in ((i + 1) - run)..i : b \notin used
    BY <1>1, <2>2
  <2>6. run = i + 1 \/ ((i + 1) - run - 1) \in used
    <3>1. CASE i \in used
      BY <3>1
    <3>2. CASE i \notin used
      <4>1. run = s.run + 1 /\ (i + 1) - run - 1 = i - s.run - 1
        BY <1>1, <3>2
      <4> QED BY <1>1, <2>2, <4>1
    <3> QED BY <3>1, <3>2
  <2> HIDE DEF run, start
  <2>7. CASE run = k
    <3>1. t.found = start /\ start = (i + 1) - k /\ start \in Nat
      BY <2>3, <2>4, <2>7
    <3>2. Fits(used, k, start)
      <4>1. start + k - 1 = i
        BY <3>1
      <4> QED BY <2>5, <2>7, <3>1, <4>1 DEF Fits
    <3>3. t.found # None
      BY <3>1, MemPoolAssumption
    <3> QED BY <3>1, <3>2, <3>3 DEF Seen, t
  <2>8. CASE run # k
    <3>1. t.found = None /\ run < k
      BY <2>3, <2>4, <2>8
    <3>2. ASSUME NEW b \in 0..((i + 1) - k) PROVE ~Fits(used, k, b)
      <4>1. CASE b \in 0..(i - k)
        BY <2>2, <4>1
      <4>2. CASE b = (i + 1) - k
        <5> DEFINE c == (i + 1) - run - 1
        <5>1. run # i + 1
          BY <2>4, <3>1, <3>2, <4>2
        <5>2. c \in used
          BY <2>6, <5>1
        <5>3. c \in b..(b + k - 1)
          BY <2>4, <3>1, <4>2
        <5> QED BY <5>2, <5>3 DEF Fits
      <4> QED BY <4>1, <4>2
    <3>3. (i + 1) - 1 = i
      OBVIOUS
    <3> QED BY <2>3, <2>4, <2>5, <2>6, <3>1, <3>2, <3>3 DEF Seen, t
  <2> QED BY <2>7, <2>8
<1> QED BY <1>2, <1>3

(* The scan finds k free blocks in a row if there are any.                   *)
LEMMA ScanFinds ==
  ASSUME NEW p, p.block_count \in Nat, NEW k \in Nat \ {0}
  PROVE  IF Scan(p, k) = None
         THEN \A b \in 0..(p.block_count - k) : ~Fits(p.used, k, b)
         ELSE Scan(p, k) \in 0..(p.block_count - k) /\ Fits(p.used, k, Scan(p, k))
<1> DEFINE n == p.block_count
           used == p.used
<1>1. PICK f \in [0..n -> Scans] :
        /\ f[0] = [run |-> 0, start |-> 0, found |-> None]
        /\ \A i \in 1..n : f[i] = Turn(used, k, i, f[i - 1])
        /\ Scan(p, k) = f[n].found
  BY ScanFunction
<1>2. n \in Nat
  OBVIOUS
<1> HIDE DEF n, used
<1> DEFINE Q == {i \in 0..n : Seen(used, k, i, f[i])}
<1>3. 0 \in Q
  <2>1. f[0].run = 0 /\ f[0].start = 0 /\ f[0].found = None
    BY <1>1
  <2>2. \A b \in 0..(0 - k) : FALSE
    OBVIOUS
  <2> QED BY <1>2, <2>1, <2>2 DEF Seen
<1>4. ASSUME NEW i \in 0..n, i < n, i \in Q PROVE i + 1 \in Q
  <2>1. i \in Nat /\ i + 1 \in 1..n /\ (i + 1) - 1 = i /\ f[i] \in Scans
    BY <1>2, <1>4
  <2>2. f[i + 1] = Turn(used, k, i + 1, f[i])
    BY <1>1, <2>1
  <2>3. Seen(used, k, i + 1, f[i + 1])
    BY <1>4, <2>1, <2>2, TurnSees
  <2> QED BY <2>1, <2>3
<1> HIDE DEF Q
<1>5. n \in Q
  <2>1. \A i \in 0..n : i < n /\ i \in Q => i + 1 \in Q
    BY <1>4
  <2>2. \A i \in 0..n : i \in Q
    BY <1>2, <1>3, <2>1, UpTo, Zenon
  <2> QED BY <1>2, <2>2
<1>6. Seen(used, k, n, f[n])
  BY <1>5 DEF Q
<1> QED BY <1>1, <1>6 DEF Seen, n, used

------------------------------------------------------------------------------
(* The pools.                                                               *)

(* The values of a pool.                                                     *)
Headers == UNION {[0..(n - 1) -> Nat] : n \in Nat}
PoolRecords ==
  [block_size : Nat, block_count : Nat, used : SUBSET Nat, used_blocks : Nat,
   header : Headers, last : Levels]

(* A pool that counts its blocks, and remembers that it refused a request     *)
(* only while it is full.                                                    *)
PoolOK(p) ==
  /\ p \in PoolRecords /\ p.block_size > 2 /\ p.block_count > 0
  /\ p.used \subseteq 0..(p.block_count - 1) /\ p.used_blocks = Cardinality(p.used)
  /\ p.header \in [0..(p.block_count - 1) -> Nat]
  /\ p.last = CRITICAL => p.used = 0..(p.block_count - 1)

(* What mem_buffer_create makes.                                             *)
Fresh == {NewPool(Pools[i]) : i \in DOMAIN Pools}

(* The pressure levels as numbers.                                           *)
LEMMA LevelsAre ==
  /\ Levels = 0..3 /\ NONE = 0 /\ MILD = 1 /\ HIGH = 2 /\ CRITICAL = 3
BY DEF Levels, NONE, MILD, HIGH, CRITICAL

(* A pool just made has no block in use.                                     *)
LEMMA FreshOK ==
  ASSUME NEW p \in Fresh
  PROVE  PoolOK(p) /\ p.used = {} /\ p.last = NONE
<1>1. PICK i \in DOMAIN Pools : p = NewPool(Pools[i])
  BY DEF Fresh
<1> DEFINE k == Pools[i]
           h == [b \in 0..(k.block_count - 1) |-> Unused]
<1>2. /\ k.block_size \in Nat /\ k.block_count \in Nat /\ k.block_size > 2 /\ k.block_count > 0
  <2>1. i \in 1..Len(Pools)
    BY MemPoolAssumption
  <2>2. k \in [block_size : Nat, block_count : Nat]
    BY <2>1, MemPoolAssumption, ElementOfSeq
  <2> QED BY <2>2, MemPoolAssumption
<1>3. h \in [0..(k.block_count - 1) -> Nat]
  BY DEF Unused
<1>4. h \in Headers
  BY <1>2, <1>3 DEF Headers
<1>5. p = [block_size |-> k.block_size, block_count |-> k.block_count, used |-> {},
           used_blocks |-> 0, header |-> h, last |-> NONE]
  BY <1>1 DEF NewPool
<1> HIDE DEF k, h
<1>6. /\ p \in PoolRecords /\ p.block_size = k.block_size /\ p.block_count = k.block_count
      /\ p.used = {} /\ p.used_blocks = 0 /\ p.header = h /\ p.last = NONE
  BY <1>2, <1>4, <1>5, LevelsAre DEF PoolRecords
<1> QED BY <1>2, <1>3, <1>6, LevelsAre, FS_EmptySet DEF PoolOK

(* mem_buffer_lwip_init_pools makes some of the pools it is asked for.       *)
LEMMA CreatePoolsIn ==
  ASSUME heap \in Nat, NEW granted
  PROVE  CreatePools(granted) \in [pools : Seq(Fresh), heap : Nat]
<1> DEFINE n == Len(Pools)
           S == [pools : Seq(Fresh), heap : Nat]
           b == [pools |-> <<>>, heap |-> heap]
           Step(i, before) ==
             LET cost == PoolCost(Pools[i])
             IN IF i \in granted /\ Chargeable(before, cost)
                THEN [pools |-> Append(before.pools, NewPool(Pools[i])),
                      heap |-> Charged(before.heap, cost)]
                ELSE before
           g == [x \in (1..n) \X S |-> Step(x[1], x[2])]
           Rec(f) == f = [i \in 0..n |->
             IF i = 0 THEN b
             ELSE LET before == f[i - 1]
                      cost == PoolCost(Pools[i])
                  IN IF i \in granted /\ Chargeable(before, cost)
                     THEN [pools |-> Append(before.pools, NewPool(Pools[i])),
                           heap |-> Charged(before.heap, cost)]
                     ELSE before]
<1>1. CreatePools(granted) = (CHOOSE f : Rec(f))[n]
  BY Zenon DEF CreatePools
<1>2. n \in Nat /\ b \in S /\ DOMAIN Pools = 1..n
  BY MemPoolAssumption
<1>3. ASSUME NEW i \in 1..n, NEW before \in S PROVE Step(i, before) \in S
  <2> DEFINE cost == PoolCost(Pools[i])
             q == NewPool(Pools[i])
  <2>1. q \in Fresh
    BY <1>2 DEF Fresh
  <2>2. cost \in Nat
    <3>1. Pools[i] \in [block_size : Nat, block_count : Nat]
      BY <1>2, MemPoolAssumption, ElementOfSeq
    <3> DEFINE x == Pools[i].block_size
               y == Pools[i].block_count
    <3>2. x \in Nat /\ y \in Nat /\ StructSize \in Nat
      BY <3>1, MemBufferAssumption
    <3>3. x * y \in Nat /\ (y + 8 - 1) \div 8 \in Nat
      <4> HIDE DEF x, y
      <4> QED BY <3>2
    <3> QED BY <3>2, <3>3 DEF PoolCost, CeilDiv
  <2> HIDE DEF cost, q
  <2>3. Append(before.pools, q) \in Seq(Fresh) /\ Charged(before.heap, cost) \in Nat
    BY <2>1, <2>2 DEF Charged
  <2> QED BY <2>3 DEF cost, q
<1>4. g \in [(1..n) \X S -> S]
  <2>1. \A x \in (1..n) \X S : x[1] \in 1..n /\ x[2] \in S
    OBVIOUS
  <2> HIDE DEF S, n, Step
  <2>2. \A x \in (1..n) \X S : Step(x[1], x[2]) \in S
    BY <1>3, <2>1
  <2> QED BY <2>2
<1>5. \A i \in 1..n, x \in S : g[<<i, x>>] = Step(i, x)
  <2> HIDE DEF S, n, Step
  <2> QED OBVIOUS
<1>6. \A f : Rec(f) <=> f = [i \in 0..n |-> IF i = 0 THEN b ELSE Step(i, f[i - 1])]
  BY Zenon
<1> HIDE DEF S, n, b, g, Step, Rec
<1>7. PICK f \in [0..n -> S] : Computes(f, n, b, g)
  BY <1>2, <1>4, Recursion, Zenon
<1>8. Rec(f)
  <2>1. f[0] = b /\ \A i \in 1..n : f[i] = g[<<i, f[i - 1]>>]
    BY <1>7 DEF Computes
  <2>2. \A i \in 1..n : f[i - 1] \in S
    BY <1>2
  <2>3. \A i \in 1..n : f[i] = Step(i, f[i - 1])
    BY <1>5, <2>1, <2>2
  <2>4. f = [i \in 0..n |-> IF i = 0 THEN b ELSE Step(i, f[i - 1])]
    BY <2>1, <2>3
  <2> QED BY <1>6, <2>4
<1> DEFINE c == CHOOSE h : Rec(h)
<1>9. c = [i \in 0..n |-> IF i = 0 THEN b ELSE Step(i, c[i - 1])]
  <2>1. Rec(c)
    BY <1>8, Zenon
  <2> QED BY <1>6, <2>1
<1> HIDE DEF c
<1>10. c[0] = b /\ \A i \in 1..n : c[i] = Step(i, c[i - 1])
  BY <1>2, <1>9
<1> DEFINE Q == {i \in 0..n : c[i] \in S}
<1>11. 0 \in Q
  BY <1>2, <1>10
<1>12. ASSUME NEW i \in 0..n, i < n, i \in Q PROVE i + 1 \in Q
  <2>1. i + 1 \in 1..n /\ (i + 1) - 1 = i
    BY <1>2, <1>12
  <2>2. c[i + 1] = Step(i + 1, c[i])
    BY <1>10, <2>1
  <2> QED BY <1>3, <1>12, <2>1, <2>2
<1> HIDE DEF Q
<1>13. n \in Q
  <2>1. \A i \in 0..n : i < n /\ i \in Q => i + 1 \in Q
    BY <1>12
  <2>2. \A i \in 0..n : i \in Q
    BY <1>2, <1>11, <2>1, UpTo, Zenon
  <2> QED BY <1>2, <2>2
<1> QED BY <1>1, <1>13 DEF Q, S, c

(* Sorting the pools loses none and adds none.                               *)
LEMMA SortedIn ==
  ASSUME NEW S, NEW s \in Seq(S), NEW t \in Sorted(s)
  PROVE  t \in Seq(S) /\ Len(t) = Len(s)
<1>1. PICK p \in Bijection(DOMAIN s, DOMAIN s) : t = [i \in DOMAIN s |-> s[p[i]]]
  BY DEF Sorted
<1>2. p \in [DOMAIN s -> DOMAIN s]
  BY DEF Bijection, Injection
<1>3. DOMAIN s = 1..Len(s) /\ Len(s) \in Nat /\ \A i \in DOMAIN s : s[i] \in S
  BY ElementOfSeq
<1>4. t \in [1..Len(s) -> S]
  BY <1>1, <1>2, <1>3
<1> QED BY <1>3, <1>4

------------------------------------------------------------------------------
(* Numbers.                                                                 *)

(* The quotient, when it lies between two multiples.                         *)
LEMMA DivBetween ==
  ASSUME NEW x \in Nat, NEW b \in Nat \ {0}, NEW q \in Nat, b * q <= x, x < b * q + b
  PROVE  x \div b = q
OBVIOUS

(* A quotient is at least the number of multiples below.                     *)
LEMMA DivAtLeast ==
  ASSUME NEW x \in Nat, NEW b \in Nat \ {0}, NEW q \in Nat, b * q <= x
  PROVE  x \div b \in Nat /\ q <= x \div b
OBVIOUS

(* Division keeps the order.                                                 *)
LEMMA DivMonotone ==
  ASSUME NEW x \in Nat, NEW y \in Nat, NEW b \in Nat \ {0}, x <= y
  PROVE  x \div b \in Nat /\ y \div b \in Nat /\ x \div b <= y \div b
OBVIOUS

(* So does multiplication.                                                   *)
LEMMA MulMonotone ==
  ASSUME NEW x \in Nat, NEW y \in Nat, NEW b \in Nat, x <= y
  PROVE  x * b \in Nat /\ y * b \in Nat /\ x * b <= y * b
OBVIOUS

(* A product of positive numbers is positive.                                *)
LEMMA Positive ==
  ASSUME NEW x \in Nat \ {0}, NEW y \in Nat \ {0}
  PROVE  x * y \in Nat \ {0}
OBVIOUS

(* A request takes at least one block.                                       *)
LEMMA NeededIn ==
  ASSUME NEW p, PoolOK(p), NEW size \in Nat
  PROVE  BlocksNeeded(p, size) \in Nat \ {0}
<1> DEFINE b == p.block_size
           x == (size + HEADER) + b - 1
<1>1. b \in Nat \ {0} /\ x \in Nat /\ b * 1 <= x
  BY DEF PoolOK, PoolRecords, HEADER
<1> HIDE DEF b, x
<1>2. x \div b \in Nat /\ 1 <= x \div b
  BY <1>1, DivAtLeast
<1> QED BY <1>2 DEF BlocksNeeded, CeilDiv, b, x

(* One block if the block holds it, and more than there are if they do not.  *)
LEMMA NeededOne ==
  ASSUME NEW p, PoolOK(p), NEW size \in Nat, p.block_size >= size + HEADER
  PROVE  BlocksNeeded(p, size) = 1
<1> DEFINE b == p.block_size
           x == (size + HEADER) + b - 1
<1>1. b \in Nat \ {0} /\ x \in Nat /\ b * 1 <= x /\ x < b * 1 + b
  BY DEF PoolOK, PoolRecords, HEADER
<1> HIDE DEF b, x
<1>2. x \div b = 1
  BY <1>1, DivBetween
<1> QED BY <1>2 DEF BlocksNeeded, CeilDiv, b, x

(* A request larger than the pool needs more blocks than it has.             *)
LEMMA NeededMore ==
  ASSUME NEW p, PoolOK(p), NEW size \in Nat,
         ~(size + HEADER <= p.block_size * p.block_count)
  PROVE  BlocksNeeded(p, size) > p.block_count
<1> DEFINE b == p.block_size
           n == p.block_count
           y == size + HEADER
           x == y + b - 1
<1>1. b \in Nat \ {0} /\ y \in Nat /\ x \in Nat /\ n \in Nat
  BY DEF PoolOK, PoolRecords, HEADER
<1>2. ~(y <= b * n)
  OBVIOUS
<1>3. b * (n + 1) <= x
  <2> HIDE DEF b, n, y
  <2> QED BY <1>1, <1>2
<1>4. n + 1 \in Nat
  BY <1>1
<1> HIDE DEF b, n, x
<1>5. x \div b \in Nat /\ n + 1 <= x \div b
  BY <1>1, <1>3, <1>4, DivAtLeast
<1>6. x \div b > n
  BY <1>1, <1>5
<1> QED BY <1>6 DEF BlocksNeeded, CeilDiv, b, n, x, y

(* The budget's share of max_heap.                                           *)
HeapShare ==
  IF MaxHeap = 0 THEN 0 ELSE (Smaller(heap + ring, MaxHeap) * 100) \div MaxHeap

(* The share of the heap is a number.                                        *)
LEMMA HeapShareIn ==
  ASSUME heap \in Nat, ring \in Nat
  PROVE  HeapShare \in Nat
<1>1. CASE MaxHeap = 0
  BY <1>1 DEF HeapShare
<1>2. CASE MaxHeap # 0
  <2> DEFINE y == Smaller(heap + ring, MaxHeap) * 100
  <2>1. y \in Nat /\ MaxHeap \in Nat \ {0}
    BY <1>2, MemBufferAssumption DEF Smaller
  <2> HIDE DEF y
  <2>2. y \div MaxHeap \in Nat
    BY <2>1, DivMonotone
  <2> QED BY <1>2, <2>2 DEF HeapShare, y
<1> QED BY <1>1, <1>2

(* The usage of a pool: the share of its blocks or of the budget.            *)
LEMMA UsageIn ==
  ASSUME NEW p, PoolOK(p), p.used_blocks <= p.block_count, heap \in Nat, ring \in Nat
  PROVE  Usage(p) \in Nat /\ (p.used_blocks = p.block_count => Usage(p) >= 100)
<1> DEFINE b == p.block_size
           n == p.block_count
           u == p.used_blocks
           l == b * n
           w == u * b
           x == Smaller(w, l) * 100
           heap_pct == HeapShare
<1>1. b \in Nat \ {0} /\ n \in Nat \ {0} /\ u \in Nat
  BY DEF PoolOK, PoolRecords
<1>2. Usage(p) = Larger(heap_pct, x \div l)
  <2>1. Larger(l, l) = l
    BY DEF Larger
  <2> HIDE DEF l
  <2> QED BY <2>1, Zenon DEF Usage, UsagePct, HeapShare, l
<1>3. heap_pct \in Nat
  BY HeapShareIn
<1> HIDE DEF heap_pct, b, n, u
<1>4. l \in Nat \ {0} /\ w \in Nat
  BY <1>1, Positive, MulMonotone
<1>5. u = n => w = l
  BY <1>1
<1> HIDE DEF l, w
<1>6. x \in Nat /\ (w = l => l * 100 <= x)
  BY <1>4 DEF Smaller
<1> HIDE DEF x
<1>7. x \div l \in Nat /\ (w = l => 100 <= x \div l)
  <2>1. x \div l \in Nat
    BY <1>4, <1>6, DivMonotone
  <2>2. w = l => 100 <= x \div l
    BY <1>4, <1>6, DivAtLeast
  <2> QED BY <2>1, <2>2
<1> DEFINE q == x \div l
<1> HIDE DEF q
<1>8. Larger(heap_pct, q) \in Nat /\ (w = l => Larger(heap_pct, q) >= 100)
  BY <1>3, <1>7 DEF Larger, q
<1> QED BY <1>2, <1>5, <1>8 DEF q, u, n

(* More blocks in use, no less usage.                                        *)
LEMMA UsageMonotone ==
  ASSUME NEW p, PoolOK(p), NEW q, PoolOK(q), q.block_size = p.block_size,
         q.block_count = p.block_count, p.used_blocks <= q.used_blocks,
         heap \in Nat, ring \in Nat
  PROVE  Usage(q) >= Usage(p)
<1> DEFINE b == p.block_size
           n == p.block_count
           u == p.used_blocks
           v == q.used_blocks
           l == b * n
           w == u * b
           z == v * b
           x == Smaller(w, l) * 100
           y == Smaller(z, l) * 100
           heap_pct == HeapShare
<1>1. /\ b \in Nat \ {0} /\ n \in Nat \ {0} /\ u \in Nat /\ v \in Nat /\ u <= v
  BY DEF PoolOK, PoolRecords
<1>2. Usage(p) = Larger(heap_pct, x \div l) /\ Usage(q) = Larger(heap_pct, y \div l)
  <2>1. Larger(l, l) = l
    BY DEF Larger
  <2>2. q.block_size * q.block_count = l /\ q.used_blocks * q.block_size = z
    OBVIOUS
  <2> HIDE DEF l, z
  <2> QED BY <2>1, <2>2, Zenon DEF Usage, UsagePct, HeapShare, l
<1>3. heap_pct \in Nat
  BY HeapShareIn
<1> HIDE DEF heap_pct, b, n, u, v
<1>4. l \in Nat \ {0} /\ w \in Nat /\ z \in Nat /\ w <= z
  BY <1>1, Positive, MulMonotone
<1> HIDE DEF l, w, z
<1>5. x \in Nat /\ y \in Nat /\ x <= y
  BY <1>4 DEF Smaller
<1> HIDE DEF x, y
<1> DEFINE c == x \div l
           d == y \div l
<1>6. c \in Nat /\ d \in Nat /\ c <= d
  BY <1>4, <1>5, DivMonotone
<1>7. Usage(p) = Larger(heap_pct, c) /\ Usage(q) = Larger(heap_pct, d)
  BY <1>2
<1> HIDE DEF c, d
<1> QED BY <1>3, <1>6, <1>7 DEF Larger

------------------------------------------------------------------------------
(* The operations on a pool.                                                *)

(* A pool with another level told last.                                      *)
Relabelled(p, q) ==
  /\ PoolOK(q) /\ q.block_size = p.block_size /\ q.block_count = p.block_count
  /\ q.used = p.used /\ q.used_blocks = p.used_blocks /\ q.header = p.header

(* A change of the remembered level leaves the blocks alone.                 *)
LEMMA RelabelOK ==
  ASSUME NEW p, PoolOK(p), NEW l \in Levels,
         l = CRITICAL => p.used = 0..(p.block_count - 1),
         NEW q, q = [p EXCEPT !.last = l]
  PROVE  Relabelled(p, q) /\ q.last = l
<1>1. p \in PoolRecords
  BY DEF PoolOK
<1>2. /\ q \in PoolRecords /\ q.block_size = p.block_size /\ q.block_count = p.block_count
      /\ q.used = p.used /\ q.used_blocks = p.used_blocks /\ q.header = p.header
      /\ q.last = l
  BY <1>1 DEF PoolRecords
<1>3. PoolOK(q)
  BY <1>2 DEF PoolOK
<1> QED BY <1>2, <1>3 DEF Relabelled

Run(start, k) == start..(start + k - 1)

(* The numbers of a pool.                                                    *)
LEMMA PoolNumbers ==
  ASSUME NEW p, PoolOK(p)
  PROVE  /\ p.block_size \in Nat \ {0} /\ p.block_count \in Nat \ {0}
         /\ IsFiniteSet(p.used) /\ p.used_blocks \in 0..p.block_count
         /\ p.used_blocks = Cardinality(p.used) /\ p.last \in Levels
         /\ p.used = 0..(p.block_count - 1) => p.used_blocks = p.block_count
<1> DEFINE n == p.block_count
           T == 0..(n - 1)
<1>1. n \in Nat \ {0} /\ p.block_size \in Nat \ {0} /\ p.last \in Levels
  BY DEF PoolOK, PoolRecords
<1>2. IsFiniteSet(T) /\ Cardinality(T) = n
  <2>1. 0 \in Int /\ n - 1 \in Int /\ ~(0 > n - 1) /\ (n - 1) - 0 + 1 = n
    BY <1>1
  <2>2. IsFiniteSet(0..(n - 1)) /\ Cardinality(0..(n - 1)) = (n - 1) - 0 + 1
    <3> HIDE DEF n
    <3> QED BY <2>1, FS_Interval
  <2> QED BY <2>1, <2>2
<1>3. p.used \in SUBSET T /\ p.used_blocks = Cardinality(p.used)
  BY DEF PoolOK
<1> HIDE DEF T
<1>4. IsFiniteSet(p.used) /\ Cardinality(p.used) <= Cardinality(T)
  BY <1>2, <1>3, FS_Subset
<1>5. Cardinality(p.used) \in Nat
  BY <1>4, FS_CardinalityType
<1> QED BY <1>1, <1>2, <1>3, <1>4, <1>5 DEF T

(* The blocks of an allocation are marked and counted.                       *)
TookRun(p, start, k, q) ==
  /\ PoolOK(q) /\ q.block_size = p.block_size /\ q.block_count = p.block_count
  /\ q.last = p.last /\ q.used = p.used \cup Run(start, k) /\ q.used_blocks >= p.used_blocks
  /\ q.header[start] = k
  /\ \A j \in 0..(p.block_count - 1) : j # start => q.header[j] = p.header[j]

(* Taking a run marks its blocks.                                            *)
LEMMA TakenOK ==
  ASSUME NEW p, PoolOK(p), NEW k \in Nat \ {0}, NEW start \in 0..(p.block_count - k),
         Fits(p.used, k, start)
  PROVE  TookRun(p, start, k, Taken(p, start, k))
<1> DEFINE n == p.block_count
           used == p.used \cup Run(start, k)
           h == [p.header EXCEPT ![start] = k]
           c == p.used_blocks + k
           q == Taken(p, start, k)
<1>1. /\ p \in PoolRecords /\ n \in Nat \ {0} /\ IsFiniteSet(p.used) /\ p.used_blocks \in 0..n
      /\ p.used_blocks = Cardinality(p.used)
  BY PoolNumbers DEF PoolOK
<1>2. start \in Nat /\ start + k <= n /\ start \in 0..(n - 1)
  BY <1>1
<1>3. Run(start, k) \subseteq 0..(n - 1) /\ p.used \cap Run(start, k) = {} /\ start \in Run(start, k)
  BY <1>1, <1>2 DEF Run, Fits
<1>4. used \subseteq 0..(n - 1) /\ used \in SUBSET Nat
  BY <1>3 DEF PoolOK, PoolRecords
<1>5. c = Cardinality(used) /\ c \in Nat
  <2>1. IsFiniteSet(Run(start, k)) /\ Cardinality(Run(start, k)) = k
    <3>1. start \in Int /\ start + k - 1 \in Int /\ ~(start > start + k - 1)
      BY <1>2
    <3>2. /\ IsFiniteSet(start..(start + k - 1))
          /\ Cardinality(start..(start + k - 1)) = (start + k - 1) - start + 1
      BY <3>1, FS_Interval
    <3> QED BY <1>2, <3>2 DEF Run
  <2>2. Cardinality(used) = Cardinality(p.used) + Cardinality(Run(start, k))
                            - Cardinality(p.used \cap Run(start, k))
    BY <1>1, <2>1, FS_Union
  <2>3. Cardinality(p.used \cap Run(start, k)) = 0
    BY <1>3, FS_EmptySet
  <2> QED BY <1>1, <2>1, <2>2, <2>3
<1>6. /\ h \in [0..(n - 1) -> Nat] /\ h[start] = k
      /\ \A j \in 0..(n - 1) : j # start => h[j] = p.header[j]
  BY <1>2 DEF PoolOK
<1>7. h \in Headers
  BY <1>1, <1>6 DEF Headers
<1>8. q = [p EXCEPT !.used = used, !.header = h, !.used_blocks = c]
  BY <1>1 DEF Taken, PoolRecords, Run
<1>9. p.last # CRITICAL
  BY <1>2, <1>3 DEF PoolOK
<1> HIDE DEF used, h, c, q
<1>10. /\ q \in PoolRecords /\ q.block_size = p.block_size /\ q.block_count = p.block_count
       /\ q.used = used /\ q.used_blocks = c /\ q.header = h /\ q.last = p.last
  BY <1>1, <1>4, <1>5, <1>7, <1>8 DEF PoolRecords
<1>11. PoolOK(q)
  BY <1>4, <1>5, <1>6, <1>9, <1>10 DEF PoolOK
<1>12. c >= p.used_blocks
  BY <1>1 DEF c
<1>13. TookRun(p, start, k, q)
  BY <1>6, <1>10, <1>11, <1>12 DEF TookRun, used
<1> QED BY <1>13 DEF q

(* The blocks of an allocation are given back.                               *)
GaveRun(p, start, k, q) ==
  /\ PoolOK(q) /\ q.block_size = p.block_size /\ q.block_count = p.block_count
  /\ q.last # CRITICAL /\ q.used = p.used \ Run(start, k)
  /\ \A j \in 0..(p.block_count - 1) : j # start => q.header[j] = p.header[j]

(* The level after a relief is a level.                                      *)
LEMMA ReliefIn ==
  ASSUME NEW pct, NEW current
  PROVE  Relief(current, pct) \in Levels /\ Relief(current, pct) # CRITICAL
BY DEF Relief, LevelFromUsage, Larger, Levels, NONE, MILD, HIGH, CRITICAL

(* Giving a run back clears its blocks.                                      *)
LEMMA FreedOK ==
  ASSUME NEW p, PoolOK(p), NEW start \in 0..(p.block_count - 1), NEW k \in Nat \ {0},
         k = p.header[start], start + k <= p.block_count, Run(start, k) \subseteq p.used,
         NEW l \in Levels, l # CRITICAL
  PROVE  GaveRun(p, start, k, [Freed(p, start) EXCEPT !.last = l])
<1> DEFINE n == p.block_count
           used == p.used \ Run(start, k)
           h == [p.header EXCEPT ![start] = Unused]
           c == IF p.used_blocks >= k THEN p.used_blocks - k ELSE 0
           q == [Freed(p, start) EXCEPT !.last = l]
<1>1. /\ p \in PoolRecords /\ n \in Nat \ {0} /\ IsFiniteSet(p.used) /\ p.used_blocks \in 0..n
      /\ p.used_blocks = Cardinality(p.used)
  BY PoolNumbers DEF PoolOK
<1>2. used \subseteq 0..(n - 1) /\ used \in SUBSET Nat /\ used \cup Run(start, k) = p.used
  BY DEF PoolOK, PoolRecords
<1>3. c = Cardinality(used) /\ c \in Nat
  <2>1. IsFiniteSet(Run(start, k)) /\ Cardinality(Run(start, k)) = k
    <3>1. start \in Int /\ start + k - 1 \in Int /\ ~(start > start + k - 1) /\ start \in Nat
      BY <1>1
    <3>2. /\ IsFiniteSet(start..(start + k - 1))
          /\ Cardinality(start..(start + k - 1)) = (start + k - 1) - start + 1
      BY <3>1, FS_Interval
    <3> QED BY <3>1, <3>2 DEF Run
  <2>2. used \in SUBSET p.used
    OBVIOUS
  <2>3. IsFiniteSet(used) /\ Cardinality(used) \in Nat
    BY <1>1, <2>2, FS_Subset, FS_CardinalityType
  <2>4. used \cap Run(start, k) = {}
    OBVIOUS
  <2> HIDE DEF used
  <2>5. Cardinality(used \cup Run(start, k)) = Cardinality(used) + Cardinality(Run(start, k))
                            - Cardinality(used \cap Run(start, k))
    BY <2>1, <2>3, FS_Union
  <2>6. Cardinality(used \cap Run(start, k)) = 0
    BY <2>4, FS_EmptySet
  <2> DEFINE x == Cardinality(used)
             y == Cardinality(p.used)
  <2>7. y = x + k - 0 /\ x \in Nat
    BY <1>2, <2>1, <2>3, <2>5, <2>6
  <2>8. c = IF y >= k THEN y - k ELSE 0
    BY <1>1
  <2> HIDE DEF x, y, c
  <2>9. c = x /\ c \in Nat
    BY <2>7, <2>8
  <2> QED BY <2>9 DEF x
<1>4. /\ h \in [0..(n - 1) -> Nat] /\ \A j \in 0..(n - 1) : j # start => h[j] = p.header[j]
  BY DEF PoolOK, Unused
<1>5. h \in Headers
  BY <1>1, <1>4 DEF Headers
<1>6. q = [p EXCEPT !.used = used, !.header = h, !.used_blocks = c, !.last = l]
  BY <1>1 DEF Freed, PoolRecords, Run
<1> HIDE DEF used, h, c, q
<1>7. /\ q \in PoolRecords /\ q.block_size = p.block_size /\ q.block_count = p.block_count
       /\ q.used = used /\ q.used_blocks = c /\ q.header = h /\ q.last = l
  BY <1>1, <1>2, <1>3, <1>5, <1>6 DEF PoolRecords
<1>8. PoolOK(q)
  BY <1>2, <1>3, <1>4, <1>7 DEF PoolOK
<1>9. GaveRun(p, start, k, q)
  BY <1>4, <1>7, <1>8 DEF GaveRun, used
<1> QED BY <1>9 DEF q
------------------------------------------------------------------------------
(* A request.                                                               *)

(* The highest of a set of levels.                                           *)
LEMMA HighestIs ==
  ASSUME NEW S, S \subseteq Levels
  PROVE  /\ Highest(S) \in Levels /\ \A x \in S : Highest(S) >= x
         /\ Highest(S) = NONE \/ Highest(S) \in S
<1>1. CASE S = {}
  BY <1>1, LevelsAre DEF Highest
<1>2. CASE S # {}
  <2>1. \E x \in S : \A y \in S : x >= y
    <3>1. S \subseteq 0..3
      BY LevelsAre
    <3>2. \A y \in S : y = 0 \/ y = 1 \/ y = 2 \/ y = 3
      BY <3>1
    <3>3. CASE 3 \in S
      BY <3>2, <3>3
    <3>4. CASE 3 \notin S /\ 2 \in S
      BY <3>2, <3>4
    <3>5. CASE 3 \notin S /\ 2 \notin S /\ 1 \in S
      BY <3>2, <3>5
    <3>6. CASE 3 \notin S /\ 2 \notin S /\ 1 \notin S
      BY <1>2, <3>2, <3>6
    <3> QED BY <3>3, <3>4, <3>5, <3>6
  <2>2. Highest(S) \in S /\ \A y \in S : Highest(S) >= y
    BY <1>2, <2>1 DEF Highest, Max
  <2> QED BY <2>2
<1> QED BY <1>1, <1>2

(* The least of a set of numbers.                                            *)
LEMMA LeastIs ==
  ASSUME NEW S \in SUBSET Nat, S # {}
  PROVE  Min(S) \in S
<1>1. PICK x \in S : \A y \in S : ~(<<y, x>> \in OpToRel(<, Nat))
  BY NatLessThanWellFounded, WFMin, Zenon
<1>2. \A y \in S : x <= y
  <2> TAKE y \in S
  <2>1. x \in Nat /\ y \in Nat
    OBVIOUS
  <2>2. y < x => <<y, x>> \in OpToRel(<, Nat)
    BY <2>1 DEF OpToRel
  <2>3. ~(y < x)
    BY <1>1, <2>2, Zenon
  <2> QED BY <2>1, <2>3
<1>3. \E z \in S : \A y \in S : z <= y
  BY <1>2
<1> QED BY <1>3, Zenon DEF Min

(* k free blocks of a pool in a row, and that there are none.                *)
HasRun(p, k, start) == start \in 0..(p.block_count - k) /\ Fits(p.used, k, start)
NoRun(p, k) == \A s \in 0..(p.block_count - k) : ~Fits(p.used, k, s)

(* What mem_buffer_malloc finds is free, and it refuses only what it has not.*)
LEMMA FirstFitFinds ==
  ASSUME NEW p, PoolOK(p), NEW size \in Nat
  PROVE  /\ FirstFit(p, size) # None => HasRun(p, BlocksNeeded(p, size), FirstFit(p, size))
         /\ FirstFit(p, size) = None => NoRun(p, BlocksNeeded(p, size))
<1> DEFINE k == BlocksNeeded(p, size)
           n == p.block_count
<1>1. k \in Nat \ {0} /\ n \in Nat
  BY NeededIn, PoolNumbers
<1>2. CASE k > n
  <2>1. FirstFit(p, size) = None
    BY <1>2 DEF FirstFit
  <2>2. \A s \in 0..(n - k) : FALSE
    <3> HIDE DEF k, n
    <3> QED BY <1>1, <1>2
  <2> QED BY <2>1, <2>2 DEF NoRun
<1>3. CASE ~(k > n)
  <2>1. FirstFit(p, size) = Scan(p, k)
    BY <1>3 DEF FirstFit
  <2> HIDE DEF k
  <2>2. IF Scan(p, k) = None
         THEN \A b \in 0..(p.block_count - k) : ~Fits(p.used, k, b)
         ELSE Scan(p, k) \in 0..(p.block_count - k) /\ Fits(p.used, k, Scan(p, k))
    BY <1>1, ScanFinds
  <2>3. /\ Scan(p, k) # None => HasRun(p, k, Scan(p, k))
        /\ Scan(p, k) = None => NoRun(p, k)
    BY <2>2, Zenon DEF HasRun, NoRun
  <2> QED BY <2>1, <2>3, Zenon DEF k
<1> QED BY <1>2, <1>3

(* A pool whose blocks hold the request refuses it only when it is full.     *)
LEMMA FullPool ==
  ASSUME NEW p, PoolOK(p), NEW size \in Nat, p.block_size >= size + HEADER,
         FirstFit(p, size) = None
  PROVE  p.used = 0..(p.block_count - 1)
<1>1. NoRun(p, 1)
  BY FirstFitFinds, NeededOne
<1>2. \A s \in 0..(p.block_count - 1) : s \in p.used
  <2> TAKE s \in 0..(p.block_count - 1)
  <2>1. s \in Int /\ \A c \in s..(s + 1 - 1) : c = s
    BY PoolNumbers
  <2> QED BY <1>1, <2>1 DEF NoRun, Fits
<1> QED BY <1>2 DEF PoolOK

(* What a pool tells is its level, which is never CRITICAL.                  *)
LEMMA NewsIn ==
  ASSUME NEW p
  PROVE  /\ News(p) \in Levels /\ News(p) # CRITICAL
         /\ News(p) >= HIGH /\ Usage(p) \in Nat => Usage(p) >= 85
BY LevelsAre DEF News, LevelFromUsage

(* A warning changes nothing but the remembered level.                       *)
LEMMA WarnedOK ==
  ASSUME NEW p, PoolOK(p)
  PROVE  Relabelled(p, Warned(p)) /\ (Warned(p).last = CRITICAL => p.last = CRITICAL)
<1>1. CASE News(p) = NONE
  BY <1>1, Zenon DEF Warned, Relabelled
<1>2. CASE News(p) # NONE
  <2>1. Warned(p) = [p EXCEPT !.last = News(p)]
    BY <1>2 DEF Warned
  <2>2. News(p) \in Levels /\ News(p) # CRITICAL
    BY NewsIn
  <2>3. Relabelled(p, Warned(p)) /\ Warned(p).last = News(p)
    BY <2>1, <2>2, RelabelOK
  <2> QED BY <2>2, <2>3
<1> QED BY <1>1, <1>2
------------------------------------------------------------------------------
(* What lwIP holds.                                                         *)

Held(ps, a) == Run(a.start, BlocksNeeded(ps[a.pool], a.size))

(* An allocation lies in its pool, and its header tells its length.          *)
Lent(ps, a) ==
  /\ a.pool \in DOMAIN ps /\ a.start \in Nat /\ a.size \in Sizes
  /\ a.start + BlocksNeeded(ps[a.pool], a.size) <= ps[a.pool].block_count
  /\ ps[a.pool].header[a.start] = BlocksNeeded(ps[a.pool], a.size)

Apart(ps, a, b) == a # b /\ a.pool = b.pool => \A x \in Held(ps, a) : x \notin Held(ps, b)

(* The blocks in use are the blocks of the allocations.                      *)
Owned(ps, lv) ==
  /\ \A a \in lv : Lent(ps, a)
  /\ \A a, b \in lv : Apart(ps, a, b)
  /\ \A i \in DOMAIN ps : \A x \in ps[i].used : \E a \in lv : a.pool = i /\ x \in Held(ps, a)
  /\ \A a \in lv : Held(ps, a) \subseteq ps[a.pool].used

AllOK(ps) == ps \in Seq(PoolRecords) /\ \A i \in DOMAIN ps : PoolOK(ps[i])

(* The inductive invariant.                                                  *)
IInv ==
  /\ AllOK(pools) /\ heap \in Nat /\ ring \in Rings /\ level \in Levels
  /\ Owned(pools, live)
  /\ pools = <<>> => ret = None
  /\ RefusedOnlyWhenFull

(* Pools of the same shape as before.                                        *)
Reshaped(ps, qs) ==
  /\ DOMAIN qs = DOMAIN ps
  /\ \A j \in DOMAIN ps :
       qs[j].block_size = ps[j].block_size /\ qs[j].block_count = ps[j].block_count

(* The blocks an allocation holds do not depend on the levels.               *)
LEMMA HeldSame ==
  ASSUME NEW ps, NEW qs, Reshaped(ps, qs), NEW a, a.pool \in DOMAIN ps
  PROVE  /\ Held(qs, a) = Held(ps, a)
         /\ BlocksNeeded(qs[a.pool], a.size) = BlocksNeeded(ps[a.pool], a.size)
<1>1. BlocksNeeded(qs[a.pool], a.size) = BlocksNeeded(ps[a.pool], a.size)
  BY Zenon DEF Reshaped, BlocksNeeded
<1> QED BY <1>1, Zenon DEF Held

(* An allocation holds its first block.                                      *)
LEMMA HoldsFirst ==
  ASSUME NEW ps, AllOK(ps), NEW a, Lent(ps, a)
  PROVE  a.start \in Held(ps, a) /\ a.start \in 0..(ps[a.pool].block_count - 1)
<1> DEFINE k == BlocksNeeded(ps[a.pool], a.size)
           n == ps[a.pool].block_count
<1>1. PoolOK(ps[a.pool]) /\ a.size \in Nat
  BY MemPoolAssumption DEF AllOK, Lent
<1>2. k \in Nat \ {0} /\ n \in Nat /\ a.start \in Nat /\ a.start + k <= n
  BY <1>1, NeededIn, PoolNumbers DEF Lent
<1> HIDE DEF k, n
<1>3. a.start \in a.start..(a.start + k - 1) /\ a.start \in 0..(n - 1)
  BY <1>2
<1> QED BY <1>3 DEF Held, Run, k, n

(* Nor does who owns which block.                                            *)
LEMMA OwnedRelabelled ==
  ASSUME NEW ps, AllOK(ps), NEW lv, Owned(ps, lv), NEW qs, DOMAIN qs = DOMAIN ps,
         \A j \in DOMAIN ps : Relabelled(ps[j], qs[j])
  PROVE  Owned(qs, lv) /\ Reshaped(ps, qs)
<1>1. Reshaped(ps, qs)
  BY Zenon DEF Relabelled, Reshaped
<1>2. \A a \in lv : Held(qs, a) = Held(ps, a) /\ Lent(qs, a)
  <2> TAKE a \in lv
  <2>1. Lent(ps, a) /\ a.pool \in DOMAIN ps
    BY Zenon DEF Owned, Lent
  <2>2. /\ Held(qs, a) = Held(ps, a)
        /\ BlocksNeeded(qs[a.pool], a.size) = BlocksNeeded(ps[a.pool], a.size)
    BY <1>1, <2>1, HeldSame
  <2>3. qs[a.pool].header = ps[a.pool].header /\ qs[a.pool].block_count = ps[a.pool].block_count
    BY <2>1, Zenon DEF Relabelled
  <2>4. Lent(qs, a)
    BY <2>1, <2>2, <2>3, Zenon DEF Lent
  <2> QED BY <2>2, <2>4
<1>3. \A j \in DOMAIN ps : qs[j].used = ps[j].used
  BY Zenon DEF Relabelled
<1>4. \A a, b \in lv : Apart(qs, a, b)
  BY <1>2, Zenon DEF Owned, Apart
<1>5. \A i \in DOMAIN qs : \A x \in qs[i].used : \E a \in lv : a.pool = i /\ x \in Held(qs, a)
  BY <1>2, <1>3, Zenon DEF Owned
<1>6. \A a \in lv : Held(qs, a) \subseteq qs[a.pool].used
  BY <1>2, <1>3, Zenon DEF Owned, Lent
<1> QED BY <1>1, <1>2, <1>4, <1>5, <1>6, Zenon DEF Owned

(* lwIP is given a run of free blocks.                                       *)
LEMMA OwnedTaken ==
  ASSUME NEW ps, AllOK(ps), NEW lv, Owned(ps, lv), NEW i \in DOMAIN ps, NEW size \in Sizes,
         NEW start, HasRun(ps[i], BlocksNeeded(ps[i], size), start),
         NEW q, TookRun(ps[i], start, BlocksNeeded(ps[i], size), q),
         NEW new, new = [pool |-> i, start |-> start, size |-> size],
         NEW qs, DOMAIN qs = DOMAIN ps, qs[i] = q,
         \A j \in DOMAIN ps : j # i => qs[j] = ps[j]
  PROVE  Owned(qs, lv \cup {new})
<1> DEFINE k == BlocksNeeded(ps[i], size)
           n == ps[i].block_count
           p == ps[i]
<1>1. k \in Nat \ {0} /\ n \in Nat /\ start \in Nat /\ start + k <= n
  <2>1. k \in Nat \ {0} /\ n \in Nat
    BY MemPoolAssumption, NeededIn, PoolNumbers DEF AllOK
  <2>2. start \in 0..(n - k)
    BY DEF HasRun
  <2> HIDE DEF k, n
  <2> QED BY <2>1, <2>2
<1>2. new.pool = i /\ new.start = start /\ new.size = size
  OBVIOUS
<1>3. Reshaped(ps, qs)
  BY Zenon DEF Reshaped, TookRun
<1>4. Held(qs, new) = Run(start, k) /\ BlocksNeeded(qs[i], size) = k
  <2>1. new.pool \in DOMAIN ps
    BY <1>2
  <2>2. /\ Held(qs, new) = Held(ps, new)
        /\ BlocksNeeded(qs[new.pool], new.size) = BlocksNeeded(ps[new.pool], new.size)
    BY <1>3, <2>1, HeldSame
  <2>3. Held(ps, new) = Run(start, k)
    BY <1>2, Zenon DEF Held
  <2> QED BY <1>2, <2>2, <2>3, Zenon
<1>5. Lent(qs, new)
  <2>1. qs[i].header[start] = k /\ qs[i].block_count = n
    BY Zenon DEF TookRun
  <2> HIDE DEF k, n
  <2> QED BY <1>1, <1>2, <1>4, <2>1, Zenon DEF Lent
<1>6. \A x \in Run(start, k) : x \notin p.used
  BY Zenon DEF HasRun, Fits, Run
<1>7. start \in Run(start, k)
  <2> HIDE DEF k
  <2> QED BY <1>1 DEF Run
<1>8. ASSUME NEW a \in lv PROVE Lent(qs, a) /\ Held(qs, a) = Held(ps, a)
  <2>1. Lent(ps, a) /\ a.pool \in DOMAIN ps /\ Held(ps, a) \subseteq ps[a.pool].used
    BY Zenon DEF Owned, Lent
  <2>2. /\ Held(qs, a) = Held(ps, a)
        /\ BlocksNeeded(qs[a.pool], a.size) = BlocksNeeded(ps[a.pool], a.size)
    BY <1>3, <2>1, HeldSame
  <2>3. qs[a.pool].block_count = ps[a.pool].block_count
    BY <1>3, <2>1, Zenon DEF Reshaped
  <2>4. qs[a.pool].header[a.start] = ps[a.pool].header[a.start]
    <3>1. CASE a.pool # i
      BY <2>1, <3>1, Zenon
    <3>2. CASE a.pool = i
      <4>1. a.start \in Held(ps, a) /\ a.start \in 0..(n - 1)
        BY <2>1, <3>2, HoldsFirst
      <4>2. a.start # start
        BY <1>6, <1>7, <2>1, <3>2, <4>1, Zenon
      <4> QED BY <3>2, <4>1, <4>2, Zenon DEF TookRun
    <3> QED BY <3>1, <3>2
  <2> QED BY <2>1, <2>2, <2>3, <2>4, Zenon DEF Lent
<1>9. /\ qs[i].used = p.used \cup Run(start, k)
      /\ \A j \in DOMAIN ps : j # i => qs[j].used = ps[j].used
  BY Zenon DEF TookRun
<1>10. \A a \in lv \cup {new} : Lent(qs, a)
  BY <1>5, <1>8, Zenon
<1>11. \A a \in lv : Held(ps, a) \subseteq ps[a.pool].used
  BY Zenon DEF Owned
<1>12. \A a, b \in lv \cup {new} : Apart(qs, a, b)
  <2>1. \A a, b \in lv : Apart(qs, a, b)
    BY <1>8, Zenon DEF Owned, Apart
  <2>2. ASSUME NEW a \in lv, a.pool = i
        PROVE  \A x \in Held(qs, a) : x \notin Held(qs, new)
    BY <1>4, <1>6, <1>8, <1>11, <2>2
  <2>3. \A a \in lv : Apart(qs, a, new) /\ Apart(qs, new, a)
    BY <1>2, <2>2, Zenon DEF Apart
  <2>4. Apart(qs, new, new)
    BY Zenon DEF Apart
  <2> QED BY <2>1, <2>3, <2>4, Zenon
<1>13. ASSUME NEW j \in DOMAIN qs, NEW x \in qs[j].used
       PROVE  \E a \in lv \cup {new} : a.pool = j /\ x \in Held(qs, a)
  <2>1. CASE j = i /\ x \in Run(start, k)
    BY <1>2, <1>4, <2>1, Zenon
  <2>2. CASE x \in ps[j].used
    <3>1. PICK a \in lv : a.pool = j /\ x \in Held(ps, a)
      BY <2>2, Zenon DEF Owned
    <3> QED BY <1>8, <3>1, Zenon
  <2> QED BY <1>9, <1>13, <2>1, <2>2
<1>14. ASSUME NEW a \in lv \cup {new} PROVE Held(qs, a) \subseteq qs[a.pool].used
  <2>1. CASE a = new
    BY <1>2, <1>4, <1>9, <2>1
  <2>2. CASE a \in lv
    <3>1. a.pool \in DOMAIN ps
      BY <2>2, Zenon DEF Owned, Lent
    <3>2. Held(qs, a) \subseteq ps[a.pool].used
      BY <1>8, <1>11, <2>2, Zenon
    <3> QED BY <1>9, <3>1, <3>2
  <2> QED BY <2>1, <2>2
<1> QED BY <1>10, <1>12, <1>13, <1>14, Zenon DEF Owned

(* lwIP gives an allocation back.                                            *)
LEMMA OwnedGiven ==
  ASSUME NEW ps, AllOK(ps), NEW lv, Owned(ps, lv), NEW a \in lv,
         NEW q, GaveRun(ps[a.pool], a.start, BlocksNeeded(ps[a.pool], a.size), q),
         NEW qs, DOMAIN qs = DOMAIN ps, qs[a.pool] = q,
         \A j \in DOMAIN ps : j # a.pool => qs[j] = ps[j]
  PROVE  Owned(qs, lv \ {a})
<1> DEFINE i == a.pool
           p == ps[i]
           n == p.block_count
<1>1. i \in DOMAIN ps /\ Lent(ps, a) /\ a.start \in Held(ps, a)
  <2>1. Lent(ps, a)
    BY Zenon DEF Owned
  <2> QED BY <2>1, HoldsFirst DEF Lent
<1>2. Reshaped(ps, qs)
  BY Zenon DEF Reshaped, GaveRun
<1>3. /\ qs[i].used = p.used \ Held(ps, a)
      /\ \A j \in DOMAIN ps : j # i => qs[j].used = ps[j].used
  BY Zenon DEF GaveRun, Held
<1>4. ASSUME NEW b \in lv \ {a}
      PROVE  Lent(qs, b) /\ Held(qs, b) = Held(ps, b) /\ Held(qs, b) \subseteq qs[b.pool].used
  <2>1. /\ Lent(ps, b) /\ b.pool \in DOMAIN ps /\ Apart(ps, b, a)
        /\ Held(ps, b) \subseteq ps[b.pool].used
    BY Zenon DEF Owned, Lent
  <2>2. /\ Held(qs, b) = Held(ps, b)
        /\ BlocksNeeded(qs[b.pool], b.size) = BlocksNeeded(ps[b.pool], b.size)
    BY <1>2, <2>1, HeldSame
  <2>3. qs[b.pool].block_count = ps[b.pool].block_count
    BY <1>2, <2>1, Zenon DEF Reshaped
  <2>4. b.pool = i => \A x \in Held(ps, b) : x \notin Held(ps, a)
    BY <2>1, Zenon DEF Apart
  <2>5. qs[b.pool].header[b.start] = ps[b.pool].header[b.start]
    <3>1. CASE b.pool # i
      BY <2>1, <3>1, Zenon
    <3>2. CASE b.pool = i
      <4>1. b.start \in Held(ps, b) /\ b.start \in 0..(n - 1)
        BY <2>1, <3>2, HoldsFirst
      <4>2. b.start # a.start
        BY <1>1, <2>4, <3>2, <4>1, Zenon
      <4> QED BY <3>2, <4>1, <4>2, Zenon DEF GaveRun
    <3> QED BY <3>1, <3>2
  <2>6. Held(ps, b) \subseteq qs[b.pool].used
    BY <1>3, <2>1, <2>4
  <2> QED BY <2>1, <2>2, <2>3, <2>5, <2>6, Zenon DEF Lent
<1>5. \A b, c \in lv \ {a} : Apart(qs, b, c)
  BY <1>4, Zenon DEF Owned, Apart
<1>6. ASSUME NEW j \in DOMAIN qs, NEW x \in qs[j].used
      PROVE  \E b \in lv \ {a} : b.pool = j /\ x \in Held(qs, b)
  <2>1. x \in ps[j].used /\ (j = i => x \notin Held(ps, a))
    BY <1>3, <1>6
  <2>2. PICK b \in lv : b.pool = j /\ x \in Held(ps, b)
    BY <2>1, Zenon DEF Owned
  <2>3. b # a
    BY <2>1, <2>2, Zenon
  <2> QED BY <1>4, <2>2, <2>3
<1> QED BY <1>4, <1>5, <1>6, Zenon DEF Owned
------------------------------------------------------------------------------
(* The steps.                                                               *)

(* What a request does to the levels, whether it is granted or not: a pool   *)
(* is called full only when the level says so, and the level is raised to    *)
(* HIGH or above only when a pool's usage is there.                          *)
Asked(told) ==
  /\ told \in [DOMAIN pools -> PoolRecords]
  /\ \A j \in DOMAIN pools :
       /\ Relabelled(pools[j], told[j])
       /\ told[j].last = CRITICAL => pools[j].last = CRITICAL \/ level' >= HIGH
  /\ level' \in Levels /\ level' >= level
  /\ level' # level /\ level' >= HIGH => \E j \in DOMAIN pools : Usage(pools[j]) >= 85
  /\ UNCHANGED <<heap, ring>>

RefusedWith(size, told) ==
  /\ pools' = told /\ live' = live /\ ret' = [pool |-> 0, start |-> 0, size |-> size]
  /\ \A j \in DOMAIN pools : FirstFit(pools[j], size) = None

GrantedWith(size, told, i) ==
  LET start == FirstFit(pools[i], size)
  IN /\ i \in DOMAIN pools /\ start # None
     /\ pools' = [told EXCEPT ![i] = Taken(told[i], start, BlocksNeeded(pools[i], size))]
     /\ ret' = [pool |-> i, start |-> start, size |-> size] /\ live' = live \cup {ret'}

(* What a request does: it is refused in every pool or granted in one.       *)
LEMMA Request ==
  ASSUME IInv, NEW size \in Sizes, mem_buffer_custom_malloc(size)
  PROVE  \E told : Asked(told) /\ (RefusedWith(size, told) \/ \E i : GrantedWith(size, told, i))
<1> DEFINE needed == size + HEADER
           fit == {i \in DOMAIN pools : needed <= pools[i].block_size * pools[i].block_count}
           large == {i \in fit : pools[i].block_size >= needed}
           served(S) == {i \in S : FirstFit(pools[i], size) # None}
           tried == {i \in large : \A j \in served(large) : i <= j}
           full == large # {} /\ served(large) = {}
           told == [i \in DOMAIN pools |->
                      IF full /\ i = Min(large) THEN [pools[i] EXCEPT !.last = CRITICAL]
                      ELSE IF i \in tried THEN Warned(pools[i]) ELSE pools[i]]
           from == IF served(large) # {} THEN served(large) ELSE served(fit \ large)
           news == {News(pools[j]) : j \in tried}
           said == news \cup (IF full THEN {CRITICAL} ELSE {})
           raised == Highest(said)
<1>1. /\ level' = Larger(level, raised)
      /\ IF from = {}
         THEN /\ pools' = told /\ UNCHANGED live
              /\ ret' = [pool |-> 0, start |-> 0, size |-> size]
         ELSE /\ pools' = [told EXCEPT ![Min(from)] =
                    Taken(told[Min(from)], FirstFit(pools[Min(from)], size),
                          BlocksNeeded(pools[Min(from)], size))]
              /\ ret' = [pool |-> Min(from), start |-> FirstFit(pools[Min(from)], size),
                         size |-> size]
              /\ live' = live \cup {ret'}
      /\ UNCHANGED <<heap, ring>>
  BY Zenon DEF mem_buffer_custom_malloc
<1>2. /\ \A j \in DOMAIN pools : PoolOK(pools[j])
      /\ DOMAIN pools \in SUBSET Nat /\ level \in Levels /\ size \in Nat
      /\ heap \in Nat /\ ring \in Nat
  BY MemPoolAssumption DEF IInv, AllOK
<1>3. large \in SUBSET DOMAIN pools /\ fit \in SUBSET DOMAIN pools /\ tried \in SUBSET large
  OBVIOUS
<1>4. \A j \in large : pools[j].block_size >= size + HEADER
  OBVIOUS
<1>5. full => Min(large) \in large /\ FirstFit(pools[Min(large)], size) = None
  <2>1. ASSUME full PROVE Min(large) \in large
    BY <1>2, <1>3, <2>1, LeastIs
  <2> QED BY <2>1
<1>6. from # {} => Min(from) \in DOMAIN pools /\ FirstFit(pools[Min(from)], size) # None
  <2>1. from \in SUBSET DOMAIN pools /\ \A j \in from : FirstFit(pools[j], size) # None
    BY <1>3
  <2> HIDE DEF from
  <2>2. from # {} => Min(from) \in from
    BY <1>2, <2>1, LeastIs
  <2> QED BY <2>1, <2>2
<1>7. from = {} => \A j \in DOMAIN pools : FirstFit(pools[j], size) = None
  <2> SUFFICES ASSUME from = {}, NEW j \in DOMAIN pools PROVE FirstFit(pools[j], size) = None
    OBVIOUS
  <2>1. CASE j \in fit
    BY <2>1
  <2>2. CASE j \notin fit
    <3>1. ~(size + HEADER <= pools[j].block_size * pools[j].block_count)
      BY <2>2
    <3>2. BlocksNeeded(pools[j], size) > pools[j].block_count
      BY <1>2, <3>1, NeededMore
    <3> QED BY <3>2 DEF FirstFit
  <2> QED BY <2>1, <2>2
<1>8. \A j \in DOMAIN pools :
        told[j] = IF full /\ j = Min(large) THEN [pools[j] EXCEPT !.last = CRITICAL]
                  ELSE IF j \in tried THEN Warned(pools[j]) ELSE pools[j]
  OBVIOUS
<1>9. DOMAIN told = DOMAIN pools /\ told = [j \in DOMAIN pools |-> told[j]]
  OBVIOUS
<1>10. \A x \in said : (x = CRITICAL /\ full) \/ \E j \in tried : x = News(pools[j])
  OBVIOUS
<1>11. full => CRITICAL \in said
  OBVIOUS
<1> HIDE DEF needed, fit, large, served, tried, full, told, from, news, said
<1>12. /\ raised \in Levels /\ \A x \in said : raised >= x
       /\ raised = NONE \/ raised \in said
  <2>1. said \subseteq Levels
    BY <1>10, NewsIn, LevelsAre
  <2> QED BY <2>1, HighestIs
<1> HIDE DEF raised
<1>13. level' \in Levels /\ level' >= level /\ level' >= raised /\ (level' # level => level' = raised)
  BY <1>1, <1>2, <1>12, LevelsAre DEF Larger
<1>14. full => level' >= HIGH
  BY <1>11, <1>12, <1>13, LevelsAre
<1>15. \A j \in DOMAIN pools : Usage(pools[j]) \in Nat
  BY <1>2, PoolNumbers, UsageIn
<1>16. full => Usage(pools[Min(large)]) >= 100 /\ pools[Min(large)].used = 0..(pools[Min(large)].block_count - 1)
  <2> SUFFICES ASSUME full
               PROVE  /\ Usage(pools[Min(large)]) >= 100
                      /\ pools[Min(large)].used = 0..(pools[Min(large)].block_count - 1)
    OBVIOUS
  <2> DEFINE p == pools[Min(large)]
  <2>1. PoolOK(p) /\ p.block_size >= size + HEADER /\ FirstFit(p, size) = None
    BY <1>2, <1>3, <1>4, <1>5
  <2> HIDE DEF p
  <2>2. p.used = 0..(p.block_count - 1)
    BY <1>2, <2>1, FullPool
  <2>3. p.used_blocks = p.block_count /\ p.used_blocks <= p.block_count
    BY <2>1, <2>2, PoolNumbers
  <2>4. Usage(p) >= 100
    BY <1>2, <2>1, <2>3, UsageIn
  <2> QED BY <2>2, <2>4 DEF p
<1>17. level' # level /\ level' >= HIGH => \E j \in DOMAIN pools : Usage(pools[j]) >= 85
  <2> SUFFICES ASSUME level' # level, level' >= HIGH
               PROVE  \E j \in DOMAIN pools : Usage(pools[j]) >= 85
    OBVIOUS
  <2>1. raised >= HIGH /\ raised \in said
    BY <1>12, <1>13, LevelsAre
  <2>2. CASE full
    <3>1. Min(large) \in DOMAIN pools
      BY <1>3, <1>5, <2>2
    <3>2. Usage(pools[Min(large)]) \in Nat /\ Usage(pools[Min(large)]) >= 100
      BY <1>15, <1>16, <2>2, <3>1
    <3> DEFINE u == Usage(pools[Min(large)])
    <3> HIDE DEF u
    <3>3. u >= 85
      BY <3>2 DEF u
    <3> QED BY <3>1, <3>3 DEF u
  <2>3. CASE ~full
    <3>1. PICK j \in tried : raised = News(pools[j])
      BY <1>10, <2>1, <2>3
    <3>2. j \in DOMAIN pools
      BY <1>3
    <3> QED BY <1>15, <2>1, <3>1, <3>2, NewsIn
  <2> QED BY <2>2, <2>3
<1>18. ASSUME NEW j \in DOMAIN pools
       PROVE  /\ Relabelled(pools[j], told[j])
              /\ told[j].last = CRITICAL => pools[j].last = CRITICAL \/ level' >= HIGH
  <2>1. CASE full /\ j = Min(large)
    <3>1. told[j] = [pools[j] EXCEPT !.last = CRITICAL]
      BY <1>8, <2>1
    <3>2. CRITICAL \in Levels
      BY LevelsAre
    <3>3. Relabelled(pools[j], told[j])
      BY <1>2, <1>16, <2>1, <3>1, <3>2, RelabelOK
    <3> QED BY <1>14, <2>1, <3>3
  <2>2. CASE ~(full /\ j = Min(large)) /\ j \in tried
    <3>1. told[j] = Warned(pools[j])
      BY <1>8, <2>2
    <3> QED BY <1>2, <3>1, WarnedOK
  <2>3. CASE ~(full /\ j = Min(large)) /\ j \notin tried
    <3>1. told[j] = pools[j]
      BY <1>8, <2>3
    <3> QED BY <1>2, <3>1, Zenon DEF Relabelled
  <2> QED BY <2>1, <2>2, <2>3
<1>19. told \in [DOMAIN pools -> PoolRecords]
  <2>1. \A j \in DOMAIN pools : told[j] \in PoolRecords
    BY <1>18, Zenon DEF Relabelled, PoolOK
  <2> QED BY <1>9, <2>1
<1>20. Asked(told)
  BY <1>1, <1>13, <1>17, <1>18, <1>19, Zenon DEF Asked
<1>21. CASE from = {}
  BY <1>1, <1>7, <1>20, <1>21, Zenon DEF RefusedWith
<1>22. CASE from # {}
  <2>1. GrantedWith(size, told, Min(from))
    BY <1>1, <1>6, <1>22, Zenon DEF GrantedWith
  <2> QED BY <1>20, <2>1, Zenon
<1> QED BY <1>21, <1>22
(* A step that changes the level rightly, and forgets no full pool.          *)
Over(ps) == \E j \in DOMAIN ps : Usage(ps[j]) >= 85
Remembers == FullRemembered => FullRemembered'
Follows == level' > level /\ level' >= HIGH => OverHigh'

(* OverHigh after a step, from the pools after it.                           *)
LEMMA OverNext ==
  ASSUME UNCHANGED <<heap, ring>>, Over(pools')
  PROVE  OverHigh'
<1>1. heap' = heap /\ ring' = ring
  OBVIOUS
<1> QED BY <1>1, Zenon DEF Over, OverHigh, Usage

(* mem_buffer_custom_malloc.                                                 *)
LEMMA RequestKeeps ==
  ASSUME IInv, NEW size \in Sizes, mem_buffer_custom_malloc(size)
  PROVE  IInv' /\ Remembers /\ Follows
<1>1. PICK told : Asked(told) /\ (RefusedWith(size, told) \/ \E i : GrantedWith(size, told, i))
  BY Request
<1>2. /\ AllOK(pools) /\ Owned(pools, live) /\ heap \in Nat /\ ring \in Rings /\ ring \in Nat
      /\ level \in Levels /\ size \in Nat
  BY MemPoolAssumption DEF IInv
<1>3. /\ told \in [DOMAIN pools -> PoolRecords]
      /\ \A j \in DOMAIN pools :
           /\ Relabelled(pools[j], told[j])
           /\ told[j].last = CRITICAL => pools[j].last = CRITICAL \/ level' >= HIGH
      /\ level' \in Levels /\ level' >= level
      /\ level' # level /\ level' >= HIGH => \E j \in DOMAIN pools : Usage(pools[j]) >= 85
      /\ heap' = heap /\ ring' = ring
  BY <1>1, Zenon DEF Asked
<1>4. DOMAIN pools = 1..Len(pools) /\ Len(pools) \in Nat
  BY <1>2 DEF AllOK
<1>5. DOMAIN told = DOMAIN pools /\ AllOK(told)
  <2>1. told \in Seq(PoolRecords) /\ DOMAIN told = DOMAIN pools
    BY <1>3, <1>4
  <2> QED BY <1>3, <2>1, Zenon DEF AllOK, Relabelled
<1>6. Owned(told, live) /\ Reshaped(pools, told)
  BY <1>2, <1>3, <1>5, OwnedRelabelled
<1>7. heap' \in Nat /\ ring' \in Rings /\ pools # <<>>
  BY <1>2, <1>3 DEF mem_buffer_custom_malloc
<1>8. DOMAIN pools # {}
  BY <1>4, <1>7, <1>2 DEF AllOK
<1>9. ASSUME DOMAIN pools' = DOMAIN pools, \A j \in DOMAIN pools : pools'[j].last = told[j].last
      PROVE  Remembers
  <2> SUFFICES ASSUME FullRemembered PROVE FullRemembered'
    BY DEF Remembers
  <2> SUFFICES ASSUME NEW j \in DOMAIN pools', pools'[j].last = CRITICAL
               PROVE  level' >= HIGH
    BY DEF FullRemembered
  <2>1. pools[j].last = CRITICAL \/ level' >= HIGH
    BY <1>3, <1>9
  <2>2. pools[j].last = CRITICAL => level >= HIGH
    BY <1>9 DEF FullRemembered
  <2> QED BY <1>2, <1>3, <2>1, <2>2, LevelsAre
<1>10. ASSUME DOMAIN pools' = DOMAIN pools,
              \A j \in DOMAIN pools :
                /\ PoolOK(pools'[j]) /\ pools'[j].block_size = pools[j].block_size
                /\ pools'[j].block_count = pools[j].block_count
                /\ pools[j].used_blocks <= pools'[j].used_blocks
       PROVE  Follows
  <2> SUFFICES ASSUME level' >= HIGH, level' # level PROVE OverHigh'
    BY <1>2, <1>3, LevelsAre DEF Follows
  <2>1. PICK j \in DOMAIN pools : Usage(pools[j]) >= 85
    BY <1>3
  <2> DEFINE p == pools[j]
             q == pools'[j]
             u == Usage(p)
             v == Usage(q)
  <2>2. PoolOK(p) /\ PoolOK(q)
    BY <1>2, <1>10 DEF AllOK
  <2>3. v >= u
    BY <1>2, <1>10, <2>2, UsageMonotone
  <2>4. u \in Nat /\ v \in Nat
    BY <1>2, <2>2, PoolNumbers, UsageIn
  <2>5. u >= 85
    BY <2>1
  <2> HIDE DEF u, v
  <2>6. v >= 85
    BY <2>3, <2>4, <2>5
  <2>7. Over(pools')
    BY <1>10, <2>6 DEF Over, v
  <2> QED BY <1>3, <2>7, OverNext
<1>11. CASE RefusedWith(size, told)
  <2>1. /\ pools' = told /\ live' = live /\ ret' = [pool |-> 0, start |-> 0, size |-> size]
        /\ \A j \in DOMAIN pools : FirstFit(pools[j], size) = None
    BY <1>11, Zenon DEF RefusedWith
  <2>2. ret'.size = size
    BY <2>1
  <2>3. RefusedOnlyWhenFull'
    <3> SUFFICES ASSUME NEW j \in DOMAIN pools',
                        NEW s \in 0..(pools'[j].block_count - BlocksNeeded(pools'[j], size))
                 PROVE  s..(s + BlocksNeeded(pools'[j], size) - 1) \cap pools'[j].used # {}
      BY <2>2, Zenon DEF RefusedOnlyWhenFull
    <3> DEFINE k == BlocksNeeded(pools[j], size)
    <3>1. j \in DOMAIN pools /\ PoolOK(pools[j])
      BY <1>2, <1>5, <2>1 DEF AllOK
    <3>2. pools'[j].used = pools[j].used /\ pools'[j].block_count = pools[j].block_count
      BY <1>3, <2>1, <3>1, Zenon DEF Relabelled
    <3>3. BlocksNeeded(pools'[j], size) = k
      BY <1>3, <2>1, <3>1, Zenon DEF Relabelled, BlocksNeeded
    <3>4. NoRun(pools[j], k)
      BY <1>2, <2>1, <3>1, FirstFitFinds
    <3> HIDE DEF k
    <3>5. PICK c \in s..(s + k - 1) : c \in pools[j].used
      BY <3>2, <3>3, <3>4, Zenon DEF NoRun, Fits
    <3> QED BY <3>2, <3>3, <3>5
  <2>4. AllOK(pools') /\ Owned(pools', live') /\ pools' # <<>>
    BY <1>5, <1>6, <1>8, <2>1
  <2>5. IInv'
    BY <1>3, <1>7, <2>3, <2>4, Zenon DEF IInv
  <2>6. Remembers
    BY <1>5, <1>9, <2>1
  <2>7. Follows
    <3>1. ASSUME NEW j \in DOMAIN pools
          PROVE  /\ PoolOK(told[j]) /\ told[j].block_size = pools[j].block_size
                 /\ told[j].block_count = pools[j].block_count
                 /\ told[j].used_blocks = pools[j].used_blocks /\ pools[j].used_blocks \in Nat
      <4>1. PoolOK(pools[j])
        BY <1>2 DEF AllOK
      <4> QED BY <1>3, <4>1, PoolNumbers DEF Relabelled
    <3> QED BY <1>5, <1>10, <2>1, <3>1
  <2> QED BY <2>5, <2>6, <2>7
<1>12. ASSUME NEW i, GrantedWith(size, told, i) PROVE IInv' /\ Remembers /\ Follows
  <2> DEFINE start == FirstFit(pools[i], size)
             k == BlocksNeeded(pools[i], size)
             q == Taken(told[i], start, k)
             p == told[i]
  <2>1. /\ i \in DOMAIN pools /\ start # None
        /\ pools' = [told EXCEPT ![i] = q]
        /\ ret' = [pool |-> i, start |-> start, size |-> size] /\ live' = live \cup {ret'}
    BY <1>12, Zenon DEF GrantedWith
  <2>2. PoolOK(pools[i]) /\ PoolOK(p) /\ Relabelled(pools[i], p)
    BY <1>2, <1>3, <1>5, <2>1, Zenon DEF AllOK
  <2>3. HasRun(pools[i], k, start) /\ k \in Nat \ {0}
    BY <1>2, <2>1, <2>2, FirstFitFinds, NeededIn
  <2>4. HasRun(p, k, start) /\ BlocksNeeded(p, size) = k
    BY <2>2, <2>3, Zenon DEF Relabelled, HasRun, BlocksNeeded
  <2> HIDE DEF start, k, p
  <2>5. TookRun(p, start, k, Taken(p, start, k))
    BY <2>2, <2>3, <2>4, TakenOK DEF HasRun
  <2>6. TookRun(p, start, k, q)
    BY <2>5 DEF p
  <2> HIDE DEF q
  <2>7. /\ DOMAIN pools' = DOMAIN told /\ pools'[i] = q
        /\ \A j \in DOMAIN told : j # i => pools'[j] = told[j]
    BY <1>3, <1>5, <2>1
  <2>8. PoolOK(q) /\ q \in PoolRecords
    BY <2>6, Zenon DEF TookRun, PoolOK
  <2>9. AllOK(pools')
    <3>1. \A j \in DOMAIN pools' : PoolOK(pools'[j]) /\ pools'[j] \in PoolRecords
      BY <1>5, <2>7, <2>8, Zenon DEF AllOK, PoolOK
    <3>2. pools' \in [1..Len(pools) -> PoolRecords]
      BY <1>3, <1>4, <2>1, <2>8
    <3> QED BY <1>4, <3>1, <3>2 DEF AllOK
  <2>10. Owned(pools', live')
    BY <1>5, <1>6, <2>1, <2>4, <2>6, <2>7, OwnedTaken DEF p
  <2>11. RefusedOnlyWhenFull'
    <3>1. ret'.pool # 0
      BY <1>4, <2>1
    <3> QED BY <3>1, Zenon DEF RefusedOnlyWhenFull
  <2>12. pools' # <<>>
    BY <1>5, <1>8, <2>7
  <2>13. IInv'
    BY <1>3, <1>7, <2>9, <2>10, <2>11, <2>12, Zenon DEF IInv
  <2>14. \A j \in DOMAIN pools : pools'[j].last = told[j].last
    BY <1>5, <2>6, <2>7, Zenon DEF TookRun, p
  <2>15. Remembers
    BY <1>5, <1>9, <2>7, <2>14
  <2>16. ASSUME NEW j \in DOMAIN pools
         PROVE  /\ PoolOK(pools'[j]) /\ pools'[j].block_size = pools[j].block_size
                /\ pools'[j].block_count = pools[j].block_count
                /\ pools[j].used_blocks <= pools'[j].used_blocks
    <3>1. PoolOK(pools[j]) /\ pools[j].used_blocks \in Nat
      BY <1>2, PoolNumbers DEF AllOK
    <3>2. CASE j = i
      <4>1. /\ PoolOK(q) /\ q.block_size = p.block_size /\ q.block_count = p.block_count
            /\ q.used_blocks >= p.used_blocks /\ q.used_blocks \in Nat
        BY <2>6, PoolNumbers DEF TookRun
      <4>2. /\ p.block_size = pools[i].block_size /\ p.block_count = pools[i].block_count
            /\ p.used_blocks = pools[i].used_blocks
        BY <2>2, Zenon DEF Relabelled
      <4> QED BY <2>7, <3>1, <3>2, <4>1, <4>2
    <3>3. CASE j # i
      <4>1. pools'[j] = told[j]
        BY <1>5, <2>7, <3>3
      <4> QED BY <1>3, <3>1, <4>1 DEF Relabelled
    <3> QED BY <3>2, <3>3
  <2>17. Follows
    BY <1>5, <1>10, <2>1, <2>7, <2>16
  <2> QED BY <2>13, <2>15, <2>17
<1> QED BY <1>1, <1>11, <1>12
(* The level the pools are at: HIGH or above only over usage, and whenever   *)
(* one of them is known to be full.                                          *)
LEMMA LevelOfPools ==
  ASSUME NEW ps, AllOK(ps), heap \in Nat, ring \in Nat
  PROVE  /\ PoolsLevel(ps) \in Levels /\ (PoolsLevel(ps) >= HIGH => Over(ps))
         /\ \A j \in DOMAIN ps : ps[j].last = CRITICAL =>
              PoolsLevel(ps) >= HIGH /\ (ClearPct < 100 => ~BelowClear(ps))
<1> DEFINE said == {Relief(ps[i].last, Usage(ps[i])) : i \in DOMAIN ps}
           relieved == Highest(said)
<1>1. /\ relieved \in Levels /\ \A x \in said : relieved >= x
      /\ relieved = NONE \/ relieved \in said
  <2>1. said \subseteq Levels
    BY ReliefIn
  <2> HIDE DEF said
  <2> QED BY <2>1, HighestIs
<1>2. /\ relieved # NONE => PoolsLevel(ps) = relieved
      /\ relieved = NONE => PoolsLevel(ps) \in {NONE, MILD}
  BY DEF PoolsLevel
<1>3. \A j \in DOMAIN ps :
        /\ PoolOK(ps[j]) /\ ps[j].used_blocks <= ps[j].block_count /\ Usage(ps[j]) \in Nat
        /\ ps[j].last = CRITICAL => Usage(ps[j]) >= 100
  <2> TAKE j \in DOMAIN ps
  <2> DEFINE p == ps[j]
  <2>1. PoolOK(p)
    BY DEF AllOK
  <2> HIDE DEF p
  <2>2. p.used_blocks \in 0..p.block_count /\ p.block_count \in Nat
    BY <2>1, PoolNumbers
  <2>3. p.used_blocks <= p.block_count
    BY <2>2
  <2>4. Usage(p) \in Nat /\ (p.used_blocks = p.block_count => Usage(p) >= 100)
    BY <2>1, <2>3, UsageIn
  <2>5. p.last = CRITICAL => p.used_blocks = p.block_count
    BY <2>1, PoolNumbers DEF PoolOK
  <2> QED BY <2>1, <2>3, <2>4, <2>5 DEF p
<1>4. PoolsLevel(ps) \in Levels
  BY <1>1, <1>2, LevelsAre
<1>5. ASSUME PoolsLevel(ps) >= HIGH PROVE Over(ps)
  <2>1. relieved >= HIGH /\ relieved \in said
    <3> HIDE DEF relieved, said
    <3> QED BY <1>1, <1>2, <1>5, LevelsAre
  <2>2. PICK j \in DOMAIN ps : relieved = Relief(ps[j].last, Usage(ps[j]))
    BY <2>1
  <2> DEFINE u == Usage(ps[j])
             l == ps[j].last
  <2>3. u \in Nat /\ (l = CRITICAL => u >= 100) /\ Relief(l, u) >= HIGH
    BY <1>3, <2>1, <2>2
  <2> HIDE DEF u, l
  <2>4. u >= 85
    BY <2>3, LevelsAre DEF Relief, LevelFromUsage, Larger
  <2> QED BY <2>4 DEF Over, u
<1>6. ASSUME NEW j \in DOMAIN ps, ps[j].last = CRITICAL
      PROVE  PoolsLevel(ps) >= HIGH /\ (ClearPct < 100 => ~BelowClear(ps))
  <2>1. Relief(ps[j].last, Usage(ps[j])) \in said
    OBVIOUS
  <2>2. Relief(ps[j].last, Usage(ps[j])) >= HIGH
    BY <1>6, LevelsAre DEF Relief, LevelFromUsage, Larger
  <2> DEFINE r == Relief(ps[j].last, Usage(ps[j]))
             u == Usage(ps[j])
  <2>3. relieved >= r /\ r \in Levels
    BY <1>1, <2>1, ReliefIn
  <2>4. u \in Nat /\ u >= 100
    BY <1>3, <1>6
  <2> HIDE DEF r, relieved, said, u
  <2>5. relieved >= HIGH
    BY <1>1, <2>2, <2>3, LevelsAre DEF r
  <2>6. PoolsLevel(ps) >= HIGH
    BY <1>1, <1>2, <2>5, LevelsAre
  <2>7. ClearPct < 100 => ~(u <= ClearPct)
    BY <2>4, MemPoolAssumption
  <2> QED BY <2>6, <2>7 DEF BelowClear, u
<1> QED BY <1>4, <1>5, <1>6

(* mem_buffer_custom_free.                                                   *)
LEMMA FreeKeeps ==
  ASSUME IInv, NEW a \in live, mem_buffer_custom_free(a)
  PROVE  IInv' /\ (ClearPct < 100 => Remembers) /\ Follows
<1> DEFINE i == a.pool
           p == pools[i]
           f == Freed(p, a.start)
           l == Relief(f.last, Usage(f))
           q == [f EXCEPT !.last = l]
           k == BlocksNeeded(p, a.size)
<1>1. /\ AllOK(pools) /\ Owned(pools, live) /\ heap \in Nat /\ ring \in Rings /\ ring \in Nat
      /\ level \in Levels
  BY MemPoolAssumption DEF IInv
<1>2. /\ pools' = [pools EXCEPT ![i] = q]
      /\ level' = IF level # NONE /\ BelowClear(pools') THEN NONE ELSE PoolsLevel(pools')
      /\ live' = live \ {a} /\ ret' = None /\ heap' = heap /\ ring' = ring
  BY Zenon DEF mem_buffer_custom_free
<1>3. /\ i \in DOMAIN pools /\ Lent(pools, a) /\ PoolOK(p) /\ a.size \in Nat
      /\ a.start \in 0..(p.block_count - 1) /\ Run(a.start, k) \subseteq p.used
  <2>1. Lent(pools, a) /\ Held(pools, a) \subseteq pools[a.pool].used
    BY <1>1, Zenon DEF Owned
  <2>2. i \in DOMAIN pools /\ a.size \in Nat /\ PoolOK(p)
    BY <1>1, <2>1, MemPoolAssumption DEF Lent, AllOK
  <2>3. a.start \in 0..(p.block_count - 1)
    BY <1>1, <2>1, HoldsFirst
  <2> QED BY <2>1, <2>2, <2>3, Zenon DEF Held
<1>4. /\ k \in Nat \ {0} /\ k = p.header[a.start] /\ a.start + k <= p.block_count
  BY <1>3, NeededIn DEF Lent
<1>5. l \in Levels /\ l # CRITICAL
  BY ReliefIn
<1> HIDE DEF l, k
<1>6. GaveRun(p, a.start, k, [Freed(p, a.start) EXCEPT !.last = l])
  BY <1>3, <1>4, <1>5, FreedOK
<1>7. GaveRun(p, a.start, k, q)
  BY <1>6
<1> HIDE DEF q
<1>8. PoolOK(q) /\ q \in PoolRecords
  BY <1>7, Zenon DEF GaveRun, PoolOK
<1>9. DOMAIN pools = 1..Len(pools) /\ Len(pools) \in Nat /\ pools \in [1..Len(pools) -> PoolRecords]
  BY <1>1 DEF AllOK
<1>10. /\ DOMAIN pools' = DOMAIN pools /\ pools'[i] = q
       /\ \A j \in DOMAIN pools : j # i => pools'[j] = pools[j]
       /\ pools' \in [1..Len(pools) -> PoolRecords]
  BY <1>2, <1>3, <1>8, <1>9
<1>11. AllOK(pools')
  <2>1. \A j \in DOMAIN pools' : PoolOK(pools'[j])
    BY <1>1, <1>8, <1>10, Zenon DEF AllOK
  <2> QED BY <1>9, <1>10, <2>1 DEF AllOK
<1>12. Owned(pools', live')
  <2>1. GaveRun(pools[a.pool], a.start, BlocksNeeded(pools[a.pool], a.size), q)
    BY <1>7 DEF k
  <2>2. Owned(pools', live \ {a})
    BY <1>1, <1>10, <2>1, OwnedGiven
  <2> QED BY <1>2, <2>2
<1>13. /\ PoolsLevel(pools') \in Levels /\ (PoolsLevel(pools') >= HIGH => Over(pools'))
       /\ \A j \in DOMAIN pools' : pools'[j].last = CRITICAL =>
            PoolsLevel(pools') >= HIGH /\ (ClearPct < 100 => ~BelowClear(pools'))
  BY <1>1, <1>11, LevelOfPools
<1>14. level' \in Levels
  BY <1>2, <1>13, LevelsAre
<1>15. IInv'
  <2>1. RefusedOnlyWhenFull'
    BY <1>2, Zenon DEF RefusedOnlyWhenFull
  <2> QED BY <1>1, <1>2, <1>11, <1>12, <1>14, <2>1, Zenon DEF IInv
<1>16. ASSUME ClearPct < 100 PROVE Remembers
  <2> SUFFICES ASSUME NEW j \in DOMAIN pools', pools'[j].last = CRITICAL
               PROVE  level' >= HIGH
    BY DEF Remembers, FullRemembered
  <2>1. PoolsLevel(pools') >= HIGH /\ ~BelowClear(pools')
    BY <1>13, <1>16
  <2> QED BY <1>2, <2>1
<1>17. Follows
  <2> SUFFICES ASSUME level' >= HIGH PROVE OverHigh'
    BY DEF Follows
  <2>1. level' = PoolsLevel(pools')
    BY <1>2, LevelsAre
  <2>2. Over(pools')
    BY <1>13, <2>1
  <2> QED BY <1>2, <2>2, OverNext
<1> QED BY <1>15, <1>16, <1>17

(* mem_buffer_lwip_init_pools.                                               *)
LEMMA InitPoolsKeeps ==
  ASSUME IInv, NEW granted, mem_buffer_lwip_init_pools(granted)
  PROVE  IInv' /\ Remembers /\ Follows
<1> DEFINE made == CreatePools(granted)
<1>1. /\ AllOK(pools) /\ Owned(pools, live) /\ heap \in Nat /\ ring \in Rings
      /\ level \in Levels /\ pools = <<>> /\ ret = None
  BY DEF IInv, mem_buffer_lwip_init_pools
<1>2. /\ pools' \in Sorted(made.pools) /\ made.pools # <<>> /\ heap' = made.heap
      /\ ring' = ring /\ level' = level /\ live' = live /\ ret' = ret
  BY Zenon DEF mem_buffer_lwip_init_pools
<1>3. made \in [pools : Seq(Fresh), heap : Nat]
  BY <1>1, CreatePoolsIn
<1> HIDE DEF made
<1>4. made.pools \in Seq(Fresh) /\ heap' \in Nat
  BY <1>2, <1>3
<1>5. pools' \in Seq(Fresh) /\ Len(pools') = Len(made.pools)
  BY <1>2, <1>4, SortedIn
<1>6. \A j \in DOMAIN pools' : pools'[j] \in Fresh
  BY <1>5, ElementOfSeq
<1>7. \A j \in DOMAIN pools' :
        PoolOK(pools'[j]) /\ pools'[j].used = {} /\ pools'[j].last = NONE
  BY <1>6, FreshOK
<1>8. live = {}
  <2>1. DOMAIN pools = {}
    BY <1>1
  <2> QED BY <1>1, <2>1, Zenon DEF Owned, Lent
<1>9. AllOK(pools')
  <2>1. Fresh \subseteq PoolRecords
    BY FreshOK DEF PoolOK
  <2>2. pools' \in Seq(PoolRecords)
    BY <1>5, <2>1
  <2> QED BY <1>7, <2>2, Zenon DEF AllOK
<1>10. Owned(pools', live')
  BY <1>2, <1>7, <1>8, Zenon DEF Owned
<1>11. pools' = <<>> => ret' = None
  BY <1>1, <1>2
<1>12. RefusedOnlyWhenFull'
  BY <1>1, <1>2, Zenon DEF RefusedOnlyWhenFull
<1>13. IInv'
  BY <1>1, <1>2, <1>4, <1>9, <1>10, <1>11, <1>12, Zenon DEF IInv
<1>14. Remembers
  BY <1>7, LevelsAre DEF Remembers, FullRemembered
<1>15. Follows
  BY <1>1, <1>2, LevelsAre DEF Follows
<1> QED BY <1>13, <1>14, <1>15

(* A ring takes or gives back heap.                                          *)
LEMMA RingChargeKeeps ==
  ASSUME IInv, NEW bytes \in Rings, RingCharge(bytes)
  PROVE  IInv' /\ Remembers /\ Follows
<1>1. /\ ring' = bytes /\ ret' = None /\ pools' = pools /\ heap' = heap /\ level' = level
      /\ live' = live
  BY DEF RingCharge
<1>2. RefusedOnlyWhenFull'
  BY <1>1, Zenon DEF RefusedOnlyWhenFull
<1>3. IInv'
  BY <1>1, <1>2, Zenon DEF IInv
<1>4. Remembers
  BY <1>1, Zenon DEF Remembers, FullRemembered
<1>5. Follows
  <2>1. level \in Levels
    BY DEF IInv
  <2> QED BY <1>1, <2>1, LevelsAre DEF Follows
<1> QED BY <1>3, <1>4, <1>5

(* One step per action.                                                      *)
LEMMA StepKeeps ==
  ASSUME IInv, [Next]_vars
  PROVE  IInv' /\ (ClearPct < 100 => Remembers) /\ [Follows]_vars
<1>1. ASSUME NEW granted \in SUBSET DOMAIN Pools, mem_buffer_lwip_init_pools(granted)
      PROVE  IInv' /\ Remembers /\ Follows
  BY <1>1, InitPoolsKeeps
<1>2. ASSUME NEW size \in Sizes, mem_buffer_custom_malloc(size)
      PROVE  IInv' /\ Remembers /\ Follows
  BY <1>2, RequestKeeps
<1>3. ASSUME NEW a \in live, mem_buffer_custom_free(a)
      PROVE  IInv' /\ (ClearPct < 100 => Remembers) /\ Follows
  BY <1>3, FreeKeeps
<1>4. ASSUME NEW bytes \in Rings, RingCharge(bytes)
      PROVE  IInv' /\ Remembers /\ Follows
  BY <1>4, RingChargeKeeps
<1>5. CASE UNCHANGED vars
  <2>1. /\ pools' = pools /\ heap' = heap /\ ring' = ring /\ level' = level /\ live' = live
        /\ ret' = ret
    BY <1>5 DEF vars
  <2>2. RefusedOnlyWhenFull'
    BY <2>1, Zenon DEF IInv, RefusedOnlyWhenFull
  <2>3. IInv'
    BY <2>1, <2>2, Zenon DEF IInv
  <2>4. Remembers
    BY <2>1, Zenon DEF Remembers, FullRemembered
  <2> QED BY <1>5, <2>3, <2>4
<1> QED BY <1>1, <1>2, <1>3, <1>4, <1>5, Zenon DEF Next

(* Before the pools are made.                                                *)
LEMMA Starts == Init => IInv /\ FullRemembered
<1> SUFFICES ASSUME Init PROVE IInv /\ FullRemembered
  OBVIOUS
<1>1. /\ pools = <<>> /\ heap = 0 /\ ring = 0 /\ level = NONE /\ live = {} /\ ret = None
      /\ DOMAIN pools = {}
  BY DEF Init
<1>2. AllOK(pools) /\ Owned(pools, live)
  BY <1>1 DEF AllOK, Owned
<1>3. RefusedOnlyWhenFull /\ FullRemembered
  BY <1>1, Zenon DEF RefusedOnlyWhenFull, FullRemembered
<1> QED BY <1>1, <1>2, <1>3, MemPoolAssumption, LevelsAre DEF IInv

(* The invariant holds in every behaviour of the allocator.                  *)
LEMMA InvariantAlways == Spec => []IInv
<1>1. IInv /\ [Next]_vars => IInv'
  BY StepKeeps
<1> QED BY Starts, <1>1, PTL DEF Spec

(* What lwIP holds, as the property says it.                                 *)
LEMMA OwnedAccounted ==
  ASSUME IInv
  PROVE  Accounted
<1>1. /\ AllOK(pools) /\ Owned(pools, live) /\ heap \in Nat /\ ring \in Rings
      /\ level \in Levels
  BY DEF IInv
<1>2. \A a \in live : BlocksOf(a) = Held(pools, a)
  BY Zenon DEF BlocksOf, Held, Run
<1>3. \A i \in DOMAIN pools :
        /\ PoolOK(pools[i]) /\ pools[i].used \subseteq 0..(pools[i].block_count - 1)
        /\ pools[i].used_blocks \in 0..pools[i].block_count /\ pools[i].last \in Levels
        /\ pools[i].used_blocks = Cardinality(pools[i].used)
  BY <1>1, PoolNumbers DEF AllOK, PoolOK
<1>4. \A a \in live : a.pool \in DOMAIN pools /\ a.size \in Sizes
  BY <1>1, Zenon DEF Owned, Lent
<1>5. TypeOK
  BY <1>1, <1>3, <1>4, Zenon DEF TypeOK
<1>6. ASSUME NEW a \in live, NEW b \in live, a # b, a.pool = b.pool
      PROVE  BlocksOf(a) \cap BlocksOf(b) = {}
  <2>1. \A x \in Held(pools, a) : x \notin Held(pools, b)
    BY <1>1, <1>6, Zenon DEF Owned, Apart
  <2> QED BY <1>2, <2>1
<1>7. ASSUME NEW i \in DOMAIN pools
      PROVE  pools[i].used = UNION {BlocksOf(a) : a \in {b \in live : b.pool = i}}
  <2>1. \A x \in pools[i].used : \E a \in live : a.pool = i /\ x \in BlocksOf(a)
    BY <1>1, <1>2, Zenon DEF Owned
  <2>2. \A a \in live : a.pool = i => BlocksOf(a) \subseteq pools[i].used
    BY <1>1, <1>2, Zenon DEF Owned
  <2> QED BY <2>1, <2>2
<1> QED BY <1>3, <1>5, <1>6, <1>7, Zenon DEF Accounted

------------------------------------------------------------------------------
(* The theorems.                                                            *)

(* For every budget, every configuration of pools and every size lwIP asks   *)
(* for, mem_buffer_custom_malloc and mem_buffer_custom_free never lend a     *)
(* block twice, lose one, or count wrong: the bitmap of each pool is the     *)
(* union of the allocations lwIP holds, whose blocks are apart.              *)
THEOREM PoolsAccounted == Spec => []Accounted
<1>1. IInv => Accounted
  BY OwnedAccounted
<1> QED BY <1>1, InvariantAlways, PTL

(* The scan of mem_buffer_malloc and the order in which                      *)
(* mem_buffer_custom_malloc tries the pools miss nothing: a request is       *)
(* refused only when no pool has the run of free blocks it needs.            *)
THEOREM RefusedAlways == Spec => []RefusedOnlyWhenFull
<1>1. IInv => RefusedOnlyWhenFull
  BY DEF IInv
<1> QED BY <1>1, InvariantAlways, PTL

(* The level the driver throttles at neither forgets a full pool nor rises   *)
(* without usage: it is raised to HIGH or above only while a pool's usage is *)
(* at the mark, and a pool that refused a request keeps it there until one   *)
(* of its blocks is freed.  The clear mark is below 100, as lwip_init's 70   *)
(* is; at 100 every usage would be below it and a full pool be forgotten.    *)
THEOREM PressureAlways ==
  ASSUME ClearPct < 100
  PROVE  Spec => PressureFollows
<1>1. Init => IInv /\ FullRemembered
  BY Starts
<1>2. IInv /\ FullRemembered /\ [Next]_vars => (IInv /\ FullRemembered)'
  BY StepKeeps DEF Remembers
<1>3. IInv /\ [Next]_vars => [level' > level /\ level' >= HIGH => OverHigh']_vars
  BY StepKeeps, Zenon DEF Follows
<1> QED BY <1>1, <1>2, <1>3, PTL DEF Spec, PressureFollows
==============================================================================
