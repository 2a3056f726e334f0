-------------------------------- MODULE EthRx --------------------------------
(***************************************************************************)
(* The receive path of src/src/drivers/usb_ethernet.c for one device: the   *)
(* USB callbacks put frames into the ring of src/src/drivers/mem.c, the     *)
(* drain timer takes them out and hands them to lwIP, and memory pressure   *)
(* decides whether another transfer is scheduled.                           *)
(*                                                                         *)
(* usbdrvce and lwIP are external: a scheduled transfer completes with what *)
(* arrives or with an error, the timer fires, pbufs are there or not, and   *)
(* the lwIP pools report pressure of their own (MemPool).  The bytes of the *)
(* ring outside its content are forgotten between two steps: no read meets  *)
(* them (MemRing).                                                          *)
(*                                                                         *)
(* What else can go wrong is a set of faults, fixed for a behaviour: "oom", *)
(* the C library refuses blocks; "empty", a transfer arrives that holds no   *)
(* frame or is malformed; "busy", usbdrvce refuses to schedule a transfer;   *)
(* "unplug", the device comes and goes; "early", the pools report pressure    *)
(* before the driver has registered its hook.                                *)
(***************************************************************************)
EXTENDS MemBuffer, SequencesExt

CONSTANTS Worlds,       \* the sets of faults to consider
          Kinds,        \* the classes of device, "ECM" and "NCM"
          Frames,       \* the frames that arrive
          InitSize, MaxSize, StepSize,   \* ETH_RX_RING_*_SIZE
          Chunk,        \* the bytes of one pbuf of the pool
          Pbufs,        \* for how many frames lwIP has pbufs when the timer fires
          MaxRetries,   \* ETH_USB_MAX_RETRIES
          PoolLevels,   \* the levels the lwIP pools report
          Base,         \* bytes the pools have charged
          MaxStage,     \* bound on failed shrinks in a row
          NULL          \* no ring

FaultKinds == {"oom", "empty", "busy", "unplug", "early"}

(* The budget has room for the largest ring, as it does for one device with  *)
(* the sizes of defines.h, lwipopts.h and usb_ethernet.c.                    *)
ASSUME EthRxAssumption ==
  /\ MaxHeap = 0 \/ Base + StructSize + MaxSize <= MaxHeap
  /\ Worlds \subseteq SUBSET FaultKinds /\ Kinds \subseteq {"ECM", "NCM"}
  /\ Frames \subseteq Seq(Data) \ {<<>>} /\ PoolLevels \subseteq Levels
  /\ 0 \in Data
  /\ \A f \in Frames : Len(f) \in Data /\ Len(f) + 2 <= MaxSize /\ Len(f) < 256

VARIABLES m,        \* the allocator and the device's ring
          dev,      \* the driver's state, see Driver
          pend,     \* frames read from rx.buf and not yet handed to lwIP
          good,     \* every frame handed to lwIP was the next of pend
          faults    \* the faults of this behaviour

vars == <<m, dev, pend, good, faults>>

Driver ==
  [state : {"out", "up", "disabled"},   \* no device, in use, given up on
   kind : Kinds \cup {"none"},
   active : BOOLEAN,                    \* rx_transfer_active
   queued : Nat,                        \* transfers scheduled and not complete
   throttle : Levels,                   \* g_eth_rx_throttle_level
   hooked : BOOLEAN,                    \* g_eth_hook_registered, the drain timer too
   retries : [Kinds -> Nat]]            \* rx_retries of the two callbacks

Init ==
  /\ m = [heap |-> Base, ring |-> NULL, pool |-> NONE, eth |-> NONE,
          effective |-> NONE, calls |-> <<>>]
  /\ dev = [state |-> "out", kind |-> "none", active |-> FALSE, queued |-> 0,
            throttle |-> NONE, hooked |-> FALSE, retries |-> [k \in Kinds |-> 0]]
  /\ pend = <<>> /\ good = TRUE /\ faults \in Worlds

(* The answers of the C library and of usb_ScheduleTransfer.                 *)
Allocs == IF "oom" \in faults THEN BOOLEAN ELSE {TRUE}
Takes == IF "busy" \in faults THEN BOOLEAN ELSE {TRUE}

------------------------------------------------------------------------------
(* Scheduling.                                                              *)

eth_should_schedule_rx(level) == level <= MILD

(* A transfer the driver schedules without looking at the answer.            *)
Scheduled(d, taken) ==
  [d EXCEPT !.queued = IF taken THEN @ + 1 ELSE @, !.active = TRUE]

ScheduleIfAllowed(d, taken) ==
  IF eth_should_schedule_rx(d.throttle) THEN Scheduled(d, taken) ELSE d

(* Mutant of eth_set_rx_throttle: a transfer already scheduled is not         *)
(* noticed.                                                                  *)
ThrottleRepeats(d, level, taken) ==
  LET told == [d EXCEPT !.throttle = level]
  IN IF /\ eth_should_schedule_rx(level) \/ d.throttle = CRITICAL
        /\ d.state = "up" /\ taken
     THEN Scheduled(told, TRUE) ELSE told

(* eth_set_rx_throttle, the hook: a lifted level schedules the transfer that *)
(* is missing, and so does the first step down from CRITICAL.                *)
eth_set_rx_throttle(d, level, taken) ==
  LET told == [d EXCEPT !.throttle = level]
  IN IF /\ eth_should_schedule_rx(level) \/ d.throttle = CRITICAL
        /\ d.state # "out" /\ ~d.active /\ taken
     THEN Scheduled(told, TRUE) ELSE told

(* The hook's calls of one operation of the allocator, in order.             *)
Told(d, calls, taken) ==
  LET told[i \in 0..Len(calls)] ==
        IF i = 0 THEN d
        ELSE Then(told[i - 1], LAMBDA e : eth_set_rx_throttle(e, calls[i], taken))
  IN told[Len(calls)]

(* The allocator between two steps.                                          *)
Settled(k) ==
  [k EXCEPT !.calls = <<>>,
            !.ring = IF @ = NULL THEN @ ELSE
               [@ EXCEPT !.buf = [j \in DOMAIN @ |->
                  IF \E i \in 0..(k.ring.len - 1) : Slot(k.ring, i) = j
                  THEN @[j] ELSE Junk]]]

------------------------------------------------------------------------------
(* Frames into the ring.                                                    *)

(* A frame in the ring: its length in two bytes, then its bytes.             *)
Header(f) == <<Len(f) \div 256, Len(f) % 256>>
Framed(f) == Header(f) \o f

(* Mutant of eth_ring_push_frame: the length is pushed before room is known. *)
PushesHeaderFirst(k, f, allocs) ==
  LET hdr == Push(k, Header(f), allocs[1])
  IN IF ~hdr.ok THEN hdr ELSE Push(hdr.m, f, allocs[2])

(* eth_ring_push_frame: reserve room for all, push the length, push the      *)
(* bytes.  Each of the three may grow the ring.                              *)
eth_ring_push_frame(k, f, allocs) ==
  Then(Reserve(k, Len(f) + 2, allocs[1]),
       LAMBDA room : IF ~room.ok THEN room
         ELSE Then(Push(room.m, Header(f), allocs[2]),
                   LAMBDA hdr : IF ~hdr.ok THEN hdr ELSE Push(hdr.m, f, allocs[3])))

(* The frames of one transfer, up to the first that finds no room.           *)
PushAll(frames, allocs) ==
  LET push(s, f) ==
        Then(eth_ring_push_frame(s.m, f, allocs),
             LAMBDA pushed : [ok |-> pushed.ok, m |-> pushed.m,
               pend |-> IF pushed.ok THEN Append(s.pend, f) ELSE s.pend])
      all[i \in 0..Len(frames)] ==
        IF i = 0 THEN [ok |-> TRUE, m |-> m, pend |-> pend]
        ELSE Then(all[i - 1], LAMBDA s : IF s.ok THEN push(s, frames[i]) ELSE s)
  IN all[Len(frames)]

(* A transfer has completed: rx_transfer_active is false while its callback  *)
(* runs.                                                                     *)
Completed == [dev EXCEPT !.queued = @ - 1, !.active = FALSE]

(* What a callback finds in rx.buf of the frames that arrived.  All transfers *)
(* write there: while another one is scheduled, before the callback runs or  *)
(* by the hook inside it, what the callback copies may be overwritten.  The  *)
(* byte 0 stands for the bytes of the other transfer.                        *)
Overwritten(f) == [i \in DOMAIN f |-> 0]
Read(frames) == {frames, [i \in DOMAIN frames |-> Overwritten(frames[i])]}

(* The frames may be read like this, with the transfers the driver then has. *)
Shared(read, frames, told) == read = frames \/ told.queued > 0

(* ecm_receive_callback with a frame.  A frame that finds no room is         *)
(* dropped, and no transfer is scheduled.                                    *)
ecm_receive_callback(f, allocs, taken) ==
  /\ dev.state = "up" /\ dev.kind = "ECM" /\ dev.queued > 0
  /\ \E read \in Read(<<f>>) : \E pushed \in {PushAll(read, allocs)} :
     \E told \in {Told([Completed EXCEPT !.retries[dev.kind] = 0], pushed.m.calls, taken)} :
        /\ Shared(read, <<f>>, told)
        /\ m' = Settled(pushed.m) /\ pend' = pushed.pend
        /\ dev' = IF pushed.ok THEN ScheduleIfAllowed(told, taken) ELSE told
  /\ UNCHANGED <<good, faults>>

(* ncm_receive_callback with a transfer block: the datagrams of its pointer  *)
(* tables.  A wrong signature, which an overwritten block may have as well,  *)
(* ends the callback before it schedules.                                    *)
ncm_receive_callback(frames, wrong, allocs, taken) ==
  /\ dev.state = "up" /\ dev.kind = "NCM" /\ dev.queued > 0
  /\ \E read \in Read(frames) : \E pushed \in {PushAll(read, allocs)} :
     \E told \in {Told([Completed EXCEPT !.retries[dev.kind] = 0], pushed.m.calls, taken)} :
        /\ Shared(read, frames, told)
        /\ wrong => "empty" \in faults \/ told.queued > 0
        /\ m' = Settled(pushed.m) /\ pend' = pushed.pend
        /\ dev' = IF wrong /\ pushed.ok THEN told ELSE ScheduleIfAllowed(told, taken)
  /\ UNCHANGED <<good, faults>>

(* Either callback with a transfer of no bytes: nothing is scheduled.        *)
EmptyTransfer ==
  /\ "empty" \in faults
  /\ dev.state = "up" /\ dev.queued > 0
  /\ dev' = Completed
  /\ UNCHANGED <<m, pend, good, faults>>

(* Mutant of RxError: the transfer is not scheduled again.                   *)
ErrorGivesUp(taken) ==
  /\ dev.state = "up" /\ dev.queued > 0
  /\ dev' = IF dev.retries[dev.kind] = MaxRetries
            THEN [Completed EXCEPT !.state = "disabled", !.queued = 0]
            ELSE [Completed EXCEPT !.retries[dev.kind] = @ + 1]
  /\ UNCHANGED <<m, pend, good, faults>>

(* Either callback with an error: another try, or eth_xmit_fatal_error       *)
(* disables the device.  (For NCM the code then passes the device to         *)
(* pbuf_free; what that does to its memory is not modelled.)                 *)
RxError(taken) ==
  /\ dev.state = "up" /\ dev.queued > 0
  /\ dev' = IF dev.retries[dev.kind] = MaxRetries
            THEN [Completed EXCEPT !.state = "disabled", !.queued = 0]
            ELSE ScheduleIfAllowed([Completed EXCEPT !.retries[dev.kind] = @ + 1], taken)
  /\ UNCHANGED <<m, pend, good, faults>>

------------------------------------------------------------------------------
(* Frames out of the ring.                                                  *)

eth_drain_budget(level) ==
  CASE level = NONE -> 8 [] level = MILD -> 4 [] level = HIGH -> 2 [] OTHER -> 1

(* The pops of n bytes into a chain of pbufs.                                *)
PopChain(k, n, alloc) ==
  LET pieces == (n + Chunk - 1) \div Chunk
      popped[i \in 0..pieces] ==
        IF i = 0 THEN k
        ELSE Then(popped[i - 1],
                  LAMBDA l : Pop(l, Smaller(Chunk, n - (i - 1) * Chunk), alloc))
  IN popped[pieces]

(* Whether the ring holds a whole frame, as its length bytes have it.        *)
FrameLen(r) == LET hdr == Peek(r, 0, 2) IN hdr[1] * 256 + hdr[2]
FrameReady(r) == r.len >= 2 /\ r.len >= FrameLen(r) + 2

(* One turn of the loop of eth_rx_ring_drain.                                *)
DrainOne(s, alloc) ==
  LET n == FrameLen(s.m.ring)
      frame == IF n = 0 THEN <<>> ELSE Peek(s.m.ring, 2, n)
  IN IF ~FrameReady(s.m.ring) THEN s
     ELSE [m |-> Then(Pop(s.m, 2, alloc), LAMBDA k : PopChain(k, n, alloc)),
           pend |-> IF s.pend = <<>> THEN <<>> ELSE Tail(s.pend),
           good |-> s.good /\ s.pend # <<>> /\ frame = Head(s.pend)]

(* eth_rx_drain_timer: the timer fires and finds pbufs for at most n frames. *)
eth_rx_drain_timer(n, alloc, taken) ==
  LET turns == Smaller(n, eth_drain_budget(dev.throttle))
      drained[i \in 0..turns] ==
        IF i = 0 THEN [m |-> m, pend |-> pend, good |-> good]
        ELSE Then(drained[i - 1], LAMBDA s : DrainOne(s, alloc))
  IN /\ dev.hooked /\ m.ring # NULL
     /\ alloc \/ m.ring.shrink_stage < MaxStage
     /\ \E end \in {drained[turns]} :
          /\ m' = Settled(end.m) /\ pend' = end.pend /\ good' = end.good
          /\ dev' = Told(dev, end.m.calls, taken)
     /\ UNCHANGED faults

------------------------------------------------------------------------------
(* The device.                                                              *)

RingArgs == [initial |-> InitSize, max |-> MaxSize, lock_size |-> 0,
             lock |-> FALSE, secure |-> FALSE, owner |-> "ETH_RX"]

(* The ring init_ethernet_usb_device makes and tunes.                        *)
EthRing == [Created(RingArgs, InitSize) EXCEPT
              !.grow_threshold_pct = 85, !.shrink_threshold_pct = 30,
              !.step = StepSize]

(* init_ethernet_usb_device for a device that is new: a ring, the hook and   *)
(* the drain timer, and the first transfer unless the level forbids it.      *)
Plug(kind, taken) ==
  /\ dev.state = "out" /\ Chargeable(m, CreateCharge(RingArgs))
  /\ m' = [m EXCEPT !.heap = Charged(@, CreateCharge(RingArgs)), !.ring = EthRing]
  /\ dev' = ScheduleIfAllowed([dev EXCEPT !.state = "up", !.kind = kind,
              !.active = FALSE, !.hooked = TRUE], taken)
  /\ UNCHANGED <<pend, good, faults>>

(* eth_usb_event_callback after a fatal error: the device is reset, which    *)
(* ends its transfers, and init_ethernet_usb_device takes it up again with   *)
(* the ring it had.                                                          *)
Restart(taken) ==
  /\ dev.state = "disabled"
  /\ dev' = ScheduleIfAllowed([dev EXCEPT !.state = "up", !.active = FALSE,
                               !.queued = 0], taken)
  /\ UNCHANGED <<m, pend, good, faults>>

(* eth_usb_event_callback for a device that is gone: its ring is destroyed.  *)
(* What was reported for it stays in mem.c and in the driver.                *)
Unplug ==
  /\ "unplug" \in faults /\ dev.state # "out"
  /\ m' = [m EXCEPT !.heap = Released(Released(@, m.ring.cap), StructSize), !.ring = NULL]
  /\ dev' = [dev EXCEPT !.state = "out", !.kind = "none", !.active = FALSE, !.queued = 0]
  /\ pend' = <<>>
  /\ UNCHANGED <<good, faults>>

(* The lwIP pools raise or lift their level.  A driver whose hook is not     *)
(* registered is not told.                                                   *)
PoolPressure(level, taken) ==
  /\ dev.hooked \/ "early" \in faults
  /\ level # m.pool
  /\ LET k == UpdateEffective([m EXCEPT !.pool = level])
     IN m' = Settled(k) /\ dev' = Told(dev, IF dev.hooked THEN k.calls ELSE <<>>, taken)
  /\ UNCHANGED <<pend, good, faults>>

AllocTriples == [1..3 -> Allocs]

Next ==
  \/ \E kind \in Kinds, taken \in Takes : Plug(kind, taken)
  \/ \E f \in Frames, allocs \in AllocTriples, taken \in Takes :
       ecm_receive_callback(f, allocs, taken)
  \/ \E n \in 0..2 : \E frames \in [1..n -> Frames],
        wrong \in BOOLEAN, allocs \in AllocTriples, taken \in Takes :
       ncm_receive_callback(frames, wrong, allocs, taken)
  \/ EmptyTransfer
  \/ \E taken \in Takes : RxError(taken) \/ Restart(taken)
  \/ Unplug
  \/ \E n \in Pbufs, alloc \in Allocs, taken \in Takes : eth_rx_drain_timer(n, alloc, taken)
  \/ \E level \in PoolLevels, taken \in Takes : PoolPressure(level, taken)

(* The timer keeps firing and lwIP gives its pbufs back, the pools' pressure *)
(* lifts again and again, and a device that is reset comes back: as long as  *)
(* the C library and usbdrvce do not refuse.                                 *)
Willing == {"oom", "busy"} \cap faults = {}
Fairness ==
  /\ WF_vars(Willing /\ \E n \in Pbufs : eth_rx_drain_timer(n, TRUE, TRUE))
  /\ WF_vars(Willing /\ PoolPressure(NONE, TRUE))
  /\ WF_vars(Willing /\ Restart(TRUE))

Spec == Init /\ [][Next]_vars /\ Fairness

------------------------------------------------------------------------------
TypeOK ==
  /\ m.heap \in Nat /\ m.pool \in Levels /\ m.eth \in Levels
  /\ m.effective \in Levels /\ m.calls = <<>>
  /\ dev \in Driver /\ good \in BOOLEAN
  /\ pend \in Seq(Frames \cup {Overwritten(f) : f \in Frames})
  /\ m.ring = NULL <=> dev.state = "out"

(* lwIP gets the frames that the callbacks read from the buffer, whole and   *)
(* in order, and the lengths in the ring stay where the driver will look for *)
(* them, also behind a frame that was overwritten while it was read.  It     *)
(* takes a growth that fails after its reserve succeeded to break this: a    *)
(* block that the C library refuses ("oom"), or a budget without room        *)
(* (EthRxAssumption).                                                        *)
FramesIntact ==
  "oom" \notin faults =>
    /\ good
    /\ m.ring # NULL => Content(m.ring) = FlattenSeq([i \in DOMAIN pend |-> Framed(pend[i])])

(* What the driver believes is true.  rx_transfer_active is true only while a *)
(* transfer is scheduled: otherwise nothing would ever schedule one again.    *)
(* The level it throttles at is the allocator's, unless that was reported     *)
(* before the hook was registered.  And although the transfers write into one *)
(* buffer and a first pressure notice raised inside a callback makes the hook *)
(* and then the callback schedule one each, there are never three.  (And all  *)
(* variables have their types.)                                              *)
DriverInStep ==
  /\ TypeOK
  /\ "busy" \notin faults => (dev.state = "up" /\ dev.active => dev.queued > 0)
  /\ dev.hooked /\ "early" \notin faults => dev.throttle = m.effective
  /\ dev.queued <= 2

(* A receiver without a transfer gets one again.                             *)
Recovers == dev.state = "up" /\ dev.queued = 0 ~> dev.queued > 0 \/ dev.state = "out"

(* Without faults the receiver recovers from every pressure, and from one     *)
(* that was there before the device.                                         *)
RxResumes == faults \subseteq {"early"} => Recovers
==============================================================================
