--------------------------- MODULE EthDeviceProofs ---------------------------
(* Proofs about EthDevice, for every number of devices, of eth_device_t, of   *)
(* interface numbers and of retries, and for devices with any descriptors.    *)
EXTENDS EthDevice, FiniteSetTheorems, WellFoundedInduction, NaturalsInduction, TLAPS

(* The events that can be due in each state of a device.                     *)
Fits(u) ==
  /\ u.state = "out" =>
       u.events \in {<<>>, <<"DISCONNECTED">>, <<"DISABLED", "DISCONNECTED">>}
  /\ u.state = "connected" => u.events \in {<<"CONNECTED">>, <<"ENABLED">>}
  /\ u.state = "enabled" => u.events = <<>>
  /\ u.state = "disabled" => u.events \in {<<>>, <<"DISABLED">>}
EventsFit == \A d \in Devices : Fits(usb[d])

(* The driver's pointer of a device is to an eth_device_t of that device.    *)
DataLive ==
  \A d \in Devices : usb[d].data # NULL =>
    eths[usb[d].data] # NULL /\ eths[usb[d].data].dev = d

(* The bitmap is the set of the interfaces' numbers, each used once.         *)
Numbered ==
  /\ ifnums_used = {eths[e].num : e \in Netifs}
  /\ \A e, f \in Netifs : eths[e].num = eths[f].num => e = f

(* A device in use, or one whose end is the next event.                      *)
Ready(u, fs) ==
  \/ u.state = "enabled" /\ (u.int \/ "memory" \in fs)
  \/ u.events # <<>> /\ Head(u.events) \in {"DISABLED", "DISCONNECTED"}
UpHeld ==
  \A e \in Netifs : eths[e].up =>
    eths[e].ring /\ usb[eths[e].dev].data = e /\ Ready(usb[eths[e].dev], faults)

(* The flag is set as long as the devices it was raised for are not dealt    *)
(* with.  Each of those still has its DISABLED event to come, or has lost    *)
(* its interface within usb_DisableDevice.                                   *)
FlagKept ==
  /\ eth_disabled_with_error <=> failed # {}
  /\ ~crossed => \A d \in failed :
       \/ Told(d, "DISABLED")
       \/ /\ usb[d].data = NULL /\ usb[d].state \in {"disabled", "out"}
          /\ usb[d].state = "out" => usb[d].events # <<>>

(* default_netif_set tells whether there is a default interface.             *)
RouteKept ==
  ~displaced => /\ default_netif_set => netif_default # NULL
                /\ Linked # {} => netif_default # NULL

(* The inductive invariant.                                                  *)
IInv == TypeOK /\ EventsFit /\ DataLive /\ Numbered /\ UpHeld /\ FlagKept /\ NoGhost /\ RouteKept

------------------------------------------------------------------------------
(* Numbers.                                                                 *)

(* A set of naturals has a least element.                                    *)
LEMMA LeastOf ==
  ASSUME NEW T \in SUBSET Nat, T # {}
  PROVE  \E x \in T : \A y \in T : x <= y
<1>1. IsWellFoundedOn(OpToRel(<, Nat), Nat)
  BY NatLessThanWellFounded
<1>2. PICK x \in T : \A y \in T : ~(<<y, x>> \in OpToRel(<, Nat))
  BY <1>1, WFMin
<1>3. \A y \in T : ~(y < x)
  BY <1>2 DEF OpToRel
<1> QED BY <1>3

(* The number init_ethernet_usb_device takes is one of the bitmap's and free. *)
LEMMA FreeNumFree ==
  ASSUME ifnums_used \subseteq 0..(Slots - 1), Cardinality(ifnums_used) < Slots
  PROVE  FreeNum \in 0..(Slots - 1) /\ FreeNum \notin ifnums_used
<1> DEFINE free == {i \in 0..(Slots - 1) : i \notin ifnums_used}
<1>1. Slots \in Nat \ {0}
  BY EthDeviceAssumption
<1>2. Cardinality(0..(Slots - 1)) = Slots
  BY <1>1, FS_Interval
<1>3. ifnums_used # 0..(Slots - 1)
  BY <1>1, <1>2
<1>4. free # {} /\ free \in SUBSET Nat
  <2>1. \E i \in 0..(Slots - 1) : i \notin ifnums_used
    <3>1. SUFFICES ASSUME \A i \in 0..(Slots - 1) : i \in ifnums_used PROVE FALSE
      OBVIOUS
    <3>2. ifnums_used = 0..(Slots - 1)
      BY <3>1, Zenon
    <3> QED BY <1>3, <3>2
  <2>2. 0..(Slots - 1) \subseteq Nat
    BY <1>1
  <2> QED BY <2>1, <2>2
<1>5. PICK i \in free : \A j \in free : i <= j
  <2> HIDE DEF free
  <2> QED BY <1>4, LeastOf
<1>6. \A j \in 0..(i - 1) : j \in ifnums_used
  BY <1>1, <1>5
<1>7. \E k \in 0..(Slots - 1) :
        k \notin ifnums_used /\ \A j \in 0..(k - 1) : j \in ifnums_used
  BY <1>5, <1>6
<1> QED BY <1>7 DEF FreeNum

------------------------------------------------------------------------------
(* What usbdrvce and the driver do to one device.                            *)

(* The record of a device that some device is told of.                       *)
LEMMA Device ==
  ASSUME TypeOK, NEW d \in Devices
  PROVE  /\ usb[d] \in UsbDevice
         /\ usb[d].state \in {"out", "connected", "enabled", "disabled"}
         /\ usb[d].data \in Eths \cup {NULL} /\ usb[d].int \in BOOLEAN
         /\ usb[d].cdc \in BOOLEAN
         /\ usb[d].events \in Seq({"CONNECTED", "ENABLED", "DISABLED", "DISCONNECTED"})
BY DEF TypeOK, UsbDevice

(* The record of an interface.                                               *)
LEMMA Interface ==
  ASSUME TypeOK, NEW e \in Netifs
  PROVE  e \in Eths /\ eths[e] \in EthRecords /\ eths[e] # NULL
BY DEF TypeOK, Netifs

(* The queues of events there can be.                                        *)
LEMMA Queues ==
  /\ <<>> \in Seq({"CONNECTED", "ENABLED", "DISABLED", "DISCONNECTED"})
  /\ <<"CONNECTED">> \in Seq({"CONNECTED", "ENABLED", "DISABLED", "DISCONNECTED"})
  /\ <<"ENABLED">> \in Seq({"CONNECTED", "ENABLED", "DISABLED", "DISCONNECTED"})
  /\ <<"DISABLED">> \in Seq({"CONNECTED", "ENABLED", "DISABLED", "DISCONNECTED"})
  /\ <<"DISCONNECTED">> \in Seq({"CONNECTED", "ENABLED", "DISABLED", "DISCONNECTED"})
  /\ <<"DISABLED", "DISCONNECTED">> \in
       Seq({"CONNECTED", "ENABLED", "DISABLED", "DISCONNECTED"})
  /\ <<"DISABLED">> # <<>> /\ Head(<<"DISABLED">>) = "DISABLED"
  /\ <<"DISCONNECTED">> # <<>> /\ Head(<<"DISCONNECTED">>) = "DISCONNECTED"
  /\ <<"DISABLED", "DISCONNECTED">> # <<>>
  /\ Head(<<"DISABLED", "DISCONNECTED">>) = "DISABLED"
  /\ Append(<<>>, "ENABLED") = <<"ENABLED">> /\ Append(<<>>, "DISABLED") = <<"DISABLED">>
OBVIOUS

(* A device's record as the events that fit its state determine it.          *)
LEMMA Due ==
  ASSUME TypeOK, EventsFit, NEW d \in Devices
  PROVE  /\ Told(d, "CONNECTED") => usb[d].state = "connected" /\ Rest(d) = <<>>
         /\ Told(d, "ENABLED") => usb[d].state = "connected" /\ Rest(d) = <<>>
         /\ Told(d, "DISABLED") =>
              \/ usb[d].state = "disabled" /\ Rest(d) = <<>>
              \/ usb[d].state = "out" /\ Rest(d) = <<"DISCONNECTED">>
         /\ Told(d, "DISCONNECTED") => usb[d].state = "out" /\ Rest(d) = <<>>
         /\ usb[d].state = "connected" => ~Ready(usb[d], faults)
         /\ usb[d].state = "out" /\ usb[d].events = <<>> => ~Ready(usb[d], faults)
<1>1. Fits(usb[d]) /\ usb[d].state \in {"out", "connected", "enabled", "disabled"}
  BY Device DEF EventsFit
<1>2. /\ Head(<<"CONNECTED">>) = "CONNECTED" /\ Tail(<<"CONNECTED">>) = <<>>
      /\ Head(<<"ENABLED">>) = "ENABLED" /\ Tail(<<"ENABLED">>) = <<>>
      /\ Head(<<"DISABLED">>) = "DISABLED" /\ Tail(<<"DISABLED">>) = <<>>
      /\ Head(<<"DISCONNECTED">>) = "DISCONNECTED" /\ Tail(<<"DISCONNECTED">>) = <<>>
      /\ Head(<<"DISABLED", "DISCONNECTED">>) = "DISABLED"
      /\ Tail(<<"DISABLED", "DISCONNECTED">>) = <<"DISCONNECTED">>
  OBVIOUS
<1>3. CASE usb[d].state = "out"
  BY <1>1, <1>2, <1>3 DEF Fits, Told, Rest, Ready
<1>4. CASE usb[d].state = "connected"
  BY <1>1, <1>2, <1>4 DEF Fits, Told, Rest, Ready
<1>5. CASE usb[d].state = "enabled"
  BY <1>1, <1>2, <1>5 DEF Fits, Told, Rest, Ready
<1>6. CASE usb[d].state = "disabled"
  BY <1>1, <1>2, <1>6 DEF Fits, Told, Rest, Ready
<1> QED BY <1>1, <1>3, <1>4, <1>5, <1>6

(* A step that only changes what usbdrvce keeps of d.                        *)
LEMMA UsbStep ==
  ASSUME IInv, faults' = faults, lost' \in BOOLEAN, NEW d \in Devices, NEW u \in UsbDevice, Fits(u),
         usb' = [usb EXCEPT ![d] = u],
         UNCHANGED <<eths, ifnums_used, netif_default, default_netif_set, displaced>>,
         int_retries' \in 0..MaxRetries, eth_disabled_with_error' \in BOOLEAN,
         failed' \subseteq Devices, crossed' \in BOOLEAN,
         u.data = usb[d].data \/ u.data = NULL,
         \A e \in Netifs : eths[e].dev = d /\ eths[e].up => u.data = e /\ Ready(u, faults)
  PROVE  TypeOK' /\ EventsFit' /\ DataLive' /\ Numbered' /\ UpHeld' /\ RouteKept'
<1>1. TypeOK /\ EventsFit /\ DataLive /\ Numbered /\ UpHeld /\ RouteKept
  BY DEF IInv
<1>2. /\ usb \in [Devices -> UsbDevice] /\ usb' \in [Devices -> UsbDevice]
      /\ usb'[d] = u /\ \A c \in Devices \ {d} : usb'[c] = usb[c]
  BY <1>1 DEF TypeOK
<1>3. Netifs' = Netifs /\ Linked' = Linked
  BY DEF Netifs, Linked
<1>4. TypeOK'
  BY <1>1, <1>2, <1>3 DEF TypeOK
<1>5. EventsFit'
  BY <1>1, <1>2 DEF EventsFit
<1>6. DataLive'
  BY <1>1, <1>2 DEF DataLive
<1>7. Numbered'
  BY <1>1, <1>3 DEF Numbered
<1>8. UpHeld'
  <2> SUFFICES ASSUME NEW e \in Netifs, eths[e].up
               PROVE  /\ eths[e].ring /\ usb'[eths[e].dev].data = e
                      /\ Ready(usb'[eths[e].dev], faults)
    BY <1>3 DEF UpHeld
  <2>1. eths[e].dev \in Devices
    BY <1>1, Interface DEF EthRecords
  <2>2. eths[e].ring /\ usb[eths[e].dev].data = e /\ Ready(usb[eths[e].dev], faults)
    BY <1>1 DEF UpHeld
  <2>3. CASE eths[e].dev = d
    BY <1>2, <2>2, <2>3
  <2>4. CASE eths[e].dev # d
    BY <1>2, <2>1, <2>2, <2>4
  <2> QED BY <2>3, <2>4
<1>9. RouteKept'
  BY <1>1, <1>3 DEF RouteKept
<1> QED BY <1>4, <1>5, <1>6, <1>7, <1>8, <1>9
------------------------------------------------------------------------------
(* The actions, one by one.  Those that leave the interfaces alone first.    *)

(* An adapter is plugged in.                                                 *)
LEMMA AttachKeeps ==
  ASSUME IInv, faults' = faults, lost' \in BOOLEAN, NEW d \in Devices, NEW cdc \in BOOLEAN, Attach(d, cdc)
  PROVE  IInv'
<1> DEFINE u == [Gone EXCEPT !.state = "connected", !.cdc = cdc, !.events = <<"CONNECTED">>]
<1>1. TypeOK /\ EventsFit /\ DataLive /\ UpHeld /\ FlagKept /\ NoGhost
  BY DEF IInv
<1>2. /\ u.state = "connected" /\ u.data = NULL /\ u.events = <<"CONNECTED">> /\ u \in UsbDevice
  BY Queues DEF Gone, UsbDevice
<1>3. usb' = [usb EXCEPT ![d] = u] /\ usb[d].state = "out" /\ usb[d].events = <<>>
  BY DEF Attach
<1>4. UNCHANGED <<eths, ifnums_used, netif_default, default_netif_set, displaced,
                  int_retries, eth_disabled_with_error, failed, crossed>>
  BY DEF Attach
<1> HIDE DEF u
<1>5. \A e \in Netifs : eths[e].dev = d /\ eths[e].up => FALSE
  BY <1>1, <1>3, Due DEF UpHeld
<1>6. TypeOK' /\ EventsFit' /\ DataLive' /\ Numbered' /\ UpHeld' /\ RouteKept'
  <2>1. Fits(u)
    BY <1>2 DEF Fits
  <2>2. /\ int_retries' \in 0..MaxRetries /\ eth_disabled_with_error' \in BOOLEAN
        /\ failed' \subseteq Devices /\ crossed' \in BOOLEAN
    BY <1>1, <1>4 DEF TypeOK
  <2> QED BY <1>2, <1>3, <1>4, <1>5, <2>1, <2>2, UsbStep
<1>7. \A c \in Devices \ {d} : usb'[c] = usb[c]
  BY <1>1, <1>3 DEF TypeOK
<1>8. FlagKept'
  <2>1. ~crossed => d \notin failed
    BY <1>1, <1>3 DEF FlagKept, Told
  <2> QED BY <1>1, <1>4, <1>7, <2>1 DEF FlagKept, Told, TypeOK
<1>9. NoGhost'
  <2> SUFFICES ASSUME ~crossed, NEW e \in Netifs
               PROVE  /\ usb'[eths[e].dev].data = e
                      /\ usb'[eths[e].dev].state = "out" => usb'[eths[e].dev].events # <<>>
    BY <1>4 DEF NoGhost, Netifs
  <2>1. /\ usb[eths[e].dev].data = e
        /\ usb[eths[e].dev].state = "out" => usb[eths[e].dev].events # <<>>
    BY <1>1 DEF NoGhost
  <2>2. eths[e].dev \in Devices \ {d}
    BY <1>1, <1>3, <2>1, Interface DEF EthRecords
  <2> QED BY <1>7, <2>1, <2>2
<1> QED BY <1>6, <1>8, <1>9 DEF IInv

(* An event of d that leaves its interface, and the devices that failed,     *)
(* alone.                                                                    *)
LEMMA EventKeeps ==
  ASSUME IInv, faults' = faults, lost' \in BOOLEAN, NEW d \in Devices, NEW u \in UsbDevice, Fits(u),
         usb' = [usb EXCEPT ![d] = u],
         UNCHANGED <<eths, ifnums_used, netif_default, default_netif_set, displaced,
                     int_retries, eth_disabled_with_error, failed, crossed>>,
         u.data = usb[d].data,
         Ready(usb[d], faults) => Ready(u, faults),
         u.state = "out" => u.events # <<>>,
         d \in failed /\ ~crossed =>
           \/ u.events # <<>> /\ Head(u.events) = "DISABLED"
           \/ u.data = NULL /\ u.state \in {"disabled", "out"}
  PROVE  IInv'
<1>1. TypeOK /\ EventsFit /\ DataLive /\ UpHeld /\ FlagKept /\ NoGhost
  BY DEF IInv
<1>2. /\ usb'[d] = u /\ \A c \in Devices \ {d} : usb'[c] = usb[c]
  BY <1>1 DEF TypeOK
<1>3. TypeOK' /\ EventsFit' /\ DataLive' /\ Numbered' /\ UpHeld' /\ RouteKept'
  <2>1. \A e \in Netifs : eths[e].dev = d /\ eths[e].up => u.data = e /\ Ready(u, faults)
    BY <1>1 DEF UpHeld
  <2>2. /\ int_retries' \in 0..MaxRetries /\ eth_disabled_with_error' \in BOOLEAN
        /\ failed' \subseteq Devices /\ crossed' \in BOOLEAN
    BY <1>1 DEF TypeOK
  <2> QED BY <2>1, <2>2, UsbStep
<1>4. FlagKept'
  <2>1. failed \subseteq Devices
    BY <1>1 DEF TypeOK
  <2> SUFFICES ASSUME ~crossed, NEW c \in failed
               PROVE  \/ Told(c, "DISABLED")'
                      \/ /\ usb'[c].data = NULL /\ usb'[c].state \in {"disabled", "out"}
                         /\ usb'[c].state = "out" => usb'[c].events # <<>>
    BY <1>1 DEF FlagKept
  <2>2. CASE c = d
    BY <1>2, <2>2 DEF Told
  <2>3. CASE c # d
    BY <1>1, <1>2, <2>1, <2>3 DEF FlagKept, Told
  <2> QED BY <2>2, <2>3
<1>5. NoGhost'
  <2> SUFFICES ASSUME ~crossed, NEW e \in Netifs
               PROVE  /\ usb'[eths[e].dev].data = e
                      /\ usb'[eths[e].dev].state = "out" => usb'[eths[e].dev].events # <<>>
    BY DEF NoGhost, Netifs
  <2>1. /\ usb[eths[e].dev].data = e /\ eths[e].dev \in Devices
        /\ usb[eths[e].dev].state = "out" => usb[eths[e].dev].events # <<>>
    BY <1>1, Interface DEF NoGhost, EthRecords
  <2> QED BY <1>2, <2>1
<1> QED BY <1>3, <1>4, <1>5 DEF IInv

(* An adapter is pulled out.                                                 *)
LEMMA DetachKeeps ==
  ASSUME IInv, faults' = faults, lost' \in BOOLEAN, NEW d \in Devices, Detach(d)
  PROVE  IInv'
<1> DEFINE ev == IF Told(d, "DISABLED") THEN <<"DISABLED", "DISCONNECTED">>
                 ELSE <<"DISCONNECTED">>
           u == [usb[d] EXCEPT !.state = "out", !.int = FALSE, !.events = ev]
<1>1. TypeOK /\ EventsFit /\ FlagKept
  BY DEF IInv
<1>2. /\ usb' = [usb EXCEPT ![d] = u]
      /\ UNCHANGED <<eths, ifnums_used, netif_default, default_netif_set, displaced,
                     int_retries, eth_disabled_with_error, failed, crossed>>
  BY <1>1, Device DEF Detach, UsbDevice, TypeOK
<1>3. /\ ev # <<>> /\ Head(ev) \in {"DISABLED", "DISCONNECTED"}
      /\ Told(d, "DISABLED") => Head(ev) = "DISABLED"
      /\ ev \in Seq({"CONNECTED", "ENABLED", "DISABLED", "DISCONNECTED"})
      /\ ev \in {<<"DISCONNECTED">>, <<"DISABLED", "DISCONNECTED">>}
  <2>1. CASE Told(d, "DISABLED")
    BY <2>1, Queues
  <2>2. CASE ~Told(d, "DISABLED")
    BY <2>2, Queues
  <2> QED BY <2>1, <2>2
<1> HIDE DEF ev
<1>4. u \in UsbDevice /\ u.state = "out" /\ u.events = ev /\ u.data = usb[d].data
  BY <1>1, <1>3, Device DEF UsbDevice
<1> HIDE DEF u
<1>5. Fits(u) /\ Ready(u, faults)
  BY <1>3, <1>4 DEF Fits, Ready
<1>6. d \in failed /\ ~crossed =>
        \/ u.events # <<>> /\ Head(u.events) = "DISABLED"
        \/ u.data = NULL /\ u.state \in {"disabled", "out"}
  BY <1>1, <1>3, <1>4 DEF FlagKept
<1> QED BY <1>2, <1>3, <1>4, <1>5, <1>6, EventKeeps

(* USB_DEVICE_CONNECTED_EVENT in eth_handle_usb_event.                       *)
LEMMA HandleConnectedKeeps ==
  ASSUME IInv, faults' = faults, lost' \in BOOLEAN, NEW d \in Devices, HandleConnected(d)
  PROVE  IInv'
<1> DEFINE v == [usb[d] EXCEPT !.events = Rest(d)]
           u == [v EXCEPT !.state = "connected", !.int = FALSE, !.events = Append(@, "ENABLED")]
<1>1. TypeOK /\ EventsFit /\ FlagKept
  BY DEF IInv
<1>2. usb[d].state = "connected" /\ Rest(d) = <<>> /\ ~Ready(usb[d], faults) /\ Told(d, "CONNECTED")
  BY <1>1, Due DEF HandleConnected
<1>3. v \in UsbDevice /\ v.state = "connected" /\ v.events = <<>> /\ v.data = usb[d].data
  BY <1>1, <1>2, Device, Queues DEF UsbDevice
<1>4. Reset(v) = u
  BY <1>3 DEF Reset
<1>5. /\ usb' = [usb EXCEPT ![d] = u]
      /\ UNCHANGED <<eths, ifnums_used, netif_default, default_netif_set, displaced,
                     int_retries, eth_disabled_with_error, failed, crossed>>
  BY <1>4 DEF HandleConnected
<1> HIDE DEF v
<1>6. Append(v.events, "ENABLED") = <<"ENABLED">>
  BY <1>3
<1>7. /\ u \in UsbDevice /\ u.state = "connected" /\ u.data = usb[d].data
      /\ u.events = <<"ENABLED">>
  BY <1>3, <1>6, Queues DEF UsbDevice
<1> HIDE DEF u
<1>8. Fits(u)
  BY <1>7 DEF Fits
<1>9. ~(d \in failed /\ ~crossed)
  BY <1>1, <1>2 DEF FlagKept, Told
<1> QED BY <1>2, <1>5, <1>7, <1>8, <1>9, EventKeeps

(* The record of a device whose ENABLED event is handled.                    *)
LEMMA EnabledRecord ==
  ASSUME TypeOK, EventsFit, NEW d \in Devices, Told(d, "ENABLED")
  PROVE  /\ Enabled(d) \in UsbDevice /\ Enabled(d).state = "enabled"
         /\ Enabled(d).events = <<>> /\ Enabled(d).data = usb[d].data
         /\ usb[d].state = "connected" /\ ~Ready(usb[d], faults)
<1>1. usb[d].state = "connected" /\ Rest(d) = <<>> /\ ~Ready(usb[d], faults)
  BY Due
<1> QED BY <1>1, Device, Queues DEF Enabled, UsbDevice

(* init_ethernet_usb_device returns early.                                   *)
LEMMA InitRefusedKeeps ==
  ASSUME IInv, faults' = faults, lost' \in BOOLEAN, NEW d \in Devices, NEW found, NEW ok, InitRefused(d, found, ok)
  PROVE  IInv'
<1> DEFINE u == Enabled(d)
<1>1. TypeOK /\ EventsFit /\ FlagKept
  BY DEF IInv
<1>2. /\ Told(d, "ENABLED") /\ usb' = [usb EXCEPT ![d] = u]
      /\ UNCHANGED <<eths, ifnums_used, netif_default, default_netif_set, displaced,
                     int_retries, eth_disabled_with_error, failed, crossed>>
  BY DEF InitRefused
<1>3. /\ u \in UsbDevice /\ u.state = "enabled" /\ u.events = <<>> /\ u.data = usb[d].data
      /\ usb[d].state = "connected" /\ ~Ready(usb[d], faults)
  BY <1>1, <1>2, EnabledRecord
<1> HIDE DEF u
<1>4. Fits(u)
  BY <1>3 DEF Fits
<1>5. ~(d \in failed /\ ~crossed)
  BY <1>1, <1>2, <1>3 DEF FlagKept, Told
<1> QED BY <1>2, <1>3, <1>4, <1>5, EventKeeps
------------------------------------------------------------------------------
(* Those that change the interface of a device.                              *)

(* A step that changes the record of d's interface to x.                     *)
LEMMA InterfaceStep ==
  ASSUME IInv, faults' = faults, lost' \in BOOLEAN, NEW d \in Devices, NEW u \in UsbDevice, Fits(u),
         usb' = [usb EXCEPT ![d] = u], u.data = usb[d].data, u.data # NULL,
         NEW x \in EthRecords, x.dev = d, x.num = eths[u.data].num,
         x.up => x.ring /\ Ready(u, faults),
         eths' = [eths EXCEPT ![u.data] = x], ifnums_used' = ifnums_used,
         netif_default' \in Netifs \cup {NULL}, default_netif_set' \in BOOLEAN,
         int_retries' \in 0..MaxRetries, eth_disabled_with_error' \in BOOLEAN,
         failed' \subseteq Devices, crossed' \in BOOLEAN, displaced' \in BOOLEAN,
         ~crossed' => ~crossed /\ (u.state = "out" => u.events # <<>>)
  PROVE  /\ TypeOK' /\ EventsFit' /\ DataLive' /\ Numbered' /\ UpHeld' /\ NoGhost'
         /\ Netifs' = Netifs /\ u.data \in Netifs
         /\ (\A e \in Netifs \ {u.data} : eths'[e] = eths[e]) /\ eths'[u.data] = x
<1>1. TypeOK /\ EventsFit /\ DataLive /\ Numbered /\ UpHeld /\ NoGhost
  BY DEF IInv
<1>2. /\ usb' \in [Devices -> UsbDevice]
      /\ usb'[d] = u /\ \A c \in Devices \ {d} : usb'[c] = usb[c]
  BY <1>1 DEF TypeOK
<1>3. u.data \in Eths /\ eths[u.data] # NULL /\ eths[u.data].dev = d
  BY <1>1, Device DEF DataLive
<1>4. x # NULL
  BY EthDeviceAssumption
<1>5. /\ eths' \in [Eths -> EthRecords \cup {NULL}]
      /\ eths'[u.data] = x /\ \A e \in Eths \ {u.data} : eths'[e] = eths[e]
  BY <1>1, <1>3 DEF TypeOK
<1>6. Netifs' = Netifs /\ u.data \in Netifs
  BY <1>3, <1>4, <1>5 DEF Netifs
<1>7. \A e \in Netifs : e \in Eths
  BY DEF Netifs
<1>8. \A e \in Netifs : eths'[e].num = eths[e].num /\ eths'[e].dev = eths[e].dev
  BY <1>3, <1>5, <1>7
<1>9. TypeOK'
  BY <1>1, <1>2, <1>5, <1>6 DEF TypeOK
<1>10. EventsFit'
  BY <1>1, <1>2 DEF EventsFit
<1>11. DataLive'
  <2> SUFFICES ASSUME NEW c \in Devices, usb'[c].data # NULL
               PROVE  eths'[usb'[c].data] # NULL /\ eths'[usb'[c].data].dev = c
    BY DEF DataLive
  <2>1. usb'[c].data = usb[c].data
    BY <1>2
  <2>2. /\ usb[c].data \in Eths /\ eths[usb[c].data] # NULL
        /\ eths[usb[c].data].dev = c
    BY <1>1, <2>1, Device DEF DataLive
  <2> QED BY <1>3, <1>4, <1>5, <2>1, <2>2
<1>12. Numbered'
  <2>1. {eths'[e].num : e \in Netifs} = {eths[e].num : e \in Netifs}
    BY <1>8
  <2> QED BY <1>1, <1>6, <1>8, <2>1 DEF Numbered
<1>13. UpHeld'
  <2> SUFFICES ASSUME NEW e \in Netifs, eths'[e].up
               PROVE  /\ eths'[e].ring /\ usb'[eths'[e].dev].data = e
                      /\ Ready(usb'[eths'[e].dev], faults)
    BY <1>6 DEF UpHeld
  <2>1. CASE e = u.data
    BY <1>2, <1>5, <2>1
  <2>2. CASE e # u.data
    <3>1. eths'[e] = eths[e] /\ eths[e].dev \in Devices
      BY <1>1, <1>5, <1>7, <2>2, Interface DEF EthRecords
    <3>2. eths[e].ring /\ usb[eths[e].dev].data = e /\ Ready(usb[eths[e].dev], faults)
      BY <1>1, <3>1 DEF UpHeld
    <3> QED BY <1>2, <2>2, <3>1, <3>2
  <2> QED BY <2>1, <2>2
<1>14. NoGhost'
  <2> SUFFICES ASSUME ~crossed', NEW e \in Netifs
               PROVE  /\ usb'[eths'[e].dev].data = e
                      /\ usb'[eths'[e].dev].state = "out" => usb'[eths'[e].dev].events # <<>>
    BY <1>6 DEF NoGhost
  <2>1. /\ usb[eths[e].dev].data = e /\ eths[e].dev \in Devices
        /\ usb[eths[e].dev].state = "out" => usb[eths[e].dev].events # <<>>
    BY <1>1, Interface DEF NoGhost, EthRecords
  <2> QED BY <1>2, <1>8, <2>1
<1> QED BY <1>5, <1>6, <1>7, <1>9, <1>10, <1>11, <1>12, <1>13, <1>14

(* What the parser found of a device.                                        *)
LEMMA FoundRight ==
  ASSUME NEW found \in Recognized
  PROVE  found.right \in BOOLEAN
<1>1. PICK confs \in Configs : found = Found(confs)
  BY DEF Recognized
<1> DEFINE f == ParsedDevice(confs)
           right == f # NULL /\ \E i \in DOMAIN confs : HasFunction(confs[i], f)
<1>2. found = [func |-> f, right |-> right]
  BY <1>1 DEF Found
<1>3. right \in BOOLEAN
  OBVIOUS
<1> HIDE DEF f, right
<1> QED BY <1>2, <1>3

(* The record of an eth_device_t that is initialized.                        *)
LEMMA Ringed ==
  ASSUME NEW x \in EthRecords, ~x.up, NEW ring \in BOOLEAN
  PROVE  /\ WithRing(x, ring) \in EthRecords
         /\ WithRing(x, ring).num = x.num /\ WithRing(x, ring).dev = x.dev
         /\ WithRing(x, ring).right = x.right /\ WithRing(x, ring).link = x.link
         /\ WithRing(x, ring).up => WithRing(x, ring).ring
BY DEF WithRing, EthRecords

(* init_ethernet_usb_device finds the interface of an adapter it reset.      *)
LEMMA InitResumeKeeps ==
  ASSUME IInv, faults' = faults, lost' \in BOOLEAN, NEW d \in Devices, NEW found \in Recognized, NEW ring \in BOOLEAN,
         NEW taken \in Answers, InitResume(d, found, ring, taken)
  PROVE  IInv'
<1> DEFINE e == usb[d].data
           y == [eths[e] EXCEPT !.right = found.right, !.up = FALSE, !.link = FALSE]
           x == WithRing(y, ring)
           u == [Enabled(d) EXCEPT !.int = x.up /\ taken]
<1>1. TypeOK /\ EventsFit /\ DataLive /\ FlagKept /\ RouteKept
  BY DEF IInv
<1>2. /\ Told(d, "ENABLED") /\ e # NULL
      /\ eths' = [eths EXCEPT ![e] = x] /\ usb' = [usb EXCEPT ![d] = u]
      /\ UNCHANGED <<ifnums_used, netif_default, default_netif_set,
                     eth_disabled_with_error, int_retries, failed, crossed, displaced>>
  BY DEF InitResume, CanInit
<1>3. e \in Netifs /\ eths[e].dev = d /\ eths[e] \in EthRecords
  BY <1>1, <1>2, Device, Interface DEF DataLive, Netifs
<1>4. y \in EthRecords /\ y.num = eths[e].num /\ y.dev = d /\ ~y.up /\ ~y.link
  BY <1>3, FoundRight DEF EthRecords
<1> HIDE DEF y
<1>5. /\ x \in EthRecords /\ x.num = eths[e].num /\ x.dev = d /\ ~x.link
      /\ x.up => x.ring
  BY <1>4, Ringed
<1> HIDE DEF x
<1>6. x.up \in BOOLEAN
  BY <1>5 DEF EthRecords
<1>7. /\ u \in UsbDevice /\ u.state = "enabled" /\ u.events = <<>>
      /\ u.data = e /\ u.int = (x.up /\ taken) /\ usb[d].state = "connected"
  <2>1. (x.up /\ taken) \in BOOLEAN
    BY <1>6 DEF Answers
  <2> QED BY <1>1, <1>2, <1>6, <2>1, EnabledRecord DEF UsbDevice
<1> HIDE DEF e, u
<1>8. Fits(u) /\ (x.up => Ready(u, faults))
  <2>1. taken \/ "memory" \in faults
    BY DEF Answers
  <2> QED BY <1>7, <2>1 DEF Fits, Ready
<1>9. /\ TypeOK' /\ EventsFit' /\ DataLive' /\ Numbered' /\ UpHeld' /\ NoGhost'
      /\ Netifs' = Netifs /\ (\A f \in Netifs \ {e} : eths'[f] = eths[f]) /\ eths'[e] = x
  <2>1. /\ netif_default' \in Netifs \cup {NULL} /\ default_netif_set' \in BOOLEAN
        /\ int_retries' \in 0..MaxRetries /\ eth_disabled_with_error' \in BOOLEAN
        /\ failed' \subseteq Devices /\ crossed' \in BOOLEAN /\ displaced' \in BOOLEAN
    BY <1>1, <1>2 DEF TypeOK
  <2>2. u.data = usb[d].data /\ u.data # NULL /\ eths' = [eths EXCEPT ![u.data] = x]
    BY <1>2, <1>7 DEF e
  <2>3. x.num = eths[u.data].num /\ (x.up => x.ring /\ Ready(u, faults))
    BY <1>5, <1>7, <1>8
  <2>4. ~crossed' => ~crossed /\ (u.state = "out" => u.events # <<>>)
    BY <1>2, <1>7
  <2>5. /\ TypeOK' /\ EventsFit' /\ DataLive' /\ Numbered' /\ UpHeld' /\ NoGhost'
        /\ Netifs' = Netifs
        /\ (\A f \in Netifs \ {u.data} : eths'[f] = eths[f]) /\ eths'[u.data] = x
    <3>1. /\ usb' = [usb EXCEPT ![d] = u] /\ u \in UsbDevice /\ Fits(u)
          /\ x \in EthRecords /\ x.dev = d /\ ifnums_used' = ifnums_used
      BY <1>2, <1>5, <1>7, <1>8
    <3> QED BY <2>1, <2>2, <2>3, <2>4, <3>1, InterfaceStep
  <2> QED BY <1>7, <2>5
<1>10. FlagKept'
  <2>1. d \in failed => crossed
    BY <1>1, <1>2, <1>7 DEF FlagKept, Told
  <2>2. failed \subseteq Devices /\ \A c \in Devices \ {d} : usb'[c] = usb[c]
    BY <1>1, <1>2 DEF TypeOK
  <2> QED BY <1>1, <1>2, <2>1, <2>2 DEF FlagKept, Told
<1>11. RouteKept'
  <2>1. \A f \in Linked' : f \in Linked
    BY <1>5, <1>9 DEF Linked
  <2> QED BY <1>1, <1>2, <2>1 DEF RouteKept
<1> QED BY <1>9, <1>10, <1>11 DEF IInv

(* init_ethernet_usb_device adds a new interface.                            *)
LEMMA InitNewKeeps ==
  ASSUME IInv, faults' = faults, lost' \in BOOLEAN, NEW d \in Devices, NEW found \in Recognized, NEW e \in Eths,
         NEW ring \in BOOLEAN, NEW taken \in Answers, InitNew(d, found, e, ring, taken)
  PROVE  IInv'
<1> DEFINE y == NewEth(d, found, FreeNum)
           x == WithRing(y, ring)
           u == [Enabled(d) EXCEPT !.data = e, !.int = x.up /\ taken]
<1>1. TypeOK /\ EventsFit /\ DataLive /\ Numbered /\ UpHeld /\ FlagKept /\ NoGhost /\ RouteKept
  BY DEF IInv
<1>2. /\ Told(d, "ENABLED") /\ usb[d].data = NULL /\ eths[e] = NULL
      /\ Cardinality(ifnums_used) < Slots
      /\ eths' = [eths EXCEPT ![e] = x] /\ usb' = [usb EXCEPT ![d] = u]
      /\ ifnums_used' = ifnums_used \cup {FreeNum}
      /\ UNCHANGED <<netif_default, default_netif_set, eth_disabled_with_error,
                     int_retries, failed, crossed, displaced>>
  BY DEF InitNew, CanInit
<1>3. FreeNum \in 0..(Slots - 1) /\ FreeNum \notin ifnums_used
  BY <1>1, <1>2, FreeNumFree DEF TypeOK
<1>4. y \in EthRecords /\ y.num = FreeNum /\ y.dev = d /\ ~y.up /\ ~y.link
  BY <1>3, FoundRight DEF NewEth, EthRecords
<1> HIDE DEF y
<1>5. /\ x \in EthRecords /\ x.num = FreeNum /\ x.dev = d /\ ~x.link
      /\ x.up => x.ring
  BY <1>4, Ringed
<1> HIDE DEF x
<1>6. x.up \in BOOLEAN /\ x # NULL /\ e # NULL
  BY <1>5, EthDeviceAssumption DEF EthRecords
<1>7. /\ u \in UsbDevice /\ u.state = "enabled" /\ u.events = <<>>
      /\ u.data = e /\ u.int = (x.up /\ taken) /\ usb[d].state = "connected"
  <2>1. (x.up /\ taken) \in BOOLEAN
    BY <1>6 DEF Answers
  <2> QED BY <1>1, <1>2, <1>6, <2>1, EnabledRecord DEF UsbDevice
<1> HIDE DEF u
<1>8. Fits(u) /\ (x.up => Ready(u, faults))
  <2>1. taken \/ "memory" \in faults
    BY DEF Answers
  <2> QED BY <1>7, <2>1 DEF Fits, Ready
<1>9. /\ usb' \in [Devices -> UsbDevice]
      /\ usb'[d] = u /\ \A c \in Devices \ {d} : usb'[c] = usb[c]
  BY <1>1, <1>2, <1>7 DEF TypeOK
<1>10. /\ eths' \in [Eths -> EthRecords \cup {NULL}]
       /\ eths'[e] = x /\ \A f \in Eths \ {e} : eths'[f] = eths[f]
  BY <1>1, <1>2, <1>5 DEF TypeOK
<1>11. Netifs' = Netifs \cup {e} /\ e \notin Netifs /\ Netifs \subseteq Eths
  BY <1>2, <1>6, <1>10 DEF Netifs
<1>12. \A f \in Netifs : eths'[f] = eths[f] /\ f # e
  BY <1>10, <1>11
<1>13. TypeOK'
  BY <1>1, <1>2, <1>3, <1>9, <1>10, <1>11 DEF TypeOK
<1>14. EventsFit'
  BY <1>1, <1>8, <1>9 DEF EventsFit
<1>15. DataLive'
  <2> SUFFICES ASSUME NEW c \in Devices, usb'[c].data # NULL
               PROVE  eths'[usb'[c].data] # NULL /\ eths'[usb'[c].data].dev = c
    BY DEF DataLive
  <2>1. CASE c = d
    BY <1>5, <1>6, <1>7, <1>9, <1>10, <2>1
  <2>2. CASE c # d
    <3>1. usb'[c] = usb[c] /\ usb[c].data \in Eths /\ eths[usb[c].data] # NULL
      BY <1>1, <1>9, <2>2, Device DEF DataLive
    <3>2. usb[c].data # e
      BY <1>2, <3>1
    <3>3. eths'[usb[c].data] = eths[usb[c].data]
      BY <1>10, <3>1, <3>2
    <3> QED BY <1>1, <3>1, <3>3 DEF DataLive
  <2> QED BY <2>1, <2>2
<1>16. Numbered'
  <2>1. \A f \in Netifs : eths[f].num \in ifnums_used
    BY <1>1 DEF Numbered
  <2>2. {eths'[f].num : f \in Netifs \cup {e}} = {eths[f].num : f \in Netifs} \cup {FreeNum}
    BY <1>5, <1>10, <1>12
  <2>3. \A f, g \in Netifs \cup {e} : eths'[f].num = eths'[g].num => f = g
    BY <1>1, <1>3, <1>5, <1>10, <1>12, <2>1 DEF Numbered
  <2> QED BY <1>1, <1>2, <1>11, <2>2, <2>3 DEF Numbered
<1>17. \A f \in Netifs : usb[eths[f].dev].data = f =>
         eths[f].dev \in Devices /\ usb'[eths[f].dev] = usb[eths[f].dev]
  <2> SUFFICES ASSUME NEW f \in Netifs, usb[eths[f].dev].data = f
               PROVE  eths[f].dev \in Devices /\ usb'[eths[f].dev] = usb[eths[f].dev]
    OBVIOUS
  <2>1. eths[f].dev \in Devices
    BY <1>1, Interface DEF EthRecords
  <2>2. f # NULL
    BY <1>11, EthDeviceAssumption
  <2> QED BY <1>2, <1>9, <2>1, <2>2
<1>18. UpHeld'
  <2> SUFFICES ASSUME NEW f \in Netifs \cup {e}, eths'[f].up
               PROVE  /\ eths'[f].ring /\ usb'[eths'[f].dev].data = f
                      /\ Ready(usb'[eths'[f].dev], faults)
    BY <1>11 DEF UpHeld
  <2>1. CASE f = e
    BY <1>5, <1>7, <1>8, <1>9, <1>10, <2>1
  <2>2. CASE f \in Netifs
    BY <1>1, <1>12, <1>17, <2>2 DEF UpHeld
  <2> QED BY <2>1, <2>2
<1>19. FlagKept'
  <2>1. d \in failed => crossed
    BY <1>1, <1>2, <1>7 DEF FlagKept, Told
  <2>2. failed \subseteq Devices
    BY <1>1 DEF TypeOK
  <2> QED BY <1>1, <1>2, <1>9, <2>1, <2>2 DEF FlagKept, Told
<1>20. NoGhost'
  <2> SUFFICES ASSUME ~crossed, NEW f \in Netifs \cup {e}
               PROVE  /\ usb'[eths'[f].dev].data = f
                      /\ usb'[eths'[f].dev].state = "out" => usb'[eths'[f].dev].events # <<>>
    BY <1>2, <1>11 DEF NoGhost
  <2>1. CASE f = e
    BY <1>5, <1>7, <1>9, <1>10, <2>1
  <2>2. CASE f \in Netifs
    BY <1>1, <1>12, <1>17, <2>2 DEF NoGhost
  <2> QED BY <2>1, <2>2
<1>21. RouteKept'
  <2>1. \A f \in Linked' : f \in Linked
    BY <1>5, <1>10, <1>11, <1>12 DEF Linked
  <2> QED BY <1>1, <1>2, <2>1 DEF RouteKept
<1> QED BY <1>13, <1>14, <1>15, <1>16, <1>18, <1>19, <1>20, <1>21 DEF IInv
------------------------------------------------------------------------------
(* Those that take an interface down.  v is usbdrvce's record of d when the   *)
(* driver handles the end of d.                                              *)

Ends(d, v) ==
  /\ v \in UsbDevice /\ v.data = usb[d].data
  /\ \/ v.state = "disabled" /\ v.events = <<>>
     \/ v.state = "out" /\ v.events \in {<<>>, <<"DISCONNECTED">>}
  /\ v.state = "out" /\ v.events = <<>> => Told(d, "DISCONNECTED")

(* usb_ResetDevice does not make an ending device ready.                     *)
LEMMA ResetRecord ==
  ASSUME NEW d \in Devices, NEW v, Ends(d, v)
  PROVE  /\ Reset(v) \in UsbDevice /\ Fits(Reset(v)) /\ Reset(v).data = v.data
         /\ Reset(v).state = "out" => Reset(v).events = v.events /\ v.state = "out"
<1>1. CASE v.state = "out"
  BY <1>1 DEF Ends, Reset, Fits
<1>2. CASE v.state = "disabled"
  <2>1. Append(v.events, "ENABLED") = <<"ENABLED">> /\ v \in UsbDevice
    BY <1>2, Queues DEF Ends
  <2>2. Reset(v) = [v EXCEPT !.state = "connected", !.int = FALSE, !.events = <<"ENABLED">>]
    BY <1>2, <2>1 DEF Reset
  <2>3. /\ Reset(v) \in UsbDevice /\ Reset(v).state = "connected"
        /\ Reset(v).events = <<"ENABLED">> /\ Reset(v).data = v.data
    BY <2>1, <2>2, Queues DEF UsbDevice
  <2> QED BY <2>3 DEF Fits
<1> QED BY <1>1, <1>2 DEF Ends

(* With the flag set: the interface goes down and the device is reset.  If    *)
(* the flag was not raised for d alone, the interface may stay behind.        *)
LEMMA ResetKeeps ==
  ASSUME IInv, faults' = faults, lost' \in BOOLEAN, NEW d \in Devices, NEW v, Ends(d, v), TakenDown(d, v),
         eth_disabled_with_error, crossed' = (crossed \/ Crosses(d)),
         eth_disabled_with_error' \in BOOLEAN, failed' \subseteq Devices,
         UNCHANGED <<default_netif_set, int_retries>>
  PROVE  /\ TypeOK' /\ EventsFit' /\ DataLive' /\ Numbered' /\ UpHeld' /\ NoGhost'
         /\ RouteKept'
<1> DEFINE u == Reset(v)
<1>1. TypeOK /\ EventsFit /\ DataLive /\ UpHeld /\ FlagKept /\ NoGhost /\ RouteKept
  BY DEF IInv
<1>2. /\ eths' = [e \in Eths |-> IF e # v.data THEN eths[e]
                    ELSE [eths[e] EXCEPT !.up = FALSE, !.link = FALSE]]
      /\ usb' = [usb EXCEPT ![d] = u]
      /\ UNCHANGED <<ifnums_used, netif_default, displaced>>
  BY DEF TakenDown
<1>3. v.data = usb[d].data /\ u \in UsbDevice /\ Fits(u) /\ u.data = usb[d].data
  BY ResetRecord DEF Ends
<1>4. crossed' \in BOOLEAN
  BY <1>1 DEF TypeOK, Crosses
<1>5. \/ crossed'
      \/ ~crossed /\ (u.data = NULL \/ (u.state = "out" => u.events # <<>>))
  <2> SUFFICES ASSUME ~crossed', u.state = "out", u.events = <<>>
               PROVE  ~crossed /\ u.data = NULL
    BY <1>1 DEF TypeOK
  <2>1. ~crossed /\ d \in failed
    BY DEF Crosses
  <2>2. Told(d, "DISCONNECTED")
    BY ResetRecord DEF Ends
  <2>3. usb[d].data = NULL
    BY <1>1, <2>1, <2>2 DEF FlagKept, Told
  <2> QED BY <1>3, <2>1, <2>3
<1>6. /\ netif_default' \in Netifs \cup {NULL} /\ default_netif_set' \in BOOLEAN
      /\ int_retries' \in 0..MaxRetries /\ displaced' \in BOOLEAN
  BY <1>1, <1>2 DEF TypeOK
<1> HIDE DEF u
<1>7. CASE u.data = NULL
  <2>1. eths' = eths
    <3>1. v.data \notin Eths
      BY <1>3, <1>7, EthDeviceAssumption
    <3> QED BY <1>1, <1>2, <3>1 DEF TypeOK
  <2>2. \A e \in Netifs : ~(usb[d].data = e)
    BY <1>3, <1>7, EthDeviceAssumption DEF Netifs
  <2>3. \A e \in Netifs : eths[e].dev = d /\ eths[e].up => FALSE
    BY <1>1, <2>2 DEF UpHeld
  <2>4. TypeOK' /\ EventsFit' /\ DataLive' /\ Numbered' /\ UpHeld' /\ RouteKept'
    BY <1>2, <1>3, <1>4, <1>6, <2>1, <2>3, UsbStep
  <2>5. NoGhost'
    <3> SUFFICES ASSUME ~crossed, NEW e \in Netifs
                 PROVE  /\ usb'[eths[e].dev].data = e
                        /\ usb'[eths[e].dev].state = "out" => usb'[eths[e].dev].events # <<>>
      BY <2>1 DEF NoGhost, Netifs
    <3>1. /\ usb[eths[e].dev].data = e /\ eths[e].dev \in Devices
          /\ usb[eths[e].dev].state = "out" => usb[eths[e].dev].events # <<>>
      BY <1>1, Interface DEF NoGhost, EthRecords
    <3>2. eths[e].dev # d
      BY <2>2, <3>1
    <3> QED BY <1>1, <1>2, <3>1, <3>2 DEF TypeOK
  <2> QED BY <2>4, <2>5
<1>8. CASE u.data # NULL
  <2> DEFINE x == [eths[u.data] EXCEPT !.up = FALSE, !.link = FALSE]
  <2>1. u.data \in Netifs /\ eths[u.data].dev = d /\ eths[u.data] \in EthRecords
    BY <1>1, <1>3, <1>8, Device, Interface DEF DataLive, Netifs
  <2>2. x \in EthRecords /\ x.num = eths[u.data].num /\ x.dev = d /\ ~x.up /\ ~x.link
    BY <2>1 DEF EthRecords
  <2>3. eths' = [eths EXCEPT ![u.data] = x]
    BY <1>1, <1>2, <1>3 DEF TypeOK
  <2> HIDE DEF x
  <2>4. ~crossed' => ~crossed /\ (u.state = "out" => u.events # <<>>)
    BY <1>5, <1>8
  <2>5. /\ TypeOK' /\ EventsFit' /\ DataLive' /\ Numbered' /\ UpHeld' /\ NoGhost'
        /\ Netifs' = Netifs
        /\ (\A e \in Netifs \ {u.data} : eths'[e] = eths[e]) /\ eths'[u.data] = x
    <3>1. ifnums_used' = ifnums_used /\ usb' = [usb EXCEPT ![d] = u]
      BY <1>2
    <3> QED BY <1>3, <1>4, <1>6, <1>8, <2>2, <2>3, <2>4, <3>1, InterfaceStep
  <2>6. RouteKept'
    <3>1. \A e \in Linked' : e \in Linked
      BY <2>2, <2>5 DEF Linked
    <3> QED BY <1>1, <1>2, <3>1 DEF RouteKept
  <2> QED BY <2>5, <2>6
<1> QED BY <1>7, <1>8

(* With the flag clear: the interface is removed.                            *)
LEMMA RemoveKeeps ==
  ASSUME IInv, faults' = faults, lost' \in BOOLEAN, NEW d \in Devices, NEW v, Ends(d, v), TakenDown(d, v),
         ~eth_disabled_with_error, crossed' = (crossed \/ Crosses(d)),
         eth_disabled_with_error' \in BOOLEAN, failed' \subseteq Devices,
         UNCHANGED <<default_netif_set, int_retries>>
  PROVE  /\ TypeOK' /\ EventsFit' /\ DataLive' /\ Numbered' /\ UpHeld' /\ NoGhost'
         /\ RouteKept' /\ usb'[d].data = NULL /\ usb'[d].state = v.state
<1> DEFINE u == [v EXCEPT !.data = NULL]
           e == v.data
<1>1. TypeOK /\ EventsFit /\ DataLive /\ Numbered /\ UpHeld /\ NoGhost /\ RouteKept
  BY DEF IInv
<1>2. /\ eths' = [f \in Eths |-> IF f # e THEN eths[f] ELSE NULL]
      /\ usb' = [usb EXCEPT ![d] = u]
      /\ ifnums_used' = ifnums_used \ {eths[f].num : f \in Netifs \cap {e}}
      /\ netif_default' = IF e = netif_default THEN NULL ELSE netif_default
      /\ displaced' = (displaced \/ e \in {netif_default} \ {NULL})
      /\ crossed' = crossed
  BY <1>1 DEF TakenDown, Crosses, TypeOK
<1>3. /\ e = usb[d].data /\ u \in UsbDevice /\ u.data = NULL /\ u.state = v.state
      /\ u.events = v.events
  BY DEF Ends, UsbDevice
<1>4. Fits(u)
  BY <1>3 DEF Ends, Fits
<1> HIDE DEF e, u
<1>5. /\ usb' \in [Devices -> UsbDevice]
      /\ usb'[d] = u /\ \A c \in Devices \ {d} : usb'[c] = usb[c]
  BY <1>1, <1>2, <1>3 DEF TypeOK
<1>6. /\ eths' \in [Eths -> EthRecords \cup {NULL}]
      /\ \A f \in Eths \ {e} : eths'[f] = eths[f]
      /\ e \in Eths => eths'[e] = NULL
  BY <1>1, <1>2 DEF TypeOK
<1>7. /\ Netifs' = Netifs \ {e} /\ Netifs \subseteq Eths
      /\ \A f \in Netifs \ {e} : eths'[f] = eths[f]
  BY <1>6 DEF Netifs
<1>8. Linked' = Linked \ {e}
  BY <1>7 DEF Linked
<1>9. netif_default' \in Netifs' \cup {NULL} /\ displaced' \in BOOLEAN
  BY <1>1, <1>2, <1>7 DEF TypeOK
<1>10. TypeOK'
  BY <1>1, <1>2, <1>5, <1>6, <1>9 DEF TypeOK
<1>11. EventsFit'
  BY <1>1, <1>4, <1>5 DEF EventsFit
<1>12. DataLive'
  <2> SUFFICES ASSUME NEW c \in Devices, usb'[c].data # NULL
               PROVE  eths'[usb'[c].data] # NULL /\ eths'[usb'[c].data].dev = c
    BY DEF DataLive
  <2>1. c # d
    BY <1>3, <1>5
  <2>2. /\ usb'[c] = usb[c] /\ usb[c].data \in Eths /\ eths[usb[c].data] # NULL
        /\ eths[usb[c].data].dev = c
    BY <1>1, <1>5, <2>1, Device DEF DataLive
  <2>3. usb[c].data # e
    BY <1>1, <1>3, <2>1, <2>2, EthDeviceAssumption DEF DataLive
  <2> QED BY <1>6, <2>2, <2>3
<1>13. Numbered'
  <2>1. {eths[f].num : f \in Netifs} \ {eths[f].num : f \in Netifs \cap {e}}
          = {eths[f].num : f \in Netifs \ {e}}
    <3>1. \A f, g \in Netifs : eths[f].num = eths[g].num => f = g
      BY <1>1 DEF Numbered
    <3> QED BY <3>1, Zenon
  <2>2. {eths'[f].num : f \in Netifs \ {e}} = {eths[f].num : f \in Netifs \ {e}}
    BY <1>7
  <2>3. \A f, g \in Netifs \ {e} : eths'[f].num = eths'[g].num => f = g
    BY <1>1, <1>7 DEF Numbered
  <2> QED BY <1>1, <1>2, <1>7, <2>1, <2>2, <2>3 DEF Numbered
<1>14. \A f \in Netifs \ {e} : usb[eths[f].dev].data = f =>
         eths[f].dev \in Devices /\ usb'[eths[f].dev] = usb[eths[f].dev]
  BY <1>1, <1>3, <1>5, Interface DEF EthRecords
<1>15. UpHeld'
  BY <1>1, <1>7, <1>14 DEF UpHeld
<1>16. NoGhost'
  BY <1>1, <1>2, <1>7, <1>14 DEF NoGhost
<1>17. RouteKept'
  BY <1>1, <1>2, <1>8 DEF RouteKept, TypeOK
<1> QED BY <1>3, <1>5, <1>10, <1>11, <1>12, <1>13, <1>15, <1>16, <1>17

(* The disabled and disconnected events.                                     *)
LEMMA HandleGoneKeeps ==
  ASSUME IInv, faults' = faults, lost' \in BOOLEAN, NEW d \in Devices, HandleGone(d)
  PROVE  IInv'
<1> DEFINE v == [usb[d] EXCEPT !.events = Rest(d)]
<1>1. TypeOK /\ EventsFit /\ FlagKept
  BY DEF IInv
<1>2. /\ Told(d, "DISABLED") \/ Told(d, "DISCONNECTED")
      /\ TakenDown(d, v) /\ crossed' = (crossed \/ Crosses(d))
      /\ eth_disabled_with_error' = FALSE /\ failed' = {}
      /\ UNCHANGED <<default_netif_set, int_retries>>
  BY DEF HandleGone
<1>3. \/ usb[d].state = "disabled" /\ Rest(d) = <<>>
      \/ usb[d].state = "out" /\ Rest(d) = <<"DISCONNECTED">>
      \/ usb[d].state = "out" /\ Rest(d) = <<>> /\ Told(d, "DISCONNECTED")
  BY <1>1, <1>2, Due
<1>4. Rest(d) \in Seq({"CONNECTED", "ENABLED", "DISABLED", "DISCONNECTED"})
  BY <1>3, Queues
<1>5. /\ v \in UsbDevice /\ v.data = usb[d].data /\ v.state = usb[d].state
      /\ v.events = Rest(d)
  BY <1>1, <1>4, Device DEF UsbDevice
<1> HIDE DEF v
<1>6. Ends(d, v)
  <2>1. <<"DISCONNECTED">> # <<>>
    OBVIOUS
  <2>2. CASE usb[d].state = "disabled" /\ Rest(d) = <<>>
    BY <1>5, <2>2 DEF Ends
  <2>3. CASE usb[d].state = "out" /\ Rest(d) = <<"DISCONNECTED">>
    BY <1>5, <2>1, <2>3 DEF Ends
  <2>4. CASE usb[d].state = "out" /\ Rest(d) = <<>> /\ Told(d, "DISCONNECTED")
    BY <1>5, <2>4 DEF Ends
  <2> QED BY <1>3, <2>2, <2>3, <2>4
<1>7. eth_disabled_with_error \in BOOLEAN
  BY <1>1 DEF TypeOK
<1>8. /\ TypeOK' /\ EventsFit' /\ DataLive' /\ Numbered' /\ UpHeld' /\ NoGhost'
      /\ RouteKept'
  <2>1. eth_disabled_with_error' \in BOOLEAN /\ failed' \subseteq Devices
    BY <1>2
  <2>2. CASE eth_disabled_with_error
    BY <1>2, <1>6, <2>1, <2>2, ResetKeeps
  <2>3. CASE ~eth_disabled_with_error
    BY <1>2, <1>6, <2>1, <2>3, RemoveKeeps
  <2> QED BY <1>7, <2>2, <2>3
<1>9. FlagKept'
  BY <1>2 DEF FlagKept
<1> QED BY <1>8, <1>9 DEF IInv
(* A device is given up: within usb_DisableDevice if that calls back at once, *)
(* and otherwise with the event that is now due.                             *)
LEMMA FatalKeeps ==
  ASSUME IInv, faults' = faults, lost' \in BOOLEAN, NEW d \in Devices,
         usb[d].state = "enabled", usb[d].data # NULL, Fatal(d),
         UNCHANGED <<default_netif_set, int_retries>>
  PROVE  IInv'
<1> DEFINE v == [usb[d] EXCEPT !.state = "disabled", !.int = FALSE]
<1>1. TypeOK /\ EventsFit /\ DataLive /\ UpHeld /\ FlagKept /\ NoGhost
  BY DEF IInv
<1>2. usb[d].state = "enabled" /\ usb[d].data # NULL /\ usb[d].events = <<>>
  BY <1>1 DEF EventsFit, Fits
<1>3. /\ v \in UsbDevice /\ v.state = "disabled" /\ v.data = usb[d].data
      /\ v.events = <<>>
  BY <1>1, <1>2, Device DEF UsbDevice
<1>4. d \in failed => crossed
  BY <1>1, <1>2 DEF FlagKept, Told
<1>5. eth_disabled_with_error' = TRUE /\ failed \subseteq Devices
  BY <1>1 DEF Fatal, TypeOK
<1>6. CASE "prompt" \in faults
  <2>1. TakenDown(d, v) /\ failed' = {d} /\ crossed' = (crossed \/ Crosses(d))
    BY <1>6 DEF Fatal
  <2> HIDE DEF v
  <2>2. Ends(d, v)
    BY <1>3 DEF Ends
  <2>3. eth_disabled_with_error' \in BOOLEAN /\ failed' \subseteq Devices
    BY <1>5, <2>1
  <2>4. CASE eth_disabled_with_error
    <3>1. /\ TypeOK' /\ EventsFit' /\ DataLive' /\ Numbered' /\ UpHeld' /\ NoGhost'
          /\ RouteKept'
      BY <2>1, <2>2, <2>3, <2>4, ResetKeeps
    <3>2. crossed'
      BY <1>4, <2>1, <2>4 DEF Crosses
    <3> QED BY <1>5, <2>1, <3>1, <3>2 DEF IInv, FlagKept
  <2>5. CASE ~eth_disabled_with_error
    <3>1. /\ TypeOK' /\ EventsFit' /\ DataLive' /\ Numbered' /\ UpHeld' /\ NoGhost'
          /\ RouteKept' /\ usb'[d].data = NULL /\ usb'[d].state = v.state
      BY <2>1, <2>2, <2>3, <2>5, RemoveKeeps
    <3>2. FlagKept'
      BY <1>3, <1>5, <2>1, <3>1 DEF FlagKept
    <3> QED BY <3>1, <3>2 DEF IInv
  <2>6. eth_disabled_with_error \in BOOLEAN
    BY <1>1 DEF TypeOK
  <2> QED BY <2>4, <2>5, <2>6
<1>7. CASE "prompt" \notin faults
  <2> DEFINE u == [v EXCEPT !.events = <<"DISABLED">>]
  <2>1. /\ usb' = [usb EXCEPT ![d] = [v EXCEPT !.events = Append(@, "DISABLED")]]
        /\ failed' = failed \cup {d}
        /\ UNCHANGED <<eths, ifnums_used, netif_default, displaced, crossed>>
    BY <1>7 DEF Fatal
  <2> HIDE DEF v
  <2>2. usb' = [usb EXCEPT ![d] = u]
    <3>1. Append(v.events, "DISABLED") = <<"DISABLED">>
      BY <1>3, Queues
    <3> QED BY <2>1, <3>1
  <2>3. /\ u \in UsbDevice /\ u.state = "disabled" /\ u.data = usb[d].data
        /\ u.events = <<"DISABLED">>
    BY <1>3, Queues DEF UsbDevice
  <2> HIDE DEF u
  <2>4. Fits(u) /\ Ready(u, faults)
    BY <2>3, Queues DEF Fits, Ready
  <2>5. usb'[d] = u /\ \A c \in Devices \ {d} : usb'[c] = usb[c]
    BY <1>1, <2>2 DEF TypeOK
  <2>6. TypeOK' /\ EventsFit' /\ DataLive' /\ Numbered' /\ UpHeld' /\ RouteKept'
    <3>1. \A e \in Netifs : eths[e].dev = d /\ eths[e].up => u.data = e /\ Ready(u, faults)
      BY <1>1, <2>3, <2>4 DEF UpHeld
    <3>2. /\ int_retries' \in 0..MaxRetries /\ eth_disabled_with_error' \in BOOLEAN
          /\ failed' \subseteq Devices /\ crossed' \in BOOLEAN
      BY <1>1, <1>5, <2>1 DEF TypeOK
    <3> QED BY <2>1, <2>2, <2>3, <2>4, <3>1, <3>2, UsbStep
  <2>7. FlagKept'
    <3>1. Told(d, "DISABLED")'
      BY <2>3, <2>5, Queues DEF Told
    <3>2. \A c \in failed \ {d} : Told(c, "DISABLED")' = Told(c, "DISABLED") /\ usb'[c] = usb[c]
      BY <1>5, <2>5 DEF Told
    <3> QED BY <1>1, <1>5, <2>1, <3>1, <3>2 DEF FlagKept
  <2>8. NoGhost'
    <3> SUFFICES ASSUME ~crossed, NEW e \in Netifs
                 PROVE  /\ usb'[eths[e].dev].data = e
                        /\ usb'[eths[e].dev].state = "out" => usb'[eths[e].dev].events # <<>>
      BY <2>1 DEF NoGhost, Netifs
    <3>1. /\ usb[eths[e].dev].data = e /\ eths[e].dev \in Devices
          /\ usb[eths[e].dev].state = "out" => usb[eths[e].dev].events # <<>>
      BY <1>1, Interface DEF NoGhost, EthRecords
    <3> QED BY <2>3, <2>5, <3>1
  <2> QED BY <2>6, <2>7, <2>8 DEF IInv
<1> QED BY <1>6, <1>7

(* An interrupt transfer fails.                                              *)
LEMMA IntErrorKeeps ==
  ASSUME IInv, faults' = faults, lost' \in BOOLEAN, NEW d \in Devices,
         NEW taken \in Answers, IntError(d, taken)
  PROVE  IInv'
<1>1. CASE int_retries = MaxRetries
  BY <1>1, FatalKeeps DEF IntError, InUse
<1>2. CASE int_retries # MaxRetries
  <2> DEFINE u == [usb[d] EXCEPT !.int = taken]
  <2>1. /\ int_retries' = int_retries + 1 /\ usb' = [usb EXCEPT ![d] = u]
        /\ UNCHANGED <<eths, ifnums_used, netif_default, default_netif_set, displaced,
                       crossed, failed, eth_disabled_with_error>>
        /\ usb[d].state = "enabled"
    BY <1>2 DEF IntError, InUse
  <2>2. TypeOK /\ EventsFit /\ FlagKept /\ NoGhost /\ UpHeld /\ usb[d].events = <<>>
    BY <2>1 DEF IInv, EventsFit, Fits
  <2>3. taken \in BOOLEAN /\ (taken \/ "memory" \in faults)
    BY DEF Answers
  <2>4. /\ u \in UsbDevice /\ u.state = "enabled" /\ u.events = <<>>
        /\ u.data = usb[d].data /\ u.int = taken
    BY <2>1, <2>2, <2>3, Device DEF UsbDevice
  <2> HIDE DEF u
  <2>5. Fits(u) /\ Ready(u, faults)
    BY <2>3, <2>4 DEF Fits, Ready
  <2>6. usb'[d] = u /\ \A c \in Devices \ {d} : usb'[c] = usb[c]
    BY <2>1, <2>2 DEF TypeOK
  <2>7. TypeOK' /\ EventsFit' /\ DataLive' /\ Numbered' /\ UpHeld' /\ RouteKept'
    <3>1. int_retries' \in 0..MaxRetries
      BY <1>2, <2>1, <2>2, EthDeviceAssumption DEF TypeOK
    <3>2. /\ eth_disabled_with_error' \in BOOLEAN
          /\ failed' \subseteq Devices /\ crossed' \in BOOLEAN
      BY <2>1, <2>2 DEF TypeOK
    <3>3. \A e \in Netifs : eths[e].dev = d /\ eths[e].up => u.data = e /\ Ready(u, faults)
      BY <2>2, <2>4, <2>5 DEF UpHeld
    <3> QED BY <2>1, <2>4, <2>5, <3>1, <3>2, <3>3, UsbStep
  <2>8. FlagKept'
    <3>1. failed \subseteq Devices /\ ~(d \in failed /\ ~crossed)
      BY <2>1, <2>2 DEF FlagKept, Told, TypeOK
    <3> QED BY <2>1, <2>2, <2>6, <3>1 DEF FlagKept, Told
  <2>9. NoGhost'
    <3> SUFFICES ASSUME ~crossed, NEW e \in Netifs
                 PROVE  /\ usb'[eths[e].dev].data = e
                        /\ usb'[eths[e].dev].state = "out" => usb'[eths[e].dev].events # <<>>
      BY <2>1 DEF NoGhost, Netifs
    <3>1. /\ usb[eths[e].dev].data = e /\ eths[e].dev \in Devices
          /\ usb[eths[e].dev].state = "out" => usb[eths[e].dev].events # <<>>
      BY <2>2, Interface DEF NoGhost, EthRecords
    <3> QED BY <2>4, <2>6, <3>1
  <2> QED BY <2>7, <2>8, <2>9 DEF IInv
<1> QED BY <1>1, <1>2

(* A notification on the interrupt endpoint.                                 *)
LEMMA IntNotifyKeeps ==
  ASSUME IInv, faults' = faults, lost' \in BOOLEAN, NEW d \in Devices, NEW connected \in BOOLEAN,
         NEW taken \in Answers, IntNotify(d, connected, taken)
  PROVE  IInv'
<1> DEFINE u == [usb[d] EXCEPT !.int = taken]
           e == usb[d].data
           x == [eths[e] EXCEPT !.link = connected]
<1>1. TypeOK /\ EventsFit /\ DataLive /\ UpHeld /\ FlagKept /\ NoGhost /\ RouteKept
  BY DEF IInv
<1>2. /\ u \in UsbDevice /\ Fits(u) /\ u.state = "enabled" /\ e # NULL /\ u.data = e
      /\ usb[d].state = "enabled" /\ usb[d].events = <<>> /\ Ready(u, faults)
  <2>1. taken \in BOOLEAN /\ (taken \/ "memory" \in faults)
    BY DEF Answers
  <2>2. usb[d].state = "enabled" /\ usb[d].events = <<>> /\ e # NULL
    BY <1>1 DEF IntNotify, InUse, EventsFit, Fits
  <2>3. /\ u \in UsbDevice /\ u.state = "enabled" /\ u.events = <<>> /\ u.data = e
        /\ u.int = taken
    BY <1>1, <2>1, <2>2, Device DEF UsbDevice
  <2> HIDE DEF u
  <2> QED BY <2>1, <2>2, <2>3 DEF Fits, Ready
<1>3. e \in Netifs /\ eths[e].dev = d /\ eths[e] \in EthRecords
  BY <1>1, <1>2, Device, Interface DEF DataLive, Netifs
<1>4. /\ x \in EthRecords /\ x.num = eths[e].num /\ x.dev = d /\ x.link = connected
      /\ x.up = eths[e].up /\ x.ring = eths[e].ring
  BY <1>3 DEF EthRecords
<1>5. x.up => x.ring /\ Ready(u, faults)
  BY <1>1, <1>2, <1>3, <1>4 DEF UpHeld
<1>6. eths' = [eths EXCEPT ![e] = x]
  BY DEF IntNotify
<1>7. /\ int_retries' = 0
      /\ UNCHANGED <<ifnums_used, eth_disabled_with_error, failed, crossed>>
  BY DEF IntNotify
<1>8. usb' = [usb EXCEPT ![d] = u]
  BY DEF IntNotify
<1>9. IF connected
      THEN /\ netif_default' = IF default_netif_set THEN netif_default ELSE e
           /\ default_netif_set' = TRUE /\ UNCHANGED displaced
      ELSE /\ netif_default' = IF netif_default = e THEN NULL ELSE netif_default
           /\ default_netif_set' = (default_netif_set /\ netif_default # e)
           /\ displaced' = (displaced \/ (netif_default = e /\ Linked \ {e} # {}))
  BY DEF IntNotify
<1> HIDE DEF u, x
<1>10. /\ netif_default' \in Netifs \cup {NULL} /\ default_netif_set' \in BOOLEAN
       /\ displaced' \in BOOLEAN
  BY <1>1, <1>3, <1>9 DEF TypeOK
<1>11. /\ TypeOK' /\ EventsFit' /\ DataLive' /\ Numbered' /\ UpHeld' /\ NoGhost'
       /\ Netifs' = Netifs
       /\ (\A f \in Netifs \ {e} : eths'[f] = eths[f]) /\ eths'[e] = x
  <2>1. /\ int_retries' \in 0..MaxRetries /\ eth_disabled_with_error' \in BOOLEAN
        /\ failed' \subseteq Devices /\ crossed' \in BOOLEAN
        /\ ~crossed' => ~crossed
    BY <1>1, <1>7, EthDeviceAssumption DEF TypeOK
  <2>2. u.data = usb[d].data /\ ifnums_used' = ifnums_used
    BY <1>2, <1>7
  <2>3. /\ eths' = [eths EXCEPT ![u.data] = x] /\ x.num = eths[u.data].num
        /\ u.data # NULL /\ (~crossed' => ~crossed /\ (u.state = "out" => u.events # <<>>))
    BY <1>2, <1>4, <1>6, <2>1
  <2>4. u.data = e
    BY <1>2
  <2> HIDE DEF e
  <2>5. /\ TypeOK' /\ EventsFit' /\ DataLive' /\ Numbered' /\ UpHeld' /\ NoGhost'
        /\ Netifs' = Netifs
        /\ (\A f \in Netifs \ {u.data} : eths'[f] = eths[f]) /\ eths'[u.data] = x
    BY <1>2, <1>4, <1>5, <1>8, <1>10, <2>1, <2>2, <2>3, InterfaceStep
  <2> QED BY <2>4, <2>5
<1>12. FlagKept'
  <2>1. failed \subseteq Devices /\ ~(d \in failed /\ ~crossed)
    BY <1>1, <1>2 DEF FlagKept, Told, TypeOK
  <2>2. \A c \in Devices \ {d} : usb'[c] = usb[c]
    BY <1>1, <1>8 DEF TypeOK
  <2> QED BY <1>1, <1>7, <2>1, <2>2 DEF FlagKept, Told
<1>13. RouteKept'
  <2>1. \A f \in Linked' : f \in Linked \/ (f = e /\ connected)
    BY <1>4, <1>11 DEF Linked
  <2>2. connected => default_netif_set' /\ netif_default' \in {netif_default, e}
    BY <1>9
  <2>3. CASE connected
    BY <1>1, <1>2, <1>9, <2>3 DEF RouteKept
  <2>4. CASE ~connected
    <3>1. \A f \in Linked' : f \in Linked \ {e}
      BY <1>4, <1>11, <2>4 DEF Linked
    <3> QED BY <1>1, <1>9, <2>4, <3>1 DEF RouteKept, TypeOK
  <2> QED BY <2>3, <2>4
<1> QED BY <1>11, <1>12, <1>13 DEF IInv

------------------------------------------------------------------------------
(* The theorems.                                                            *)

(* Nothing is plugged in at first.                                           *)
LEMMA InitHolds ==
  ASSUME Init
  PROVE  IInv
<1>1. Gone \in UsbDevice /\ Gone.state = "out" /\ Gone.events = <<>> /\ Gone.data = NULL
  BY Queues DEF Gone, UsbDevice
<1>2. Netifs = {} /\ Linked = {}
  BY DEF Init, Netifs, Linked
<1>3. TypeOK
  <2>1. usb \in [Devices -> UsbDevice]
    BY <1>1 DEF Init
  <2>2. eths \in [Eths -> EthRecords \cup {NULL}]
    BY DEF Init
  <2>3. int_retries \in 0..MaxRetries
    BY EthDeviceAssumption DEF Init
  <2> QED BY <1>2, <2>1, <2>2, <2>3 DEF Init, TypeOK
<1>4. EventsFit /\ DataLive
  BY <1>1 DEF Init, EventsFit, Fits, DataLive
<1>5. Numbered /\ UpHeld /\ NoGhost
  BY <1>2 DEF Init, Numbered, UpHeld, NoGhost
<1>6. FlagKept /\ RouteKept
  BY <1>2 DEF Init, FlagKept, RouteKept
<1> QED BY <1>3, <1>4, <1>5, <1>6 DEF IInv

(* One step per action of the driver.                                        *)
LEMMA NextKeeps ==
  ASSUME IInv, [Next]_vars
  PROVE  IInv'
<1>1. CASE UNCHANGED vars
  BY <1>1 DEF vars, IInv, TypeOK, EventsFit, DataLive, Numbered, UpHeld, FlagKept, NoGhost,
              RouteKept, Netifs, Linked, Told
<1>2. CASE ~lost /\ \E d \in Devices : GoneAstray(d)
  <2>1. /\ UNCHANGED <<usb, eths, ifnums_used, netif_default, default_netif_set,
                       eth_disabled_with_error, int_retries, faults, failed, crossed,
                       displaced>>
        /\ lost' \in BOOLEAN
    BY <1>2 DEF GoneAstray
  <2> QED BY <2>1
        DEF IInv, TypeOK, EventsFit, DataLive, Numbered, UpHeld, FlagKept, NoGhost,
            RouteKept, Netifs, Linked, Told
<1>3. ASSUME NEW d \in Devices, lost' = lost,
             \/ \E cdc \in BOOLEAN : Attach(d, cdc)
             \/ Detach(d) \/ Handle(d) \/ Transfer(d)
      PROVE  IInv'
  <2>1. lost' \in BOOLEAN
    BY <1>3 DEF IInv, TypeOK
  <2>2. CASE \E cdc \in BOOLEAN : Attach(d, cdc)
    BY <2>1, <2>2, AttachKeeps DEF Attach
  <2>3. CASE Detach(d)
    BY <2>1, <2>3, DetachKeeps DEF Detach
  <2>4. CASE HandleConnected(d)
    BY <2>1, <2>4, HandleConnectedKeeps DEF HandleConnected
  <2>5. CASE HandleEnabled(d)
    <3>1. PICK found \in Recognized, ok \in Answers, taken \in Answers :
            \/ InitRefused(d, found, ok)
            \/ \E e \in Eths : InitNew(d, found, e, ok, taken)
            \/ InitResume(d, found, ok, taken)
      BY <2>5 DEF HandleEnabled
    <3>2. ok \in BOOLEAN
      BY DEF Answers
    <3>3. CASE InitRefused(d, found, ok)
      BY <2>1, <3>3, InitRefusedKeeps DEF InitRefused
    <3>4. CASE \E e \in Eths : InitNew(d, found, e, ok, taken)
      <4>1. PICK e \in Eths : InitNew(d, found, e, ok, taken)
        BY <3>4
      <4>2. faults' = faults
        BY <4>1 DEF InitNew
      <4> QED BY <2>1, <3>2, <4>1, <4>2, InitNewKeeps
    <3>5. CASE InitResume(d, found, ok, taken)
      <4>1. faults' = faults
        BY <3>5 DEF InitResume
      <4> QED BY <2>1, <3>2, <3>5, <4>1, InitResumeKeeps
    <3> QED BY <3>1, <3>3, <3>4, <3>5
  <2>6. CASE HandleGone(d)
    BY <2>1, <2>6, HandleGoneKeeps DEF HandleGone
  <2>7. CASE Transfer(d)
    <3>1. PICK taken \in Answers :
            \/ IntError(d, taken) \/ BulkFatal(d)
            \/ \E connected \in BOOLEAN : IntNotify(d, connected, taken)
      BY <2>7 DEF Transfer
    <3>2. CASE IntError(d, taken)
      BY <2>1, <3>2, IntErrorKeeps DEF IntError
    <3>3. CASE BulkFatal(d)
      BY <2>1, <3>3, FatalKeeps DEF BulkFatal, Receives
    <3>4. CASE \E connected \in BOOLEAN : IntNotify(d, connected, taken)
      <4>1. PICK connected \in BOOLEAN : IntNotify(d, connected, taken)
        BY <3>4
      <4>2. faults' = faults
        BY <4>1 DEF IntNotify
      <4> QED BY <2>1, <4>1, <4>2, IntNotifyKeeps
    <3> QED BY <3>1, <3>2, <3>3, <3>4
  <2> QED BY <1>3, <2>2, <2>3, <2>4, <2>5, <2>6, <2>7 DEF Handle
<1> QED BY <1>1, <1>2, <1>3 DEF Next, Running

(* The invariant holds in every behaviour of the driver.                     *)
LEMMA DeviceInvariant == Spec => []IInv
BY InitHolds, NextKeeps, PTL DEF Spec

(* The bitmap of interface numbers is exactly the numbers of the interfaces   *)
(* there are, however devices come, fail, are reset and go: no number leaks   *)
(* and none is given twice.                                                  *)
THEOREM NumsAlways == Spec => []NumsExact
<1>1. IInv => NumsExact
  BY DEF IInv, Numbered, NumsExact
<1> QED BY <1>1, DeviceInvariant, PTL

(* An interface does not outlive its device, unless eth_disabled_with_error   *)
(* was used for another device than it was raised for.                       *)
THEOREM NoGhostAlways == Spec => []NoGhost
<1>1. IInv => NoGhost
  BY DEF IInv
<1> QED BY <1>1, DeviceInvariant, PTL

(* A link means a default route until the default interface is displaced.    *)
THEOREM RouteAlways == Spec => []LinkHasRoute
<1>1. IInv => LinkHasRoute
  BY DEF IInv, RouteKept, LinkHasRoute
<1> QED BY <1>1, DeviceInvariant, PTL

(* An interface that is up has a ring and a device that is enabled, or is      *)
(* about to be taken down; and the device is listened to as long as usbdrvce   *)
(* does not refuse the transfers whose refusal the driver does not notice.     *)
THEOREM UpAlways == Spec => []UpIsReady
<1>1. IInv => UpIsReady
  BY DEF IInv, UpHeld, UpIsReady, Ready, Told
<1> QED BY <1>1, DeviceInvariant, PTL
==============================================================================
