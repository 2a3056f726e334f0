------------------------------ MODULE EthDevice ------------------------------
(***************************************************************************)
(* The life of USB Ethernet devices in src/src/drivers/usb_ethernet.c: how   *)
(* eth_usb_event_callback and init_ethernet_usb_device turn a device into a   *)
(* lwIP interface, and how errors, resets and unplugging take it away again.  *)
(* What is received and sent meanwhile is EthRx.                             *)
(*                                                                         *)
(* usbdrvce is external.  It keeps for each device the driver's pointer and  *)
(* tells of a device's events in order; the devices' events interleave.      *)
(* The transfers of a device end when it is disabled, reset or unplugged.     *)
(*                                                                         *)
(* What can go wrong is a set of faults, fixed for a behaviour: "errors",     *)
(* transfers fail; "memory", an allocation fails or usbdrvce refuses a request *)
(* or an interrupt transfer; "prompt", usb_DisableDevice calls the event       *)
(* callback before it returns.                                               *)
(***************************************************************************)
EXTENDS EthParse, FiniteSets

CONSTANTS Devices,       \* what can be plugged in
          Eths,          \* the eth_device_t there may be at a time
          Slots,         \* NETIFS_MAX_ALLOWED
          MaxRetries,    \* ETH_USB_MAX_RETRIES
          Configs,       \* the lists of configurations a device may have
          Worlds         \* the sets of faults to consider

FaultKinds == {"errors", "memory", "prompt"}

(* What an eth_device_t holds: its number, its device, whether its endpoints  *)
(* are those of the device's function, whether it has a receive ring, and the  *)
(* flags of its interface.                                                   *)
EthRecords ==
  [num : 0..(Slots - 1), dev : Devices, right : BOOLEAN, ring : BOOLEAN,
   up : BOOLEAN, link : BOOLEAN]

ASSUME EthDeviceAssumption ==
  /\ Slots \in Nat \ {0} /\ MaxRetries \in Nat
  /\ NULL \notin Eths /\ NULL \notin Devices /\ NULL \notin EthRecords
  /\ Worlds \subseteq SUBSET FaultKinds
  /\ \A confs \in Configs : \A i \in DOMAIN confs : \A j \in DOMAIN confs[i] :
       confs[i][j].t \in {"if", "ep", "eth", "union", "other"}

VARIABLES usb,           \* usbdrvce's view of each device
          eths,          \* the eth_device_t that are allocated
          ifnums_used,   \* the numbers in use, a bitmap in the code
          netif_default, \* lwIP's default interface
          default_netif_set, eth_disabled_with_error, int_retries,
          faults,        \* the faults of this behaviour
          failed,        \* the devices eth_disabled_with_error was raised for
          crossed,       \* it was raised for another device than it was used for
          displaced,     \* the default interface was removed, or lost its link
                         \* while another had one
          lost           \* the program went astray through a null pointer

vars == <<usb, eths, ifnums_used, netif_default, default_netif_set,
          eth_disabled_with_error, int_retries, faults, failed, crossed, displaced,
          lost>>

UsbDevice ==
  [state : {"out", "connected", "enabled", "disabled"},
   cdc : BOOLEAN,                        \* it has a function for this driver
   data : Eths \cup {NULL},              \* usb_SetDeviceData
   int : BOOLEAN,                        \* an interrupt transfer is scheduled
   events : Seq({"CONNECTED", "ENABLED", "DISABLED", "DISCONNECTED"})]

Gone == [state |-> "out", cdc |-> FALSE, data |-> NULL, int |-> FALSE, events |-> <<>>]

Init ==
  /\ usb = [d \in Devices |-> Gone] /\ eths = [e \in Eths |-> NULL]
  /\ ifnums_used = {} /\ netif_default = NULL /\ default_netif_set = FALSE
  /\ eth_disabled_with_error = FALSE /\ int_retries = 0 /\ faults \in Worlds
  /\ failed = {} /\ crossed = FALSE /\ displaced = FALSE /\ lost = FALSE

(* The interfaces in lwIP's list: each eth_device_t holds one.               *)
Netifs == {e \in Eths : eths[e] # NULL}
Linked == {e \in Netifs : eths[e].link}

Answers == IF "memory" \in faults THEN BOOLEAN ELSE {TRUE}

(* The events of d after one has been handled.                               *)
Rest(d) == Tail(usb[d].events)
Told(d, event) == usb[d].events # <<>> /\ Head(usb[d].events) = event

------------------------------------------------------------------------------
(* usbdrvce                                                                 *)

(* A device is plugged in.                                                   *)
Attach(d, cdc) ==
  /\ usb[d].state = "out" /\ usb[d].events = <<>>
  /\ usb' = [usb EXCEPT ![d] = [Gone EXCEPT !.state = "connected", !.cdc = cdc,
                                              !.events = <<"CONNECTED">>]]
  /\ UNCHANGED <<eths, ifnums_used, netif_default, default_netif_set,
                 eth_disabled_with_error, int_retries, faults, failed, crossed, displaced>>

(* It is pulled out: of what was still to be told only DISABLED is.           *)
Detach(d) ==
  /\ usb[d].state # "out"
  /\ usb' = [usb EXCEPT ![d].state = "out", ![d].int = FALSE,
               ![d].events = IF Told(d, "DISABLED") THEN <<"DISABLED", "DISCONNECTED">>
                             ELSE <<"DISCONNECTED">>]
  /\ UNCHANGED <<eths, ifnums_used, netif_default, default_netif_set,
                 eth_disabled_with_error, int_retries, faults, failed, crossed, displaced>>

(* usb_ResetDevice: a device that is there is enabled afresh.                *)
Reset(u) ==
  IF u.state = "out" THEN u
  ELSE [u EXCEPT !.state = "connected", !.int = FALSE, !.events = Append(@, "ENABLED")]

------------------------------------------------------------------------------
(* USB_DEVICE_CONNECTED_EVENT and USB_DEVICE_ENABLED_EVENT                   *)

HandleConnected(d) ==
  /\ Told(d, "CONNECTED")
  /\ usb' = [usb EXCEPT ![d] = Reset([@ EXCEPT !.events = Rest(d)])]
  /\ UNCHANGED <<eths, ifnums_used, netif_default, default_netif_set,
                 eth_disabled_with_error, int_retries, faults, failed, crossed, displaced>>

(* The enabled device's record once the event is handled.                    *)
Enabled(d) == [usb[d] EXCEPT !.state = "enabled", !.events = Rest(d)]

(* The function of the first configuration that has one.                     *)
ParsedDevice(confs) ==
  LET found == {i \in DOMAIN confs : ParsedConfig(confs[i]) # NULL}
  IN IF found = {} THEN NULL
     ELSE ParsedConfig(confs[CHOOSE i \in found : \A j \in found : i <= j])

(* What the parser makes of a device: the function, and whether the device    *)
(* has it.                                                                   *)
Found(confs) ==
  LET f == ParsedDevice(confs)
  IN [func |-> f, right |-> f # NULL /\ \E i \in DOMAIN confs : HasFunction(confs[i], f)]
Recognized == {Found(confs) : confs \in Configs}

(* init_ethernet_usb_device ends early: no number is free, the device is not  *)
(* one of ours, or usbdrvce or malloc refuses.  So does the event of a hub.   *)
InitRefused(d, found, ok) ==
  /\ Told(d, "ENABLED")
  /\ usb[d].cdc = (found.func # NULL)
  /\ Cardinality(ifnums_used) = Slots \/ ~usb[d].cdc \/ ~ok
  /\ usb' = [usb EXCEPT ![d] = Enabled(d)]
  /\ UNCHANGED <<eths, ifnums_used, netif_default, default_netif_set,
                 eth_disabled_with_error, int_retries, faults, failed, crossed, displaced>>

(* Mutant of WithRing: the ring's failure is not looked at.                  *)
UpAnyway(x, ring) == [x EXCEPT !.ring = @ \/ ring, !.up = TRUE]

(* What follows once there is an eth_device_t x: the ring, unless x has one,  *)
(* and, unless that fails, the interface is set up and transfers scheduled.   *)
WithRing(x, ring) == [x EXCEPT !.ring = @ \/ ring, !.up = x.ring \/ ring]

(* A new eth_device_t.                                                       *)
NewEth(d, found, num) ==
  [num |-> num, dev |-> d, right |-> found.right, ring |-> FALSE,
   up |-> FALSE, link |-> FALSE]

(* Mutant of FreeNum: the number after the interfaces there are.             *)
CountsUp == Cardinality(ifnums_used)

FreeNum ==
  CHOOSE i \in 0..(Slots - 1) :
    i \notin ifnums_used /\ \A j \in 0..(i - 1) : j \in ifnums_used

(* The device's ENABLED event is handled, a number is free and it is ours.    *)
CanInit(d, found) ==
  /\ Told(d, "ENABLED") /\ usb[d].cdc
  /\ Cardinality(ifnums_used) < Slots /\ found.func # NULL

(* init_ethernet_usb_device for a device that has no eth_device_t.  Whether   *)
(* the interrupt transfer was taken is not looked at.                        *)
InitNew(d, found, e, ring, taken) ==
  /\ CanInit(d, found) /\ usb[d].data = NULL /\ eths[e] = NULL
  /\ \E x \in {WithRing(NewEth(d, found, FreeNum), ring)} :
       /\ eths' = [eths EXCEPT ![e] = x]
       /\ usb' = [usb EXCEPT ![d] = [Enabled(d) EXCEPT !.data = e, !.int = x.up /\ taken]]
  /\ ifnums_used' = ifnums_used \cup {FreeNum}
  /\ UNCHANGED <<netif_default, default_netif_set, eth_disabled_with_error,
                 int_retries, faults, failed, crossed, displaced>>

(* init_ethernet_usb_device for a device that was reset: the interface and    *)
(* its ring stay, its flags are set afresh.                                  *)
InitResume(d, found, ring, taken) ==
  /\ CanInit(d, found) /\ usb[d].data # NULL
  /\ \E x \in {WithRing([eths[usb[d].data] EXCEPT !.right = found.right,
                           !.up = FALSE, !.link = FALSE], ring)} :
       /\ eths' = [eths EXCEPT ![usb[d].data] = x]
       /\ usb' = [usb EXCEPT ![d] = [Enabled(d) EXCEPT !.int = x.up /\ taken]]
  /\ UNCHANGED <<ifnums_used, netif_default, default_netif_set,
                 eth_disabled_with_error, int_retries, faults, failed, crossed, displaced>>

HandleEnabled(d) ==
  \E found \in Recognized, ok \in Answers, taken \in Answers :
    \/ InitRefused(d, found, ok)
    \/ \E e \in Eths : InitNew(d, found, e, ok, taken)
    \/ InitResume(d, found, ok, taken)

------------------------------------------------------------------------------
(* USB_DEVICE_DISCONNECTED_EVENT and USB_DEVICE_DISABLED_EVENT               *)

(* The event is handled for u, usbdrvce's record of d: the interface goes     *)
(* down, then the device is reset if eth_disabled_with_error is set, whoever  *)
(* it was set for, and otherwise its interface, if it has one, is removed.   *)
TakenDown(d, u) ==
  IF eth_disabled_with_error
  THEN /\ eths' = [e \in Eths |-> IF e # u.data THEN eths[e]
                     ELSE [eths[e] EXCEPT !.up = FALSE, !.link = FALSE]]
       /\ usb' = [usb EXCEPT ![d] = Reset(u)]
       /\ UNCHANGED <<ifnums_used, netif_default, displaced>>
  ELSE /\ eths' = [e \in Eths |-> IF e # u.data THEN eths[e] ELSE NULL]
       /\ usb' = [usb EXCEPT ![d] = [u EXCEPT !.data = NULL]]
       /\ ifnums_used' = ifnums_used \ {eths[e].num : e \in Netifs \cap {u.data}}
       /\ netif_default' = IF u.data = netif_default THEN NULL ELSE netif_default
       /\ displaced' = (displaced \/ u.data \in {netif_default} \ {NULL})

(* Whether the flag, if set, was set for d alone.                            *)
Crosses(d) == eth_disabled_with_error /\ failed # {d}

(* Mutant of HandleGone: the flag is not cleared.                            *)
FlagStays(d) ==
  /\ Told(d, "DISABLED") \/ Told(d, "DISCONNECTED")
  /\ TakenDown(d, [usb[d] EXCEPT !.events = Rest(d)])
  /\ crossed' = (crossed \/ Crosses(d))
  /\ UNCHANGED <<default_netif_set, int_retries, faults, eth_disabled_with_error, failed>>

HandleGone(d) ==
  /\ Told(d, "DISABLED") \/ Told(d, "DISCONNECTED")
  /\ TakenDown(d, [usb[d] EXCEPT !.events = Rest(d)])
  /\ eth_disabled_with_error' = FALSE /\ failed' = {}
  /\ crossed' = (crossed \/ Crosses(d))
  /\ UNCHANGED <<default_netif_set, int_retries, faults>>

(* The callback reaches through the driver's pointer before it looks whether  *)
(* there is one.  For a device without an interface lwIP then reads the flags *)
(* of the interface near address 0: if they are clear nothing happens         *)
(* (HandleGone), and if not it calls the callbacks it finds there, and what   *)
(* becomes of the program is undefined.                                      *)
GoneAstray(d) ==
  /\ Told(d, "DISABLED") \/ Told(d, "DISCONNECTED")
  /\ usb[d].data = NULL
  /\ lost' = TRUE
  /\ UNCHANGED <<usb, eths, ifnums_used, netif_default, default_netif_set,
                 eth_disabled_with_error, int_retries, faults, failed, crossed, displaced>>

------------------------------------------------------------------------------
(* Transfers                                                                *)

(* Mutant of Fatal: the error is not remembered.                             *)
FatalForgets(d) ==
  /\ usb' = [usb EXCEPT ![d].state = "disabled", ![d].int = FALSE,
                        ![d].events = Append(@, "DISABLED")]
  /\ failed' = failed \cup {d}
  /\ UNCHANGED <<eths, ifnums_used, netif_default, displaced, crossed,
                 eth_disabled_with_error>>

(* eth_xmit_fatal_error with the retries used up: the device is disabled,     *)
(* then the flag set.                                                        *)
Fatal(d) ==
  LET u == [usb[d] EXCEPT !.state = "disabled", !.int = FALSE]
  IN /\ IF "prompt" \in faults
        THEN /\ TakenDown(d, u)
             /\ failed' = {d} /\ crossed' = (crossed \/ Crosses(d))
        ELSE /\ usb' = [usb EXCEPT ![d] = [u EXCEPT !.events = Append(@, "DISABLED")]]
             /\ failed' = failed \cup {d}
             /\ UNCHANGED <<eths, ifnums_used, netif_default, displaced, crossed>>
     /\ eth_disabled_with_error' = TRUE

Receives(d) ==
  usb[d].state = "enabled" /\ usb[d].data # NULL /\ eths[usb[d].data].up
InUse(d) == usb[d].state = "enabled" /\ usb[d].data # NULL /\ usb[d].int

(* interrupt_receive_callback with an error.  int_retries is one counter for  *)
(* all devices, and it is not reset when a device is given up.  Here too the  *)
(* next transfer may not be taken.                                           *)
IntError(d, taken) ==
  /\ "errors" \in faults /\ InUse(d)
  /\ IF int_retries = MaxRetries THEN Fatal(d) /\ UNCHANGED int_retries
     ELSE /\ int_retries' = int_retries + 1
          /\ usb' = [usb EXCEPT ![d].int = taken]
          /\ UNCHANGED <<eths, ifnums_used, netif_default, displaced, crossed,
                         failed, eth_disabled_with_error>>
  /\ UNCHANGED <<default_netif_set, faults>>

(* A receive callback gives up (EthRx); it does not depend on the interrupt   *)
(* transfer.  (The transmit callback takes its pbuf for the device, which is  *)
(* not modelled.)                                                            *)
BulkFatal(d) ==
  /\ "errors" \in faults /\ Receives(d) /\ Fatal(d)
  /\ UNCHANGED <<default_netif_set, int_retries, faults>>

(* Mutant of IntNotify: any interface that loses its link takes the default.  *)
DropsDefault(d, connected, taken) ==
  /\ InUse(d) /\ usb' = [usb EXCEPT ![d].int = taken]
  /\ eths' = [eths EXCEPT ![usb[d].data].link = connected]
  /\ netif_default' = IF connected /\ ~default_netif_set THEN usb[d].data
                      ELSE IF connected THEN netif_default ELSE NULL
  /\ default_netif_set' = connected
  /\ displaced' = (displaced \/ /\ ~connected /\ netif_default = usb[d].data
                                /\ Linked \ {usb[d].data} # {})
  /\ int_retries' = 0
  /\ UNCHANGED <<ifnums_used, eth_disabled_with_error, faults, failed, crossed>>

(* interrupt_receive_callback with NOTIFY_NETWORK_CONNECTION.                *)
IntNotify(d, connected, taken) ==
  LET e == usb[d].data
  IN /\ InUse(d) /\ usb' = [usb EXCEPT ![d].int = taken]
     /\ eths' = [eths EXCEPT ![e].link = connected]
     /\ IF connected
        THEN /\ netif_default' = IF default_netif_set THEN netif_default ELSE e
             /\ default_netif_set' = TRUE /\ UNCHANGED displaced
        ELSE /\ netif_default' = IF netif_default = e THEN NULL ELSE netif_default
             /\ default_netif_set' = (default_netif_set /\ netif_default # e)
             /\ displaced' = (displaced \/ (netif_default = e /\ Linked \ {e} # {}))
     /\ int_retries' = 0
     /\ UNCHANGED <<ifnums_used, eth_disabled_with_error, faults, failed, crossed>>

------------------------------------------------------------------------------
Handle(d) == HandleConnected(d) \/ HandleEnabled(d) \/ HandleGone(d)

Transfer(d) ==
  \E taken \in Answers :
    \/ IntError(d, taken) \/ BulkFatal(d)
    \/ \E connected \in BOOLEAN : IntNotify(d, connected, taken)

(* Nothing is said of a program that is lost.                                *)
Running(A) == ~lost /\ A /\ UNCHANGED lost

Next ==
  \/ \E d \in Devices :
       \/ \E cdc \in BOOLEAN : Running(Attach(d, cdc))
       \/ Running(Detach(d)) \/ Running(Handle(d)) \/ Running(Transfer(d))
       \/ ~lost /\ GoneAstray(d)
  \/ lost /\ UNCHANGED vars

(* The main loop calls usb_HandleEvents again and again.                     *)
Fairness == \A d \in Devices : WF_vars(Running(Handle(d)))

Spec == Init /\ [][Next]_vars /\ Fairness

------------------------------------------------------------------------------
TypeOK ==
  /\ usb \in [Devices -> UsbDevice] /\ eths \in [Eths -> EthRecords \cup {NULL}]
  /\ ifnums_used \subseteq 0..(Slots - 1)
  /\ netif_default \in Netifs \cup {NULL}
  /\ default_netif_set \in BOOLEAN /\ eth_disabled_with_error \in BOOLEAN
  /\ int_retries \in 0..MaxRetries
  /\ failed \subseteq Devices /\ crossed \in BOOLEAN /\ displaced \in BOOLEAN
  /\ lost \in BOOLEAN

(* The bitmap eth_get_interfaces returns is the set of interfaces that exist, *)
(* each with a number of its own; and all variables have their types.        *)
NumsExact ==
  /\ TypeOK
  /\ ifnums_used = {eths[e].num : e \in Netifs}
  /\ \A e, f \in Netifs : eths[e].num = eths[f].num => e = f


(* An interface that is up has a ring and belongs to a device that is enabled, *)
(* or the event that takes it down is due.  Such a device is listened to for  *)
(* its notifications, unless usbdrvce refused a transfer: neither             *)
(* init_ethernet_usb_device nor interrupt_receive_callback looks at that.     *)
UpIsReady ==
  \A e \in Netifs : eths[e].up =>
    LET u == usb[eths[e].dev]
    IN /\ eths[e].ring /\ u.data = e
       /\ \/ u.state = "enabled" /\ (u.int \/ "memory" \in faults)
          \/ Told(eths[e].dev, "DISABLED") \/ Told(eths[e].dev, "DISCONNECTED")

(* An interface does not outlive its device.  eth_disabled_with_error is one  *)
(* flag for all devices: only when it was raised for another device is the    *)
(* interface of a device that is gone left behind.                           *)
NoGhost ==
  ~crossed => \A e \in Netifs :
    LET u == usb[eths[e].dev]
    IN u.data = e /\ (u.state = "out" => u.events # <<>>)

(* An interface with a link means a default route, until the default          *)
(* interface is removed or loses its link to the driver's knowledge:          *)
(* default_netif_set survives the one, and nothing looks for another          *)
(* interface after the other.                                                *)
LinkHasRoute == ~displaced => (Linked # {} => netif_default # NULL)

(* A device that was disabled after errors is used again, unless it is pulled *)
(* out, the flag is spent on another device, all numbers are taken (a resume   *)
(* needs a free one too), init fails or the program is lost.                  *)
ComesBack ==
  \A d \in Devices :
    d \in failed /\ {"memory", "prompt"} \cap faults = {} ~>
      \/ InUse(d) \/ usb[d].state = "out" \/ crossed \/ lost
      \/ Cardinality(ifnums_used) = Slots
==============================================================================
