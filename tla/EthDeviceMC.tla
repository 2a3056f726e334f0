----------------------------- MODULE EthDeviceMC -----------------------------
(* A TLC instance of EthDevice: the configurations of the devices that the   *)
(* driver is for, in the orders devices use, and of devices it is not for.   *)
EXTENDS EthDevice

Iface(n, class, eps) == [t |-> "if", num |-> n, class |-> class, eps |-> eps]
Ep(addr, in) == [t |-> "ep", addr |-> addr, in |-> in]
Mac(ok) == [t |-> "eth", mac |-> ok]
Union(n) == [t |-> "union", num |-> n]
Other == [t |-> "other"]

Keyboard == <<Iface(5, "HID", 1), Other, Ep("key", TRUE)>>

Functional == {<<Other, Mac(TRUE), Union(1)>>, <<Union(1), Mac(TRUE)>>}
Alternates == {<<Iface(1, "DATA", 2)>>, <<Iface(1, "DATA", 0), Iface(1, "DATA", 2)>>}
Bulk == {<<Ep("in", TRUE), Ep("out", FALSE)>>, <<Ep("out", FALSE), Ep("in", TRUE)>>}

(* An Ethernet function, before or after a keyboard or alone.                *)
Function(class, f, a, b) == <<Iface(0, class, 1)>> \o f \o <<Ep("int", TRUE)>> \o a \o b
Ethernet ==
  {Function(class, f, a, b) : class \in ControlClasses, f \in Functional, a \in Alternates, b \in Bulk}
Around(c) == {<<c>>, <<Keyboard \o c>>, <<c \o Keyboard>>, <<Keyboard, c>>}

Known == UNION {Around(c) : c \in Ethernet}
Unknown == {<<>>, <<Keyboard>>,
            <<Function("ECM", <<Mac(FALSE), Union(1)>>, <<Iface(1, "DATA", 2)>>,
                       <<Ep("in", TRUE), Ep("out", FALSE)>>)>>}
SomeConfigs == Known \cup Unknown

SomeWorlds == {{"memory"}, {"errors"}, {"errors", "prompt"}}
==============================================================================
