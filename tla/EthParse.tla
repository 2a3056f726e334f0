------------------------------ MODULE EthParse ------------------------------
(***************************************************************************)
(* The descriptor parser of init_ethernet_usb_device in                     *)
(* src/src/drivers/usb_ethernet.c: it walks a configuration and picks the    *)
(* endpoints of the first CDC Ethernet function it understands.              *)
(*                                                                         *)
(* A configuration is a sequence of descriptors, of which the parser's       *)
(* decisions need little:                                                    *)
(*   [t |-> "if", num, class, eps]   an interface and its endpoint count     *)
(*   [t |-> "ep", addr, in]          an endpoint and its direction           *)
(*   [t |-> "eth", mac]              whether a MAC address could be had      *)
(*   [t |-> "union", num]            the number of the data interface        *)
(*   [t |-> "other"]                 any other descriptor                    *)
(***************************************************************************)
EXTENDS Integers, Sequences, SequencesExt

CONSTANT NULL            \* no result, no object

ControlClasses == {"ECM", "NCM"}

(* parse_state, ifnum and endpoint_addr when a configuration is begun.  The  *)
(* flags are a set, the names without PARSE_HAS_.                            *)
Unparsed == [has |-> {}, num |-> 0, type |-> NULL,
             in |-> NULL, out |-> NULL, int |-> NULL, done |-> FALSE]

Complete(p) == {"MAC_ADDR", "ENDPOINT_INT", "ENDPOINT_IN", "ENDPOINT_OUT"} \subseteq p.has


(* case USB_ENDPOINT_DESCRIPTOR                                              *)
ParsedEndpoint(p, d) ==
  LET q == IF d.in THEN [p EXCEPT !.in = d.addr, !.has = @ \cup {"ENDPOINT_IN"}]
           ELSE [p EXCEPT !.out = d.addr, !.has = @ \cup {"ENDPOINT_OUT"}]
  IN IF "BULK_IF" \in p.has THEN [q EXCEPT !.done = Complete(q)]
     ELSE IF "CONTROL_IF" \in p.has
     THEN [p EXCEPT !.int = d.addr, !.has = @ \cup {"ENDPOINT_INT"}]
     ELSE p

(* case USB_INTERFACE_DESCRIPTOR                                             *)
ParsedInterface(p, d) ==
  IF "BULK_IF_NUM" \in p.has
  THEN IF d.num = p.num /\ d.eps = 2 /\ d.class = "DATA"
       THEN [p EXCEPT !.has = @ \cup {"BULK_IF"}] ELSE p
  ELSE IF d.class \in ControlClasses
       THEN [p EXCEPT !.has = {"CONTROL_IF"}, !.type = d.class]
       ELSE [p EXCEPT !.has = {}]

(* One turn of the loop over the descriptors.                                *)
ParseStep(p, d) ==
  IF p.done THEN p
  ELSE CASE d.t = "ep" -> ParsedEndpoint(p, d)
         [] d.t = "if" -> ParsedInterface(p, d)
         [] d.t = "eth" -> IF d.mac THEN [p EXCEPT !.has = @ \cup {"MAC_ADDR"}] ELSE p
         [] d.t = "union" -> [p EXCEPT !.num = d.num, !.has = @ \cup {"BULK_IF_NUM"}]
         [] OTHER -> p

(* The function of a configuration, NULL if it has none for this driver.     *)
ParsedConfig(conf) ==
  LET p == FoldLeft(ParseStep, Unparsed, conf)
  IN IF p.done THEN [type |-> p.type, in |-> p.in, out |-> p.out, int |-> p.int]
     ELSE NULL

------------------------------------------------------------------------------
(* What the parser looks for: a control interface with its functional        *)
(* descriptors and its notification endpoint up to the next interface, and    *)
(* later the data interface it names, with two endpoints.                    *)

Endpoints(conf, i) ==
  LET next == {j \in (i + 1)..Len(conf) : conf[j].t = "if"}
      end == IF next = {} THEN Len(conf) ELSE (CHOOSE j \in next : \A k \in next : j <= k) - 1
  IN {j \in i..end : conf[j].t = "ep"}

Within(conf, i, t) ==
  {j \in (i + 1)..Len(conf) : conf[j].t = t /\ \A k \in (i + 1)..j : conf[k].t # "if"}

IsFunction(conf, f, i, j) ==
  /\ conf[i].t = "if" /\ conf[i].class \in ControlClasses /\ conf[i].class = f.type
  /\ \E k \in Within(conf, i, "eth") : conf[k].mac
  /\ \E k \in Endpoints(conf, i) : conf[k].addr = f.int
  /\ j > i /\ conf[j].t = "if" /\ conf[j].class = "DATA" /\ conf[j].eps = 2
  /\ \E k \in Within(conf, i, "union") : conf[k].num = conf[j].num
  /\ \E k \in Endpoints(conf, j) : conf[k].in /\ conf[k].addr = f.in
  /\ \E k \in Endpoints(conf, j) : ~conf[k].in /\ conf[k].addr = f.out

(* f is the Ethernet function of conf.                                       *)
HasFunction(conf, f) ==
  \E i, j \in 1..Len(conf) : IsFunction(conf, f, i, j)
==============================================================================
