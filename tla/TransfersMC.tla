---------------------------- MODULE TransfersMC ----------------------------
(* TLC instances of Transfers and of what an upload does to a variable.      *)
EXTENDS Transfers

SomeLines == [len : {1, 3}, kind : {"prog", "unknown"}] \cup {[len |-> 4, kind |-> "dir"]}
SomeListings == UNION {[1..n -> SomeLines] : n \in 0..3}
NoListing == {<<>>}
CRLF == <<CR, LF>>

Name == <<65, 66, 0, 0, 0, 0, 0, 0>>
VarsOf(sizes, bytes) ==
  {[type |-> 5, name |-> Name, archived |-> a, data |-> d] :
     a \in BOOLEAN, d \in UNION {[1..n -> bytes] : n \in sizes}}
SomeVars == VarsOf({0, 2, 3}, {1, 200})
============================================================================
