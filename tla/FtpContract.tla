---------------------------- MODULE FtpContract ----------------------------
(***************************************************************************)
(* What lwftp.c promises its caller, without protocol and pcbs.             *)
(*                                                                         *)
(* A session is closed, opening, idle, working on one operation, or         *)
(* leaving.  owed is the call that was answered INPROGRESS and has no final *)
(* result yet.  A call is accepted only when nothing else is owed, what is  *)
(* owed is settled only by going back to idle or by the end of the session, *)
(* and a session that is leaving never serves another call.                 *)
(***************************************************************************)
CONSTANTS Operations, Nothing

VARIABLE contract    \* [phase, owed]

Phases == {"closed", "opening", "idle", "working", "leaving"}
Contracts == [phase : Phases, owed : Operations \cup {"CONNECT", Nothing}]

Closed == [phase |-> "closed", owed |-> Nothing]
Idle == [phase |-> "idle", owed |-> Nothing]
Leaving(c) == [phase |-> "leaving", owed |-> c.owed]

Init == contract = Closed

(* d is c after at most one API call.                                       *)
Called(c, d) ==
  \/ d = c
  \/ c.phase = "closed" /\ d = [phase |-> "opening", owed |-> "CONNECT"]
  \/ c.phase = "idle" /\ \E o \in Operations : d = [phase |-> "working", owed |-> o]
  \/ c.phase # "closed" /\ d = Leaving(c)

(* d is c after one event on the network.                                   *)
Handled(c, d) ==
  \/ d = c
  \/ c.phase # "closed" /\ d = Closed
  \/ c.phase \in {"opening", "working"} /\ d = Idle
  \/ c.phase \in {"opening", "working"} /\ d = Leaving(c)

(* An event, and the call its callback may make.                            *)
Next == \E d \in Contracts : Handled(contract, d) /\ Called(d, contract')

Spec == Init /\ [][Next]_contract
=============================================================================
