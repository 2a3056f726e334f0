---------------------------- MODULE LwFtpProofs ----------------------------
(***************************************************************************)
(* Proofs about LwFtpClient: its inductive invariant Good(s) holds for      *)
(* every set of response codes.                                             *)
(***************************************************************************)
EXTENDS LwFtpClient, TLAPS

-----------------------------------------------------------------------------
(* Types of the building blocks.                                            *)

(* Writing a command keeps the session's type.                               *)
LEMMA SendTyped ==
  ASSUME NEW t \in Sessions, NEW cmd \in Commands
  PROVE  lwftp_send_msg(t, cmd) \in Sessions
<1>1. Append(t.sent, cmd) \in Seq(Commands)
  BY DEF Sessions
<1> QED BY <1>1 DEF lwftp_send_msg, Sessions

(* Calling done_fn keeps it.                                                 *)
LEMMA ReportTyped ==
  ASSUME NEW t \in Sessions, NEW r \in Results
  PROVE  Report(t, r) \in Sessions /\ Return(t, r) \in Sessions
<1>1. Append(t.done, r) \in Seq(Results)
  BY DEF Sessions
<1> QED BY <1>1 DEF Report, Return, Sessions

(* So does a change of control state.                                        *)
LEMMA GotoTyped ==
  ASSUME NEW t \in Sessions, NEW st \in ControlStates
  PROVE  Goto(t, st) \in Sessions
BY DEF Goto, Sessions

(* And the end of the session.                                               *)
LEMMA CloseTyped ==
  ASSUME NEW t \in Sessions, NEW r \in Results \cup {None}
  PROVE  lwftp_control_close(t, r) \in Sessions
<1> DEFINE u == [t EXCEPT !.data_pcb = NULL, !.control_pcb = NULL, !.control_state = "CLOSED"]
<1>1. u \in Sessions
  BY DEF Sessions, ControlStates, ControlPcbs, DataPcbs
<1>2. r # None => r \in Results
  OBVIOUS
<1> HIDE DEF u
<1>3. r # None => Report(u, r) \in Sessions
  BY <1>1, <1>2, ReportTyped
<1> QED BY <1>1, <1>3 DEF lwftp_control_close, u

-----------------------------------------------------------------------------
(* Steps of the session.                                                    *)

(* A closed session is good, whatever it was before, and the caller sees the *)
(* session end.                                                              *)
LEMMA CloseGood ==
  ASSUME NEW t \in Sessions, NEW r \in Results
  PROVE  /\ Good(lwftp_control_close(t, r))
         /\ View(lwftp_control_close(t, r)) = Contract!Closed
<1>1. lwftp_control_close(t, r) \in Sessions
  BY CloseTyped
<1>2. r # None
  BY DEF Results, None
<1> DEFINE u == lwftp_control_close(t, r)
<1>3. /\ u.control_state = "CLOSED" /\ u.control_pcb = NULL
      /\ u.data_pcb = NULL /\ u.op = None
  BY <1>2 DEF lwftp_control_close, Report, Sessions
<1> QED BY <1>1, <1>3 DEF Good, Settled, PcbsFollow, TargetNamed, Owes, NULL, PassingStates, LoginStates, TransferStates, CommandStates, View, PhaseOf, Contract!Closed

(* An API call made in a good session leaves a good one, and is one the      *)
(* contract allows.                                                          *)
LEMMA CallGood ==
  ASSUME NEW t, Good(t), NEW c \in Calls
  PROVE  Good(Call(t, c)) /\ Contract!Called(View(t), View(Call(t, c)))
<1> DEFINE u == Call(t, c)
<1>t. t \in Sessions
  BY DEF Good
<1>1. CASE c.api = "CONNECT"
  <2>1. u = lwftp_connect(t, c.args, c.pcb, c.link)
    BY <1>1 DEF Call, TransferOps, CommandOps
  <2>2. CASE u = Return(t, "ERR_ARGUMENT") \/ u = Return(t, "ERR_MEMORY")
    <3>1. u \in Sessions
      BY <2>2, <1>t, ReportTyped DEF Results
    <3> QED BY <3>1, <2>2 DEF Good, Return, Sessions, Settled, PcbsFollow, TargetNamed, Owes, View, PhaseOf, Contract!Called, Contract!Leaving
  <2>3. CASE /\ t.control_state = "CLOSED" /\ t.control_pcb = NULL /\ t.data_pcb = NULL
             /\ u = Return([t EXCEPT !.control_pcb = "SYN_SENT", !.op = "CONNECT"], "INPROGRESS")
    <3>1. [t EXCEPT !.control_pcb = "SYN_SENT", !.op = "CONNECT"] \in Sessions
      BY <1>t DEF Sessions, ControlPcbs
    <3>2. u \in Sessions
      BY <3>1, <2>3, ReportTyped DEF Results
    <3>3. /\ u.control_state = "CLOSED" /\ u.control_pcb = "SYN_SENT"
          /\ u.data_pcb = NULL /\ u.op = "CONNECT"
      BY <2>3, <1>t DEF Return, Sessions
    <3>g. Good(u)
      BY <3>2, <3>3 DEF Good, Settled, PcbsFollow, TargetNamed, Owes, NULL, PassingStates, LoginStates, TransferStates, CommandStates
    <3>v. View(t).phase = "closed"
      BY <2>3 DEF View, PhaseOf
    <3>w. View(u) = [phase |-> "opening", owed |-> "CONNECT"]
      BY <3>3 DEF View, PhaseOf, LoginStates, NULL
    <3> QED BY <3>g, <3>v, <3>w DEF Contract!Called, Contract!Leaving
  <2>4. CASE /\ t.control_state = "CLOSED" /\ t.control_pcb = NULL
             /\ u = Return(lwftp_control_close(t, None), "ERR_UNKNOWN")
    <3>1. lwftp_control_close(t, None) \in Sessions
      BY <1>t, CloseTyped
    <3>2. u \in Sessions
      BY <3>1, <2>4, ReportTyped DEF Results
    <3>3. /\ u.control_state = "CLOSED" /\ u.control_pcb = NULL
          /\ u.data_pcb = NULL /\ u.op = t.op
      BY <2>4, <1>t DEF Return, Sessions, lwftp_control_close
    <3> QED BY <2>4, <3>2, <3>3 DEF Good, Settled, PcbsFollow, TargetNamed, Owes, NULL, PassingStates, LoginStates, TransferStates, CommandStates, View, PhaseOf, Contract!Called, Contract!Leaving
  <2> QED BY <2>1, <2>2, <2>3, <2>4 DEF lwftp_connect
<1>2. CASE c.api \in TransferOps
  <2>1. u = lwftp_transfer(t, c.api, c.args, c.pcb)
    BY <1>2 DEF Call, TransferOps, CommandOps
  <2>2. CASE u = Return(t, "ERR_ARGUMENT") \/ u = Return(t, "ERR_MEMORY")
    <3>1. u \in Sessions
      BY <2>2, <1>t, ReportTyped DEF Results
    <3> QED BY <3>1, <2>2 DEF Good, Return, Sessions, Settled, PcbsFollow, TargetNamed, Owes, View, PhaseOf, Contract!Called, Contract!Leaving
  <2>3. CASE /\ t.control_state = "LOGGED"
             /\ u = Return(lwftp_start([t EXCEPT !.data_pcb = "CLOSED"], c.api), "INPROGRESS")
    <3> DEFINE v == [t EXCEPT !.data_pcb = "CLOSED"]
               w == lwftp_start(v, c.api)
    <3>1. v \in Sessions /\ v.control_state = "LOGGED"
      BY <1>t, <2>3 DEF Sessions, DataPcbs
    <3>2. lwftp_send_msg(v, "TYPE") \in Sessions
      BY <3>1, SendTyped DEF Commands
    <3>3. SentState[c.api] \in TransferStates
      BY <1>2 DEF TransferOps, SentState, TransferStates
    <3>4. w \in Sessions
      BY <3>1, <3>2, <3>3, <1>2 DEF lwftp_start, Sessions, ControlStates, Ops
    <3>5. u \in Sessions
      BY <3>4, <2>3, ReportTyped DEF Results
    <3>6. /\ u.control_state = "TYPE_SENT" /\ u.control_pcb = "ESTABLISHED"
          /\ u.data_pcb = "CLOSED" /\ u.op = c.api /\ u.target_state = SentState[c.api]
      BY <3>1, <2>3, <1>t DEF Return, Sessions, lwftp_start, lwftp_send_msg, Good, PcbsFollow
    <3>g. Good(u)
      BY <1>2, <3>3, <3>5, <3>6 DEF Good, Settled, PcbsFollow, TargetNamed, Owes, PassingStates, LoginStates, TransferStates, CommandStates
    <3>v. View(t).phase = "idle"
      BY <2>3 DEF View, PhaseOf, LoginStates
    <3>w. View(u) = [phase |-> "working", owed |-> c.api]
      BY <3>3, <3>6 DEF View, PhaseOf, LoginStates
    <3> QED BY <3>g, <3>v, <3>w, <1>2 DEF Contract!Called, Contract!Leaving, Ops
  <2> QED BY <2>1, <2>2, <2>3 DEF lwftp_transfer
<1>3. CASE c.api \in CommandOps
  <2>1. u = lwftp_command(t, c.api, c.args)
    BY <1>3 DEF Call, TransferOps, CommandOps
  <2>2. CASE u = Return(t, "ERR_ARGUMENT")
    <3>1. u \in Sessions
      BY <2>2, <1>t, ReportTyped DEF Results
    <3> QED BY <3>1, <2>2 DEF Good, Return, Sessions, Settled, PcbsFollow, TargetNamed, Owes, View, PhaseOf, Contract!Called, Contract!Leaving
  <2>3. CASE t.control_state = "LOGGED" /\ u = Return(lwftp_send(t, c.api), "INPROGRESS")
    <3>2. lwftp_send_msg(t, c.api) \in Sessions
      BY <1>3, <1>t, SendTyped DEF Commands, Ops
    <3>3. SentState[c.api] \in CommandStates \ {"RNTO_SENT"}
      BY <1>3 DEF CommandOps, SentState, CommandStates
    <3>4. lwftp_send(t, c.api) \in Sessions
      BY <2>3, <3>2, <3>3, <1>3 DEF lwftp_send, Sessions, ControlStates, Ops
    <3>5. u \in Sessions
      BY <3>4, <2>3, ReportTyped DEF Results
    <3>6. /\ u.control_state = SentState[c.api] /\ u.control_pcb = "ESTABLISHED"
          /\ u.data_pcb = NULL /\ u.op = c.api
      BY <2>3, <1>t DEF Return, Sessions, lwftp_send, lwftp_send_msg, Good, PcbsFollow, TransferStates
    <3>g. Good(u)
      BY <1>3, <3>3, <3>5, <3>6 DEF Good, Settled, PcbsFollow, TargetNamed, Owes, PassingStates, LoginStates, TransferStates, CommandStates, Ops
    <3>v. View(t).phase = "idle"
      BY <2>3 DEF View, PhaseOf, LoginStates, CommandStates
    <3>w. View(u) = [phase |-> "working", owed |-> c.api]
      BY <3>3, <3>6 DEF View, PhaseOf, LoginStates, CommandStates
    <3> QED BY <3>g, <3>v, <3>w, <1>3 DEF Contract!Called, Contract!Leaving, Ops
  <2> QED BY <2>1, <2>2, <2>3 DEF lwftp_command
<1>4. CASE c.api = "CLOSE"
  <2>1. u = lwftp_close(t)
    BY <1>4 DEF Call, TransferOps, CommandOps
  <2>2. CASE u = t
    BY <2>2 DEF Contract!Called
  <2>3. CASE /\ t.control_state # "CLOSED"
             /\ u = Goto(lwftp_send_msg(t, "QUIT"), "QUIT_SENT")
    <3>1. u \in Sessions
      BY <2>3, <1>t, SendTyped, GotoTyped DEF Commands, ControlStates
    <3>2. u.control_state = "QUIT_SENT" /\ u.control_pcb = "ESTABLISHED"
      BY <2>3, <1>t DEF Sessions, Goto, lwftp_send_msg, Good, PcbsFollow
    <3>g. Good(u)
      BY <3>1, <3>2 DEF Good, Settled, PcbsFollow, TargetNamed, Owes, PassingStates, LoginStates, TransferStates, CommandStates
    <3>o. u.op = t.op
      BY <2>3, <1>t DEF Sessions, Goto, lwftp_send_msg
    <3>v. View(t).phase # "closed" /\ View(t).owed = t.op
      BY <2>3 DEF View, PhaseOf
    <3>w. View(u) = [phase |-> "leaving", owed |-> t.op]
      BY <2>3, <3>2, <3>o DEF View, PhaseOf, LoginStates
    <3> QED BY <3>g, <3>v, <3>w DEF Contract!Called, Contract!Leaving
  <2> QED BY <2>1, <2>2, <2>3 DEF lwftp_close
<1> QED BY <1>1, <1>2, <1>3, <1>4 DEF Calls, Ops

(* u is the session between the two switches of lwftp_control_process, t the *)
(* one before: u is good, or in one of the states the second switch leaves.  *)
Half(t, u) ==
  /\ u \in Sessions
  /\ u.control_pcb = "ESTABLISHED"
  /\ View(t).phase # "closed" /\ View(t).owed = t.op
  /\ u.control_state = "CMDEND" => u.data_pcb = NULL
  /\ u.control_state \in {"DATAEND", "CMDEND"} => View(t).phase = "working"
  /\ u.control_state = "QUIT" => View(t).phase \in {"opening", "working"} /\ u.op = t.op
  /\ u.control_state \notin PassingStates =>
       Good(u) /\ Contract!Handled(View(t), View(u))

(* The first switch, whatever the reply.                                     *)
LEMMA FirstSwitchHalf ==
  ASSUME NEW t, Good(t), t.control_pcb = "ESTABLISHED",
         NEW r \in Nat, NEW opened \in BOOLEAN, NEW more \in BOOLEAN
  PROVE  Half(t, FirstSwitch(t, r, opened, more))
<1> DEFINE u == FirstSwitch(t, r, opened, more)
           st == t.control_state
<1>t. t \in Sessions
  BY DEF Good
<1>e. DOMAIN Expected = {"CONNECTED", "USER_SENT", "PASS_SENT", "TYPE_SENT", "PASV_SENT",
                         "RETR_SENT", "STOR_SENT", "MLSD_SENT", "RNFR_SENT"}
  BY DEF Expected
<1>v. View(t).phase # "closed" /\ View(t).owed = t.op
  BY DEF View, PhaseOf, NULL
<1>1. CASE u = t
  BY <1>1, <1>t, <1>v DEF Half, Good, Settled, PassingStates, Contract!Handled
<1>2. CASE st \in Awaiting /\ u = Goto(t, Otherwise(st))
  <2>1. /\ Otherwise(st) \in PassingStates
        /\ Otherwise(st) = "CMDEND" => st \in CommandStates
    BY <1>2 DEF Otherwise, Awaiting, PassingStates, LoginStates, TransferStates, CommandStates
  <2>2. u \in Sessions
    BY <1>2, <2>1, <1>t, GotoTyped DEF ControlStates
  <2>3. u.control_state = Otherwise(st) /\ u.control_pcb = "ESTABLISHED" /\ u.data_pcb = t.data_pcb
    BY <1>2, <1>t DEF Goto, Sessions
  <2>4. Otherwise(st) = "CMDEND" => t.data_pcb = NULL
    BY <2>1 DEF Good, PcbsFollow, CommandStates, TransferStates
  <2>5. /\ Otherwise(st) \in {"DATAEND", "CMDEND"} => View(t).phase = "working"
        /\ Otherwise(st) = "QUIT" => View(t).phase \in {"opening", "working"}
    BY <1>2 DEF Otherwise, Awaiting, View, PhaseOf, PassingStates, LoginStates, TransferStates, CommandStates
  <2>6. u.op = t.op
    BY <1>2, <1>t DEF Goto, Sessions
  <2> QED BY <2>1, <2>2, <2>3, <2>4, <2>5, <2>6, <1>v DEF Half
<1>3. CASE st \in DOMAIN Expected /\ u = Advance(t, opened, more)
  <2>1. CASE st = "CONNECTED"
    <3>1. u = Goto(lwftp_send_msg(t, "USER"), "USER_SENT")
      BY <1>3, <2>1 DEF Advance
    <3>2. u \in Sessions
      BY <3>1, <1>t, SendTyped, GotoTyped DEF Commands, ControlStates, LoginStates
    <3>3. /\ u.control_state = "USER_SENT" /\ u.control_pcb = "ESTABLISHED"
          /\ u.data_pcb = NULL /\ u.op = "CONNECT"
      BY <3>1, <1>t, <2>1 DEF Goto, lwftp_send_msg, Sessions, Good, PcbsFollow, Owes, LoginStates, TransferStates
    <3>g. Good(u)
      BY <3>2, <3>3 DEF Good, Settled, PcbsFollow, TargetNamed, Owes, NULL, PassingStates, LoginStates, TransferStates, CommandStates
    <3>v. View(t).phase = "opening"
      BY <2>1 DEF View, PhaseOf, LoginStates
    <3>w. View(u).phase = "opening" /\ u.op = t.op
      BY <3>3, <2>1 DEF View, PhaseOf, LoginStates, TransferStates, Good, Owes
    <3>x. View(u) = View(t)
      BY <3>v, <3>w DEF View
    <3>y. u.control_state \notin PassingStates
      BY <3>g DEF Good, Settled
    <3> QED BY <1>v, <3>g, <3>v, <3>x, <3>y, <3>3 DEF Half, Good, PassingStates, Contract!Handled
  <2>2. CASE st = "USER_SENT"
    <3>1. u = Goto(lwftp_send_msg(t, "PASS"), "PASS_SENT")
      BY <1>3, <2>2 DEF Advance
    <3>2. u \in Sessions
      BY <3>1, <1>t, SendTyped, GotoTyped DEF Commands, ControlStates, LoginStates
    <3>3. /\ u.control_state = "PASS_SENT" /\ u.control_pcb = "ESTABLISHED"
          /\ u.data_pcb = NULL /\ u.op = "CONNECT"
      BY <3>1, <1>t, <2>2 DEF Goto, lwftp_send_msg, Sessions, Good, PcbsFollow, Owes, LoginStates, TransferStates
    <3>g. Good(u)
      BY <3>2, <3>3 DEF Good, Settled, PcbsFollow, TargetNamed, Owes, NULL, PassingStates, LoginStates, TransferStates, CommandStates
    <3>v. View(t).phase = "opening"
      BY <2>2 DEF View, PhaseOf, LoginStates
    <3>w. View(u).phase = "opening" /\ u.op = t.op
      BY <3>3, <2>2 DEF View, PhaseOf, LoginStates, TransferStates, Good, Owes
    <3>x. View(u) = View(t)
      BY <3>v, <3>w DEF View
    <3>y. u.control_state \notin PassingStates
      BY <3>g DEF Good, Settled
    <3> QED BY <1>v, <3>g, <3>v, <3>x, <3>y, <3>3 DEF Half, Good, PassingStates, Contract!Handled
  <2>3. CASE st = "PASS_SENT"
    <3>1. u = Report(Goto(t, "LOGGED"), "LOGGED")
      BY <1>3, <2>3 DEF Advance
    <3>2. u \in Sessions
      BY <3>1, <1>t, GotoTyped, ReportTyped DEF ControlStates, Results
    <3>3. /\ u.control_state = "LOGGED" /\ u.control_pcb = "ESTABLISHED"
          /\ u.data_pcb = NULL /\ u.op = None
      BY <3>1, <1>t, <2>3 DEF Goto, Report, Sessions, Good, PcbsFollow, TransferStates
    <3>g. Good(u)
      BY <3>2, <3>3 DEF Good, Settled, PcbsFollow, TargetNamed, Owes, NULL, PassingStates, LoginStates, TransferStates, CommandStates
    <3>v. View(t).phase = "opening"
      BY <2>3 DEF View, PhaseOf, LoginStates
    <3>w. View(u) = Contract!Idle
      BY <3>3 DEF View, PhaseOf, LoginStates, Contract!Idle
    <3>y. u.control_state \notin PassingStates
      BY <3>g DEF Good, Settled
    <3> QED BY <1>v, <3>g, <3>v, <3>w, <3>y, <3>3 DEF Half, Good, PassingStates, Contract!Handled
  <2>4. CASE st = "TYPE_SENT"
    <3>1. u = Goto(lwftp_send_msg(t, "PASV"), "PASV_SENT")
      BY <1>3, <2>4 DEF Advance
    <3>2. u \in Sessions
      BY <3>1, <1>t, SendTyped, GotoTyped DEF Commands, ControlStates
    <3>3. /\ u.control_state = "PASV_SENT" /\ u.control_pcb = "ESTABLISHED"
          /\ u.data_pcb = "CLOSED" /\ u.op = t.op /\ u.target_state = t.target_state
      BY <3>1, <1>t, <2>4 DEF Goto, lwftp_send_msg, Sessions, Good, PcbsFollow
    <3>g. Good(u)
      BY <2>4, <3>2, <3>3 DEF Good, Settled, PcbsFollow, TargetNamed, Owes, NULL, PassingStates, LoginStates, TransferStates, CommandStates
    <3>v. View(t).phase = "working"
      BY <2>4 DEF View, PhaseOf, LoginStates
    <3>w. View(u).phase = "working" /\ u.op = t.op
      BY <3>3 DEF View, PhaseOf, LoginStates, TransferStates, Good, Owes
    <3>x. View(u) = View(t)
      BY <3>v, <3>w DEF View
    <3>y. u.control_state \notin PassingStates
      BY <3>g DEF Good, Settled
    <3> QED BY <1>v, <3>g, <3>v, <3>x, <3>y, <3>3 DEF Half, Good, PassingStates, Contract!Handled
  <2>5. CASE st = "PASV_SENT"
    <3> DEFINE v == lwftp_data_open(t, opened)
               verb == CHOOSE x \in TransferOps : SentState[x] = t.target_state
    <3>1. u = lwftp_issue_transfer(v)
      BY <1>3, <2>5 DEF Advance
    <3>2. v \in Sessions
      BY <1>t DEF lwftp_data_open, Sessions, DataPcbs
    <3>3. /\ v.target_state = t.target_state /\ v.op = t.op /\ v.control_pcb = "ESTABLISHED"
      BY <1>t DEF lwftp_data_open, Sessions
    <3>4. t.target_state \in TransferStates
      BY <2>5 DEF Good, TargetNamed
    <3>5. verb \in TransferOps
      BY <3>4 DEF TransferOps, TransferStates, SentState
    <3>6. u = [lwftp_send_msg(v, verb) EXCEPT !.target_state = t.target_state,
                                              !.control_state = t.target_state]
      BY <3>1, <3>3, <3>4 DEF lwftp_issue_transfer
    <3>7. lwftp_send_msg(v, verb) \in Sessions
      BY <3>2, <3>5, SendTyped DEF Commands, Ops
    <3> HIDE DEF v, verb
    <3>8. u \in Sessions
      BY <3>6, <3>7, <3>4 DEF Sessions, ControlStates
    <3>9. /\ u.control_state = t.target_state /\ u.target_state = t.target_state
          /\ u.control_pcb = "ESTABLISHED" /\ u.op = t.op
      BY <3>2, <3>3, <3>6, <3>7 DEF lwftp_send_msg, Sessions
    <3>10. t.op \in Ops /\ SentState[t.op] = t.target_state
      BY <2>5 DEF Good, Owes, Ops
    <3>g. Good(u)
      BY <3>4, <3>8, <3>9, <3>10 DEF Good, Settled, PcbsFollow, TargetNamed, Owes, PassingStates, LoginStates, TransferStates, CommandStates
    <3>v. View(t).phase = "working"
      BY <2>5 DEF View, PhaseOf, LoginStates
    <3>w. View(u).phase = "working" /\ u.op = t.op
      BY <3>9, <3>4 DEF View, PhaseOf, LoginStates, TransferStates, Good, Owes
    <3>x. View(u) = View(t)
      BY <3>v, <3>w DEF View
    <3>y. u.control_state \notin PassingStates
      BY <3>g DEF Good, Settled
    <3> QED BY <1>v, <3>g, <3>v, <3>x, <3>y, <3>9 DEF Half, Good, PassingStates, Contract!Handled
  <2>6. CASE st = "STOR_SENT"
    <3>1. u = lwftp_data_sent(Goto(t, "XFERING"), more)
      BY <1>3, <2>6 DEF Advance
    <3>2. Goto(t, "XFERING") \in Sessions
      BY <1>t, GotoTyped DEF ControlStates
    <3>3. u \in Sessions
      BY <3>1, <3>2 DEF lwftp_data_sent, lwftp_send_next_data, Sessions, DataPcbs
    <3>4. /\ u.control_state = "XFERING" /\ u.control_pcb = "ESTABLISHED"
          /\ u.op = t.op /\ u.target_state = t.target_state
      BY <3>1, <3>2, <1>t DEF lwftp_data_sent, lwftp_send_next_data, Goto, Sessions
    <3>5. t.target_state = "STOR_SENT" /\ t.op \in Ops /\ SentState[t.op] = "STOR_SENT"
      BY <2>6 DEF Good, TargetNamed, Owes, TransferStates
    <3>6. t.op \in TransferOps
      BY <3>5 DEF Ops, CommandOps, TransferOps, SentState
    <3>g. Good(u)
      BY <3>3, <3>4, <3>5, <3>6 DEF Good, Settled, PcbsFollow, TargetNamed, Owes, PassingStates, LoginStates, TransferStates, CommandStates
    <3>v. View(t).phase = "working"
      BY <2>6 DEF View, PhaseOf, LoginStates
    <3>w. View(u).phase = "working" /\ u.op = t.op
      BY <3>4 DEF View, PhaseOf, LoginStates, TransferStates, Good, Owes
    <3>x. View(u) = View(t)
      BY <3>v, <3>w DEF View
    <3>y. u.control_state \notin PassingStates
      BY <3>g DEF Good, Settled
    <3> QED BY <1>v, <3>g, <3>v, <3>x, <3>y, <3>4 DEF Half, Good, PassingStates, Contract!Handled
  <2>7. CASE st = "RNFR_SENT"
    <3>1. u = Goto(lwftp_send_msg(t, "RNTO"), "RNTO_SENT")
      BY <1>3, <2>7 DEF Advance
    <3>2. u \in Sessions
      BY <3>1, <1>t, SendTyped, GotoTyped DEF Commands, ControlStates, CommandStates
    <3>3. /\ u.control_state = "RNTO_SENT" /\ u.control_pcb = "ESTABLISHED"
          /\ u.data_pcb = NULL /\ u.op = t.op
      BY <3>1, <1>t, <2>7 DEF Goto, lwftp_send_msg, Sessions, Good, PcbsFollow, TransferStates
    <3>4. t.op = "RNFR"
      BY <2>7 DEF Good, Owes, CommandStates, Ops, TransferOps, CommandOps, SentState
    <3>g. Good(u)
      BY <3>2, <3>3, <3>4 DEF Good, Settled, PcbsFollow, TargetNamed, Owes, NULL, PassingStates, LoginStates, TransferStates, CommandStates
    <3>v. View(t).phase = "working"
      BY <2>7 DEF View, PhaseOf, LoginStates
    <3>w. View(u).phase = "working" /\ u.op = t.op
      BY <3>3 DEF View, PhaseOf, LoginStates, TransferStates, Good, Owes
    <3>x. View(u) = View(t)
      BY <3>v, <3>w DEF View
    <3>y. u.control_state \notin PassingStates
      BY <3>g DEF Good, Settled
    <3> QED BY <1>v, <3>g, <3>v, <3>x, <3>y, <3>3 DEF Half, Good, PassingStates, Contract!Handled
  <2>8. CASE st \in {"RETR_SENT", "MLSD_SENT"}
    <3>1. u = Goto(t, "XFERING")
      BY <1>3, <2>8 DEF Advance
    <3>2. u \in Sessions
      BY <3>1, <1>t, GotoTyped DEF ControlStates
    <3>4. /\ u.control_state = "XFERING" /\ u.control_pcb = "ESTABLISHED"
          /\ u.op = t.op /\ u.target_state = t.target_state
      BY <3>1, <1>t DEF Goto, Sessions
    <3>5. t.target_state = st /\ t.op \in Ops /\ SentState[t.op] = st
      BY <2>8 DEF Good, TargetNamed, Owes, TransferStates
    <3>6. t.op \in TransferOps
      BY <3>5, <2>8 DEF Ops, CommandOps, TransferOps, SentState
    <3>g. Good(u)
      BY <2>8, <3>2, <3>4, <3>5, <3>6 DEF Good, Settled, PcbsFollow, TargetNamed, Owes, PassingStates, LoginStates, TransferStates, CommandStates
    <3>v. View(t).phase = "working"
      BY <2>8 DEF View, PhaseOf, LoginStates
    <3>w. View(u).phase = "working" /\ u.op = t.op
      BY <3>4 DEF View, PhaseOf, LoginStates, TransferStates, Good, Owes
    <3>x. View(u) = View(t)
      BY <3>v, <3>w DEF View
    <3>y. u.control_state \notin PassingStates
      BY <3>g DEF Good, Settled
    <3> QED BY <1>v, <3>g, <3>v, <3>x, <3>y, <3>4 DEF Half, Good, PassingStates, Contract!Handled
  <2> QED BY <1>3, <1>e, <2>1, <2>2, <2>3, <2>4, <2>5, <2>6, <2>7, <2>8
<1> QED BY <1>1, <1>2, <1>3 DEF FirstSwitch

(* The second switch finishes what the first began.                          *)
LEMMA SecondSwitchGood ==
  ASSUME NEW t, NEW u, Half(t, u), NEW r \in Results
  PROVE  /\ Good(SecondSwitch(u, r))
         /\ Contract!Handled(View(t), View(SecondSwitch(u, r)))
<1> DEFINE w == SecondSwitch(u, r)
           cs == u.control_state
<1>u. u \in Sessions
  BY DEF Half
<1>1. CASE cs = "DATAEND" \/ cs = "CMDEND"
  <2> DEFINE v == Goto(u, "LOGGED")
  <2>1. v \in Sessions
    BY <1>u, GotoTyped DEF ControlStates
  <2>2. w = Report([v EXCEPT !.data_pcb = NULL], r) \/ (cs = "CMDEND" /\ w = Report(v, r))
    BY <1>1 DEF SecondSwitch, lwftp_data_close
  <2>3. [v EXCEPT !.data_pcb = NULL] \in Sessions
    BY <2>1 DEF Sessions, DataPcbs
  <2>4. w \in Sessions
    BY <2>1, <2>2, <2>3, ReportTyped
  <2>5. /\ w.control_state = "LOGGED" /\ w.control_pcb = "ESTABLISHED"
        /\ w.data_pcb = NULL /\ w.op = None
    BY <2>2, <1>u DEF Report, Goto, Sessions, Half
  <2>6. Good(w)
    BY <2>4, <2>5 DEF Good, Settled, PcbsFollow, TargetNamed, Owes, NULL, PassingStates, LoginStates, TransferStates, CommandStates
  <2>7. View(w) = Contract!Idle
    BY <2>5 DEF View, PhaseOf, LoginStates, Contract!Idle
  <2>8. View(t).phase = "working"
    BY <1>1 DEF Half
  <2> QED BY <2>6, <2>7, <2>8 DEF Contract!Handled
<1>2. CASE cs = "QUIT"
  <2>1. w = Goto(lwftp_send_msg(u, "QUIT"), "QUIT_SENT")
    BY <1>2 DEF SecondSwitch
  <2>2. w \in Sessions
    BY <2>1, <1>u, SendTyped, GotoTyped DEF Commands, ControlStates
  <2>3. w.control_state = "QUIT_SENT" /\ w.control_pcb = "ESTABLISHED" /\ w.op = t.op
    BY <2>1, <1>u, <1>2 DEF Goto, lwftp_send_msg, Sessions, Half
  <2>4. Good(w)
    BY <2>2, <2>3 DEF Good, Settled, PcbsFollow, TargetNamed, Owes, PassingStates, LoginStates, TransferStates, CommandStates
  <2>5. View(w) = Contract!Leaving(View(t))
    BY <2>3 DEF View, PhaseOf, LoginStates, Contract!Leaving
  <2>6. View(t).phase \in {"opening", "working"}
    BY <1>2 DEF Half
  <2> QED BY <2>4, <2>5, <2>6 DEF Contract!Handled
<1>3. CASE cs = "CLOSING"
  <2>1. w = lwftp_control_close(u, r)
    BY <1>3 DEF SecondSwitch
  <2>2. Good(w) /\ View(w) = Contract!Closed
    BY <2>1, <1>u, CloseGood
  <2> QED BY <2>2 DEF Half, Contract!Handled
<1>4. CASE cs \notin PassingStates
  BY <1>4 DEF SecondSwitch, Half, PassingStates
<1> QED BY <1>1, <1>2, <1>3, <1>4 DEF PassingStates

(* lwftp_control_process, whatever the reply.                                *)
LEMMA ControlProcessGood ==
  ASSUME NEW t, Good(t), t.control_pcb = "ESTABLISHED",
         NEW r \in Nat, NEW opened \in BOOLEAN, NEW more \in BOOLEAN
  PROVE  /\ Good(lwftp_control_process(t, r, opened, more))
         /\ Contract!Handled(View(t), View(lwftp_control_process(t, r, opened, more)))
<1>1. Half(t, FirstSwitch(t, r, opened, more))
  BY FirstSwitchHalf
<1>2. ResultOf(t.control_state, r) \in Results
  BY DEF ResultOf, Results
<1> QED BY <1>1, <1>2, SecondSwitchGood DEF lwftp_control_process

(* A data connection error ends a transfer early, or only drops the pcb.     *)
LEMMA DataErrGood ==
  ASSUME NEW t, Good(t), t.data_pcb \in {"SYN_SENT", "ESTABLISHED"}
  PROVE  /\ Good(lwftp_data_err(t))
         /\ Contract!Handled(View(t), View(lwftp_data_err(t)))
<1> DEFINE v == [t EXCEPT !.data_pcb = NULL]
           w == lwftp_data_err(t)
<1>t. t \in Sessions
  BY DEF Good
<1>1. t.control_pcb = "ESTABLISHED"
  BY DEF Good, PcbsFollow, TransferStates, NULL
<1>2. /\ v \in Sessions /\ v.data_pcb = NULL /\ v.control_state = t.control_state
      /\ v.control_pcb = t.control_pcb /\ v.op = t.op /\ v.target_state = t.target_state
  BY <1>t DEF Sessions, DataPcbs
<1>3. CASE t.control_state = "XFERING"
  <2> DEFINE u == Goto(v, "DATAEND")
  <2>1. u \in Sessions
    BY <1>2, GotoTyped DEF ControlStates, PassingStates
  <2>2. u.control_state = "DATAEND" /\ u.control_pcb = "ESTABLISHED"
    BY <1>1, <1>2 DEF Goto, Sessions
  <2>3. View(t).phase = "working" /\ View(t).owed = t.op
    BY <1>3 DEF View, PhaseOf, LoginStates
  <2>4. Half(t, u)
    BY <2>1, <2>2, <2>3 DEF Half, PassingStates
  <2>5. FirstSwitch(u, 0, FALSE, FALSE) = u
    BY DEF FirstSwitch
  <2>6. ResultOf(u.control_state, 0) \in Results
    BY DEF ResultOf, Results
  <2>7. w = SecondSwitch(u, ResultOf(u.control_state, 0))
    BY <1>2, <1>3, <2>5 DEF lwftp_data_err, lwftp_control_process
  <2> QED BY <2>4, <2>6, <2>7, SecondSwitchGood
<1>4. CASE t.control_state # "XFERING"
  <2>1. w = v
    BY <1>2, <1>4 DEF lwftp_data_err
  <2>2. t.control_state \notin {"TYPE_SENT", "PASV_SENT"}
    BY DEF Good, PcbsFollow
  <2>3. Good(v)
    BY <1>2, <2>2 DEF Good, Settled, PcbsFollow, TargetNamed, Owes
  <2>4. View(v) = View(t)
    BY <1>2 DEF View, PhaseOf
  <2> QED BY <2>1, <2>3, <2>4 DEF Contract!Handled
<1> QED BY <1>3, <1>4

-----------------------------------------------------------------------------
(* The steps of the specification.                                          *)

(* The caller's view of a session has the contract's type.                   *)
LEMMA ViewTyped ==
  ASSUME NEW t \in Sessions
  PROVE  View(t) \in Contract!Contracts
<1>1. PhaseOf(t) \in Contract!Phases
  BY DEF PhaseOf, Contract!Phases
<1>2. t.op \in Ops \cup {"CONNECT", None}
  BY DEF Sessions
<1> QED BY <1>1, <1>2 DEF View, Contract!Contracts

(* A handler starts from a session that differs only in what it reports.     *)
LEMMA QuietGood ==
  ASSUME NEW t, Good(t)
  PROVE  /\ Good(Quiet(t)) /\ View(Quiet(t)) = View(t)
         /\ Quiet(t).control_pcb = t.control_pcb /\ Quiet(t).data_pcb = t.data_pcb
         /\ Quiet(t).control_state = t.control_state
         /\ Quiet(t).target_state = t.target_state /\ Quiet(t).op = t.op
<1>1. t \in Sessions
  BY DEF Good
<1>2. Quiet(t) \in Sessions
  <2>1. ASSUME NEW a \in Seq(Commands), NEW b \in Seq(Results)
        PROVE  [t EXCEPT !.sent = a, !.done = b] \in Sessions
    BY <1>1 DEF Sessions
  <2>2. <<>> \in Seq(Commands) /\ <<>> \in Seq(Results)
    OBVIOUS
  <2> QED BY <2>1, <2>2 DEF Quiet
<1>3. /\ Quiet(t).control_pcb = t.control_pcb /\ Quiet(t).data_pcb = t.data_pcb
      /\ Quiet(t).control_state = t.control_state
      /\ Quiet(t).target_state = t.target_state /\ Quiet(t).op = t.op
  BY <1>1 DEF Quiet, Sessions
<1>4. View(Quiet(t)) = View(t)
  BY <1>3 DEF View, PhaseOf
<1>5. Good(Quiet(t))
  BY <1>2, <1>3 DEF Good, Settled, PcbsFollow, TargetNamed, Owes
<1> QED BY <1>3, <1>4, <1>5

(* A good handler makes a good step: the callback's call included.           *)
LEMMA HandlerGood ==
  ASSUME NEW t, Good(t), Contract!Handled(View(s), View(t)), Handler(t)
  PROVE  Good(s)' /\ Contract!Next
<1>1. View(t) \in Contract!Contracts
  BY ViewTyped DEF Good
<1>2. Good(s') /\ Contract!Called(View(t), View(s'))
  <2>1. CASE s' = t
    BY <2>1 DEF Contract!Called
  <2>2. CASE \E c \in Calls : s' = Call(t, c)
    BY <2>2, CallGood
  <2> QED BY <2>1, <2>2 DEF Handler
<1>3. Contract!Next
  BY <1>1, <1>2 DEF Contract!Next
<1> QED BY <1>2, <1>3

(* Every step of the client keeps the invariant and is a step of the         *)
(* contract.                                                                 *)
LEMMA StepGood ==
  ASSUME Good(s), Next
  PROVE  Good(s)' /\ Contract!Next
<1> DEFINE q == Quiet(s)
<1>q. /\ Good(q) /\ View(q) = View(s)
      /\ q.control_pcb = s.control_pcb /\ q.data_pcb = s.data_pcb
      /\ q.control_state = s.control_state /\ q.target_state = s.target_state /\ q.op = s.op
  BY QuietGood
<1>s. q \in Sessions
  BY <1>q DEF Good
<1> HIDE DEF q
<1>1. ASSUME UserCall PROVE Good(s)' /\ Contract!Next
  <2>1. PICK c \in Calls : s' = Call(q, c)
    BY <1>1 DEF UserCall, q
  <2>2. Good(s') /\ Contract!Called(View(q), View(s'))
    BY <2>1, <1>q, CallGood
  <2>3. View(s) \in Contract!Contracts
    BY ViewTyped DEF Good
  <2>4. Contract!Handled(View(s), View(s))
    BY DEF Contract!Handled
  <2> QED BY <2>2, <2>3, <2>4, <1>q DEF Contract!Next
<1>2. ASSUME ControlConnected PROVE Good(s)' /\ Contract!Next
  <2> DEFINE t == lwftp_control_connected(q)
  <2>1. s.control_pcb = "SYN_SENT" /\ Handler(t)
    BY <1>2 DEF ControlConnected, q
  <2>2. s.control_state = "CLOSED" /\ s.data_pcb = NULL /\ s.op = "CONNECT"
    BY <2>1 DEF Good, PcbsFollow, Owes, TransferStates, NULL
  <2>3. t \in Sessions
    BY <1>s DEF lwftp_control_connected, Sessions, ControlStates, LoginStates, ControlPcbs
  <2>4. /\ t.control_state = "CONNECTED" /\ t.control_pcb = "ESTABLISHED"
        /\ t.data_pcb = NULL /\ t.op = "CONNECT"
    BY <1>s, <1>q, <2>2 DEF lwftp_control_connected, Sessions
  <2>5. Good(t)
    BY <2>3, <2>4 DEF Good, Settled, PcbsFollow, TargetNamed, Owes, NULL, PassingStates, LoginStates, TransferStates, CommandStates
  <2>6. View(t) = View(s)
    BY <2>1, <2>2, <2>4 DEF View, PhaseOf, LoginStates, NULL
  <2>7. Contract!Handled(View(s), View(t))
    BY <2>6 DEF Contract!Handled
  <2> QED BY <2>1, <2>5, <2>7, HandlerGood
<1>3. ASSUME ControlReply PROVE Good(s)' /\ Contract!Next
  <2>1. PICK r \in Responses, opened \in BOOLEAN, more \in BOOLEAN :
          Handler(lwftp_control_process(q, r, opened, more))
    BY <1>3 DEF ControlReply, q
  <2>2. s.control_pcb = "ESTABLISHED" /\ r \in Nat
    BY <1>3, ResponsesAssumption DEF ControlReply
  <2>3. /\ Good(lwftp_control_process(q, r, opened, more))
        /\ Contract!Handled(View(s), View(lwftp_control_process(q, r, opened, more)))
    BY <2>2, <1>q, ControlProcessGood
  <2> QED BY <2>1, <2>3, HandlerGood
<1>4. ASSUME ControlClosed PROVE Good(s)' /\ Contract!Next
  <2>1. PICK r \in {"ERR_CLOSED", "ERR_UNKNOWN"} : Handler(lwftp_control_close(q, r))
    BY <1>4 DEF ControlClosed, q, lwftp_control_recv_null, lwftp_control_recv_err
  <2>2. View(s).phase # "closed"
    BY <1>4 DEF ControlClosed, View, PhaseOf, NULL
  <2>3. /\ Good(lwftp_control_close(q, r))
        /\ View(lwftp_control_close(q, r)) = Contract!Closed
    BY <1>s, CloseGood DEF Results
  <2>4. Contract!Handled(View(s), View(lwftp_control_close(q, r)))
    BY <2>2, <2>3 DEF Contract!Handled
  <2> QED BY <2>1, <2>3, <2>4, HandlerGood
<1>5. ASSUME ControlErr PROVE Good(s)' /\ Contract!Next
  <2> DEFINE v == [q EXCEPT !.control_pcb = NULL]
             r == IF q.control_state = "CLOSED" THEN "ERR_CONNECT" ELSE "ERR_CLOSED"
  <2>1. Handler(lwftp_control_close(v, r))
    BY <1>5 DEF ControlErr, q, lwftp_control_err
  <2>2. View(s).phase # "closed"
    BY <1>5 DEF ControlErr, View, PhaseOf
  <2>3. v \in Sessions /\ r \in Results
    BY <1>s DEF Sessions, ControlPcbs, Results
  <2> HIDE DEF v, r
  <2>4. Good(lwftp_control_close(v, r)) /\ View(lwftp_control_close(v, r)) = Contract!Closed
    BY <2>3, CloseGood
  <2>5. Contract!Handled(View(s), View(lwftp_control_close(v, r)))
    BY <2>2, <2>4 DEF Contract!Handled
  <2> QED BY <2>1, <2>4, <2>5, HandlerGood
<1>6. ASSUME DataConnected PROVE Good(s)' /\ Contract!Next
  <2> DEFINE t == lwftp_data_connected(q)
  <2>1. s.data_pcb = "SYN_SENT" /\ Handler(t)
    BY <1>6 DEF DataConnected, q
  <2>2. /\ t \in Sessions /\ t.control_state = s.control_state /\ t.control_pcb = s.control_pcb
        /\ t.target_state = s.target_state /\ t.op = s.op /\ t.data_pcb = "ESTABLISHED"
    BY <1>s, <1>q DEF lwftp_data_connected, Sessions, DataPcbs
  <2>3. Good(t)
    BY <2>1, <2>2 DEF Good, Settled, PcbsFollow, TargetNamed, Owes, NULL
  <2>4. Contract!Handled(View(s), View(t))
    BY <2>2 DEF View, PhaseOf, Contract!Handled
  <2> QED BY <2>1, <2>3, <2>4, HandlerGood
<1>7. ASSUME DataSent PROVE Good(s)' /\ Contract!Next
  <2>1. PICK more \in BOOLEAN : Handler(lwftp_data_sent(q, more))
    BY <1>7 DEF DataSent, q
  <2> DEFINE t == lwftp_data_sent(q, more)
  <2>2. s.data_pcb = "ESTABLISHED" /\ s.control_state \in {"XFERING", "QUIT_SENT"}
    BY <1>7 DEF DataSent
  <2>3. /\ t \in Sessions /\ t.control_state = s.control_state /\ t.control_pcb = s.control_pcb
        /\ t.target_state = s.target_state /\ t.op = s.op
    BY <1>s, <1>q DEF lwftp_data_sent, lwftp_send_next_data, Sessions, DataPcbs
  <2>4. Good(t)
    BY <2>2, <2>3 DEF Good, Settled, PcbsFollow, TargetNamed, Owes, NULL
  <2>5. Contract!Handled(View(s), View(t))
    BY <2>3 DEF View, PhaseOf, Contract!Handled
  <2> QED BY <2>1, <2>4, <2>5, HandlerGood
<1>8. ASSUME DataClosed PROVE Good(s)' /\ Contract!Next
  <2> DEFINE t == lwftp_data_recv_null(q)
  <2>1. s.data_pcb = "ESTABLISHED" /\ Handler(t)
    BY <1>8 DEF DataClosed, q
  <2>2. /\ t \in Sessions /\ t.control_state = s.control_state /\ t.control_pcb = s.control_pcb
        /\ t.target_state = s.target_state /\ t.op = s.op /\ t.data_pcb = NULL
    BY <1>s, <1>q DEF lwftp_data_recv_null, Sessions, DataPcbs
  <2>3. Good(t)
    BY <2>1, <2>2 DEF Good, Settled, PcbsFollow, TargetNamed, Owes, NULL
  <2>4. Contract!Handled(View(s), View(t))
    BY <2>2 DEF View, PhaseOf, Contract!Handled
  <2> QED BY <2>1, <2>3, <2>4, HandlerGood
<1>9. ASSUME DataErr PROVE Good(s)' /\ Contract!Next
  <2>1. s.data_pcb \in {"SYN_SENT", "ESTABLISHED"} /\ Handler(lwftp_data_err(q))
    BY <1>9 DEF DataErr, q
  <2>2. Good(lwftp_data_err(q)) /\ Contract!Handled(View(s), View(lwftp_data_err(q)))
    BY <2>1, <1>q, DataErrGood
  <2> QED BY <2>1, <2>2, HandlerGood
<1> QED BY <1>1, <1>2, <1>3, <1>4, <1>5, <1>6, <1>7, <1>8, <1>9 DEF Next

(* The session memset to zero is good and closed.                            *)
LEMMA InitGood ==
  ASSUME Init
  PROVE  Good(s) /\ Contract!Init
<1>1. s \in Sessions
  BY DEF Init, FreshSession, Sessions, ControlStates, ControlPcbs, DataPcbs
<1>2. /\ s.control_state = "CLOSED" /\ s.control_pcb = NULL /\ s.data_pcb = NULL /\ s.op = None
  BY DEF Init, FreshSession
<1>3. Good(s)
  BY <1>1, <1>2 DEF Good, Settled, PcbsFollow, TargetNamed, Owes, NULL, PassingStates, LoginStates, TransferStates, CommandStates
<1>4. Contract!Init
  BY <1>2 DEF Contract!Init, Contract!Closed, View, PhaseOf
<1> QED BY <1>3, <1>4

-----------------------------------------------------------------------------
(* What done_fn hears.                                                       *)

(* A call made on a session that is not closed is answered INPROGRESS or     *)
(* with a refusal, and with nothing else.                                    *)
LEMMA CallAnswers ==
  ASSUME NEW t, Good(t), t.control_state # "CLOSED", t.done = <<>>, NEW c \in Calls
  PROVE  Finals(Call(t, c)) \ Refusals = {}
<1> DEFINE u == Call(t, c)
<1>t. t \in Sessions
  BY DEF Good
<1>r. \A x \in Results : Return(t, x).done = <<x>>
  BY <1>t DEF Return, Sessions
<1>1. CASE c.api = "CONNECT"
  <2>1. u = Return(t, "ERR_ARGUMENT")
    BY <1>1 DEF Call, TransferOps, CommandOps, lwftp_connect
  <2> QED BY <2>1, <1>r DEF Results, Finals, Refusals
<1>2. CASE c.api \in TransferOps
  <2>1. u = lwftp_transfer(t, c.api, c.args, c.pcb)
    BY <1>2 DEF Call, TransferOps, CommandOps
  <2> DEFINE v == [t EXCEPT !.data_pcb = "CLOSED"]
             w == lwftp_start(v, c.api)
  <2>2. CASE t.control_state = "LOGGED" /\ u = Return(w, "INPROGRESS")
    <3>1. v \in Sessions /\ v.control_state = "LOGGED" /\ v.done = <<>>
      BY <1>t, <2>2 DEF Sessions, DataPcbs
    <3>2. w.done = <<>>
      BY <3>1 DEF lwftp_start, lwftp_send_msg, Sessions
    <3>3. w \in Sessions
      <4>1. lwftp_send_msg(v, "TYPE") \in Sessions
        BY <3>1, SendTyped DEF Commands
      <4>2. SentState[c.api] \in ControlStates
        BY <1>2 DEF TransferOps, SentState, ControlStates, TransferStates
      <4> QED BY <3>1, <4>1, <4>2, <1>2 DEF lwftp_start, Sessions, ControlStates, Ops
    <3> HIDE DEF w
    <3>4. Return(w, "INPROGRESS").done = <<"INPROGRESS">>
      BY <3>2, <3>3 DEF Return, Sessions
    <3> QED BY <2>2, <3>4 DEF Finals, Refusals
  <2>3. CASE u = Return(t, "ERR_ARGUMENT") \/ u = Return(t, "ERR_MEMORY")
    BY <2>3, <1>r DEF Results, Finals, Refusals
  <2> QED BY <2>1, <2>2, <2>3 DEF lwftp_transfer
<1>3. CASE c.api \in CommandOps
  <2>1. u = lwftp_command(t, c.api, c.args)
    BY <1>3 DEF Call, TransferOps, CommandOps
  <2> DEFINE w == lwftp_send(t, c.api)
  <2>2. CASE t.control_state = "LOGGED" /\ u = Return(w, "INPROGRESS")
    <3>1. w.done = <<>> /\ "done" \in DOMAIN w
      BY <1>t, <2>2 DEF lwftp_send, lwftp_send_msg, Sessions
    <3>2. u.done = <<"INPROGRESS">>
      BY <2>2, <3>1 DEF Return
    <3> QED BY <3>2 DEF Finals, Refusals
  <2>3. CASE u = Return(t, "ERR_ARGUMENT")
    BY <2>3, <1>r DEF Results, Finals, Refusals
  <2> QED BY <2>1, <2>2, <2>3 DEF lwftp_command
<1>4. CASE c.api = "CLOSE"
  <2>1. u = lwftp_close(t)
    BY <1>4 DEF Call, TransferOps, CommandOps
  <2>2. u.done = <<>>
    BY <2>1, <1>t DEF lwftp_close, Goto, lwftp_send_msg, Sessions
  <2> QED BY <2>2 DEF Finals
<1> QED BY <1>1, <1>2, <1>3, <1>4 DEF Calls

(* No call leaves CLOSED by itself: lwftp_connect waits for the connection.  *)
LEMMA CallStaysClosed ==
  ASSUME NEW t, Good(t), t.control_state = "CLOSED", NEW c \in Calls
  PROVE  Call(t, c).control_state = "CLOSED"
<1> DEFINE u == Call(t, c)
<1>t. t \in Sessions
  BY DEF Good
<1>1. \A x \in Results : Return(t, x).control_state = "CLOSED"
  BY <1>t DEF Return, Sessions
<1>2. CASE c.api = "CONNECT"
  <2>1. u = lwftp_connect(t, c.args, c.pcb, c.link)
    BY <1>2 DEF Call, TransferOps, CommandOps
  <2>2. \/ u = Return(t, "ERR_ARGUMENT") \/ u = Return(t, "ERR_MEMORY")
        \/ u = Return([t EXCEPT !.control_pcb = "SYN_SENT", !.op = "CONNECT"], "INPROGRESS")
        \/ u = Return(lwftp_control_close(t, None), "ERR_UNKNOWN")
    BY <2>1 DEF lwftp_connect
  <2> QED BY <2>2, <1>1, <1>t DEF Results, Return, Sessions, lwftp_control_close
<1>3. CASE c.api \in TransferOps
  <2>1. u = Return(t, "ERR_ARGUMENT")
    BY <1>3 DEF Call, TransferOps, CommandOps, lwftp_transfer
  <2> QED BY <2>1, <1>1 DEF Results
<1>4. CASE c.api \in CommandOps
  <2>1. u = Return(t, "ERR_ARGUMENT")
    BY <1>4 DEF Call, TransferOps, CommandOps, lwftp_command
  <2> QED BY <2>1, <1>1 DEF Results
<1>5. CASE c.api = "CLOSE"
  BY <1>5 DEF Call, TransferOps, CommandOps, lwftp_close
<1> QED BY <1>2, <1>3, <1>4, <1>5 DEF Calls

(* A handler that says nothing, or ends the session, makes a step in which   *)
(* nothing is said out of the blue, whatever its callback calls.             *)
LEMMA HandlerAnswers ==
  ASSUME NEW t, Good(t), Handler(t), t.done = <<>> \/ t.control_state = "CLOSED"
  PROVE  Finals(s') \ Refusals = {} \/ s'.control_state = "CLOSED"
<1>1. CASE t.done = <<>>
  BY <1>1 DEF Handler, Finals
<1>2. CASE t.control_state = "CLOSED"
  BY <1>2, CallStaysClosed DEF Handler
<1> QED BY <1>1, <1>2

(* Nothing is owed: the session is logged in and idle, or it is quitting.    *)
LEMMA NothingOwed ==
  ASSUME NEW t, Good(t), t.op = None, t.control_state # "CLOSED"
  PROVE  t.control_state \in {"LOGGED", "QUIT_SENT"}
<1>1. None \notin Ops \cup {"CONNECT", "RNFR"}
  BY DEF None, Ops, TransferOps, CommandOps
<1>2. t.control_state \in ControlStates \ PassingStates
  BY DEF Good, Settled, Sessions
<1> QED BY <1>1, <1>2 DEF Good, Owes, ControlStates, Ops

(* lwftp_control_process when nothing is owed: it ignores the reply, or ends *)
(* a session that was quitting.                                              *)
LEMMA ProcessAnswers ==
  ASSUME NEW t, Good(t), t.control_state \in {"LOGGED", "QUIT_SENT"}, t.done = <<>>,
         NEW r \in Nat, NEW opened \in BOOLEAN, NEW more \in BOOLEAN
  PROVE  LET w == lwftp_control_process(t, r, opened, more)
         IN  w.done = <<>> \/ w.control_state = "CLOSED"
<1> DEFINE u == FirstSwitch(t, r, opened, more)
           w == lwftp_control_process(t, r, opened, more)
           res == ResultOf(t.control_state, r)
<1>t. t \in Sessions
  BY DEF Good
<1>w. w = SecondSwitch(u, res)
  BY DEF lwftp_control_process
<1>1. CASE u = t
  BY <1>1, <1>w DEF SecondSwitch
<1>2. CASE t.control_state = "QUIT_SENT" /\ u = Goto(t, "CLOSING")
  <2>1. u \in Sessions /\ u.control_state = "CLOSING"
    BY <1>2, <1>t DEF Goto, Sessions, ControlStates, PassingStates
  <2>2. w = lwftp_control_close(u, res)
    BY <2>1, <1>w DEF SecondSwitch
  <2> QED BY <2>1, <2>2 DEF lwftp_control_close, Report, Sessions
<1>3. u = t \/ (t.control_state = "QUIT_SENT" /\ u = Goto(t, "CLOSING"))
  <2>1. "QUIT_SENT" \notin DOMAIN Expected /\ Otherwise("QUIT_SENT") = "CLOSING"
    BY DEF Expected, Otherwise, LoginStates, TransferStates, CommandStates
  <2>2. "LOGGED" \notin Awaiting
    BY DEF Awaiting, LoginStates, TransferStates, CommandStates
  <2> QED BY <2>1, <2>2 DEF FirstSwitch
<1> QED BY <1>1, <1>2, <1>3

(* A step of a client that is owed nothing.                                  *)
LEMMA StepAnswers ==
  ASSUME Good(s), Next, s.op = None, s.control_state # "CLOSED"
  PROVE  Finals(s') \ Refusals = {} \/ s'.control_state = "CLOSED"
<1> DEFINE q == Quiet(s)
<1>q. /\ Good(q) /\ q.control_pcb = s.control_pcb /\ q.data_pcb = s.data_pcb
      /\ q.control_state = s.control_state /\ q.op = s.op
  BY QuietGood
<1>s. q \in Sessions
  BY <1>q DEF Good
<1>d. q.done = <<>>
  <2>1. s \in Sessions
    BY DEF Good
  <2> QED BY <2>1 DEF Quiet, Sessions
<1>i. s.control_state \in {"LOGGED", "QUIT_SENT"}
  BY NothingOwed
<1> HIDE DEF q
<1>1. CASE UserCall
  <2>1. PICK c \in Calls : s' = Call(q, c)
    BY <1>1 DEF UserCall, q
  <2> QED BY <2>1, <1>q, <1>d, CallAnswers
<1>2. CASE ControlConnected
  BY <1>2 DEF ControlConnected, Good, PcbsFollow
<1>3. CASE ControlReply
  <2>1. PICK r \in Responses, opened \in BOOLEAN, more \in BOOLEAN :
          Handler(lwftp_control_process(q, r, opened, more))
    BY <1>3 DEF ControlReply, q
  <2>2. s.control_pcb = "ESTABLISHED" /\ r \in Nat
    BY <1>3, ResponsesAssumption DEF ControlReply
  <2> DEFINE w == lwftp_control_process(q, r, opened, more)
  <2>3. Good(w)
    BY <2>2, <1>q, ControlProcessGood
  <2>4. w.done = <<>> \/ w.control_state = "CLOSED"
    BY <2>2, <1>q, <1>i, <1>d, ProcessAnswers
  <2> QED BY <2>1, <2>3, <2>4, HandlerAnswers
<1>4. CASE ControlClosed \/ ControlErr
  <2>1. PICK v \in Sessions, r \in Results :
          Handler(lwftp_control_close(v, r))
    <3>1. [q EXCEPT !.control_pcb = NULL] \in Sessions
      BY <1>s DEF Sessions, ControlPcbs
    <3>2. {"ERR_CLOSED", "ERR_UNKNOWN", "ERR_CONNECT"} \subseteq Results
      BY DEF Results
    <3>3. CASE ControlClosed
      BY <3>3, <3>2, <1>s DEF ControlClosed, q, lwftp_control_recv_null, lwftp_control_recv_err
    <3>4. CASE ControlErr
      BY <3>4, <3>1, <3>2 DEF ControlErr, q, lwftp_control_err
    <3> QED BY <1>4, <3>3, <3>4
  <2> DEFINE w == lwftp_control_close(v, r)
  <2>2. Good(w)
    BY CloseGood
  <2>3. w.control_state = "CLOSED"
    BY DEF lwftp_control_close, Report, Sessions
  <2> QED BY <2>1, <2>2, <2>3, HandlerAnswers
<1>5. CASE DataConnected \/ DataSent \/ DataClosed \/ DataErr
  <2>1. \E t : Handler(t) /\ t.done = <<>>
    <3>1. CASE DataConnected
      <4>1. Handler(lwftp_data_connected(q))
        BY <3>1 DEF DataConnected, q
      <4>2. lwftp_data_connected(q).done = <<>>
        BY <1>s, <1>d DEF lwftp_data_connected, Sessions
      <4> QED BY <4>1, <4>2
    <3>2. CASE DataSent
      <4>1. PICK more \in BOOLEAN : Handler(lwftp_data_sent(q, more))
        BY <3>2 DEF DataSent, q
      <4>2. lwftp_data_sent(q, more).done = <<>>
        BY <1>s, <1>d DEF lwftp_data_sent, lwftp_send_next_data, Sessions
      <4> QED BY <4>1, <4>2
    <3>3. CASE DataClosed
      <4>1. Handler(lwftp_data_recv_null(q))
        BY <3>3 DEF DataClosed, q
      <4>2. lwftp_data_recv_null(q).done = <<>>
        BY <1>s, <1>d DEF lwftp_data_recv_null, Sessions
      <4> QED BY <4>1, <4>2
    <3>4. CASE DataErr
      <4>1. Handler(lwftp_data_err(q))
        BY <3>4 DEF DataErr, q
      <4>2. lwftp_data_err(q).done = <<>>
        BY <1>s, <1>d, <1>i, <1>q DEF lwftp_data_err, Sessions
      <4> QED BY <4>1, <4>2
    <3> QED BY <1>5, <3>1, <3>2, <3>3, <3>4
  <2> QED BY <2>1 DEF Handler, Finals
<1> QED BY <1>1, <1>2, <1>3, <1>4, <1>5 DEF Next

-----------------------------------------------------------------------------
(* Good(s) is an invariant of every client on every network.                 *)
THEOREM GoodAlways == Spec => []IInv
<1>1. Init => IInv
  BY InitGood DEF IInv
<1>2. IInv /\ [Next]_s => IInv'
  <2>1. ASSUME IInv, Next PROVE IInv'
    BY <2>1, StepGood DEF IInv
  <2>2. ASSUME IInv, UNCHANGED s PROVE IInv'
    BY <2>2 DEF IInv
  <2> QED BY <2>1, <2>2
<1> QED BY <1>1, <1>2, PTL DEF Spec

(* The session keeps its type, whatever the server sends.                    *)
THEOREM TypeCorrect == Spec => []TypeOK
<1>1. IInv => TypeOK
  BY DEF IInv, Good, TypeOK
<1> QED BY <1>1, GoodAlways, PTL

(* A control state that is not CLOSED has a control pcb, a data pcb exists   *)
(* only in a transfer, no handler stops half way, and target_state names the *)
(* transfer.                                                                 *)
THEOREM SessionSafe ==
  Spec => [](NoPassingState /\ PcbDiscipline /\ TargetIsTransfer)
<1>1. IInv => NoPassingState /\ PcbDiscipline /\ TargetIsTransfer
  BY DEF IInv, Good, NoPassingState, PcbDiscipline, TargetIsTransfer
<1> QED BY <1>1, GoodAlways, PTL

(* The operation the caller is owed a result of is the one the session works *)
(* on, and nothing is owed in LOGGED or once the session is closed.          *)
THEOREM OwedAlways == Spec => []OwedOp
<1>1. IInv => OwedOp
  BY DEF IInv, Good, OwedOp
<1> QED BY <1>1, GoodAlways, PTL

(* done_fn is told the outcome of an operation only if a call is owed one,   *)
(* or the session ends in that step.                                         *)
THEOREM ResultsAsked == Spec => NoUnaskedResult
<1> DEFINE A == Finals(s') \ Refusals # {} =>
                  s.op # None \/ s.control_state = "CLOSED" \/ s'.control_state = "CLOSED"
<1>1. IInv /\ [Next]_s => [A]_s
  BY StepAnswers DEF IInv
<1> QED BY <1>1, GoodAlways, PTL DEF Spec, NoUnaskedResult

(* lwftp.c implements the contract of FtpContract.                           *)
THEOREM ContractKept == Spec => KeepsContract
<1>1. Init => Contract!Init
  BY InitGood
<1>2. IInv /\ [Next]_s => [Contract!Next]_(View(s))
  <2>1. ASSUME IInv, Next PROVE Contract!Next
    BY <2>1, StepGood DEF IInv
  <2>2. ASSUME UNCHANGED s PROVE UNCHANGED View(s)
    BY <2>2 DEF View, PhaseOf
  <2> QED BY <2>1, <2>2
<1> QED BY <1>1, <1>2, GoodAlways, PTL DEF Spec, KeepsContract, Contract!Spec
=============================================================================
