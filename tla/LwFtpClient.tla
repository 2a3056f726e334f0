---------------------------- MODULE LwFtpClient ----------------------------
(***************************************************************************)
(* A client of lwftp.c on a network that may do anything TCP allows.        *)
(*                                                                         *)
(* The server may send any reply at any time, refuse, reset or close either *)
(* connection; the caller may make any API call, from its main loop or from *)
(* the done_fn that a handler calls.  What holds here holds whatever server *)
(* and whatever caller the session has.                                     *)
(***************************************************************************)
EXTENDS LwFtp

CONSTANT Responses   \* values the number at the start of a pbuf can have

ASSUME ResponsesAssumption == Responses \subseteq Nat

VARIABLE s           \* the session

Init == s = FreshSession

-----------------------------------------------------------------------------
(* One API call: which one, and what the calls it makes return.             *)
Calls ==
  [api : {"CONNECT"}, args : BOOLEAN, pcb : BOOLEAN, link : BOOLEAN]
  \cup [api : TransferOps, args : BOOLEAN, pcb : BOOLEAN, link : {TRUE}]
  \cup [api : CommandOps, args : BOOLEAN, pcb : {TRUE}, link : {TRUE}]
  \cup [api : {"CLOSE"}, args : {TRUE}, pcb : {TRUE}, link : {TRUE}]

Call(t, c) ==
  CASE c.api = "CONNECT"        -> lwftp_connect(t, c.args, c.pcb, c.link)
    [] c.api \in TransferOps    -> lwftp_transfer(t, c.api, c.args, c.pcb)
    [] c.api \in CommandOps     -> lwftp_command(t, c.api, c.args)
    [] OTHER                    -> lwftp_close(t)

(* A handler leaves the session t; if it called done_fn, the callback may   *)
(* have made an API call before the handler returned.                       *)
Handler(t) ==
  \/ s' = t
  \/ t.done # <<>> /\ \E c \in Calls : s' = Call(t, c)

-----------------------------------------------------------------------------
(* The caller's main loop.                                                  *)
UserCall == \E c \in Calls : s' = Call(Quiet(s), c)

(* Callbacks of the control pcb.                                            *)
ControlConnected ==
  /\ s.control_pcb = "SYN_SENT"
  /\ Handler(lwftp_control_connected(Quiet(s)))

ControlReply ==
  /\ s.control_pcb = "ESTABLISHED"
  /\ \E response \in Responses, opened, more \in BOOLEAN :
       Handler(lwftp_control_process(Quiet(s), response, opened, more))

ControlClosed ==
  /\ s.control_pcb = "ESTABLISHED"
  /\ \/ Handler(lwftp_control_recv_null(Quiet(s)))
     \/ Handler(lwftp_control_recv_err(Quiet(s)))

ControlErr ==
  /\ s.control_pcb # NULL
  /\ Handler(lwftp_control_err(Quiet(s)))

(* Callbacks of the data pcb; they are set, and the pcb connects, only      *)
(* once lwftp_data_open has run.                                            *)
DataConnected ==
  /\ s.data_pcb = "SYN_SENT"
  /\ Handler(lwftp_data_connected(Quiet(s)))

(* An acknowledgement: only a STOR writes to the data connection.           *)
DataSent ==
  /\ s.data_pcb = "ESTABLISHED"
  /\ s.control_state \in {"XFERING", "QUIT_SENT"}
  /\ s.target_state = "STOR_SENT"
  /\ \E more \in BOOLEAN : Handler(lwftp_data_sent(Quiet(s), more))

DataClosed ==
  /\ s.data_pcb = "ESTABLISHED"
  /\ Handler(lwftp_data_recv_null(Quiet(s)))

DataErr ==
  /\ s.data_pcb \in {"SYN_SENT", "ESTABLISHED"}
  /\ Handler(lwftp_data_err(Quiet(s)))

Next == \/ UserCall
        \/ DataConnected \/ DataSent \/ DataClosed \/ DataErr
        \/ ControlConnected \/ ControlClosed \/ ControlErr \/ ControlReply

Spec == Init /\ [][Next]_s

-----------------------------------------------------------------------------
(* Properties.                                                              *)

(* The session record keeps the types of lwftp_session_t.                   *)
TypeOK == s \in Sessions

(* No handler leaves the session in one of the states the second switch of  *)
(* lwftp_control_process is there to leave (DATAEND, CMDEND, QUIT,          *)
(* CLOSING), whatever reply, error or callback came: a session parked in    *)
(* one of them would ignore every later reply.                              *)
Settled(t) == t.control_state \notin PassingStates
NoPassingState == Settled(s)

(* The pcbs follow the state.  The control pcb lives exactly as long as the *)
(* session: a session that is not CLOSED has a connected pcb to write to.   *)
(* A data pcb exists only while a transfer is under way or the session is   *)
(* quitting, so LOGGED never refuses a call because of one and tcp_new      *)
(* never overwrites (leaks) one; and it connects only after 227: before, it *)
(* is a fresh pcb without callbacks.                                        *)
PcbsFollow(t) ==
  /\ t.control_state # "CLOSED" => t.control_pcb = "ESTABLISHED"
  /\ t.control_state = "CLOSED" => t.control_pcb # "ESTABLISHED"
  /\ t.data_pcb # NULL =>
       t.control_state \in TransferStates
                           \cup {"TYPE_SENT", "PASV_SENT", "XFERING", "QUIT_SENT"}
  /\ t.control_state \in {"TYPE_SENT", "PASV_SENT"} => t.data_pcb = "CLOSED"
PcbDiscipline == PcbsFollow(s)

(* From TYPE until the end of the transfer target_state names the transfer: *)
(* the "Unexpected internal state" branch at 227 is dead code.              *)
TargetNamed(t) ==
  /\ t.control_state \in {"TYPE_SENT", "PASV_SENT", "XFERING"} =>
       t.target_state \in TransferStates
  /\ t.control_state \in TransferStates => t.target_state = t.control_state
TargetIsTransfer == TargetNamed(s)

(* The call the caller is waiting for is the one the session is working on: *)
(* nothing is owed in LOGGED or in a closed session, and in every other     *)
(* state but QUIT_SENT the operation owed is the one whose reply is awaited.*)
Owes(t) ==
  /\ t.control_state = "LOGGED" => t.op = None
  /\ t.control_state = "CLOSED" /\ t.control_pcb = NULL => t.op = None
  /\ t.control_state = "CLOSED" /\ t.control_pcb # NULL => t.op = "CONNECT"
  /\ t.control_state \in LoginStates => t.op = "CONNECT"
  /\ t.control_state \in {"TYPE_SENT", "PASV_SENT", "XFERING"} =>
       t.op \in TransferOps /\ SentState[t.op] = t.target_state
  /\ t.control_state \in TransferStates \cup CommandStates =>
       IF t.control_state = "RNTO_SENT" THEN t.op = "RNFR"
       ELSE t.op \in Ops /\ SentState[t.op] = t.control_state
OwedOp == Owes(s)

(* The inductive invariant.                                                 *)
Good(t) == t \in Sessions /\ Settled(t) /\ PcbsFollow(t) /\ TargetNamed(t) /\ Owes(t)
IInv == Good(s)

(* What done_fn was told in a step, without the INPROGRESS answers.         *)
Finals(t) == { t.done[i] : i \in 1..Len(t.done) } \ {"INPROGRESS"}

(* Results that a refused API call is answered with.                        *)
Refusals == {"ERR_ARGUMENT", "ERR_MEMORY", "ERR_INTERNAL"}

(* No result out of the blue: done_fn is called with the outcome of an      *)
(* operation only if a call is owed one, or because the session ends in     *)
(* that step.  (When it ends with nothing owed, the callback of the last    *)
(* operation hears of it.)                                                  *)
NoUnaskedResult ==
  [][ Finals(s') \ Refusals # {} =>
        \/ s.op # None
        \/ s.control_state = "CLOSED" \/ s'.control_state = "CLOSED" ]_s

(* The session seen by its caller.                                          *)
PhaseOf(t) ==
  IF t.control_state = "CLOSED" THEN IF t.control_pcb = NULL THEN "closed" ELSE "opening"
  ELSE IF t.control_state \in LoginStates THEN "opening"
  ELSE IF t.control_state = "LOGGED" THEN "idle"
  ELSE IF t.control_state = "QUIT_SENT" THEN "leaving"
  ELSE "working"

View(t) == [phase |-> PhaseOf(t), owed |-> t.op]

Contract == INSTANCE FtpContract WITH Operations <- Ops, Nothing <- None,
                                      contract <- View(s)

(* lwftp.c keeps the contract of FtpContract with whatever server and       *)
(* whatever caller: one operation at a time, accepted only when idle and    *)
(* answered once, and none served once the session is leaving.              *)
KeepsContract == Contract!Spec
=============================================================================
