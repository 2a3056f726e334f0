------------------------------- MODULE LwFtp -------------------------------
(***************************************************************************)
(* The FTP client session of src/src/lwftp.c, as operators on a session.    *)
(*                                                                         *)
(* Every function of lwftp.c runs to completion on the one thread of the    *)
(* program (NO_SYS = 1, so tcpip_callback is a plain call): each handler is *)
(* an operator from the session before it to the session after it.  Modules *)
(* that extend this one turn the operators into actions.                    *)
(*                                                                         *)
(* A session record holds the internal data of lwftp_session_t:             *)
(*   control_state, target_state   the fields of the same name, without the *)
(*                                 LWFTP_ prefix                            *)
(*   control_pcb, data_pcb         NULL, or the lwIP state of the pcb the   *)
(*                                 pointer refers to                        *)
(* (data_state is written by lwftp_data_connected and never read; the lwIP  *)
(* state of data_pcb carries it), what the running handler has done so far: *)
(*   sent                          commands written to the control pcb      *)
(*   done                          results passed to done_fn                *)
(* and two pieces of history:                                               *)
(*   op                            the call that was answered INPROGRESS    *)
(*                                 and has no final result yet              *)
(*   wild                          whether a NULL data_pcb was dereferenced *)
(***************************************************************************)
EXTENDS Naturals, Sequences

NULL == "NULL"
None == "none"

(* Operations that need a data connection, and operations that do not.      *)
TransferOps == {"RETR", "STOR", "MLSD"}
CommandOps == {"DELE", "RMD", "CWD", "PWD", "RNFR"}
Ops == TransferOps \cup CommandOps

(* enum lwftp_results, the members this code can pass to done_fn.           *)
Results == {"OK", "INPROGRESS", "LOGGED", "ERR_UNKNOWN", "ERR_ARGUMENT",
            "ERR_MEMORY", "ERR_CONNECT", "ERR_CLOSED", "ERR_SRVR_RESP",
            "ERR_INTERNAL", "ERR_FILENAME"}

(* Commands on the control connection.  "PATH" is a path without a verb,    *)
(* which only the "Unexpected internal state" branch would write.           *)
Commands == Ops \cup {"USER", "PASS", "TYPE", "PASV", "RNTO", "QUIT", "PATH"}

(* The control state in which the reply to an operation is awaited.         *)
SentState == [RETR |-> "RETR_SENT", STOR |-> "STOR_SENT", MLSD |-> "MLSD_SENT",
              DELE |-> "DELE_SENT", RMD |-> "RMD_SENT", CWD |-> "CWD_SENT",
              PWD |-> "PWD_SENT", RNFR |-> "RNFR_SENT"]

TransferStates == {"RETR_SENT", "STOR_SENT", "MLSD_SENT"}
CommandStates == {"DELE_SENT", "RMD_SENT", "CWD_SENT", "PWD_SENT",
                  "RNFR_SENT", "RNTO_SENT"}
LoginStates == {"CONNECTED", "USER_SENT", "PASS_SENT"}
PassingStates == {"DATAEND", "CMDEND", "QUIT", "CLOSING"}
ControlStates == {"CLOSED", "LOGGED", "TYPE_SENT", "PASV_SENT", "XFERING",
                  "QUIT_SENT"}
                 \cup LoginStates \cup TransferStates \cup CommandStates
                 \cup PassingStates

(* lwIP states: a pcb from tcp_new is CLOSED until tcp_connect succeeds.    *)
ControlPcbs == {NULL, "SYN_SENT", "ESTABLISHED"}
DataPcbs == {NULL, "CLOSED", "SYN_SENT", "ESTABLISHED"}

Sessions ==
  [control_state : ControlStates, target_state : ControlStates,
   control_pcb : ControlPcbs, data_pcb : DataPcbs,
   sent : Seq(Commands), done : Seq(Results),
   op : Ops \cup {"CONNECT", None}, wild : BOOLEAN]

(* memset(&s, 0, sizeof(s)) before lwftp_connect.                           *)
FreshSession ==
  [control_state |-> "CLOSED", target_state |-> "CLOSED",
   control_pcb |-> NULL, data_pcb |-> NULL,
   sent |-> <<>>, done |-> <<>>, op |-> None, wild |-> FALSE]

(* A handler starts: nothing written and nothing reported yet.              *)
Quiet(s) == [s EXCEPT !.sent = <<>>, !.done = <<>>]

(* lwftp_send_msg hands cmd to tcp_write; the three writes of one command    *)
(* are one here.  No caller looks at the error it returns, so the session    *)
(* goes on as if the command were on its way.  Whether tcp_write took it is  *)
(* for the network to say: see "unsent" in FtpSession and FtpApp.            *)
lwftp_send_msg(s, cmd) == [s EXCEPT !.sent = Append(@, cmd)]

(* done_fn called with the final result of what was under way.              *)
Report(s, result) == [s EXCEPT !.done = Append(@, result), !.op = None]

(* done_fn called by an API function with its return value.                 *)
Return(s, retval) == [s EXCEPT !.done = Append(@, retval)]

-----------------------------------------------------------------------------
(* Data connection.                                                         *)

(* lwftp_send_next_data: more says whether data_source has bytes left.      *)
(* The mss is read through data_pcb; with a NULL pcb tcp_write and          *)
(* tcp_close return ERR_ARG, which is ignored, so nothing else changes.     *)
lwftp_send_next_data(s, more) ==
  [s EXCEPT !.wild = @ \/ s.data_pcb = NULL,
            !.data_pcb = IF more THEN @ ELSE NULL]

(* lwftp_data_sent: the acknowledged length goes to data_source, which      *)
(* keeps the offset (the session does not), then the next block is sent.    *)
lwftp_data_sent(s, more) == lwftp_send_next_data(s, more)

(* lwftp_data_recv with a pbuf goes to data_sink and leaves the session     *)
(* alone; with NULL (the peer closed) it closes the pcb.                    *)
lwftp_data_recv_null(s) == [s EXCEPT !.data_pcb = NULL]

(* Mutant of lwftp_data_open: gives the pcb up when it cannot connect.      *)
FreesOnFailure(s, opened) == [s EXCEPT !.data_pcb = IF opened THEN "SYN_SENT" ELSE NULL]

(* lwftp_data_open: opened says whether the reply could be parsed and       *)
(* tcp_connect succeeded.  The caller ignores the error.                    *)
lwftp_data_open(s, opened) ==
  [s EXCEPT !.data_pcb = IF opened THEN "SYN_SENT" ELSE @]

lwftp_data_connected(s) == [s EXCEPT !.data_pcb = "ESTABLISHED"]

(* Mutant of lwftp_data_close: forgets the reset of data_pcb.               *)
KeepsDataPcb(s, result) == Report(s, result)

lwftp_data_close(s, result) == Report([s EXCEPT !.data_pcb = NULL], result)

-----------------------------------------------------------------------------
(* Control connection.                                                      *)

(* lwftp_control_close; a negative result, here None, is not reported.      *)
lwftp_control_close(s, result) ==
  LET t == [s EXCEPT !.data_pcb = NULL, !.control_pcb = NULL,
                     !.control_state = "CLOSED"]
  IN  IF result = None THEN t ELSE Report(t, result)

(* First switch of lwftp_control_process: the reply that moves a state on.  *)
Expected ==
  [CONNECTED |-> 220, USER_SENT |-> 331, PASS_SENT |-> 230, TYPE_SENT |-> 200,
   PASV_SENT |-> 227, RETR_SENT |-> 150, STOR_SENT |-> 150, MLSD_SENT |-> 150,
   RNFR_SENT |-> 350]

(* Mutants of Otherwise: a failed QUIT returns to LOGGED; a refused transfer *)
(* counts as started.                                                       *)
QuitSurvives(st) ==
  CASE st \in LoginStates \cup {"TYPE_SENT", "PASV_SENT"} -> "QUIT"
    [] st \in TransferStates \cup {"XFERING"}             -> "DATAEND"
    [] OTHER                                              -> "CMDEND"
RefusalStarts(st) ==
  CASE st \in LoginStates \cup {"TYPE_SENT", "PASV_SENT"} -> "QUIT"
    [] st \in TransferStates                              -> "XFERING"
    [] st = "XFERING"                                     -> "DATAEND"
    [] st \in CommandStates                               -> "CMDEND"
    [] st = "QUIT_SENT"                                   -> "CLOSING"

(* ... and where any other reply leads.                                     *)
Otherwise(st) ==
  CASE st \in LoginStates \cup {"TYPE_SENT", "PASV_SENT"} -> "QUIT"
    [] st \in TransferStates \cup {"XFERING"}             -> "DATAEND"
    [] st \in CommandStates                               -> "CMDEND"
    [] st = "QUIT_SENT"                                   -> "CLOSING"

(* States whose case looks at the reply.  In LOGGED and CLOSED it is        *)
(* "unhandled"; DATAEND and CMDEND are forced ends that need no reply.      *)
Awaiting == LoginStates \cup TransferStates \cup CommandStates
            \cup {"TYPE_SENT", "PASV_SENT", "XFERING", "QUIT_SENT"}

(* 227 in PASV_SENT: connect for data, then issue the transfer command.     *)
lwftp_issue_transfer(s) ==
  LET known == s.target_state \in TransferStates
      verb  == CHOOSE v \in TransferOps : SentState[v] = s.target_state
      next  == IF known THEN s.target_state ELSE "QUIT"
  IN  [lwftp_send_msg(s, IF known THEN verb ELSE "PATH")
         EXCEPT !.target_state = next, !.control_state = next]

Goto(s, st) == [s EXCEPT !.control_state = st]

(* Mutant of Advance: does not wait for the reply to RNTO.                  *)
RenameUnconfirmed(s, opened, more) ==
  CASE s.control_state = "CONNECTED" -> Goto(lwftp_send_msg(s, "USER"), "USER_SENT")
    [] s.control_state = "USER_SENT" -> Goto(lwftp_send_msg(s, "PASS"), "PASS_SENT")
    [] s.control_state = "PASS_SENT" -> Report(Goto(s, "LOGGED"), "LOGGED")
    [] s.control_state = "TYPE_SENT" -> Goto(lwftp_send_msg(s, "PASV"), "PASV_SENT")
    [] s.control_state = "PASV_SENT" -> lwftp_issue_transfer(lwftp_data_open(s, opened))
    [] s.control_state = "STOR_SENT" -> lwftp_data_sent(Goto(s, "XFERING"), more)
    [] s.control_state = "RNFR_SENT" -> Goto(lwftp_send_msg(s, "RNTO"), "CMDEND")
    [] OTHER                         -> Goto(s, "XFERING")

(* The expected reply in each state that has one.                           *)
Advance(s, opened, more) ==
  CASE s.control_state = "CONNECTED" -> Goto(lwftp_send_msg(s, "USER"), "USER_SENT")
    [] s.control_state = "USER_SENT" -> Goto(lwftp_send_msg(s, "PASS"), "PASS_SENT")
    [] s.control_state = "PASS_SENT" -> Report(Goto(s, "LOGGED"), "LOGGED")
    [] s.control_state = "TYPE_SENT" -> Goto(lwftp_send_msg(s, "PASV"), "PASV_SENT")
    [] s.control_state = "PASV_SENT" -> lwftp_issue_transfer(lwftp_data_open(s, opened))
    [] s.control_state = "STOR_SENT" -> lwftp_data_sent(Goto(s, "XFERING"), more)
    [] s.control_state = "RNFR_SENT" -> Goto(lwftp_send_msg(s, "RNTO"), "RNTO_SENT")
    [] OTHER                         -> Goto(s, "XFERING")

(* Mutant of FirstSwitch: a reply in LOGGED ends a command.                 *)
EndsInLogged(s, response, opened, more) ==
  IF s.control_state = "LOGGED" /\ response # 0 THEN Goto(s, "CMDEND")
  ELSE IF response = 0 \/ s.control_state \notin Awaiting THEN s
  ELSE IF /\ s.control_state \in DOMAIN Expected
          /\ response = Expected[s.control_state]
       THEN Advance(s, opened, more)
       ELSE Goto(s, Otherwise(s.control_state))

FirstSwitch(s, response, opened, more) ==
  IF response = 0 \/ s.control_state \notin Awaiting THEN s
  ELSE IF /\ s.control_state \in DOMAIN Expected
          /\ response = Expected[s.control_state]
       THEN Advance(s, opened, more)
       ELSE Goto(s, Otherwise(s.control_state))

(* The local variable result when the second switch is reached.             *)
Completes ==
  [DELE_SENT |-> 250, RMD_SENT |-> 250, CWD_SENT |-> 250, PWD_SENT |-> 257,
   RNTO_SENT |-> 250, XFERING |-> 226, QUIT_SENT |-> 221]

(* Mutant of ResultOf: RNTO counts as done whatever the reply.              *)
RenameAlwaysOk(st, response) ==
  CASE st = "RNTO_SENT"                                    -> "OK"
    [] st \in DOMAIN Completes /\ response = Completes[st] -> "OK"
    [] response = 550 /\ st \in {"RETR_SENT", "DELE_SENT", "RMD_SENT",
                                 "CWD_SENT", "RNFR_SENT"}  -> "ERR_FILENAME"
    [] OTHER                                               -> "ERR_SRVR_RESP"

(* Mutant of ResultOf: a transfer is over when a reply says so, any reply.   *)
AnyEndIsOk(st, response) ==
  CASE st = "XFERING"                                      -> "OK"
    [] st \in DOMAIN Completes /\ response = Completes[st] -> "OK"
    [] OTHER                                               -> "ERR_SRVR_RESP"

ResultOf(st, response) ==
  CASE st \in DOMAIN Completes /\ response = Completes[st] -> "OK"
    [] response = 550 /\ st \in {"RETR_SENT", "DELE_SENT", "RMD_SENT",
                                 "CWD_SENT", "RNFR_SENT"}  -> "ERR_FILENAME"
    [] st = "XFERING" /\ response \notin {0, 226}           -> "ERR_CLOSED"
    [] st = "QUIT_SENT" /\ response \notin {0, 221}         -> "ERR_UNKNOWN"
    [] OTHER                                               -> "ERR_SRVR_RESP"

(* Mutant of SecondSwitch: done_fn is not called at the end of a command.   *)
SilentEnd(s, result) ==
  CASE s.control_state = "DATAEND" -> lwftp_data_close(Goto(s, "LOGGED"), result)
    [] s.control_state = "CMDEND"  -> Goto(s, "LOGGED")
    [] s.control_state = "QUIT"    -> Goto(lwftp_send_msg(s, "QUIT"), "QUIT_SENT")
    [] s.control_state = "CLOSING" -> lwftp_control_close(s, result)
    [] OTHER                       -> s

SecondSwitch(s, result) ==
  CASE s.control_state = "DATAEND" -> lwftp_data_close(Goto(s, "LOGGED"), result)
    [] s.control_state = "CMDEND"  -> Report(Goto(s, "LOGGED"), result)
    [] s.control_state = "QUIT"    -> Goto(lwftp_send_msg(s, "QUIT"), "QUIT_SENT")
    [] s.control_state = "CLOSING" -> lwftp_control_close(s, result)
    [] OTHER                       -> s

(* response is 0 when the pbuf does not start with a number, or is NULL.    *)
lwftp_control_process(s, response, opened, more) ==
  SecondSwitch(FirstSwitch(s, response, opened, more),
               ResultOf(s.control_state, response))

(* lwftp_data_err: lwIP has freed the pcb.                                  *)
lwftp_data_err(s) ==
  LET t == [s EXCEPT !.data_pcb = NULL]
  IN  IF t.control_state = "XFERING"
      THEN lwftp_control_process(Goto(t, "DATAEND"), 0, FALSE, FALSE)
      ELSE t

(* lwftp_control_recv without a pbuf (the peer closed), or with an error.   *)
lwftp_control_recv_null(s) == lwftp_control_close(s, "ERR_CLOSED")
lwftp_control_recv_err(s) == lwftp_control_close(s, "ERR_UNKNOWN")

lwftp_control_err(s) ==
  lwftp_control_close([s EXCEPT !.control_pcb = NULL],
                      IF s.control_state = "CLOSED" THEN "ERR_CONNECT"
                                                    ELSE "ERR_CLOSED")

lwftp_control_connected(s) ==
  [s EXCEPT !.control_state = "CONNECTED", !.control_pcb = "ESTABLISHED"]

-----------------------------------------------------------------------------
(* API.  args: the pointers the call checks are set; pcb: tcp_new returned  *)
(* a pcb; link: tcp_connect succeeded.                                      *)

lwftp_connect(s, args, pcb, link) ==
  IF s.control_state # "CLOSED" \/ s.control_pcb # NULL \/ s.data_pcb # NULL \/ ~args
  THEN Return(s, "ERR_ARGUMENT")
  ELSE IF ~pcb THEN Return(s, "ERR_MEMORY")
  ELSE IF link
       THEN Return([s EXCEPT !.control_pcb = "SYN_SENT", !.op = "CONNECT"],
                   "INPROGRESS")
       ELSE Return(lwftp_control_close(s, None), "ERR_UNKNOWN")

(* lwftp_start_RETR, lwftp_start_STOR, lwftp_start_MLSD.                    *)
lwftp_start(s, op) ==
  IF s.control_state = "LOGGED"
  THEN [lwftp_send_msg(s, "TYPE") EXCEPT !.control_state = "TYPE_SENT",
                                         !.target_state = SentState[op],
                                         !.op = op]
  ELSE Return(s, "ERR_INTERNAL")

(* lwftp_retrieve, lwftp_store, lwftp_mlsd.                                 *)
lwftp_transfer(s, op, args, pcb) ==
  IF s.control_state # "LOGGED" \/ ~args \/ s.data_pcb # NULL
  THEN Return(s, "ERR_ARGUMENT")
  ELSE IF ~pcb THEN Return(s, "ERR_MEMORY")
  ELSE Return(lwftp_start([s EXCEPT !.data_pcb = "CLOSED"], op), "INPROGRESS")

(* lwftp_send_DELE, _RMD, _CWD, _PWD, _RNFR.                                *)
lwftp_send(s, op) ==
  IF s.control_state = "LOGGED"
  THEN [lwftp_send_msg(s, op) EXCEPT !.control_state = SentState[op], !.op = op]
  ELSE Return(s, "ERR_INTERNAL")

(* lwftp_delete, lwftp_remove_dir, lwftp_change_dir, lwftp_print_dir,       *)
(* lwftp_move.  lwftp_print_dir takes no path.                              *)
lwftp_command(s, op, args) ==
  IF s.control_state # "LOGGED" \/ (op # "PWD" /\ ~args) \/ s.data_pcb # NULL
  THEN Return(s, "ERR_ARGUMENT")
  ELSE Return(lwftp_send(s, op), "INPROGRESS")

(* lwftp_close and lwftp_send_QUIT.                                         *)
lwftp_close(s) ==
  IF s.control_state = "CLOSED" \/ s.control_pcb = NULL THEN s
  ELSE Goto(lwftp_send_msg(s, "QUIT"), "QUIT_SENT")
=============================================================================
