---------------------------- MODULE FtpAppProofs ----------------------------
(***************************************************************************)
(* Proofs about FtpApp: the program is a client of lwftp.c as LwFtpClient   *)
(* describes them, and its busy flag and done_fn follow the operation the   *)
(* library owes a result of.                                                *)
(*                                                                         *)
(* Then, for a login directory below the root, that app.path and the listing*)
(* follow the server: what the conversation of program and server is doing  *)
(* is one of a few stages (PathInv), and every reply, command, key and loop *)
(* leads from a stage to a stage.  Last the types, in every world.          *)
(***************************************************************************)
EXTENDS FtpApp, SequenceTheorems, TLAPS

(* What is proved of lwftp.c with any client.                               *)
Lib == INSTANCE LwFtpProofs WITH Responses <- Codes

-----------------------------------------------------------------------------
(* The functions of lwftp.c mean the same here, in the client and in its     *)
(* proofs.                                                                   *)

(* lwftp.c here and in the instance of its proofs, bottom-up.                *)
LEMMA SameLib ==
  /\ Lib!FreshSession = FreshSession /\ \A t : Lib!Quiet(t) = Quiet(t)
  /\ \A t, args, pcb, link : Lib!lwftp_connect(t, args, pcb, link) = lwftp_connect(t, args, pcb, link)
  /\ \A t, op, args, pcb : Lib!lwftp_transfer(t, op, args, pcb) = lwftp_transfer(t, op, args, pcb)
  /\ \A t, op, args : Lib!lwftp_command(t, op, args) = lwftp_command(t, op, args)
  /\ \A t : /\ Lib!lwftp_close(t) = lwftp_close(t) /\ Lib!lwftp_control_err(t) = lwftp_control_err(t)
           /\ Lib!lwftp_control_connected(t) = lwftp_control_connected(t)
           /\ Lib!lwftp_data_connected(t) = lwftp_data_connected(t)
           /\ Lib!lwftp_data_err(t) = lwftp_data_err(t)
  /\ \A t, r, opened, more :
       /\ Lib!lwftp_control_process(t, r, opened, more) = lwftp_control_process(t, r, opened, more)
       /\ Lib!FirstSwitch(t, r, opened, more) = FirstSwitch(t, r, opened, more)
<1>1. /\ Lib!NULL = NULL /\ Lib!None = None /\ Lib!TransferOps = TransferOps
      /\ Lib!CommandOps = CommandOps /\ Lib!Ops = Ops /\ Lib!SentState = SentState
      /\ Lib!TransferStates = TransferStates /\ Lib!CommandStates = CommandStates /\ Lib!LoginStates = LoginStates
      /\ Lib!Expected = Expected /\ Lib!Completes = Completes /\ Lib!Awaiting = Awaiting
  BY DEF NULL, None, TransferOps, CommandOps, Ops, SentState, TransferStates,
         CommandStates, LoginStates, Expected, Completes, Awaiting, Lib!NULL, Lib!None,
         Lib!TransferOps, Lib!CommandOps, Lib!Ops, Lib!SentState, Lib!TransferStates,
         Lib!CommandStates, Lib!LoginStates, Lib!Expected, Lib!Completes, Lib!Awaiting
<1>2. \A t, c : Lib!lwftp_send_msg(t, c) = lwftp_send_msg(t, c)
  BY <1>1, Zenon DEF lwftp_send_msg, Lib!lwftp_send_msg
<1>3. \A t, r : Lib!Report(t, r) = Report(t, r)
  BY <1>1, Zenon DEF Report, Lib!Report
<1>4. \A t, r : Lib!Return(t, r) = Return(t, r)
  BY <1>1, Zenon DEF Return, Lib!Return
<1>5. \A t, st : Lib!Goto(t, st) = Goto(t, st)
  BY <1>1, Zenon DEF Goto, Lib!Goto
<1>6. \A t, r : Lib!lwftp_control_close(t, r) = lwftp_control_close(t, r)
  BY <1>1, <1>3, Zenon DEF lwftp_control_close, Lib!lwftp_control_close
<1>7. \A t, args, pcb, link : Lib!lwftp_connect(t, args, pcb, link) = lwftp_connect(t, args, pcb, link)
  BY <1>1, <1>4, <1>6, Zenon DEF lwftp_connect, Lib!lwftp_connect
<1>8. \A t, op : Lib!lwftp_start(t, op) = lwftp_start(t, op)
  BY <1>1, <1>2, <1>4, Zenon DEF lwftp_start, Lib!lwftp_start
<1>9. \A t, op, args, pcb : Lib!lwftp_transfer(t, op, args, pcb) = lwftp_transfer(t, op, args, pcb)
  BY <1>1, <1>4, <1>8, Zenon DEF lwftp_transfer, Lib!lwftp_transfer
<1>10. \A t, op : Lib!lwftp_send(t, op) = lwftp_send(t, op)
  BY <1>1, <1>2, <1>4, Zenon DEF lwftp_send, Lib!lwftp_send
<1>11. \A t, op, args : Lib!lwftp_command(t, op, args) = lwftp_command(t, op, args)
  BY <1>1, <1>4, <1>10, Zenon DEF lwftp_command, Lib!lwftp_command
<1>12. \A t : Lib!lwftp_close(t) = lwftp_close(t)
  BY <1>1, <1>2, <1>5, Zenon DEF lwftp_close, Lib!lwftp_close
<1>13. \A t : Lib!lwftp_control_err(t) = lwftp_control_err(t)
  BY <1>1, <1>6, Zenon DEF lwftp_control_err, Lib!lwftp_control_err
<1>14. \A t, r : Lib!lwftp_data_close(t, r) = lwftp_data_close(t, r)
  BY <1>1, <1>3, Zenon DEF lwftp_data_close, Lib!lwftp_data_close
<1>15. \A t : Lib!lwftp_issue_transfer(t) = lwftp_issue_transfer(t)
  BY <1>1, <1>2, Zenon DEF lwftp_issue_transfer, SentState, TransferOps, TransferStates,
         Lib!lwftp_issue_transfer, Lib!SentState, Lib!TransferOps, Lib!TransferStates
<1>16. \A t, opened : Lib!lwftp_data_open(t, opened) = lwftp_data_open(t, opened)
  BY <1>1, Zenon DEF lwftp_data_open, Lib!lwftp_data_open
<1>17. \A t, more : Lib!lwftp_data_sent(t, more) = lwftp_data_sent(t, more)
  BY <1>1, Zenon DEF lwftp_data_sent, lwftp_send_next_data, Lib!lwftp_data_sent,
         Lib!lwftp_send_next_data
<1>18. \A t, opened, more : Lib!Advance(t, opened, more) = Advance(t, opened, more)
  BY <1>1, <1>2, <1>3, <1>5, <1>15, <1>16, <1>17, Zenon DEF Advance, Lib!Advance
<1>19. \A st : Lib!Otherwise(st) = Otherwise(st)
  BY <1>1, Zenon DEF Otherwise, Lib!Otherwise
<1>20. \A t, r, opened, more : Lib!FirstSwitch(t, r, opened, more) = FirstSwitch(t, r, opened, more)
  BY <1>1, <1>5, <1>18, <1>19, Zenon DEF FirstSwitch, Lib!FirstSwitch
<1>21. \A st, r : Lib!ResultOf(st, r) = ResultOf(st, r)
  BY <1>1, Zenon DEF ResultOf, Lib!ResultOf
<1>22. \A t, r : Lib!SecondSwitch(t, r) = SecondSwitch(t, r)
  BY <1>1, <1>2, <1>3, <1>5, <1>6, <1>14, Zenon DEF SecondSwitch, Lib!SecondSwitch
<1>23. \A t, r, opened, more : Lib!lwftp_control_process(t, r, opened, more) = lwftp_control_process(t, r, opened, more)
  BY <1>1, <1>20, <1>21, <1>22, Zenon DEF lwftp_control_process,
         Lib!lwftp_control_process
<1>24. \A t : Lib!lwftp_data_err(t) = lwftp_data_err(t)
  BY <1>1, <1>5, <1>23, Zenon DEF lwftp_data_err, Lib!lwftp_data_err
<1>25. Lib!FreshSession = FreshSession /\ \A t : Lib!Quiet(t) = Quiet(t)
  BY <1>1, Zenon DEF FreshSession, Quiet, Lib!FreshSession, Lib!Quiet
<1>26. \A t : /\ Lib!lwftp_control_connected(t) = lwftp_control_connected(t)
              /\ Lib!lwftp_data_connected(t) = lwftp_data_connected(t)
  BY <1>1, Zenon DEF lwftp_control_connected, lwftp_data_connected,
         Lib!lwftp_control_connected, Lib!lwftp_data_connected
<1> QED BY <1>7, <1>9, <1>11, <1>12, <1>13, <1>20, <1>23, <1>24, <1>25, <1>26, Zenon

(* lwftp.c here and in the client that the program implements.               *)
LEMMA SameLibrary ==
  /\ Library!FreshSession = FreshSession /\ \A t : Library!Quiet(t) = Quiet(t)
  /\ \A t, args, pcb, link : Library!lwftp_connect(t, args, pcb, link) = lwftp_connect(t, args, pcb, link)
  /\ \A t, op, args, pcb : Library!lwftp_transfer(t, op, args, pcb) = lwftp_transfer(t, op, args, pcb)
  /\ \A t, op, args : Library!lwftp_command(t, op, args) = lwftp_command(t, op, args)
  /\ \A t : /\ Library!lwftp_close(t) = lwftp_close(t) /\ Library!lwftp_control_err(t) = lwftp_control_err(t)
           /\ Library!lwftp_control_connected(t) = lwftp_control_connected(t)
           /\ Library!lwftp_data_connected(t) = lwftp_data_connected(t)
           /\ Library!lwftp_data_err(t) = lwftp_data_err(t)
  /\ \A t, r, opened, more :
       Library!lwftp_control_process(t, r, opened, more) = lwftp_control_process(t, r, opened, more)
<1>1. /\ Library!NULL = NULL /\ Library!None = None /\ Library!TransferOps = TransferOps
      /\ Library!CommandOps = CommandOps /\ Library!Ops = Ops /\ Library!SentState = SentState
      /\ Library!TransferStates = TransferStates /\ Library!CommandStates = CommandStates /\ Library!LoginStates = LoginStates
      /\ Library!Expected = Expected /\ Library!Completes = Completes /\ Library!Awaiting = Awaiting
  BY DEF NULL, None, TransferOps, CommandOps, Ops, SentState, TransferStates,
         CommandStates, LoginStates, Expected, Completes, Awaiting, Library!NULL,
         Library!None, Library!TransferOps, Library!CommandOps, Library!Ops,
         Library!SentState, Library!TransferStates, Library!CommandStates,
         Library!LoginStates, Library!Expected, Library!Completes, Library!Awaiting
<1>2. \A t, c : Library!lwftp_send_msg(t, c) = lwftp_send_msg(t, c)
  BY <1>1, Zenon DEF lwftp_send_msg, Library!lwftp_send_msg
<1>3. \A t, r : Library!Report(t, r) = Report(t, r)
  BY <1>1, Zenon DEF Report, Library!Report
<1>4. \A t, r : Library!Return(t, r) = Return(t, r)
  BY <1>1, Zenon DEF Return, Library!Return
<1>5. \A t, st : Library!Goto(t, st) = Goto(t, st)
  BY <1>1, Zenon DEF Goto, Library!Goto
<1>6. \A t, r : Library!lwftp_control_close(t, r) = lwftp_control_close(t, r)
  BY <1>1, <1>3, Zenon DEF lwftp_control_close, Library!lwftp_control_close
<1>7. \A t, args, pcb, link : Library!lwftp_connect(t, args, pcb, link) = lwftp_connect(t, args, pcb, link)
  BY <1>1, <1>4, <1>6, Zenon DEF lwftp_connect, Library!lwftp_connect
<1>8. \A t, op : Library!lwftp_start(t, op) = lwftp_start(t, op)
  BY <1>1, <1>2, <1>4, Zenon DEF lwftp_start, Library!lwftp_start
<1>9. \A t, op, args, pcb : Library!lwftp_transfer(t, op, args, pcb) = lwftp_transfer(t, op, args, pcb)
  BY <1>1, <1>4, <1>8, Zenon DEF lwftp_transfer, Library!lwftp_transfer
<1>10. \A t, op : Library!lwftp_send(t, op) = lwftp_send(t, op)
  BY <1>1, <1>2, <1>4, Zenon DEF lwftp_send, Library!lwftp_send
<1>11. \A t, op, args : Library!lwftp_command(t, op, args) = lwftp_command(t, op, args)
  BY <1>1, <1>4, <1>10, Zenon DEF lwftp_command, Library!lwftp_command
<1>12. \A t : Library!lwftp_close(t) = lwftp_close(t)
  BY <1>1, <1>2, <1>5, Zenon DEF lwftp_close, Library!lwftp_close
<1>13. \A t : Library!lwftp_control_err(t) = lwftp_control_err(t)
  BY <1>1, <1>6, Zenon DEF lwftp_control_err, Library!lwftp_control_err
<1>14. \A t, r : Library!lwftp_data_close(t, r) = lwftp_data_close(t, r)
  BY <1>1, <1>3, Zenon DEF lwftp_data_close, Library!lwftp_data_close
<1>15. \A t : Library!lwftp_issue_transfer(t) = lwftp_issue_transfer(t)
  BY <1>1, <1>2, Zenon DEF lwftp_issue_transfer, SentState, TransferOps, TransferStates,
         Library!lwftp_issue_transfer, Library!SentState, Library!TransferOps,
         Library!TransferStates
<1>16. \A t, opened : Library!lwftp_data_open(t, opened) = lwftp_data_open(t, opened)
  BY <1>1, Zenon DEF lwftp_data_open, Library!lwftp_data_open
<1>17. \A t, more : Library!lwftp_data_sent(t, more) = lwftp_data_sent(t, more)
  BY <1>1, Zenon DEF lwftp_data_sent, lwftp_send_next_data, Library!lwftp_data_sent,
         Library!lwftp_send_next_data
<1>18. \A t, opened, more : Library!Advance(t, opened, more) = Advance(t, opened, more)
  BY <1>1, <1>2, <1>3, <1>5, <1>15, <1>16, <1>17, Zenon DEF Advance, Library!Advance
<1>19. \A st : Library!Otherwise(st) = Otherwise(st)
  BY <1>1, Zenon DEF Otherwise, Library!Otherwise
<1>20. \A t, r, opened, more : Library!FirstSwitch(t, r, opened, more) = FirstSwitch(t, r, opened, more)
  BY <1>1, <1>5, <1>18, <1>19, Zenon DEF FirstSwitch, Library!FirstSwitch
<1>21. \A st, r : Library!ResultOf(st, r) = ResultOf(st, r)
  BY <1>1, Zenon DEF ResultOf, Library!ResultOf
<1>22. \A t, r : Library!SecondSwitch(t, r) = SecondSwitch(t, r)
  BY <1>1, <1>2, <1>3, <1>5, <1>6, <1>14, Zenon DEF SecondSwitch, Library!SecondSwitch
<1>23. \A t, r, opened, more : Library!lwftp_control_process(t, r, opened, more) = lwftp_control_process(t, r, opened, more)
  BY <1>1, <1>20, <1>21, <1>22, Zenon DEF lwftp_control_process,
         Library!lwftp_control_process
<1>24. \A t : Library!lwftp_data_err(t) = lwftp_data_err(t)
  BY <1>1, <1>5, <1>23, Zenon DEF lwftp_data_err, Library!lwftp_data_err
<1>25. Library!FreshSession = FreshSession /\ \A t : Library!Quiet(t) = Quiet(t)
  BY <1>1, Zenon DEF FreshSession, Quiet, Library!FreshSession, Library!Quiet
<1>26. \A t : /\ Library!lwftp_control_connected(t) = lwftp_control_connected(t)
              /\ Library!lwftp_data_connected(t) = lwftp_data_connected(t)
  BY <1>1, Zenon DEF lwftp_control_connected, lwftp_data_connected,
         Library!lwftp_control_connected, Library!lwftp_data_connected
<1> QED BY <1>7, <1>9, <1>11, <1>12, <1>13, <1>23, <1>24, <1>25, <1>26, Zenon

-----------------------------------------------------------------------------
(* The program's steps, as the library sees them.                            *)

(* A call the program makes.                                                 *)
Called(t, u) ==
  \/ \E args, pcb, link \in BOOLEAN : u = lwftp_connect(t, args, pcb, link)
  \/ \E op \in TransferOps, pcb \in BOOLEAN : u = lwftp_transfer(t, op, TRUE, pcb)
  \/ \E op \in CommandOps : u = lwftp_command(t, op, TRUE)
  \/ u = lwftp_close(t)

Handled(t) == s' = t \/ (t.done # <<>> /\ Called(t, s'))

ClientStep ==
  \/ Called(Quiet(s), s')
  \/ s.control_pcb = "SYN_SENT" /\ Handled(lwftp_control_connected(Quiet(s)))
  \/ s.control_pcb = "ESTABLISHED" /\ \E r \in Codes, opened \in BOOLEAN :
       Handled(lwftp_control_process(Quiet(s), r, opened, TRUE))
  \/ s.control_pcb # NULL /\ Handled(lwftp_control_err(Quiet(s)))
  \/ s.data_pcb = "SYN_SENT" /\ Handled(lwftp_data_connected(Quiet(s)))
  \/ s.data_pcb \in {"SYN_SENT", "ESTABLISHED"} /\ Handled(lwftp_data_err(Quiet(s)))

(* A call of the program is a call of a client.                              *)
LEMMA LibCall ==
  ASSUME NEW t, NEW u, Called(t, u)
  PROVE  \E c \in Lib!Calls : u = Lib!Call(t, c)
<1>1. Lib!TransferOps = TransferOps /\ Lib!CommandOps = CommandOps
  BY DEF TransferOps, CommandOps, Lib!TransferOps, Lib!CommandOps
<1>2. ASSUME NEW args \in BOOLEAN, NEW pcb \in BOOLEAN, NEW link \in BOOLEAN,
             u = lwftp_connect(t, args, pcb, link)
      PROVE  \E c \in Lib!Calls : u = Lib!Call(t, c)
  <2> DEFINE c == [api |-> "CONNECT", args |-> args, pcb |-> pcb, link |-> link]
  <2>1. c \in Lib!Calls /\ c.api = "CONNECT" /\ c.args = args /\ c.pcb = pcb /\ c.link = link
    BY DEF Lib!Calls
  <2>2. Lib!Call(t, c) = Lib!lwftp_connect(t, args, pcb, link)
    <3> HIDE DEF c
    <3> QED BY <1>1, <2>1 DEF Lib!Call, TransferOps, CommandOps
  <2> QED BY <1>2, <2>1, <2>2, SameLib
<1>3. ASSUME NEW op \in TransferOps, NEW pcb \in BOOLEAN, u = lwftp_transfer(t, op, TRUE, pcb)
      PROVE  \E c \in Lib!Calls : u = Lib!Call(t, c)
  <2> DEFINE c == [api |-> op, args |-> TRUE, pcb |-> pcb, link |-> TRUE]
  <2>1. c \in Lib!Calls /\ c.api = op /\ c.args = TRUE /\ c.pcb = pcb /\ op # "CONNECT"
    BY <1>1 DEF Lib!Calls, TransferOps
  <2>2. Lib!Call(t, c) = Lib!lwftp_transfer(t, op, TRUE, pcb)
    <3> HIDE DEF c
    <3> QED BY <1>1, <2>1 DEF Lib!Call, TransferOps, CommandOps
  <2> QED BY <1>3, <2>1, <2>2, SameLib
<1>4. ASSUME NEW op \in CommandOps, u = lwftp_command(t, op, TRUE)
      PROVE  \E c \in Lib!Calls : u = Lib!Call(t, c)
  <2> DEFINE c == [api |-> op, args |-> TRUE, pcb |-> TRUE, link |-> TRUE]
  <2>1. c \in Lib!Calls /\ c.api = op /\ c.args = TRUE /\ op # "CONNECT" /\ op \notin TransferOps
    BY <1>1 DEF Lib!Calls, CommandOps, TransferOps
  <2>2. Lib!Call(t, c) = Lib!lwftp_command(t, op, TRUE)
    <3> HIDE DEF c
    <3> QED BY <1>1, <2>1 DEF Lib!Call, TransferOps, CommandOps
  <2> QED BY <1>4, <2>1, <2>2, SameLib
<1>5. ASSUME u = lwftp_close(t)
      PROVE  \E c \in Lib!Calls : u = Lib!Call(t, c)
  <2> DEFINE c == [api |-> "CLOSE", args |-> TRUE, pcb |-> TRUE, link |-> TRUE]
  <2>1. c \in Lib!Calls /\ c.api = "CLOSE"
    BY DEF Lib!Calls
  <2>2. Lib!Call(t, c) = Lib!lwftp_close(t)
    <3> HIDE DEF c
    <3> QED BY <1>1, <2>1 DEF Lib!Call, TransferOps, CommandOps
  <2> QED BY <1>5, <2>1, <2>2, SameLib
<1> QED BY <1>2, <1>3, <1>4, <1>5, Zenon DEF Called

(* A step of the program on the session is a step of a client.               *)
LEMMA LibStep ==
  ASSUME ClientStep
  PROVE  Lib!Next
<1> DEFINE q == Quiet(s)
<1>1. Lib!Quiet(s) = q /\ Lib!NULL = NULL
  BY SameLib DEF NULL, Lib!NULL
<1>2. ASSUME NEW t, Handled(t) PROVE Lib!Handler(t)
  BY <1>2, LibCall, Zenon DEF Handled, Lib!Handler
<1> HIDE DEF q
<1>3. ASSUME Called(q, s') PROVE Lib!Next
  <2>1. Lib!UserCall
    BY <1>1, <1>3, LibCall, Zenon DEF Lib!UserCall
  <2> QED BY <2>1, Zenon DEF Lib!Next
<1>4. ASSUME s.control_pcb = "SYN_SENT", Handled(lwftp_control_connected(q)) PROVE Lib!Next
  <2>1. Lib!ControlConnected
    BY <1>1, <1>2, <1>4, SameLib, Zenon DEF Lib!ControlConnected
  <2> QED BY <2>1, Zenon DEF Lib!Next
<1>5. ASSUME s.control_pcb = "ESTABLISHED", NEW r \in Codes, NEW opened \in BOOLEAN,
             Handled(lwftp_control_process(q, r, opened, TRUE))
      PROVE  Lib!Next
  <2>1. Lib!lwftp_control_process(q, r, opened, TRUE) = lwftp_control_process(q, r, opened, TRUE)
    BY SameLib, Zenon
  <2>2. Lib!Handler(Lib!lwftp_control_process(Lib!Quiet(s), r, opened, TRUE)) /\ TRUE \in BOOLEAN
    BY <1>1, <1>2, <1>5, <2>1, Zenon
  <2>3. Lib!ControlReply
    BY <1>5, <2>2, Zenon DEF Lib!ControlReply
  <2> QED BY <2>3, Zenon DEF Lib!Next
<1>6. ASSUME s.control_pcb # NULL, Handled(lwftp_control_err(q)) PROVE Lib!Next
  <2>1. Lib!ControlErr
    BY <1>1, <1>2, <1>6, SameLib, Zenon DEF Lib!ControlErr
  <2> QED BY <2>1, Zenon DEF Lib!Next
<1>7. ASSUME s.data_pcb = "SYN_SENT", Handled(lwftp_data_connected(q)) PROVE Lib!Next
  <2>1. Lib!DataConnected
    BY <1>1, <1>2, <1>7, SameLib, Zenon DEF Lib!DataConnected
  <2> QED BY <2>1, Zenon DEF Lib!Next
<1>8. ASSUME s.data_pcb \in {"SYN_SENT", "ESTABLISHED"}, Handled(lwftp_data_err(q)) PROVE Lib!Next
  <2>1. Lib!DataErr
    BY <1>1, <1>2, <1>8, SameLib, Zenon DEF Lib!DataErr
  <2> QED BY <2>1, Zenon DEF Lib!Next
<1> QED BY <1>3, <1>4, <1>5, <1>6, <1>7, <1>8, Zenon DEF ClientStep, q

(* The same of the client named in FtpApp.                                   *)
LEMMA LibraryCall ==
  ASSUME NEW t, NEW u, Called(t, u)
  PROVE  \E c \in Library!Calls : u = Library!Call(t, c)
<1>1. Library!TransferOps = TransferOps /\ Library!CommandOps = CommandOps
  BY DEF TransferOps, CommandOps, Library!TransferOps, Library!CommandOps
<1>2. ASSUME NEW args \in BOOLEAN, NEW pcb \in BOOLEAN, NEW link \in BOOLEAN,
             u = lwftp_connect(t, args, pcb, link)
      PROVE  \E c \in Library!Calls : u = Library!Call(t, c)
  <2> DEFINE c == [api |-> "CONNECT", args |-> args, pcb |-> pcb, link |-> link]
  <2>1. c \in Library!Calls /\ c.api = "CONNECT" /\ c.args = args /\ c.pcb = pcb /\ c.link = link
    BY DEF Library!Calls
  <2>2. Library!Call(t, c) = Library!lwftp_connect(t, args, pcb, link)
    <3> HIDE DEF c
    <3> QED BY <1>1, <2>1 DEF Library!Call, TransferOps, CommandOps
  <2> QED BY <1>2, <2>1, <2>2, SameLibrary
<1>3. ASSUME NEW op \in TransferOps, NEW pcb \in BOOLEAN, u = lwftp_transfer(t, op, TRUE, pcb)
      PROVE  \E c \in Library!Calls : u = Library!Call(t, c)
  <2> DEFINE c == [api |-> op, args |-> TRUE, pcb |-> pcb, link |-> TRUE]
  <2>1. c \in Library!Calls /\ c.api = op /\ c.args = TRUE /\ c.pcb = pcb /\ op # "CONNECT"
    BY <1>1 DEF Library!Calls, TransferOps
  <2>2. Library!Call(t, c) = Library!lwftp_transfer(t, op, TRUE, pcb)
    <3> HIDE DEF c
    <3> QED BY <1>1, <2>1 DEF Library!Call, TransferOps, CommandOps
  <2> QED BY <1>3, <2>1, <2>2, SameLibrary
<1>4. ASSUME NEW op \in CommandOps, u = lwftp_command(t, op, TRUE)
      PROVE  \E c \in Library!Calls : u = Library!Call(t, c)
  <2> DEFINE c == [api |-> op, args |-> TRUE, pcb |-> TRUE, link |-> TRUE]
  <2>1. c \in Library!Calls /\ c.api = op /\ c.args = TRUE /\ op # "CONNECT" /\ op \notin TransferOps
    BY <1>1 DEF Library!Calls, CommandOps, TransferOps
  <2>2. Library!Call(t, c) = Library!lwftp_command(t, op, TRUE)
    <3> HIDE DEF c
    <3> QED BY <1>1, <2>1 DEF Library!Call, TransferOps, CommandOps
  <2> QED BY <1>4, <2>1, <2>2, SameLibrary
<1>5. ASSUME u = lwftp_close(t)
      PROVE  \E c \in Library!Calls : u = Library!Call(t, c)
  <2> DEFINE c == [api |-> "CLOSE", args |-> TRUE, pcb |-> TRUE, link |-> TRUE]
  <2>1. c \in Library!Calls /\ c.api = "CLOSE"
    BY DEF Library!Calls
  <2>2. Library!Call(t, c) = Library!lwftp_close(t)
    <3> HIDE DEF c
    <3> QED BY <1>1, <2>1 DEF Library!Call, TransferOps, CommandOps
  <2> QED BY <1>5, <2>1, <2>2, SameLibrary
<1> QED BY <1>2, <1>3, <1>4, <1>5, Zenon DEF Called

(* And of its steps.                                                         *)
LEMMA LibraryStep ==
  ASSUME ClientStep
  PROVE  Library!Next
<1> DEFINE q == Quiet(s)
<1>1. Library!Quiet(s) = q /\ Library!NULL = NULL
  BY SameLibrary DEF NULL, Library!NULL
<1>2. ASSUME NEW t, Handled(t) PROVE Library!Handler(t)
  BY <1>2, LibraryCall, Zenon DEF Handled, Library!Handler
<1> HIDE DEF q
<1>3. ASSUME Called(q, s') PROVE Library!Next
  <2>1. Library!UserCall
    BY <1>1, <1>3, LibraryCall, Zenon DEF Library!UserCall
  <2> QED BY <2>1, Zenon DEF Library!Next
<1>4. ASSUME s.control_pcb = "SYN_SENT", Handled(lwftp_control_connected(q)) PROVE Library!Next
  <2>1. Library!ControlConnected
    BY <1>1, <1>2, <1>4, SameLibrary, Zenon DEF Library!ControlConnected
  <2> QED BY <2>1, Zenon DEF Library!Next
<1>5. ASSUME s.control_pcb = "ESTABLISHED", NEW r \in Codes, NEW opened \in BOOLEAN,
             Handled(lwftp_control_process(q, r, opened, TRUE))
      PROVE  Library!Next
  <2>1. Library!lwftp_control_process(q, r, opened, TRUE) = lwftp_control_process(q, r, opened, TRUE)
    BY SameLibrary, Zenon
  <2>2. Library!Handler(Library!lwftp_control_process(Library!Quiet(s), r, opened, TRUE)) /\ TRUE \in BOOLEAN
    BY <1>1, <1>2, <1>5, <2>1, Zenon
  <2>3. Library!ControlReply
    BY <1>5, <2>2, Zenon DEF Library!ControlReply
  <2> QED BY <2>3, Zenon DEF Library!Next
<1>6. ASSUME s.control_pcb # NULL, Handled(lwftp_control_err(q)) PROVE Library!Next
  <2>1. Library!ControlErr
    BY <1>1, <1>2, <1>6, SameLibrary, Zenon DEF Library!ControlErr
  <2> QED BY <2>1, Zenon DEF Library!Next
<1>7. ASSUME s.data_pcb = "SYN_SENT", Handled(lwftp_data_connected(q)) PROVE Library!Next
  <2>1. Library!DataConnected
    BY <1>1, <1>2, <1>7, SameLibrary, Zenon DEF Library!DataConnected
  <2> QED BY <2>1, Zenon DEF Library!Next
<1>8. ASSUME s.data_pcb \in {"SYN_SENT", "ESTABLISHED"}, Handled(lwftp_data_err(q)) PROVE Library!Next
  <2>1. Library!DataErr
    BY <1>1, <1>2, <1>8, SameLibrary, Zenon DEF Library!DataErr
  <2> QED BY <2>1, Zenon DEF Library!Next
<1> QED BY <1>3, <1>4, <1>5, <1>6, <1>7, <1>8, Zenon DEF ClientStep, q

-----------------------------------------------------------------------------
(* What the functions of lwftp.c do to the operation owed.                   *)

(* The codes meet the assumption of LwFtpClient.                             *)
LEMMA CodesNat == Codes \subseteq Nat
BY DEF Codes

(* Sessions have the same type there.                                        *)
LEMMA SameSessions == Lib!Sessions = Sessions
BY DEF Sessions, ControlStates, ControlPcbs, DataPcbs, Commands, Results, Ops, TransferOps,
       CommandOps, LoginStates, TransferStates, CommandStates, PassingStates, NULL, None,
       Lib!Sessions, Lib!ControlStates, Lib!ControlPcbs, Lib!DataPcbs, Lib!Commands,
       Lib!Results, Lib!Ops, Lib!TransferOps, Lib!CommandOps, Lib!LoginStates,
       Lib!TransferStates, Lib!CommandStates, Lib!PassingStates, Lib!NULL, Lib!None

(* What the proofs of lwftp.c say of a session is used here.                 *)
LEMMA GoodSession ==
  ASSUME NEW t, Lib!Good(t)
  PROVE  /\ t \in Sessions
         /\ t.control_pcb = "ESTABLISHED" => t.control_state # "CLOSED"
         /\ t.op = None /\ t.control_state # "CLOSED" => t.control_state \in {"LOGGED", "QUIT_SENT"}
<1>2. t \in Sessions
  BY SameSessions, Zenon DEF Lib!Good
<1>3. None = Lib!None
  BY DEF None, Lib!None
<1>4. t.control_pcb = "ESTABLISHED" => t.control_state # "CLOSED"
  BY Zenon DEF Lib!Good, Lib!PcbsFollow
<1> QED BY <1>2, <1>3, <1>4, CodesNat, Lib!NothingOwed

(* A handler reports nothing and the same result is owed, or it reports a    *)
(* final result and none is owed; and it reports one nobody asked for only   *)
(* when the session ends.                                                    *)
Shape(q, t) ==
  /\ t \in Sessions
  /\ \/ t.done = <<>> /\ t.op = q.op
     \/ /\ t.done # <<>> /\ t.op = None /\ Last(t.done) # "INPROGRESS"
        /\ q.op = None => t.control_state = "CLOSED"

(* A handler starts in the same session.                                     *)
LEMMA QuietSession ==
  ASSUME NEW t, Lib!Good(t)
  PROVE  /\ Lib!Good(Quiet(t)) /\ Quiet(t) \in Sessions /\ Quiet(t).done = <<>>
         /\ Quiet(t).op = t.op /\ Quiet(t).control_state = t.control_state
         /\ Quiet(t).control_pcb = t.control_pcb /\ Quiet(t).data_pcb = t.data_pcb
<1>1. Lib!Quiet(t) = Quiet(t)
  BY SameLib, Zenon
<1>2. /\ Lib!Good(Quiet(t)) /\ Quiet(t).control_pcb = t.control_pcb
      /\ Quiet(t).data_pcb = t.data_pcb
      /\ Quiet(t).control_state = t.control_state /\ Quiet(t).op = t.op
  BY <1>1, CodesNat, Lib!QuietGood
<1>3. t \in Sessions
  BY GoodSession
<1>4. Quiet(t).done = <<>>
  BY <1>3 DEF Quiet, Sessions
<1> QED BY <1>2, <1>4, GoodSession

(* Reporting a result.                                                       *)
LEMMA ReportShape ==
  ASSUME NEW t \in Sessions, t.done = <<>>, NEW r
  PROVE  /\ Report(t, r).done # <<>> /\ Last(Report(t, r).done) = r /\ Report(t, r).op = None
         /\ Report(t, r).control_state = t.control_state
BY DEF Report, Sessions, Last

(* lwftp_control_err reports the end of the session.                         *)
LEMMA ControlErrShape ==
  ASSUME NEW q \in Sessions, q.done = <<>>
  PROVE  Shape(q, lwftp_control_err(q))
<1> DEFINE v == [q EXCEPT !.control_pcb = NULL]
           u == [v EXCEPT !.data_pcb = NULL, !.control_pcb = NULL, !.control_state = "CLOSED"]
           r == IF q.control_state = "CLOSED" THEN "ERR_CONNECT" ELSE "ERR_CLOSED"
<1>1. u \in Sessions /\ u.done = <<>> /\ u.control_state = "CLOSED"
  BY DEF Sessions, ControlPcbs, DataPcbs, ControlStates
<1>2. lwftp_control_err(q) = Report(u, r) /\ r \in Results /\ r # "INPROGRESS"
  BY DEF lwftp_control_err, lwftp_control_close, None, Results
<1> HIDE DEF u, r
<1>3. Report(u, r) \in Sessions
  <2>1. Append(u.done, r) \in Seq(Results)
    BY <1>1, <1>2 DEF Sessions
  <2> QED BY <1>1, <2>1 DEF Report, Sessions
<1> QED BY <1>1, <1>2, <1>3, ReportShape DEF Shape

(* A connection that opens reports nothing.                                  *)
LEMMA ConnectedShape ==
  ASSUME NEW q \in Sessions, q.done = <<>>
  PROVE  Shape(q, lwftp_control_connected(q)) /\ Shape(q, lwftp_data_connected(q))
BY ZenonT(60) DEF Shape, lwftp_control_connected, lwftp_data_connected, Sessions, ControlStates, ControlPcbs,
       DataPcbs, LoginStates

(* The second switch reports at most once.                                   *)
LEMMA SecondShape ==
  ASSUME NEW u \in Sessions, NEW r, r # "INPROGRESS", r # None
  PROVE  LET w == SecondSwitch(u, r)
         IN  \/ w.done = u.done /\ w.op = u.op
             \/ /\ u.control_state \in {"DATAEND", "CMDEND", "CLOSING"}
                /\ w.done = Append(u.done, r) /\ w.op = None
<1>1. CASE u.control_state = "DATAEND"
  BY <1>1 DEF SecondSwitch, lwftp_data_close, Report, Goto, Sessions
<1>2. CASE u.control_state = "CMDEND"
  BY <1>2 DEF SecondSwitch, Report, Goto, Sessions
<1>3. CASE u.control_state = "QUIT"
  BY <1>3 DEF SecondSwitch, lwftp_send_msg, Goto, Sessions
<1>4. CASE u.control_state = "CLOSING"
  BY <1>4 DEF SecondSwitch, lwftp_control_close, Report, Sessions
<1> QED BY <1>1, <1>2, <1>3, <1>4 DEF SecondSwitch

(* The first one reports the login only.                                     *)
LEMMA FirstShape ==
  ASSUME NEW q \in Sessions, q.done = <<>>, NEW r, NEW opened, NEW more
  PROVE  LET u == FirstSwitch(q, r, opened, more)
         IN  \/ u.done = <<>> /\ u.op = q.op
             \/ u.done = <<"LOGGED">> /\ u.op = None /\ u.control_state = "LOGGED"
<1> DEFINE u == FirstSwitch(q, r, opened, more)
<1>1. CASE u = q
  BY <1>1
<1>2. CASE u = Goto(q, Otherwise(q.control_state))
  BY <1>2 DEF Goto, Sessions
<1>3. CASE u = Advance(q, opened, more)
  <2>1. CASE q.control_state \in {"CONNECTED", "USER_SENT", "TYPE_SENT", "RNFR_SENT"}
    BY <1>3, <2>1 DEF Advance, Goto, lwftp_send_msg, Sessions
  <2>2. CASE q.control_state = "PASS_SENT"
    <3>1. u = Report(Goto(q, "LOGGED"), "LOGGED")
      BY <1>3, <2>2 DEF Advance
    <3> HIDE DEF u
    <3>2. u.done = <<"LOGGED">> /\ u.op = None /\ u.control_state = "LOGGED"
      <4> DEFINE v == Goto(q, "LOGGED")
      <4>1. v \in Sessions /\ v.done = <<>> /\ v.control_state = "LOGGED"
        BY DEF Goto, Sessions, ControlStates
      <4> HIDE DEF v
      <4>2. Append(v.done, "LOGGED") = <<"LOGGED">>
        BY <4>1
      <4> QED BY <3>1, <4>1, <4>2 DEF Report, Sessions, v
    <3> QED BY <3>2 DEF u
  <2>3. CASE q.control_state = "PASV_SENT"
    <3>1. u = lwftp_issue_transfer(lwftp_data_open(q, opened))
      BY <1>3, <2>3 DEF Advance
    <3>2. lwftp_data_open(q, opened).done = <<>> /\ lwftp_data_open(q, opened).op = q.op
          /\ DOMAIN lwftp_data_open(q, opened) = DOMAIN q
      BY DEF lwftp_data_open, Sessions
    <3> QED BY <3>1, <3>2 DEF lwftp_issue_transfer, lwftp_send_msg, Sessions
  <2>4. CASE q.control_state = "STOR_SENT"
    BY <1>3, <2>4 DEF Advance, Goto, lwftp_data_sent, lwftp_send_next_data, Sessions
  <2> QED BY <1>3, <2>1, <2>2, <2>3, <2>4 DEF Advance, Goto, Sessions
<1> QED BY <1>1, <1>2, <1>3 DEF FirstSwitch

(* lwftp_control_process, whatever the reply.                                *)
LEMMA ProcessShape ==
  ASSUME NEW q, Lib!Good(q), q.done = <<>>, q.control_pcb = "ESTABLISHED",
         NEW r \in Codes, NEW opened \in BOOLEAN
  PROVE  Shape(q, lwftp_control_process(q, r, opened, TRUE))
<1> DEFINE u == FirstSwitch(q, r, opened, TRUE)
           res == ResultOf(q.control_state, r)
           w == lwftp_control_process(q, r, opened, TRUE)
<1>q. q \in Sessions
  BY GoodSession
<1>1. Lib!lwftp_control_process(q, r, opened, TRUE) = w /\ r \in Nat
  BY SameLib, CodesNat
<1>2. w \in Sessions
  BY <1>1, CodesNat, GoodSession, Lib!ControlProcessGood
<1>3. res \in Results /\ res # "INPROGRESS" /\ res # None
  BY DEF ResultOf, Results, None
<1>4. w = SecondSwitch(u, res)
  BY DEF lwftp_control_process
<1>5. u \in Sessions
  <2>1. Lib!FirstSwitch(q, r, opened, TRUE) = u
    BY SameLib, Zenon
  <2>2. Lib!Half(q, u)
    BY <1>1, <2>1, CodesNat, Lib!FirstSwitchHalf
  <2> QED BY <2>2, SameSessions, Zenon DEF Lib!Half
<1>6. \/ u.done = <<>> /\ u.op = q.op
      \/ u.done = <<"LOGGED">> /\ u.op = None /\ u.control_state = "LOGGED"
  BY <1>q, FirstShape
<1>7. \/ w.done = u.done /\ w.op = u.op
      \/ /\ u.control_state \in {"DATAEND", "CMDEND", "CLOSING"}
         /\ w.done = Append(u.done, res) /\ w.op = None
  BY <1>3, <1>4, <1>5, SecondShape, Zenon
<1>8. q.op = None => w.done = <<>> \/ w.control_state = "CLOSED"
  <2>1. ASSUME q.op = None PROVE q.control_state \in {"LOGGED", "QUIT_SENT"}
    <3>1. q.control_state # "CLOSED"
      BY GoodSession
    <3> QED BY <2>1, <3>1, GoodSession
  <2> QED BY <1>1, <2>1, CodesNat, Lib!ProcessAnswers, ZenonT(60)
<1> HIDE DEF u, res, w
<1>9. \/ w.done = <<>> /\ w.op = q.op
      \/ w.done = <<"LOGGED">> /\ w.op = None
      \/ w.done = <<res>> /\ w.op = None
  <2>1. u.done = <<>> => Append(u.done, res) = <<res>>
    OBVIOUS
  <2> QED BY <1>6, <1>7, <2>1, Zenon
<1>10. \A x : <<x>> # <<>> /\ Last(<<x>>) = x
  BY DEF Last
<1>11. Shape(q, w)
  <2>1. CASE w.done = <<>> /\ w.op = q.op
    BY <1>2, <2>1 DEF Shape
  <2>2. CASE w.done = <<"LOGGED">> /\ w.op = None
    BY <1>2, <1>8, <1>10, <2>2 DEF Shape
  <2>3. CASE w.done = <<res>> /\ w.op = None
    BY <1>2, <1>3, <1>8, <1>10, <2>3 DEF Shape
  <2> QED BY <1>9, <2>1, <2>2, <2>3
<1> QED BY <1>11 DEF w

(* lwftp_data_err.                                                           *)
LEMMA DataErrShape ==
  ASSUME NEW q, Lib!Good(q), q.done = <<>>, q.data_pcb \in {"SYN_SENT", "ESTABLISHED"}
  PROVE  Shape(q, lwftp_data_err(q))
<1> DEFINE t == [q EXCEPT !.data_pcb = NULL]
           v == Goto(t, "DATAEND")
           w == lwftp_data_err(q)
<1>q. q \in Sessions
  BY GoodSession
<1>1. Lib!lwftp_data_err(q) = w
  BY SameLib, Zenon
<1>2. w \in Sessions
  BY <1>1, CodesNat, GoodSession, Lib!DataErrGood
<1>3. t \in Sessions /\ t.done = <<>> /\ t.op = q.op /\ t.control_state = q.control_state
  BY <1>q DEF Sessions, DataPcbs
<1>4. CASE q.control_state # "XFERING"
  <2>1. w = t
    BY <1>3, <1>4 DEF lwftp_data_err
  <2> QED BY <1>2, <1>3, <2>1 DEF Shape
<1>5. CASE q.control_state = "XFERING"
  <2>1. w = SecondSwitch(FirstSwitch(v, 0, FALSE, FALSE), ResultOf(v.control_state, 0))
    BY <1>3, <1>5 DEF lwftp_data_err, lwftp_control_process
  <2>2. v \in Sessions /\ v.done = <<>> /\ v.op = q.op /\ v.control_state = "DATAEND"
    <3> HIDE DEF t
    <3> QED BY <1>3 DEF Goto, Sessions, ControlStates, PassingStates
  <2>3. FirstSwitch(v, 0, FALSE, FALSE) = v
    BY DEF FirstSwitch
  <2>4. ResultOf(v.control_state, 0) = "ERR_SRVR_RESP"
    BY <2>2 DEF ResultOf, Completes
  <2> HIDE DEF v, w
  <2>5. \/ w.done = <<>> /\ w.op = q.op
        \/ w.done = Append(v.done, "ERR_SRVR_RESP") /\ w.op = None
    BY <2>1, <2>2, <2>3, <2>4, SecondShape DEF None
  <2>6. Append(v.done, "ERR_SRVR_RESP") = <<"ERR_SRVR_RESP">>
    BY <2>2
  <2>7. <<"ERR_SRVR_RESP">> # <<>> /\ Last(<<"ERR_SRVR_RESP">>) = "ERR_SRVR_RESP"
    BY DEF Last
  <2>8. q.op # None
    BY <1>5, GoodSession
  <2>9. Shape(q, w)
    BY <1>2, <2>5, <2>6, <2>7, <2>8 DEF Shape
  <2> QED BY <2>9 DEF w
<1> QED BY <1>4, <1>5

-----------------------------------------------------------------------------
(* The callbacks, on a session t and an app b.                               *)

AppFields == {"busy", "ftpStarted", "ftpResult", "done_fn", "path", "dir", "list", "shown", "wild"}
IsApp(b) == /\ DOMAIN b = AppFields
            /\ b.busy \in BOOLEAN /\ b.ftpStarted \in BOOLEAN /\ b.done_fn \in DoneFns

(* BusyIsOwed and CallbackMatches, of t and b.                               *)
Linked(t, b) ==
  /\ b.ftpStarted /\ ~b.busy => t.op = None
  /\ b.busy /\ b.done_fn # NULL => t.op # None
  /\ t.op # None /\ b.done_fn # NULL => b.done_fn = CallbackOf[t.op]

(* A cut of app.path leaves the flags alone.                                 *)
LEMMA PopApp ==
  ASSUME NEW b, IsApp(b)
  PROVE  /\ IsApp(Pop(b)) /\ Pop(b).busy = b.busy
         /\ Pop(b).ftpStarted = b.ftpStarted /\ Pop(b).done_fn = b.done_fn
BY DEF Pop, IsApp, AppFields

(* So does a name put behind it.                                             *)
LEMMA PushApp ==
  ASSUME NEW b, IsApp(b), NEW name
  PROVE  /\ IsApp(Push(b, name)) /\ Push(b, name).busy = b.busy
         /\ Push(b, name).ftpStarted = b.ftpStarted /\ Push(b, name).done_fn = b.done_fn
BY DEF Push, IsApp, AppFields

(* The world w after the failure of what t and b were about.                 *)
Failed(w, t, b) ==
  /\ w = [s |-> w.s, a |-> w.a]
  /\ w.s = IF b.done_fn = "Connect" THEN lwftp_close(t) ELSE t
  /\ IsApp(w.a) /\ w.a.busy = FALSE
  /\ w.a.ftpStarted = b.ftpStarted /\ w.a.done_fn = b.done_fn

(* The failure branch of the callbacks.                                      *)
LEMMA FailApp ==
  ASSUME NEW t, NEW b, IsApp(b), NEW r
  PROVE  Failed(Fail([s |-> t, a |-> b], r), t, b)
<1> DEFINE c == IF b.done_fn = "Stor" THEN Pop(b) ELSE b
           v == [s |-> t, a |-> b]
           d == [c EXCEPT !.ftpResult = r, !.busy = FALSE]
<1>1. IsApp(c) /\ c.ftpStarted = b.ftpStarted /\ c.done_fn = b.done_fn
  BY PopApp
<1>2. v.s = t /\ v.a = b
  OBVIOUS
<1>3. Fail(v, r) = [s |-> IF b.done_fn = "Connect" THEN lwftp_close(t) ELSE t, a |-> d]
  <2> HIDE DEF v
  <2> QED BY <1>2 DEF Fail
<1>4. IsApp(d) /\ d.busy = FALSE /\ d.ftpStarted = b.ftpStarted /\ d.done_fn = b.done_fn
  <2> HIDE DEF c
  <2> QED BY <1>1 DEF IsApp, AppFields
<1> DEFINE f == [s |-> IF b.done_fn = "Connect" THEN lwftp_close(t) ELSE t, a |-> d]
<1> HIDE DEF d
<1>5. Failed(f, t, b)
  BY <1>4 DEF Failed
<1> QED BY <1>3, <1>5, Zenon

(* The calls that start an operation.                                        *)
Starts(t, x, u) ==
  \/ x \in TransferOps /\ \E pcb \in BOOLEAN : u = lwftp_transfer(t, x, TRUE, pcb)
  \/ x \in CommandOps /\ u = lwftp_command(t, x, TRUE)

(* Starting an operation is one API call.                                    *)
LEMMA StartsCall ==
  ASSUME NEW t, NEW x, NEW u, Starts(t, x, u)
  PROVE  Called(t, u)
BY Zenon DEF Starts, Called

(* It is INPROGRESS and the operation is owed, or refused and nothing is.    *)
LEMMA StartAnswer ==
  ASSUME NEW t \in Sessions, t.op = None, NEW x \in Ops, NEW u, Starts(t, x, u)
  PROVE  \/ Last(u.done) = "INPROGRESS" /\ u.op = x /\ t.control_state = "LOGGED"
         \/ Last(u.done) # "INPROGRESS" /\ u.op = None
<1>1. ASSUME NEW v, NEW y, v.done \in Seq(Results), DOMAIN v = DOMAIN t, y \in Results
      PROVE  Last(Return(v, y).done) = y /\ Return(v, y).op = v.op
  <2>1. Last(Append(v.done, y)) = y
    BY <1>1 DEF Last
  <2> QED BY <1>1, <2>1 DEF Return, Sessions
<1>2. CASE u = Return(t, "ERR_ARGUMENT") \/ u = Return(t, "ERR_MEMORY")
  BY <1>1, <1>2 DEF Sessions, Results
<1>3. ASSUME t.control_state = "LOGGED", u = Return(lwftp_start([t EXCEPT !.data_pcb = "CLOSED"], x), "INPROGRESS")
      PROVE  Last(u.done) = "INPROGRESS" /\ u.op = x
  <2> DEFINE v == lwftp_start([t EXCEPT !.data_pcb = "CLOSED"], x)
  <2>1. v.done = t.done /\ DOMAIN v = DOMAIN t /\ v.op = x
    BY <1>3 DEF lwftp_start, lwftp_send_msg, Sessions
  <2> HIDE DEF v
  <2>2. u = Return(v, "INPROGRESS")
    BY <1>3 DEF v
  <2> QED BY <1>1, <2>1, <2>2 DEF Sessions, Results
<1>4. ASSUME t.control_state = "LOGGED", u = Return(lwftp_send(t, x), "INPROGRESS")
      PROVE  Last(u.done) = "INPROGRESS" /\ u.op = x
  <2> DEFINE v == lwftp_send(t, x)
  <2>1. v.done = t.done /\ DOMAIN v = DOMAIN t /\ v.op = x
    BY <1>4 DEF lwftp_send, lwftp_send_msg, Sessions
  <2> HIDE DEF v
  <2>2. u = Return(v, "INPROGRESS")
    BY <1>4 DEF v
  <2> QED BY <1>1, <2>1, <2>2 DEF Sessions, Results
<1> QED BY <1>2, <1>3, <1>4 DEF Starts, lwftp_transfer, lwftp_command

(* The world w after a call that left u: busy, and owed, or refused and not  *)
(* busy.                                                                     *)
Issued(w, t, b, u) ==
  /\ w = [s |-> w.s, a |-> w.a] /\ w.s = u
  /\ IsApp(w.a) /\ Linked(u, w.a) /\ w.a.ftpStarted = b.ftpStarted
  /\ t.control_state # "LOGGED" => ~w.a.busy

(* An API call and the use the program makes of its return value.            *)
LEMMA IssueApp ==
  ASSUME NEW t \in Sessions, t.op = None, NEW b, IsApp(b), b.busy,
         NEW x \in Ops \ {"RMD"}, b.done_fn = CallbackOf[x], NEW u, Starts(t, x, u), NEW v
  PROVE  Issued(Issue([s |-> v, a |-> b], u), t, b, u)
<1> DEFINE z == [s |-> v, a |-> b]
           y == [s |-> u, a |-> b]
           w == Issue(z, u)
<1>1. [z EXCEPT !.s = u] = y /\ y.s = u /\ y.a = b
  OBVIOUS
<1>2. w = IF Last(u.done) = "INPROGRESS" THEN y ELSE Fail(y, Last(u.done))
  <2> HIDE DEF z, y
  <2> QED BY <1>1 DEF Issue
<1>3. \/ Last(u.done) = "INPROGRESS" /\ u.op = x /\ t.control_state = "LOGGED"
      \/ Last(u.done) # "INPROGRESS" /\ u.op = None
  BY StartAnswer
<1>4. b.done_fn # "Connect"
  BY DEF CallbackOf, Ops, TransferOps, CommandOps
<1>5. CASE Last(u.done) = "INPROGRESS"
  <2>1. w = y
    BY <1>2, <1>5
  <2>2. Linked(u, b)
    BY <1>3, <1>5 DEF Linked, IsApp, Ops, TransferOps, CommandOps, None
  <2>3. Issued(y, t, b, u)
    BY <1>1, <1>3, <1>5, <2>2 DEF Issued
  <2> QED BY <2>1, <2>3
<1>6. CASE Last(u.done) # "INPROGRESS"
  <2> DEFINE f == Fail(y, Last(u.done))
  <2>1. Failed(f, u, b)
    BY FailApp, Zenon
  <2>2. w = f
    BY <1>2, <1>6
  <2> HIDE DEF w, f
  <2>3. Linked(u, w.a)
    BY <1>3, <1>6, <2>1, <2>2 DEF Linked, Failed
  <2>4. Issued(w, t, b, u)
    BY <1>4, <2>1, <2>2, <2>3 DEF Failed, Issued
  <2> QED BY <2>4 DEF w
<1> QED BY <1>5, <1>6

(* The world w after a callback that was called in t with b.                 *)
Continued(w, t, b) ==
  /\ w = [s |-> w.s, a |-> w.a]
  /\ w.s = t \/ Called(t, w.s)
  /\ IsApp(w.a) /\ Linked(w.s, w.a)
  /\ b.ftpStarted => w.a.ftpStarted
  /\ ~b.busy /\ t.control_state # "LOGGED" => ~w.a.busy

(* A world with another app.                                                 *)
LEMMA WorldApp ==
  ASSUME NEW t, NEW b, NEW c
  PROVE  [[s |-> t, a |-> b] EXCEPT !.a = c] = [s |-> t, a |-> c]
OBVIOUS

(* After a failure nothing is owed and nothing busy.                         *)
LEMMA FailContinues ==
  ASSUME NEW t \in Sessions, t.op = None, NEW b, IsApp(b), NEW w, Failed(w, t, b)
  PROVE  Continued(w, t, b)
<1>1. lwftp_close(t).op = None
  BY DEF lwftp_close, Goto, lwftp_send_msg, Sessions
<1>2. Called(t, lwftp_close(t))
  BY Zenon DEF Called
<1> QED BY <1>1, <1>2 DEF Failed, Continued, Linked

(* util_GetRemoteFiles, called when no result is owed.                       *)
LEMMA RemoteFiles ==
  ASSUME NEW t \in Sessions, t.op = None, NEW b, IsApp(b), NEW pcb \in BOOLEAN
  PROVE  Continued(util_GetRemoteFiles([s |-> t, a |-> b], pcb), t, b)
<1> DEFINE w == [s |-> t, a |-> b]
           c == [b EXCEPT !.busy = TRUE, !.done_fn = "List", !.list = {}]
           u == lwftp_transfer(t, "MLSD", TRUE, pcb)
           z == Issue([s |-> t, a |-> c], u)
<1>1. w.s = t /\ w.a = b /\ [w EXCEPT !.a = c] = [s |-> t, a |-> c]
  BY WorldApp
<1>2. util_GetRemoteFiles(w, pcb) = z
  <2> HIDE DEF w
  <2> QED BY <1>1, Zenon DEF util_GetRemoteFiles
<1>3. IsApp(c) /\ c.busy /\ c.done_fn = "List" /\ c.ftpStarted = b.ftpStarted
  BY DEF IsApp, AppFields, DoneFns
<1>4. "MLSD" \in TransferOps /\ "MLSD" \in Ops \ {"RMD"} /\ CallbackOf["MLSD"] = "List"
  BY DEF Ops, TransferOps, CallbackOf
<1>5. Starts(t, "MLSD", u)
  BY <1>4, Zenon DEF Starts
<1>6. Called(t, u)
  BY <1>5, StartsCall
<1> HIDE DEF c, u
<1>7. Issued(z, t, c, u)
  BY <1>3, <1>4, <1>5, IssueApp
<1> HIDE DEF z
<1>8. Continued(z, t, b)
  BY <1>3, <1>6, <1>7 DEF Issued, Continued
<1> QED BY <1>2, <1>8

(* util_GetDir.                                                              *)
LEMMA RemoteDir ==
  ASSUME NEW t \in Sessions, t.op = None, NEW b, IsApp(b)
  PROVE  Continued(util_GetDir([s |-> t, a |-> b]), t, b)
<1> DEFINE w == [s |-> t, a |-> b]
           c == [b EXCEPT !.busy = TRUE, !.done_fn = "Pwd", !.path = <<>>]
           u == lwftp_command(t, "PWD", TRUE)
           z == Issue([s |-> t, a |-> c], u)
<1>1. w.s = t /\ w.a = b /\ [w EXCEPT !.a = c] = [s |-> t, a |-> c]
  BY WorldApp
<1>2. util_GetDir(w) = z
  <2> HIDE DEF w
  <2> QED BY <1>1, Zenon DEF util_GetDir
<1>3. IsApp(c) /\ c.busy /\ c.done_fn = "Pwd" /\ c.ftpStarted = b.ftpStarted
  BY DEF IsApp, AppFields, DoneFns
<1>4. "PWD" \in CommandOps /\ "PWD" \in Ops \ {"RMD"} /\ CallbackOf["PWD"] = "Pwd"
  BY DEF Ops, CommandOps, CallbackOf
<1>5. Starts(t, "PWD", u)
  BY <1>4, Zenon DEF Starts
<1>6. Called(t, u)
  BY <1>5, StartsCall
<1> HIDE DEF c, u
<1>7. Issued(z, t, c, u)
  BY <1>3, <1>4, <1>5, IssueApp
<1> HIDE DEF z
<1>8. Continued(z, t, b)
  BY <1>3, <1>6, <1>7 DEF Issued, Continued
<1> QED BY <1>2, <1>8

(* done_fn, whichever callback is installed, called with a final result.     *)
LEMMA CallbackApp ==
  ASSUME NEW t \in Sessions, t.op = None, NEW b, IsApp(b), NEW r, r # "INPROGRESS", NEW pcb \in BOOLEAN
  PROVE  Continued(Callback([s |-> t, a |-> b], r, pcb), t, b)
<1> DEFINE w == [s |-> t, a |-> b]
           fn == b.done_fn
           free == [b EXCEPT !.busy = FALSE]
<1>w. w.s = t /\ w.a = b /\ w = [s |-> w.s, a |-> w.a]
  OBVIOUS
<1>1. Continued(Fail(w, r), t, b)
  BY FailApp, FailContinues
<1>2. Continued(util_GetRemoteFiles(w, pcb), t, b) /\ Continued(util_GetDir(w), t, b)
  BY RemoteFiles, RemoteDir
<1>3. Continued([s |-> t, a |-> free], t, b)
  <2>1. IsApp(free) /\ free.busy = FALSE /\ free.ftpStarted = b.ftpStarted
    BY DEF IsApp, AppFields
  <2> HIDE DEF free
  <2> QED BY <2>1 DEF Continued, Linked
<1>4. Continued(util_GetRemoteFiles([s |-> t, a |-> Pop(b)], pcb), t, b)
  <2>1. Continued(util_GetRemoteFiles([s |-> t, a |-> Pop(b)], pcb), t, Pop(b))
    BY PopApp, RemoteFiles
  <2> QED BY <2>1, PopApp DEF Continued
<1>5. Continued(util_GetRemoteFiles([s |-> t, a |-> [b EXCEPT !.ftpStarted = TRUE]], pcb), t, b)
  <2> DEFINE c == [b EXCEPT !.ftpStarted = TRUE]
  <2>1. IsApp(c) /\ c.busy = b.busy /\ c.ftpStarted
    BY DEF IsApp, AppFields
  <2> HIDE DEF c
  <2>2. Continued(util_GetRemoteFiles([s |-> t, a |-> c], pcb), t, c)
    BY <2>1, RemoteFiles
  <2> QED BY <2>1, <2>2 DEF Continued, c
<1>6. /\ [w EXCEPT !.a.ftpStarted = TRUE] = [s |-> t, a |-> [b EXCEPT !.ftpStarted = TRUE]]
      /\ [w EXCEPT !.a.busy = FALSE] = [s |-> t, a |-> free]
      /\ [w EXCEPT !.a = Pop(w.a)] = [s |-> t, a |-> Pop(b)]
  <2>1. \A c : [w EXCEPT !.a = c] = [s |-> t, a |-> c]
    BY WorldApp
  <2> HIDE DEF w, free
  <2>2. /\ [w EXCEPT !.a.ftpStarted = TRUE] = [w EXCEPT !.a = [w.a EXCEPT !.ftpStarted = TRUE]]
        /\ [w EXCEPT !.a.busy = FALSE] = [w EXCEPT !.a = [w.a EXCEPT !.busy = FALSE]]
    BY Zenon
  <2> QED BY <1>w, <2>1, <2>2, Zenon DEF free
<1>7. fn = NULL => Continued(w, t, b)
  BY DEF Continued, Linked
<1> HIDE DEF w, free
<1>c. CASE fn = NULL
  <2>1. Callback(w, r, pcb) = w
    BY <1>w, <1>c DEF Callback, NULL
  <2> QED BY <1>7, <1>c, <2>1 DEF w
<1>d. CASE fn # NULL
  <2>1. CASE fn = "Connect"
    <3>1. Callback(w, r, pcb) = ftp_ConnectCallback(w, r, pcb)
      BY <1>w, <1>d, <2>1 DEF Callback
    <3> QED BY <1>1, <1>5, <1>6, <3>1, Zenon DEF ftp_ConnectCallback, w
  <2>2. CASE fn = "List"
    <3>1. Callback(w, r, pcb) = ftp_ListCallback(w, r)
      BY <1>w, <1>d, <2>2 DEF Callback
    <3> QED BY <1>1, <1>2, <3>1, Zenon DEF ftp_ListCallback, w
  <2>3. CASE fn = "Pwd"
    <3>1. Callback(w, r, pcb) = ftp_PwdCallback(w, r)
      BY <1>w, <1>d, <2>3 DEF Callback
    <3> QED BY <1>1, <1>3, <1>6, <3>1, Zenon DEF ftp_PwdCallback, w
  <2>4. CASE fn = "Cwd"
    <3>1. Callback(w, r, pcb) = ftp_CwdCallback(w, r, pcb)
      BY <1>w, <1>d, <2>4 DEF Callback
    <3> QED BY <1>1, <1>2, <3>1, Zenon DEF ftp_CwdCallback, w
  <2>5. CASE fn \in {"Del", "Move"}
    <3>1. Callback(w, r, pcb) = ftp_DelCallback(w, r, pcb)
      BY <1>w, <1>d, <2>5 DEF Callback
    <3> QED BY <1>1, <1>4, <1>6, <3>1, Zenon DEF ftp_DelCallback, w
  <2>6. CASE fn = "Stor"
    <3>1. Callback(w, r, pcb) = ftp_StorCallback(w, r, pcb)
      BY <1>w, <1>d, <2>6 DEF Callback
    <3> QED BY <1>1, <1>4, <1>6, <3>1, Zenon DEF ftp_StorCallback, w
  <2>7. CASE fn = "Retr"
    <3>1. Callback(w, r, pcb) = ftp_RetrCallback(w, r)
      BY <1>w, <1>d, <2>7 DEF Callback
    <3> QED BY <1>1, <1>3, <1>6, <3>1, Zenon DEF ftp_RetrCallback, w
  <2> QED BY <1>d, <2>1, <2>2, <2>3, <2>4, <2>5, <2>6, <2>7 DEF IsApp, DoneFns
<1> QED BY <1>c, <1>d

-----------------------------------------------------------------------------
(* The streams between the program and the server.                           *)

IsCommands(u) == \E D : u \in Seq(Commands \X D)
IsReplies(d) == \E D : d \in Seq(Codes \X D)

(* At first, and when a connection ends, nothing is under way.               *)
LEMMA NoneUnderWay == IsCommands(<<>>) /\ IsReplies(<<>>)
<1>1. <<>> \in Seq(Commands \X {}) /\ <<>> \in Seq(Codes \X {})
  OBVIOUS
<1> QED BY <1>1, Zenon DEF IsCommands, IsReplies

(* What the session wrote follows what is under way.                         *)
LEMMA WriteCommands ==
  ASSUME NEW w, w.s \in Sessions, IsCommands(up)
  PROVE  IsCommands(up \o Written(w))
<1> DEFINE sent == w.s.sent
           k == Len(sent)
           x == Written(w)
           E == {x[i][2] : i \in 1..k}
<1>1. sent \in Seq(Commands) /\ k \in Nat
  BY DEF Sessions
<1>2. x = [i \in 1..k |-> <<sent[i], x[i][2]>>]
  BY <1>1 DEF Written
<1> HIDE DEF x, k, sent
<1>3. PICK D : up \in Seq(Commands \X D)
  BY DEF IsCommands
<1>4. \A i \in 1..k : sent[i] \in Commands
  BY <1>1 DEF k
<1>5. x \in [1..k -> Commands \X (D \cup E)]
  <2>1. \A i \in 1..k : <<sent[i], x[i][2]>> \in Commands \X (D \cup E)
    BY <1>4
  <2> QED BY <1>2, <2>1
<1> HIDE DEF E
<1>6. x \in Seq(Commands \X (D \cup E))
  BY <1>1, <1>5
<1>7. up \in Seq(Commands \X (D \cup E))
  BY <1>3
<1>8. up \o x \in Seq(Commands \X (D \cup E))
  BY <1>6, <1>7
<1> QED BY <1>8, Zenon DEF IsCommands, x

(* The server takes a command.                                               *)
LEMMA NextCommand ==
  ASSUME IsCommands(up), up # <<>>
  PROVE  Head(up)[1] \in Commands /\ IsCommands(Tail(up))
<1>1. PICK D : up \in Seq(Commands \X D)
  BY DEF IsCommands
<1>2. Head(up) \in Commands \X D /\ Tail(up) \in Seq(Commands \X D)
  BY <1>1
<1> QED BY <1>2 DEF IsCommands

(* The program takes a reply.                                                *)
LEMMA NextReply ==
  ASSUME IsReplies(down), down # <<>>
  PROVE  /\ Head(down)[1] \in Codes /\ IsReplies(Tail(down))
         /\ Len(down) >= 2 => IsReplies(Tail(Tail(down)))
<1>1. PICK D : down \in Seq(Codes \X D)
  BY DEF IsReplies
<1>2. Head(down) \in Codes \X D /\ Tail(down) \in Seq(Codes \X D)
  BY <1>1
<1>3. ASSUME Len(down) >= 2 PROVE Tail(Tail(down)) \in Seq(Codes \X D)
  <2>1. Len(Tail(down)) = Len(down) - 1 /\ Len(down) \in Nat
    BY <1>1
  <2>2. Len(Tail(down)) # 0
    BY <1>3, <2>1
  <2>3. Tail(down) # <<>>
    BY <1>2, <2>2, EmptySeq
  <2> QED BY <1>2, <2>3
<1> QED BY <1>2, <1>3, Zenon DEF IsReplies

(* The server sends one.                                                     *)
LEMMA OneReply ==
  ASSUME NEW d, IsReplies(d), NEW c \in Codes, NEW x
  PROVE  IsReplies(Append(d, <<c, x>>))
<1>1. PICK D : d \in Seq(Codes \X D)
  BY DEF IsReplies
<1>2. d \in Seq(Codes \X (D \cup {x})) /\ <<c, x>> \in Codes \X (D \cup {x})
  BY <1>1
<1>3. Append(d, <<c, x>>) \in Seq(Codes \X (D \cup {x}))
  BY <1>2
<1> QED BY <1>3, Zenon DEF IsReplies

(* The program goes on.                                                      *)
LEMMA GoWrites ==
  ASSUME NEW w, Go(w), s' \in Sessions, IsCommands(up)
  PROVE  IsCommands(up')
<1>1. s' = w.s /\ (up' = <<>> \/ up' = up \/ up' = up \o Written(w))
  BY DEF Go
<1> QED BY <1>1, WriteCommands, NoneUnderWay

(* Every command the server carries out is answered.                         *)
LEMMA PerformReplies ==
  ASSUME IsReplies(down), NEW cmd \in Commands, NEW path, Possible(cmd, path), Perform(cmd, path)
  PROVE  IsReplies(down')
<1>1. cmd \notin {"RMD", "PATH"}
  BY DEF Possible
<1>2. DOMAIN Simple = {"USER", "PASS", "TYPE", "PASV", "QUIT"}
      /\ \A c \in DOMAIN Simple : Simple[c] \in Codes
  BY DEF Simple, Codes
<1>3. {150, 250, 257, 350} \subseteq Codes
  BY DEF Codes
<1>4. ASSUME NEW c \in Codes, NEW x, Reply(c, x) PROVE IsReplies(down')
  BY <1>4, OneReply DEF Reply
<1>5. CASE cmd \in DOMAIN Simple
  <2>1. Reply(Simple[cmd], <<>>)
    <3>1. cmd \notin TransferOps /\ cmd \notin {"DELE", "CWD", "PWD", "RNFR", "RNTO"}
      BY <1>2, <1>5 DEF TransferOps
    <3> QED BY <1>5, <3>1 DEF Perform
  <2> QED BY <1>2, <1>4, <1>5, <2>1
<1>6. CASE cmd \in TransferOps
  <2>1. Reply(150, <<>>)
    <3>1. cmd \notin DOMAIN Simple /\ cmd \notin {"DELE", "CWD", "PWD", "RNFR", "RNTO"}
      BY <1>2, <1>6 DEF TransferOps
    <3> QED BY <1>6, <3>1 DEF Perform
  <2> QED BY <1>3, <1>4, <2>1
<1>7. CASE cmd \in {"DELE", "CWD", "RNTO"}
  <2>1. Reply(250, <<>>)
    BY <1>2, <1>7 DEF Perform, TransferOps
  <2> QED BY <1>3, <1>4, <2>1
<1>8. CASE cmd = "PWD"
  <2>1. Reply(257, IF srv.cwd = <<>> THEN <<"">> ELSE srv.cwd)
    BY <1>2, <1>8 DEF Perform, TransferOps
  <2> QED BY <1>3, <1>4, <2>1, ZenonT(60)
<1>9. CASE cmd = "RNFR"
  <2>1. Reply(350, <<>>)
    BY <1>2, <1>9 DEF Perform, TransferOps
  <2> QED BY <1>3, <1>4, <2>1
<1> QED BY <1>1, <1>2, <1>5, <1>6, <1>7, <1>8, <1>9 DEF Commands, Ops, CommandOps

-----------------------------------------------------------------------------
(* The inductive invariant.  done_fn, busy and the operation owed agree,     *)
(* before the connection is made nothing has happened, and while a name is   *)
(* typed no operation is under way.                                          *)
IInv ==
  /\ Lib!Good(s) /\ IsApp(a) /\ Linked(s, a)
  /\ where = "start" => s = FreshSession /\ a = FreshApp
  /\ where = "input" => a.ftpStarted /\ ~a.busy
  /\ IsCommands(up) /\ IsReplies(down)

(* tcp_new and tcp_connect succeed or not.                                   *)
LEMMA MemoryBoolean == Memory \subseteq BOOLEAN
BY DEF Memory

(* What a step does to the session and the app.                              *)
AppStep ==
  /\ ClientStep \/ s' = s
  /\ IsApp(a') /\ Linked(s', a')

(* The invariant after a step, from what the step did to the parts.          *)
LEMMA Preserved ==
  ASSUME IInv, AppStep, where' # "start",
         where' = "input" => a'.ftpStarted /\ ~a'.busy,
         IsReplies(down'), up' = up \/ (\E w : Go(w)) \/ IsCommands(up')
  PROVE  IInv'
<1>1. Lib!Good(s')
  <2>1. Lib!Good(s)
    BY DEF IInv
  <2>2. CASE ClientStep
    BY <2>1, <2>2, LibStep, CodesNat, Lib!StepGood
  <2>3. CASE s' = s
    BY <2>1, <2>3, Zenon
  <2> QED BY <2>2, <2>3, Zenon DEF AppStep
<1>2. s' \in Sessions
  BY <1>1, GoodSession
<1>3. IsCommands(up')
  <2>1. IsCommands(up)
    BY DEF IInv
  <2>2. CASE up' = up
    BY <2>1, <2>2, Zenon
  <2>3. CASE \E w : Go(w)
    BY <1>2, <2>1, <2>3, GoWrites
  <2> QED BY <2>2, <2>3
<1> QED BY <1>1, <1>3, Zenon DEF IInv, AppStep

(* A handler of lwftp.c with the callback it calls.                          *)
LEMMA HandlerStep ==
  ASSUME Lib!Good(s), IsApp(a), Linked(s, a), NEW t, Shape(Quiet(s), t), NEW b, IsApp(b),
         b.busy = a.busy, b.ftpStarted = a.ftpStarted, b.done_fn = a.done_fn, Handler(t, b)
  PROVE  /\ Handled(t) /\ IsApp(a') /\ Linked(s', a')
         /\ a.ftpStarted /\ ~a.busy => a'.ftpStarted /\ ~a'.busy
         /\ \E w : Go(w)
<1> DEFINE w == [s |-> t, a |-> b]
<1>q. Quiet(s).op = s.op
  BY QuietSession
<1>1. PICK pcb \in Memory : Go(IF t.done = <<>> THEN w ELSE Callback(w, Last(t.done), pcb))
  BY DEF Handler
<1>2. CASE t.done = <<>>
  <2>1. Go(w) /\ w.s = t /\ w.a = b
    BY <1>1, <1>2
  <2> HIDE DEF w
  <2>2. s' = t /\ a' = b
    BY <2>1 DEF Go
  <2>3. t.op = s.op
    BY <1>2, <1>q DEF Shape
  <2>4. Linked(t, b)
    BY <2>3 DEF Linked
  <2> QED BY <2>1, <2>2, <2>4, Zenon DEF Handled
<1>3. CASE t.done # <<>>
  <2> DEFINE v == Callback(w, Last(t.done), pcb)
  <2>1. Go(v)
    BY <1>1, <1>3
  <2>2. t \in Sessions /\ t.op = None /\ Last(t.done) # "INPROGRESS" /\ (s.op = None => t.control_state = "CLOSED")
    BY <1>3, <1>q DEF Shape
  <2>3. Continued(v, t, b)
    BY <2>2, MemoryBoolean, CallbackApp
  <2> HIDE DEF v
  <2>4. s' = v.s /\ a' = v.a
    BY <2>1 DEF Go
  <2>5. Handled(t) /\ IsApp(a') /\ Linked(s', a')
    BY <1>3, <2>3, <2>4, Zenon DEF Continued, Handled
  <2>6. ASSUME a.ftpStarted, ~a.busy PROVE a'.ftpStarted /\ ~a'.busy
    <3>1. t.control_state # "LOGGED"
      BY <2>2, <2>6 DEF Linked
    <3> QED BY <2>3, <2>4, <2>6, <3>1, Zenon DEF Continued
  <2> QED BY <2>1, <2>5, <2>6, Zenon
<1> QED BY <1>2, <1>3

(* An operation the user starts.                                             *)
LEMMA UserStep ==
  ASSUME Lib!Good(s), s.op = None, NEW b, IsApp(b), b.busy, b.ftpStarted = a.ftpStarted,
         NEW x \in Ops \ {"RMD"}, b.done_fn = CallbackOf[x],
         NEW u, Starts(Quiet(s), x, u)
  PROVE  /\ Issued(Issue([s |-> s, a |-> b], u), Quiet(s), b, u)
         /\ Called(Quiet(s), u)
<1>1. Quiet(s) \in Sessions /\ Quiet(s).op = None
  BY QuietSession
<1>2. Called(Quiet(s), u)
  BY StartsCall
<1>3. Issued(Issue([s |-> s, a |-> b], u), Quiet(s), b, u)
  BY <1>1, IssueApp
<1> QED BY <1>2, <1>3, Zenon

(* The parts of the invariant, and the session a handler starts in.          *)
LEMMA IInvParts ==
  ASSUME IInv
  PROVE  /\ Lib!Good(s) /\ IsApp(a) /\ Linked(s, a) /\ IsCommands(up) /\ IsReplies(down)
         /\ s \in Sessions /\ Quiet(s) \in Sessions /\ Quiet(s).done = <<>> /\ Quiet(s).op = s.op
         /\ Lib!Good(Quiet(s)) /\ Quiet(s).control_pcb = s.control_pcb
         /\ Quiet(s).data_pcb = s.data_pcb
<1>1. Lib!Good(s) /\ IsApp(a) /\ Linked(s, a) /\ IsCommands(up) /\ IsReplies(down)
  BY Zenon DEF IInv
<1> QED BY <1>1, GoodSession, QuietSession

(* The steps that make no call.                                              *)
LEMMA QuietSteps ==
  ASSUME IInv, LoginOver \/ UploadOver \/ Exit \/ InputEmpty \/ DownloadOver \/ util_MoveFile
  PROVE  AppStep /\ IInv'
<1>1. CASE LoginOver \/ UploadOver \/ Exit \/ InputEmpty
  <2>1. s' = s /\ a' = a /\ up' = up /\ down' = down /\ where' \in {"main", "exit"}
    BY <1>1 DEF LoginOver, UploadOver, Exit, InputEmpty
  <2>2. AppStep
    BY <2>1, IInvParts, Zenon DEF AppStep
  <2>3. IsReplies(down') /\ where' # "start" /\ where' # "input"
    BY <2>1, IInvParts
  <2> QED BY <2>1, <2>2, <2>3, Preserved
<1>2. CASE DownloadOver
  <2> DEFINE b == [Pop(a) EXCEPT !.done_fn = NULL]
  <2>1. s' = s /\ a' = b /\ up' = up /\ down' = down /\ where' = "main"
    BY <1>2 DEF DownloadOver
  <2>2. IsApp(b) /\ b.busy = a.busy /\ b.ftpStarted = a.ftpStarted /\ b.done_fn = NULL
    <3>1. IsApp(Pop(a)) /\ Pop(a).busy = a.busy /\ Pop(a).ftpStarted = a.ftpStarted
      BY IInvParts, PopApp
    <3> QED BY <3>1 DEF IsApp, AppFields, DoneFns
  <2> HIDE DEF b
  <2>3. Linked(s, b)
    BY <2>2, IInvParts DEF Linked
  <2>4. AppStep
    BY <2>1, <2>2, <2>3, Zenon DEF AppStep
  <2>5. IsReplies(down') /\ where' # "start" /\ where' # "input"
    BY <2>1, IInvParts
  <2> QED BY <2>1, <2>4, <2>5, Preserved
<1>3. CASE util_MoveFile
  <2>1. PICK e \in Selected : a' = Push(a, e.name)
    BY <1>3 DEF util_MoveFile
  <2>2. s' = s /\ up' = up /\ down' = down /\ where' = "input" /\ a.ftpStarted /\ ~a.busy
    BY <1>3 DEF util_MoveFile, Idle
  <2>3. IsApp(a') /\ a'.busy = a.busy /\ a'.ftpStarted = a.ftpStarted /\ a'.done_fn = a.done_fn
    BY <2>1, IInvParts, PushApp
  <2>4. Linked(s', a')
    BY <2>2, <2>3, IInvParts DEF Linked
  <2>5. AppStep
    BY <2>2, <2>3, <2>4, Zenon DEF AppStep
  <2>6. IsReplies(down') /\ where' # "start" /\ a'.ftpStarted /\ ~a'.busy
    BY <2>2, <2>3, IInvParts
  <2> QED BY <2>2, <2>5, <2>6, Preserved
<1> QED BY <1>1, <1>2, <1>3

(* main() connects.                                                          *)
LEMMA ConnectStep ==
  ASSUME IInv, Connect
  PROVE  AppStep /\ IInv'
<1>1. PICK pcb \in Memory, link \in Memory :
        LET t == lwftp_connect(Quiet(s), TRUE, pcb, link)
            w == Issue([s |-> s, a |-> a], t)
        IN  /\ Go(w)
            /\ where' = IF Last(t.done) = "INPROGRESS" THEN "login" ELSE "exit"
            /\ down' = IF w.s.control_pcb = NULL THEN <<>> ELSE <<<<220, <<>>>>>>
  BY DEF Connect
<1> DEFINE q == Quiet(s)
           t == lwftp_connect(q, TRUE, pcb, link)
           z == [s |-> s, a |-> a]
           y == [s |-> t, a |-> a]
           w == Issue(z, t)
<1>2. s = FreshSession /\ a = FreshApp
  BY DEF IInv, Connect
<1>3. a.busy = FALSE /\ a.ftpStarted = FALSE /\ a.done_fn = "Connect" /\ IsApp(a)
  BY <1>2, IInvParts DEF FreshApp
<1>4. /\ q \in Sessions /\ q.control_state = "CLOSED" /\ q.control_pcb = NULL /\ q.data_pcb = NULL
      /\ q.done = <<>> /\ q.op = None
  BY <1>2, IInvParts DEF FreshSession, Quiet
<1>5. pcb \in BOOLEAN /\ link \in BOOLEAN
  BY MemoryBoolean
<1>6. Called(q, t)
  BY <1>5, Zenon DEF Called
<1> HIDE DEF q
<1>7. \/ Last(t.done) = "INPROGRESS" /\ t.op = "CONNECT"
      \/ Last(t.done) # "INPROGRESS" /\ t.op = None /\ lwftp_close(t) = t
  <2>l. \A x : Last(Append(q.done, x)) = x
    <3>1. \A x : Append(<<>>, x) = <<x>> /\ Last(<<x>>) = x
      BY DEF Last
    <3> QED BY <1>4, <3>1
  <2>1. CASE ~pcb
    <3>1. t = Return(q, "ERR_MEMORY")
      BY <1>4, <1>5, <2>1 DEF lwftp_connect
    <3>2. t.control_state = "CLOSED" /\ t.op = None /\ t.done = Append(q.done, "ERR_MEMORY")
      BY <1>4, <3>1 DEF Return, Sessions
    <3> QED BY <2>l, <3>2 DEF lwftp_close
  <2>2. CASE pcb /\ link
    <3>1. t = Return([q EXCEPT !.control_pcb = "SYN_SENT", !.op = "CONNECT"], "INPROGRESS")
      BY <1>4, <1>5, <2>2 DEF lwftp_connect
    <3>2. t.op = "CONNECT" /\ t.done = Append(q.done, "INPROGRESS")
      BY <1>4, <3>1 DEF Return, Sessions
    <3> QED BY <2>l, <3>2
  <2>3. CASE pcb /\ ~link
    <3>1. t = Return(lwftp_control_close(q, None), "ERR_UNKNOWN")
      BY <1>4, <1>5, <2>3 DEF lwftp_connect
    <3>2. t.control_state = "CLOSED" /\ t.op = None /\ t.done = Append(q.done, "ERR_UNKNOWN")
      BY <1>4, <3>1 DEF Return, lwftp_control_close, Sessions
    <3> QED BY <2>l, <3>2 DEF lwftp_close
  <2> QED BY <1>5, <2>1, <2>2, <2>3
<1> HIDE DEF t
<1>8. [z EXCEPT !.s = t] = y /\ y.s = t /\ y.a = a
  OBVIOUS
<1>9. w = IF Last(t.done) = "INPROGRESS" THEN y ELSE Fail(y, Last(t.done))
  <2> HIDE DEF z, y
  <2> QED BY <1>8 DEF Issue
<1>10. w.s = t /\ IsApp(w.a) /\ Linked(t, w.a)
  <2>1. CASE Last(t.done) = "INPROGRESS"
    <3>1. w = y
      BY <1>9, <2>1
    <3>2. Linked(t, a)
      BY <1>3, <1>7, <2>1 DEF Linked, CallbackOf
    <3> QED BY <1>3, <1>8, <3>1, <3>2
  <2>2. CASE Last(t.done) # "INPROGRESS"
    <3> DEFINE f == Fail(y, Last(t.done))
    <3>1. Failed(f, t, a)
      BY <1>3, FailApp, Zenon
    <3>2. w = f
      BY <1>9, <2>2
    <3> HIDE DEF w, f
    <3> QED BY <1>3, <1>7, <2>2, <3>1, <3>2 DEF Failed, Linked
  <2> QED BY <2>1, <2>2
<1>11. Go(w) /\ where' \in {"login", "exit"} /\ (down' = <<>> \/ down' = <<<<220, <<>>>>>>)
  BY <1>1 DEF q, t
<1> HIDE DEF w
<1>12. s' = t /\ a' = w.a
  BY <1>10, <1>11 DEF Go
<1>13. AppStep
  BY <1>6, <1>10, <1>12, Zenon DEF AppStep, ClientStep, q
<1>14. IsReplies(down')
  <2>1. 220 \in Codes
    BY DEF Codes
  <2>2. IsReplies(Append(<<>>, <<220, <<>>>>))
    BY <2>1, NoneUnderWay, OneReply
  <2>3. Append(<<>>, <<220, <<>>>>) = <<<<220, <<>>>>>>
    OBVIOUS
  <2> QED BY <1>11, <2>2, <2>3, NoneUnderWay
<1>15. where' # "start" /\ where' # "input"
  BY <1>11
<1>16. \E x : Go(x)
  BY <1>11, Zenon
<1> QED BY <1>13, <1>14, <1>15, <1>16, Preserved

(* An operation on a file.                                                   *)
LEMMA OperateStep ==
  ASSUME IInv, NEW name, NEW of, NEW x \in Ops \ {"RMD"}, NEW u, Starts(Quiet(s), x, u),
         NEW next \in {"main", "upload", "download"}, Operate(name, of, CallbackOf[x], u, next)
  PROVE  AppStep /\ IInv'
<1> DEFINE c == Push(a, name)
           b == [c EXCEPT !.busy = TRUE, !.done_fn = CallbackOf[x]]
           w == Issue([s |-> s, a |-> b], u)
<1>1. Go(w) /\ where' = next /\ down' = down /\ a.ftpStarted /\ ~a.busy
  BY DEF Operate, Idle
<1>2. IsApp(c) /\ c.ftpStarted = a.ftpStarted
  BY IInvParts, PushApp
<1>3. CallbackOf[x] \in DoneFns
  BY DEF CallbackOf, DoneFns, Ops, TransferOps, CommandOps
<1>4. IsApp(b) /\ b.busy /\ b.ftpStarted = a.ftpStarted /\ b.done_fn = CallbackOf[x]
  <2> HIDE DEF c
  <2> QED BY <1>2, <1>3 DEF IsApp, AppFields
<1>5. s.op = None
  BY <1>1, IInvParts DEF Linked
<1> HIDE DEF b
<1>6. Issued(w, Quiet(s), b, u) /\ Called(Quiet(s), u)
  BY <1>4, <1>5, IInvParts, UserStep
<1> HIDE DEF w
<1>7. s' = u /\ IsApp(a') /\ Linked(s', a')
  BY <1>1, <1>6 DEF Go, Issued
<1>8. AppStep
  BY <1>6, <1>7, Zenon DEF AppStep, ClientStep
<1>9. IsReplies(down') /\ where' # "start" /\ where' # "input"
  BY <1>1, IInvParts
<1>10. \E v : Go(v)
  BY <1>1, Zenon
<1> QED BY <1>8, <1>9, <1>10, Preserved

(* Upload, delete and download.                                              *)
LEMMA FileSteps ==
  ASSUME IInv, util_UploadFile \/ util_DeleteFile \/ util_DownloadFile
  PROVE  AppStep /\ IInv'
<1>1. /\ CallbackOf["STOR"] = "Stor" /\ CallbackOf["DELE"] = "Del" /\ CallbackOf["RETR"] = "Retr"
      /\ {"STOR", "DELE", "RETR"} \subseteq Ops \ {"RMD"}
      /\ "STOR" \in TransferOps /\ "RETR" \in TransferOps /\ "DELE" \in CommandOps
  BY DEF CallbackOf, Ops, TransferOps, CommandOps
<1>2. CASE util_UploadFile
  <2>1. PICK pcb \in Memory :
          Operate("u", "u", "Stor", lwftp_transfer(Quiet(s), "STOR", TRUE, pcb), "upload")
    BY <1>2 DEF util_UploadFile
  <2> DEFINE u == lwftp_transfer(Quiet(s), "STOR", TRUE, pcb)
  <2>2. Starts(Quiet(s), "STOR", u)
    BY <1>1, MemoryBoolean, Zenon DEF Starts
  <2> HIDE DEF u
  <2>3. Operate("u", "u", CallbackOf["STOR"], u, "upload")
    BY <1>1, <2>1 DEF u
  <2> QED BY <1>1, <2>2, <2>3, OperateStep
<1>3. CASE util_DeleteFile
  <2>1. PICK e \in Selected :
          Operate(e.name, e.of, "Del", lwftp_command(Quiet(s), "DELE", TRUE), "main")
    BY <1>3 DEF util_DeleteFile
  <2> DEFINE u == lwftp_command(Quiet(s), "DELE", TRUE)
  <2>2. Starts(Quiet(s), "DELE", u)
    BY <1>1, Zenon DEF Starts
  <2> HIDE DEF u
  <2>3. Operate(e.name, e.of, CallbackOf["DELE"], u, "main")
    BY <1>1, <2>1 DEF u
  <2> QED BY <1>1, <2>2, <2>3, OperateStep
<1>4. CASE util_DownloadFile
  <2>1. PICK e \in a.list, pcb \in Memory :
          Operate(Extended(e, e.name), Extended(e, e.of), "Retr",
                  lwftp_transfer(Quiet(s), "RETR", TRUE, pcb), "download")
    BY <1>4 DEF util_DownloadFile
  <2> DEFINE u == lwftp_transfer(Quiet(s), "RETR", TRUE, pcb)
  <2>2. Starts(Quiet(s), "RETR", u)
    BY <1>1, MemoryBoolean, Zenon DEF Starts
  <2> HIDE DEF u
  <2>3. Operate(Extended(e, e.name), Extended(e, e.of), CallbackOf["RETR"], u, "download")
    BY <1>1, <2>1 DEF u
  <2> QED BY <1>1, <2>2, <2>3, OperateStep
<1> QED BY <1>2, <1>3, <1>4

(* A change of directory.                                                    *)
LEMMA ChangeDirStep ==
  ASSUME IInv, Idle, NEW c, IsApp(c), c.ftpStarted = a.ftpStarted, NEW dir, util_ChangeDir(c, dir)
  PROVE  AppStep /\ IInv'
<1> DEFINE b == [c EXCEPT !.busy = TRUE, !.done_fn = "Cwd"]
           u == lwftp_command(Quiet(s), "CWD", TRUE)
           w == Issue([s |-> s, a |-> b], u)
           v == [w EXCEPT !.a.dir = dir]
<1>1. Go(v) /\ where' = where /\ down' = down /\ where = "main" /\ a.ftpStarted /\ ~a.busy
  BY DEF util_ChangeDir, Idle
<1>2. IsApp(b) /\ b.busy /\ b.ftpStarted = a.ftpStarted /\ b.done_fn = "Cwd"
  BY DEF IsApp, AppFields, DoneFns
<1>3. "CWD" \in Ops \ {"RMD"} /\ "CWD" \in CommandOps /\ CallbackOf["CWD"] = "Cwd"
  BY DEF CallbackOf, Ops, CommandOps
<1>4. Starts(Quiet(s), "CWD", u)
  BY <1>3, Zenon DEF Starts
<1>5. s.op = None
  BY <1>1, IInvParts DEF Linked
<1> HIDE DEF b, u
<1>6. Issued(w, Quiet(s), b, u) /\ Called(Quiet(s), u)
  BY <1>2, <1>3, <1>4, <1>5, IInvParts, UserStep
<1> DEFINE d == [w.a EXCEPT !.dir = dir]
<1> HIDE DEF w
<1>7. v = [w EXCEPT !.a = d]
  BY Zenon
<1>8. v = [s |-> w.s, a |-> d]
  <2> HIDE DEF v, d
  <2> DEFINE t == w.s
             e == w.a
  <2>1. w = [s |-> t, a |-> e]
    BY <1>6 DEF Issued
  <2> HIDE DEF t, e
  <2>2. v = [s |-> t, a |-> d]
    BY <1>7, <2>1, WorldApp
  <2> QED BY <2>2 DEF t
<1>9. IsApp(d) /\ d.busy = w.a.busy /\ d.ftpStarted = w.a.ftpStarted /\ d.done_fn = w.a.done_fn
  BY <1>6 DEF Issued, IsApp, AppFields
<1>10. w.s = u /\ Linked(u, w.a)
  BY <1>6 DEF Issued
<1> HIDE DEF d
<1>11. v.s = u /\ v.a = d
  BY <1>8, <1>10
<1> HIDE DEF v
<1>12. s' = u /\ a' = d
  BY <1>1, <1>11 DEF Go
<1>13. Linked(u, d)
  BY <1>9, <1>10 DEF Linked
<1>14. AppStep
  BY <1>6, <1>9, <1>12, <1>13, Zenon DEF AppStep, ClientStep
<1>15. IsReplies(down') /\ where' # "start" /\ where' # "input"
  BY <1>1, IInvParts
<1>16. \E x : Go(x)
  BY <1>1, Zenon
<1> QED BY <1>14, <1>15, <1>16, Preserved

(* The keys 2nd and Y=.                                                      *)
LEMMA DirSteps ==
  ASSUME IInv, Key2nd \/ KeyYequ
  PROVE  AppStep /\ IInv'
<1>1. CASE Key2nd
  <2>1. PICK e \in a.list : Idle /\ util_ChangeDir(Push(a, e.name), a.dir + 1)
    BY <1>1 DEF Key2nd
  <2>2. IsApp(Push(a, e.name)) /\ Push(a, e.name).ftpStarted = a.ftpStarted
    BY IInvParts, PushApp
  <2> QED BY <2>1, <2>2, ChangeDirStep
<1>2. CASE KeyYequ
  <2>1. Idle /\ util_ChangeDir(Pop(a), a.dir - 1)
    BY <1>2 DEF KeyYequ
  <2>2. IsApp(Pop(a)) /\ Pop(a).ftpStarted = a.ftpStarted
    BY IInvParts, PopApp
  <2> QED BY <2>1, <2>2, ChangeDirStep
<1> QED BY <1>1, <1>2

(* util_MoveFile goes on after the input.                                    *)
LEMMA InputStep ==
  ASSUME IInv, InputDone
  PROVE  AppStep /\ IInv'
<1> DEFINE b == [a EXCEPT !.busy = TRUE, !.done_fn = "Move"]
           u == lwftp_command(Quiet(s), "RNFR", TRUE)
           w == Issue([s |-> s, a |-> b], u)
<1>1. Go(w) /\ where' = "main" /\ down' = down /\ where = "input"
  BY DEF InputDone
<1>2. IsApp(b) /\ b.busy /\ b.ftpStarted = a.ftpStarted /\ b.done_fn = "Move"
  BY IInvParts DEF IsApp, AppFields, DoneFns
<1>3. "RNFR" \in Ops \ {"RMD"} /\ "RNFR" \in CommandOps /\ CallbackOf["RNFR"] = "Move"
  BY DEF CallbackOf, Ops, CommandOps
<1>4. Starts(Quiet(s), "RNFR", u)
  BY <1>3, Zenon DEF Starts
<1>5. s.op = None
  <2>1. a.ftpStarted /\ ~a.busy
    BY <1>1 DEF IInv
  <2> QED BY <2>1, IInvParts DEF Linked
<1> HIDE DEF b, u
<1>6. Issued(w, Quiet(s), b, u) /\ Called(Quiet(s), u)
  BY <1>2, <1>3, <1>4, <1>5, IInvParts, UserStep
<1> HIDE DEF w
<1>7. s' = u /\ IsApp(a') /\ Linked(s', a')
  BY <1>1, <1>6 DEF Go, Issued
<1>8. AppStep
  BY <1>6, <1>7, Zenon DEF AppStep, ClientStep
<1>9. IsReplies(down') /\ where' # "start" /\ where' # "input"
  BY <1>1, IInvParts
<1>10. \E v : Go(v)
  BY <1>1, Zenon
<1> QED BY <1>8, <1>9, <1>10, Preserved

(* Clear in the main loop.                                                   *)
LEMMA ClearStep ==
  ASSUME IInv, KeyClear
  PROVE  AppStep /\ IInv'
<1> DEFINE u == lwftp_close(Quiet(s))
           w == [s |-> u, a |-> a]
<1>1. Go(w) /\ where' = "quit" /\ down' = down
  BY DEF KeyClear
<1>2. u.op = s.op
  BY IInvParts DEF lwftp_close, Goto, lwftp_send_msg, Sessions
<1>3. Called(Quiet(s), u)
  BY Zenon DEF Called
<1> HIDE DEF u
<1>4. w.s = u /\ w.a = a
  OBVIOUS
<1> HIDE DEF w
<1>5. s' = u /\ a' = a
  BY <1>1, <1>4 DEF Go
<1>6. Linked(u, a)
  BY <1>2, IInvParts DEF Linked
<1>7. AppStep
  BY <1>3, <1>5, <1>6, IInvParts, Zenon DEF AppStep, ClientStep
<1>8. IsReplies(down') /\ where' # "start" /\ where' # "input"
  BY <1>1, IInvParts
<1>9. \E v : Go(v)
  BY <1>1, Zenon
<1> QED BY <1>7, <1>8, <1>9, Preserved

-----------------------------------------------------------------------------
(* The callbacks of the connections.                                         *)

(* What the callbacks of the connections have in common.                     *)
LEMMA NetworkStep ==
  ASSUME IInv, Served, where' = where, IsReplies(down'), ClientStep, IsApp(a'), Linked(s', a'),
         a.ftpStarted /\ ~a.busy => a'.ftpStarted /\ ~a'.busy, \E w : Go(w)
  PROVE  AppStep /\ IInv'
<1>1. AppStep
  BY Zenon DEF AppStep
<1>2. where' # "start" /\ (where' = "input" => a'.ftpStarted /\ ~a'.busy)
  BY DEF Served, IInv
<1> QED BY <1>1, <1>2, Preserved

(* The control connection opens or fails.                                    *)
LEMMA ControlConnectedStep ==
  ASSUME IInv, ControlConnected
  PROVE  AppStep /\ IInv'
<1>1. Served /\ s.control_pcb = "SYN_SENT" /\ where' = where
  BY DEF ControlConnected
<1>2. Shape(Quiet(s), lwftp_control_connected(Quiet(s))) /\ Shape(Quiet(s), lwftp_control_err(Quiet(s)))
  BY IInvParts, ConnectedShape, ControlErrShape
<1>3. CASE Handler(lwftp_control_connected(Quiet(s)), a) /\ UNCHANGED down
  <2> DEFINE t == lwftp_control_connected(Quiet(s))
  <2>1. /\ Handled(t) /\ IsApp(a') /\ Linked(s', a')
        /\ a.ftpStarted /\ ~a.busy => a'.ftpStarted /\ ~a'.busy
        /\ \E w : Go(w)
    <3> HIDE DEF t
    <3> QED BY <1>2, <1>3, IInvParts, HandlerStep DEF t
  <2>2. ClientStep
    BY <1>1, <2>1, Zenon DEF ClientStep
  <2>3. IsReplies(down')
    BY <1>3, IInvParts
  <2> QED BY <1>1, <2>1, <2>2, <2>3, NetworkStep
<1>4. CASE Handler(lwftp_control_err(Quiet(s)), a) /\ down' = <<>>
  <2> DEFINE t == lwftp_control_err(Quiet(s))
  <2>1. /\ Handled(t) /\ IsApp(a') /\ Linked(s', a')
        /\ a.ftpStarted /\ ~a.busy => a'.ftpStarted /\ ~a'.busy
        /\ \E w : Go(w)
    <3> HIDE DEF t
    <3> QED BY <1>2, <1>4, IInvParts, HandlerStep DEF t
  <2>2. s.control_pcb # NULL
    BY <1>1 DEF NULL
  <2>3. ClientStep
    BY <2>1, <2>2, Zenon DEF ClientStep
  <2>4. IsReplies(down')
    BY <1>4, NoneUnderWay
  <2> QED BY <1>1, <2>1, <2>3, <2>4, NetworkStep
<1> QED BY <1>3, <1>4 DEF ControlConnected

(* A reply.                                                                  *)
LEMMA ControlReplyStep ==
  ASSUME IInv, ControlReply
  PROVE  AppStep /\ IInv'
<1> DEFINE r == Head(down)[1]
           b == IF s.control_state = "PWD_SENT" /\ r = 257
                THEN [a EXCEPT !.path = Head(down)[2]] ELSE a
<1>1. Served /\ s.control_pcb = "ESTABLISHED" /\ where' = where /\ down # <<>>
  BY DEF ControlReply
<1>2. PICK opened \in BOOLEAN :
        /\ Handler(lwftp_control_process(Quiet(s), r, opened, TRUE), b)
        /\ down' = <<>> \/ down' = Tail(down) \/ (Len(down) >= 2 /\ down' = Tail(Tail(down)))
  <2>1. PICK opened \in (IF "data" \in faults THEN BOOLEAN ELSE {TRUE}), k \in Pbuf :
          LET t == lwftp_control_process(Quiet(s), r, opened, TRUE)
          IN  /\ k <= Len(down)
              /\ Handler(t, b)
              /\ down' = IF t.control_pcb = NULL THEN <<>>
                         ELSE IF k = 2 THEN Tail(Tail(down)) ELSE Tail(down)
    BY Zenon DEF ControlReply
  <2>2. opened \in BOOLEAN /\ (k = 2 => Len(down) >= 2)
    BY <2>1
  <2> QED BY <2>1, <2>2, Zenon
<1>3. /\ r \in Codes /\ IsReplies(Tail(down))
      /\ Len(down) >= 2 => IsReplies(Tail(Tail(down)))
  BY <1>1, IInvParts, NextReply
<1>4. IsApp(b) /\ b.busy = a.busy /\ b.ftpStarted = a.ftpStarted /\ b.done_fn = a.done_fn
  BY IInvParts DEF IsApp, AppFields
<1> DEFINE t == lwftp_control_process(Quiet(s), r, opened, TRUE)
<1> HIDE DEF r, b
<1>5. Shape(Quiet(s), t)
  BY <1>1, <1>3, IInvParts, ProcessShape
<1>6. /\ Handled(t) /\ IsApp(a') /\ Linked(s', a')
      /\ a.ftpStarted /\ ~a.busy => a'.ftpStarted /\ ~a'.busy
      /\ \E w : Go(w)
  <2>1. Handler(t, b)
    BY <1>2
  <2> HIDE DEF t
  <2> QED BY <1>4, <1>5, <2>1, IInvParts, HandlerStep
<1>7. ClientStep
  BY <1>1, <1>3, <1>6, Zenon DEF ClientStep
<1>8. IsReplies(down')
  BY <1>2, <1>3, NoneUnderWay
<1> QED BY <1>1, <1>6, <1>7, <1>8, NetworkStep

(* The control connection fails.                                             *)
LEMMA ControlDropStep ==
  ASSUME IInv, ControlDrop
  PROVE  AppStep /\ IInv'
<1> DEFINE t == lwftp_control_err(Quiet(s))
<1>1. Served /\ s.control_pcb # NULL /\ where' = where /\ down' = <<>> /\ Handler(t, a)
  BY DEF ControlDrop, NULL
<1>2. Shape(Quiet(s), t)
  BY IInvParts, ControlErrShape
<1>3. /\ Handled(t) /\ IsApp(a') /\ Linked(s', a')
      /\ a.ftpStarted /\ ~a.busy => a'.ftpStarted /\ ~a'.busy
      /\ \E w : Go(w)
  <2> HIDE DEF t
  <2> QED BY <1>1, <1>2, IInvParts, HandlerStep
<1>4. ClientStep
  BY <1>1, <1>3, Zenon DEF ClientStep
<1>5. IsReplies(down')
  BY <1>1, NoneUnderWay
<1> QED BY <1>1, <1>3, <1>4, <1>5, NetworkStep

(* The data connection opens.                                                *)
LEMMA DataTransferStep ==
  ASSUME IInv, DataTransfer
  PROVE  AppStep /\ IInv'
<1> DEFINE t == lwftp_data_connected(Quiet(s))
           b == IF srv.doing = "MLSD"
                THEN [a EXCEPT !.list = Entries(srv.path, srv.files), !.shown = srv.path]
                ELSE a
<1>1. Served /\ s.data_pcb = "SYN_SENT" /\ where' = where /\ down' = down /\ Handler(t, b)
  BY DEF DataTransfer
<1>2. Shape(Quiet(s), t)
  BY IInvParts, ConnectedShape
<1>3. IsApp(b) /\ b.busy = a.busy /\ b.ftpStarted = a.ftpStarted /\ b.done_fn = a.done_fn
  BY IInvParts DEF IsApp, AppFields
<1>4. /\ Handled(t) /\ IsApp(a') /\ Linked(s', a')
      /\ a.ftpStarted /\ ~a.busy => a'.ftpStarted /\ ~a'.busy
      /\ \E w : Go(w)
  <2> HIDE DEF t, b
  <2> QED BY <1>1, <1>2, <1>3, IInvParts, HandlerStep
<1>5. ClientStep
  BY <1>1, <1>4, Zenon DEF ClientStep
<1>6. IsReplies(down')
  BY <1>1, IInvParts
<1> QED BY <1>1, <1>4, <1>5, <1>6, NetworkStep

(* It fails.                                                                 *)
LEMMA DataErrStep ==
  ASSUME IInv, DataErr
  PROVE  AppStep /\ IInv'
<1> DEFINE t == lwftp_data_err(Quiet(s))
<1>1. /\ Served /\ s.data_pcb \in {"SYN_SENT", "ESTABLISHED"} /\ where' = where /\ down' = down
      /\ Handler(t, a)
  BY DEF DataErr
<1>2. Shape(Quiet(s), t)
  BY <1>1, IInvParts, DataErrShape
<1>3. /\ Handled(t) /\ IsApp(a') /\ Linked(s', a')
      /\ a.ftpStarted /\ ~a.busy => a'.ftpStarted /\ ~a'.busy
      /\ \E w : Go(w)
  <2> HIDE DEF t
  <2> QED BY <1>1, <1>2, IInvParts, HandlerStep
<1>4. ClientStep
  BY <1>1, <1>3, Zenon DEF ClientStep
<1>5. IsReplies(down')
  BY <1>1, IInvParts
<1> QED BY <1>1, <1>3, <1>4, <1>5, NetworkStep

(* The server.                                                               *)
LEMMA ServerStep ==
  ASSUME IInv, Server
  PROVE  AppStep /\ IInv'
<1>1. /\ s' = s /\ a' = a /\ where' = where
      /\ 550 \in Codes /\ 226 \in Codes /\ 426 \in Codes
  BY DEF Server, ServerCommand, ServerDone, Codes
<1>2. AppStep
  BY <1>1, IInvParts, Zenon DEF AppStep
<1>3. ASSUME NEW c \in Codes, NEW x, Reply(c, x) PROVE IsReplies(down')
  BY <1>3, IInvParts, OneReply DEF Reply
<1>4. IsCommands(up') /\ IsReplies(down')
  <2>1. CASE ServerCommand
    <3>1. Head(up)[1] \in Commands /\ IsCommands(Tail(up))
      BY <2>1, IInvParts, NextCommand DEF ServerCommand
    <3>2. IsCommands(up')
      BY <2>1, <3>1 DEF ServerCommand
    <3>3. \/ Possible(Head(up)[1], Head(up)[2]) /\ Perform(Head(up)[1], Head(up)[2])
          \/ Reply(550, <<>>)
      BY <2>1, Zenon DEF ServerCommand
    <3>4. IsReplies(down')
      BY <1>1, <1>3, <3>1, <3>3, IInvParts, PerformReplies
    <3> QED BY <3>2, <3>4
  <2>2. CASE ServerDone
    <3>1. up' = up /\ (Reply(226, <<>>) \/ Reply(426, <<>>))
      BY <2>2, Zenon DEF ServerDone
    <3> QED BY <1>1, <1>3, <3>1, IInvParts
  <2> QED BY <2>1, <2>2 DEF Server
<1> QED BY <1>1, <1>2, <1>4, Zenon DEF IInv, AppStep

-----------------------------------------------------------------------------
(* One step per action.                                                      *)
LEMMA Stepwise ==
  ASSUME IInv, Next
  PROVE  AppStep /\ IInv'
BY QuietSteps, ConnectStep, FileSteps, DirSteps, InputStep, ClearStep, ControlConnectedStep,
   ControlReplyStep, ControlDropStep, DataTransferStep, DataErrStep, ServerStep, Zenon
   DEF Next, User, Main, Network

(* Before main() connects.                                                   *)
LEMMA Initially ==
  ASSUME Init
  PROVE  IInv /\ Library!Init
<1>1. s = FreshSession /\ a = FreshApp /\ up = <<>> /\ down = <<>> /\ where = "start"
  BY DEF Init
<1>2. Lib!Init /\ Library!Init
  BY <1>1, SameLib, SameLibrary, Zenon DEF Lib!Init, Library!Init
<1>3. Lib!Good(s)
  BY <1>2, CodesNat, Lib!InitGood
<1>4. IsApp(a)
  BY <1>1 DEF IsApp, FreshApp, AppFields, DoneFns
<1>5. Linked(s, a)
  BY <1>1 DEF Linked, FreshApp, FreshSession
<1>6. where # "input"
  BY <1>1
<1> QED BY <1>1, <1>2, <1>3, <1>4, <1>5, <1>6, NoneUnderWay, Zenon DEF IInv

(* The invariant holds in every behaviour of the program.                    *)
THEOREM IInvAlways == Spec => []IInv
<1>1. Init => IInv
  BY Initially
<1>2. IInv /\ [Next]_vars => IInv'
  <2>1. ASSUME IInv, UNCHANGED vars PROVE IInv'
    BY <2>1 DEF IInv, vars, state
  <2> QED BY <2>1, Stepwise
<1> QED BY <1>1, <1>2, PTL DEF Spec

(* busy tells the truth about the session: once logged in the main loop lets *)
(* a key start an operation only when lwftp.c owes no result of an earlier   *)
(* one, and busy with a callback installed means a result is owed, for every *)
(* server, every fault and any number of operations.                         *)
THEOREM BusyAlways == Spec => []BusyIsOwed
<1>1. IInv => BusyIsOwed
  BY DEF IInv, Linked, BusyIsOwed
<1> QED BY <1>1, IInvAlways, PTL

(* The result of an operation reaches the callback util_* installed for it,  *)
(* never the one of the operation before.                                    *)
THEOREM CallbackAlways == Spec => []CallbackMatches
<1>1. IInv => CallbackMatches
  BY DEF IInv, Linked, CallbackMatches
<1> QED BY <1>1, IInvAlways, PTL

(* The program is a client of lwftp.c as LwFtpClient describes one: every    *)
(* step of main.c, ftp.c and utility.c is one API call, one handler with at  *)
(* most one call from its callback, or leaves the session alone.             *)
THEOREM ClientImplemented == Spec => IsClient
<1>1. Init => Library!Init
  BY Initially
<1>2. IInv /\ [Next]_vars => [Library!Next]_s
  <2>1. ASSUME IInv, Next PROVE [Library!Next]_s
    BY <2>1, Stepwise, LibraryStep, Zenon DEF AppStep
  <2>2. ASSUME UNCHANGED vars PROVE UNCHANGED s
    BY <2>2 DEF vars, state
  <2> QED BY <2>1, <2>2
<1> QED BY <1>1, <1>2, IInvAlways, PTL DEF Spec, IsClient, Library!Spec

(* So the contract of FtpContract holds in the program: one operation at a   *)
(* time, started only when the session is idle and answered once, and none   *)
(* once the session is being closed.                                         *)
THEOREM ContractInProgram == Spec => Lib!KeepsContract
<1>1. Init => Lib!Init
  BY SameLib, Zenon DEF Init, Lib!Init
<1>2. IInv /\ [Next]_vars => [Lib!Next]_s
  <2>1. ASSUME IInv, Next PROVE [Lib!Next]_s
    BY <2>1, Stepwise, LibStep, Zenon DEF AppStep
  <2>2. ASSUME UNCHANGED vars PROVE UNCHANGED s
    BY <2>2 DEF vars, state
  <2> QED BY <2>1, <2>2
<1>3. Spec => Lib!Spec
  BY <1>1, <1>2, IInvAlways, PTL DEF Spec, Lib!Spec
<1>4. Lib!Spec => Lib!KeepsContract
  BY CodesNat, Lib!ContractKept
<1> QED BY <1>3, <1>4, PTL

-----------------------------------------------------------------------------
(* Paths.                                                                    *)

(* The names a path can hold, and the directories a session can be in when   *)
(* the login leads below the root.                                           *)
FileNames == {"f", "u", "m"}
Names == {Home[i] : i \in 1..Len(Home)} \cup FileNames \cup {"d", "d.8xp"}
Clean == Seq(Names)
HomeBelow == Home # <<>> /\ \A i \in 1..Len(Home) : Home[i] # ""
Places == {Home, Append(Home, "d")}
Files == {Append(d, x) : d \in Places, x \in FileNames}

(* The names the program uses.                                               *)
LEMMA NamesUsed ==
  /\ FileNames \cup {"d", "d.8xp"} \subseteq Names /\ "d" \notin FileNames
  /\ Home \in Clean /\ (HomeBelow => "" \notin Names)
<1>1. FileNames \cup {"d", "d.8xp"} \subseteq Names /\ "d" \notin FileNames
  BY DEF Names, FileNames
<1>2. Home \in Clean
  <2>1. Home \in Seq(STRING)
    BY AppAssumption
  <2> DEFINE k == Len(Home)
  <2>2. k \in Nat /\ Home = [i \in 1..k |-> Home[i]]
    BY <2>1
  <2>3. \A i \in 1..k : Home[i] \in Names
    BY Zenon DEF Names
  <2> HIDE DEF k
  <2>4. Home \in [1..k -> Names]
    BY <2>2, <2>3
  <2> QED BY <2>2, <2>4 DEF Clean
<1>3. HomeBelow => "" \notin Names
  BY DEF HomeBelow, Names, FileNames
<1> QED BY <1>1, <1>2, <1>3

(* A name put behind a path.                                                 *)
LEMMA PushedPath ==
  ASSUME NEW p \in Clean, NEW x \in Names
  PROVE  /\ Append(p, x) \in Clean /\ Append(p, x) # <<>> /\ Len(Append(p, x)) = Len(p) + 1
         /\ Front(Append(p, x)) = p /\ Last(Append(p, x)) = x
<1> DEFINE q == Append(p, x)
<1>1. q \in Seq(Names) /\ Len(q) = Len(p) + 1 /\ q[Len(q)] = x /\ q # <<>>
  BY DEF Clean
<1>2. Front(q) = p
  <2>1. Front(q) = SubSeq(q, 1, Len(p))
    BY <1>1 DEF Front, Clean
  <2>2. SubSeq(q, 1, Len(p)) = p
    BY DEF Clean
  <2> QED BY <2>1, <2>2
<1>3. Last(q) = x
  BY <1>1 DEF Last
<1> QED BY <1>1, <1>2, <1>3 DEF Clean

(* A path cut at its last name.                                              *)
LEMMA CutPath ==
  ASSUME NEW p \in Clean, p # <<>>
  PROVE  /\ Front(p) \in Clean /\ Last(p) \in Names /\ Len(Front(p)) = Len(p) - 1
         /\ p = Append(Front(p), Last(p))
<1>1. Len(p) \in Nat /\ Len(p) > 0 /\ p \in Seq(Names)
  BY EmptySeq DEF Clean
<1>2. Front(p) \in Seq(Names) /\ Len(Front(p)) = Len(p) - 1
      /\ \A i \in 1..(Len(p) - 1) : Front(p)[i] = p[i]
  <2> DEFINE k == Len(p) - 1
  <2>1. k \in Nat /\ k <= Len(p) /\ Front(p) = SubSeq(p, 1, k)
    BY <1>1 DEF Front
  <2> HIDE DEF k
  <2>2. SubSeq(p, 1, k) \in Seq(Names) /\ Len(SubSeq(p, 1, k)) = k
        /\ \A i \in 1..k : SubSeq(p, 1, k)[i] = p[i]
    BY <1>1, <2>1
  <2> QED BY <2>1, <2>2 DEF k
<1>3. Last(p) \in Names
  BY <1>1 DEF Last
<1>4. p = Append(Front(p), Last(p))
  BY <1>1, <1>2, <1>3 DEF Last
<1> QED BY <1>2, <1>3, <1>4 DEF Clean

(* A server reads such a path as it is.                                      *)
LEMMA CleanResolves ==
  ASSUME HomeBelow, NEW p \in Clean
  PROVE  Resolve(p) = p
<1>1. \A i \in 1..Len(p) : p[i] \in Names
  BY DEF Clean
<1>2. \A i \in 1..Len(p) : p[i] # ""
  BY <1>1, NamesUsed
<1> QED BY <1>2, Zenon DEF Resolve

(* The server's directories.                                                 *)
LEMMA PlacePaths ==
  ASSUME HomeBelow
  PROVE  /\ Places \subseteq Clean /\ <<>> \notin Places /\ Dirs = Places \cup {<<>>}
         /\ Len(Home) \in Nat \ {0} /\ Home \in Places
         /\ \A p \in Places : Len(p) \in {Len(Home), Len(Home) + 1} /\ Resolve(p) = p
<1>1. Home \in Clean /\ Home # <<>> /\ Len(Home) \in Nat
  <2>1. Home \in Clean /\ Home # <<>>
    BY NamesUsed, Zenon DEF HomeBelow
  <2>2. Len(Home) \in Nat
    BY <2>1 DEF Clean
  <2> QED BY <2>1, <2>2
<1>2. Len(Home) # 0
  BY <1>1, EmptySeq DEF Clean
<1>3. Append(Home, "d") \in Clean /\ Append(Home, "d") # <<>> /\ Len(Append(Home, "d")) = Len(Home) + 1
  BY <1>1, NamesUsed, PushedPath
<1> QED BY <1>1, <1>2, <1>3, CleanResolves, Zenon DEF Places, Dirs

(* Only one name leads to a directory.                                       *)
LEMMA OnlyDown ==
  ASSUME HomeBelow, NEW p \in Clean, Len(p) >= Len(Home), NEW x \in Names, Append(p, x) \in Places
  PROVE  p = Home /\ x = "d"
<1>1. Len(Append(p, x)) = Len(p) + 1 /\ Front(Append(p, x)) = p /\ Last(Append(p, x)) = x
  BY PushedPath
<1>2. Len(Home) \in Nat /\ Len(p) \in Nat
  BY PlacePaths DEF Clean
<1>3. Append(p, x) # Home
  BY <1>1, <1>2
<1>4. Append(p, x) = Append(Home, "d")
  BY <1>3 DEF Places
<1>5. Front(Append(Home, "d")) = Home /\ Last(Append(Home, "d")) = "d"
  BY PlacePaths, NamesUsed, PushedPath
<1> QED BY <1>1, <1>4, <1>5

(* What a list shows: files, and the directory below.                        *)
Listed(list) ==
  \A e \in list : \/ e.type = "file" /\ e.name \in FileNames /\ e.of = e.name
                  \/ e.type = "dir" /\ e.name = "d"

(* A listing shows what is there.                                            *)
LEMMA EntriesListed ==
  ASSUME HomeBelow, NEW d \in Places, NEW files \in SUBSET Files
  PROVE  /\ Listed(Entries(d, files))
         /\ \A e \in Entries(d, files) : /\ e.type = "file" => Append(d, e.name) \in files
                                         /\ e.type = "dir" => Append(d, e.name) \in Places
<1> SUFFICES ASSUME NEW e \in Entries(d, files)
             PROVE  \/ /\ e.type = "file" /\ e.name \in FileNames /\ e.of = e.name
                       /\ Append(d, e.name) \in files
                    \/ e.type = "dir" /\ e.name = "d" /\ Append(d, e.name) \in Places
  BY Zenon DEF Listed
<1>1. CASE \E f \in files : Front(f) = d /\ e = [type |-> "file", name |-> Kept(Last(f)), of |-> Last(f)]
  <2>1. PICK f \in files : Front(f) = d /\ e = [type |-> "file", name |-> Kept(Last(f)), of |-> Last(f)]
    BY <1>1
  <2>2. PICK g \in Places, x \in FileNames : f = Append(g, x)
    BY <2>1 DEF Files
  <2>3. Front(f) = g /\ Last(f) = x
    BY <2>2, PlacePaths, NamesUsed, PushedPath
  <2>4. Kept(x) = x
    BY DEF Kept, FileNames
  <2> QED BY <2>1, <2>2, <2>3, <2>4
<1>2. CASE \E f \in Dirs \ {<<>>} : Front(f) = d /\ e = [type |-> "dir", name |-> Last(f), of |-> Last(f)]
  <2>1. PICK f \in Places : Front(f) = d /\ e = [type |-> "dir", name |-> Last(f), of |-> Last(f)]
    BY <1>2, PlacePaths
  <2>2. f \in Clean /\ f # <<>> /\ d \in Clean
    BY PlacePaths
  <2>3. f = Append(d, Last(f)) /\ Last(f) \in Names
    BY <2>1, <2>2, CutPath
  <2>4. Len(d) >= Len(Home)
    BY PlacePaths
  <2>5. Last(f) = "d"
    BY <2>2, <2>3, <2>4, OnlyDown
  <2> QED BY <2>1, <2>3, <2>5
<1>3. \/ \E f \in files : Front(f) = d /\ e = [type |-> "file", name |-> Kept(Last(f)), of |-> Last(f)]
      \/ \E f \in Dirs \ {<<>>} : Front(f) = d /\ e = [type |-> "dir", name |-> Last(f), of |-> Last(f)]
  BY Zenon DEF Entries
<1> QED BY <1>1, <1>2, <1>3

-----------------------------------------------------------------------------
(* lwftp_control_process, reply by reply.                                    *)

(* A session in which a handler starts.                                      *)
Rested(q) == q \in Sessions /\ q.sent = <<>> /\ q.done = <<>>

(* The session t goes on from q with the command c written.                  *)
Sent(q, t, st, c) ==
  /\ t.control_state = st /\ t.sent = <<c>> /\ t.done = <<>> /\ t.op = q.op
  /\ t.target_state = q.target_state /\ t.control_pcb = q.control_pcb

(* What the expected reply of a state leads to.                              *)
LEMMA Advances ==
  ASSUME NEW q \in Sessions, NEW r, q.control_state \in DOMAIN Expected, r = Expected[q.control_state]
  PROVE  /\ FirstSwitch(q, r, TRUE, TRUE) = Advance(q, TRUE, TRUE)
         /\ lwftp_control_process(q, r, TRUE, TRUE) =
              SecondSwitch(Advance(q, TRUE, TRUE), ResultOf(q.control_state, r))
<1>1. q.control_state \in Awaiting /\ r # 0
  BY DEF Expected, Awaiting, LoginStates, TransferStates, CommandStates
<1>2. FirstSwitch(q, r, TRUE, TRUE) = Advance(q, TRUE, TRUE)
  BY <1>1 DEF FirstSwitch
<1> QED BY <1>2, Zenon DEF lwftp_control_process

(* A state the second switch leaves alone.                                   *)
Lasting(st) == st \notin {"DATAEND", "CMDEND", "QUIT", "CLOSING"}

(* A state that writes the next command.                                     *)
LEMMA AdvanceSends ==
  ASSUME NEW q, Rested(q), NEW c, NEW st, Lasting(st)
  PROVE  LET u == Goto(lwftp_send_msg(q, c), st)
         IN  Sent(q, u, st, c) /\ u.data_pcb = q.data_pcb /\ \A res : SecondSwitch(u, res) = u
<1> DEFINE u == Goto(lwftp_send_msg(q, c), st)
<1>1. Append(q.sent, c) = <<c>> /\ q \in Sessions
  BY DEF Rested
<1>2. Sent(q, u, st, c) /\ u.data_pcb = q.data_pcb
  BY <1>1 DEF Goto, lwftp_send_msg, Sent, Rested, Sessions
<1> HIDE DEF u
<1>3. \A res : SecondSwitch(u, res) = u
  BY <1>2 DEF SecondSwitch, Sent, Lasting
<1>4. Sent(q, u, st, c) /\ u.data_pcb = q.data_pcb /\ \A res : SecondSwitch(u, res) = u
  BY <1>2, <1>3
<1> QED BY <1>4 DEF u

(* The replies that are followed by the next command.                        *)
LEMMA ProcessSends ==
  ASSUME NEW q, Rested(q)
  PROVE  /\ q.control_state = "CONNECTED" =>
              LET t == lwftp_control_process(q, 220, TRUE, TRUE)
              IN  Sent(q, t, "USER_SENT", "USER") /\ t.data_pcb = q.data_pcb
         /\ q.control_state = "USER_SENT" =>
              LET t == lwftp_control_process(q, 331, TRUE, TRUE)
              IN  Sent(q, t, "PASS_SENT", "PASS") /\ t.data_pcb = q.data_pcb
         /\ q.control_state = "TYPE_SENT" =>
              LET t == lwftp_control_process(q, 200, TRUE, TRUE)
              IN  Sent(q, t, "PASV_SENT", "PASV") /\ t.data_pcb = q.data_pcb
         /\ q.control_state = "RNFR_SENT" =>
              LET t == lwftp_control_process(q, 350, TRUE, TRUE)
              IN  Sent(q, t, "RNTO_SENT", "RNTO") /\ t.data_pcb = q.data_pcb
<1>q. q \in Sessions
  BY DEF Rested
<1>1. ASSUME q.control_state = "CONNECTED"
      PROVE  LET t == lwftp_control_process(q, 220, TRUE, TRUE)
             IN  Sent(q, t, "USER_SENT", "USER") /\ t.data_pcb = q.data_pcb
  <2>1. q.control_state \in DOMAIN Expected /\ 220 = Expected[q.control_state]
    BY <1>1 DEF Expected
  <2>2. Advance(q, TRUE, TRUE) = Goto(lwftp_send_msg(q, "USER"), "USER_SENT")
    BY <1>1 DEF Advance
  <2>3. Lasting("USER_SENT")
    BY DEF Lasting
  <2> DEFINE u == Goto(lwftp_send_msg(q, "USER"), "USER_SENT")
             res == ResultOf(q.control_state, 220)
  <2>4. Sent(q, u, "USER_SENT", "USER") /\ u.data_pcb = q.data_pcb /\ SecondSwitch(u, res) = u
    BY <2>3, AdvanceSends, Zenon
  <2>5. lwftp_control_process(q, 220, TRUE, TRUE) = SecondSwitch(Advance(q, TRUE, TRUE), res)
    BY <1>q, <2>1, Advances, Zenon
  <2> HIDE DEF u
  <2> QED BY <2>2, <2>4, <2>5, Zenon DEF u
<1>2. ASSUME q.control_state = "USER_SENT"
      PROVE  LET t == lwftp_control_process(q, 331, TRUE, TRUE)
             IN  Sent(q, t, "PASS_SENT", "PASS") /\ t.data_pcb = q.data_pcb
  <2>1. q.control_state \in DOMAIN Expected /\ 331 = Expected[q.control_state]
    BY <1>2 DEF Expected
  <2>2. Advance(q, TRUE, TRUE) = Goto(lwftp_send_msg(q, "PASS"), "PASS_SENT")
    BY <1>2 DEF Advance
  <2>3. Lasting("PASS_SENT")
    BY DEF Lasting
  <2> DEFINE u == Goto(lwftp_send_msg(q, "PASS"), "PASS_SENT")
             res == ResultOf(q.control_state, 331)
  <2>4. Sent(q, u, "PASS_SENT", "PASS") /\ u.data_pcb = q.data_pcb /\ SecondSwitch(u, res) = u
    BY <2>3, AdvanceSends, Zenon
  <2>5. lwftp_control_process(q, 331, TRUE, TRUE) = SecondSwitch(Advance(q, TRUE, TRUE), res)
    BY <1>q, <2>1, Advances, Zenon
  <2> HIDE DEF u
  <2> QED BY <2>2, <2>4, <2>5, Zenon DEF u
<1>3. ASSUME q.control_state = "TYPE_SENT"
      PROVE  LET t == lwftp_control_process(q, 200, TRUE, TRUE)
             IN  Sent(q, t, "PASV_SENT", "PASV") /\ t.data_pcb = q.data_pcb
  <2>1. q.control_state \in DOMAIN Expected /\ 200 = Expected[q.control_state]
    BY <1>3 DEF Expected
  <2>2. Advance(q, TRUE, TRUE) = Goto(lwftp_send_msg(q, "PASV"), "PASV_SENT")
    BY <1>3 DEF Advance
  <2>3. Lasting("PASV_SENT")
    BY DEF Lasting
  <2> DEFINE u == Goto(lwftp_send_msg(q, "PASV"), "PASV_SENT")
             res == ResultOf(q.control_state, 200)
  <2>4. Sent(q, u, "PASV_SENT", "PASV") /\ u.data_pcb = q.data_pcb /\ SecondSwitch(u, res) = u
    BY <2>3, AdvanceSends, Zenon
  <2>5. lwftp_control_process(q, 200, TRUE, TRUE) = SecondSwitch(Advance(q, TRUE, TRUE), res)
    BY <1>q, <2>1, Advances, Zenon
  <2> HIDE DEF u
  <2> QED BY <2>2, <2>4, <2>5, Zenon DEF u
<1>4. ASSUME q.control_state = "RNFR_SENT"
      PROVE  LET t == lwftp_control_process(q, 350, TRUE, TRUE)
             IN  Sent(q, t, "RNTO_SENT", "RNTO") /\ t.data_pcb = q.data_pcb
  <2>1. q.control_state \in DOMAIN Expected /\ 350 = Expected[q.control_state]
    BY <1>4 DEF Expected
  <2>2. Advance(q, TRUE, TRUE) = Goto(lwftp_send_msg(q, "RNTO"), "RNTO_SENT")
    BY <1>4 DEF Advance
  <2>3. Lasting("RNTO_SENT")
    BY DEF Lasting
  <2> DEFINE u == Goto(lwftp_send_msg(q, "RNTO"), "RNTO_SENT")
             res == ResultOf(q.control_state, 350)
  <2>4. Sent(q, u, "RNTO_SENT", "RNTO") /\ u.data_pcb = q.data_pcb /\ SecondSwitch(u, res) = u
    BY <2>3, AdvanceSends, Zenon
  <2>5. lwftp_control_process(q, 350, TRUE, TRUE) = SecondSwitch(Advance(q, TRUE, TRUE), res)
    BY <1>q, <2>1, Advances, ZenonT(60)
  <2> HIDE DEF u
  <2> QED BY <2>2, <2>4, <2>5, ZenonT(60) DEF u
<1> QED BY <1>1, <1>2, <1>3, <1>4, Zenon

(* 230: the login is over.                                                   *)
LEMMA ProcessLogs ==
  ASSUME NEW q, Rested(q), q.control_state = "PASS_SENT"
  PROVE  LET t == lwftp_control_process(q, 230, TRUE, TRUE)
         IN  /\ t.control_state = "LOGGED" /\ t.sent = <<>> /\ t.done = <<"LOGGED">> /\ t.op = None
             /\ t.data_pcb = q.data_pcb /\ t.control_pcb = q.control_pcb
<1> DEFINE v == Goto(q, "LOGGED")
           u == Report(v, "LOGGED")
<1>q. q \in Sessions
  BY DEF Rested
<1>1. q.control_state \in DOMAIN Expected /\ 230 = Expected[q.control_state]
  BY DEF Expected
<1>2. Advance(q, TRUE, TRUE) = Report(Goto(q, "LOGGED"), "LOGGED")
  BY DEF Advance
<1>3. /\ v.control_state = "LOGGED" /\ v.sent = <<>> /\ v.done = <<>> /\ DOMAIN v = DOMAIN q
      /\ v.data_pcb = q.data_pcb /\ v.control_pcb = q.control_pcb
  BY DEF Goto, Rested, Sessions
<1> HIDE DEF v
<1>d. Append(v.done, "LOGGED") = <<"LOGGED">>
  BY <1>3
<1>4. /\ u.control_state = "LOGGED" /\ u.sent = <<>> /\ u.done = <<"LOGGED">> /\ u.op = None
      /\ u.data_pcb = q.data_pcb /\ u.control_pcb = q.control_pcb
  BY <1>3, <1>d DEF Report, Rested, Sessions
<1> HIDE DEF u
<1>5. SecondSwitch(u, ResultOf(q.control_state, 230)) = u
  BY <1>4 DEF SecondSwitch
<1>6. lwftp_control_process(q, 230, TRUE, TRUE) = u
  BY <1>q, <1>1, <1>2, <1>5, Advances, ZenonT(60) DEF u, v
<1> QED BY <1>4, <1>6, Zenon

(* 227: the data connection is opened and the transfer's command written.    *)
LEMMA ProcessIssues ==
  ASSUME NEW q, Rested(q), q.control_state = "PASV_SENT", NEW op \in TransferOps,
         q.target_state = SentState[op]
  PROVE  LET t == lwftp_control_process(q, 227, TRUE, TRUE)
         IN  Sent(q, t, SentState[op], op) /\ t.data_pcb = "SYN_SENT"
<1> DEFINE v == [q EXCEPT !.data_pcb = "SYN_SENT"]
           u == lwftp_issue_transfer(v)
<1>q. q \in Sessions
  BY DEF Rested
<1>1. q.control_state \in DOMAIN Expected /\ 227 = Expected[q.control_state]
  BY DEF Expected
<1>2. Advance(q, TRUE, TRUE) = lwftp_issue_transfer(v)
  BY DEF Advance, lwftp_data_open
<1>3. SentState[op] \in TransferStates
  BY DEF TransferOps, SentState, TransferStates
<1>4. (CHOOSE x \in TransferOps : SentState[x] = SentState[op]) = op
  BY DEF TransferOps, SentState
<1>5. v.target_state = SentState[op] /\ v.sent = <<>> /\ DOMAIN v = DOMAIN q
  BY DEF Rested, Sessions
<1>6. /\ v.done = <<>> /\ v.op = q.op /\ v.control_pcb = q.control_pcb /\ v.data_pcb = "SYN_SENT"
  BY DEF Rested, Sessions
<1> HIDE DEF v
<1>7. /\ u.control_state = SentState[op] /\ u.sent = <<op>> /\ u.done = <<>> /\ u.op = q.op
      /\ u.target_state = q.target_state /\ u.control_pcb = q.control_pcb /\ u.data_pcb = "SYN_SENT"
  <2>1. v.target_state \in TransferStates /\ (CHOOSE x \in TransferOps : SentState[x] = v.target_state) = op
    BY <1>3, <1>4, <1>5
  <2> DEFINE m == lwftp_send_msg(v, op)
  <2>2. u = [m EXCEPT !.target_state = v.target_state, !.control_state = v.target_state]
    BY <2>1 DEF lwftp_issue_transfer
  <2>3. Append(v.sent, op) = <<op>>
    BY <1>5
  <2>4. /\ m.sent = <<op>> /\ m.done = <<>> /\ m.op = q.op /\ DOMAIN m = DOMAIN q
        /\ m.control_pcb = q.control_pcb /\ m.data_pcb = "SYN_SENT"
    BY <1>5, <1>6, <1>q, <2>3 DEF lwftp_send_msg, Sessions
  <2> HIDE DEF m
  <2> QED BY <1>5, <1>q, <2>2, <2>4 DEF Sessions
<1> HIDE DEF u
<1>8. SecondSwitch(u, ResultOf(q.control_state, 227)) = u
  BY <1>3, <1>7 DEF SecondSwitch, TransferStates
<1>9. lwftp_control_process(q, 227, TRUE, TRUE) = u
  BY <1>q, <1>1, <1>2, <1>8, Advances, Zenon DEF u
<1> QED BY <1>7, <1>9, Zenon DEF Sent

(* 150: the transfer begins.                                                 *)
LEMMA ProcessStarts ==
  ASSUME NEW q, Rested(q), q.control_state \in TransferStates
  PROVE  LET t == lwftp_control_process(q, 150, TRUE, TRUE)
         IN  /\ t.control_state = "XFERING" /\ t.sent = <<>> /\ t.done = <<>> /\ t.op = q.op
             /\ t.data_pcb = q.data_pcb /\ t.control_pcb = q.control_pcb
             /\ t.target_state = q.target_state
<1> DEFINE u == Advance(q, TRUE, TRUE)
<1>q. q \in Sessions
  BY DEF Rested
<1>1. q.control_state \in DOMAIN Expected /\ 150 = Expected[q.control_state]
  BY DEF Expected, TransferStates
<1>2. u = Goto(q, "XFERING") \/ u = lwftp_data_sent(Goto(q, "XFERING"), TRUE)
  BY DEF Advance, TransferStates
<1>3. /\ u.control_state = "XFERING" /\ u.sent = <<>> /\ u.done = <<>> /\ u.op = q.op
      /\ u.data_pcb = q.data_pcb /\ u.control_pcb = q.control_pcb /\ u.target_state = q.target_state
  <2> HIDE DEF u
  <2> QED BY <1>2 DEF Goto, lwftp_data_sent, lwftp_send_next_data, Rested, Sessions
<1>4. SecondSwitch(u, ResultOf(q.control_state, 150)) = u
  <2> HIDE DEF u
  <2> QED BY <1>3 DEF SecondSwitch
<1>5. lwftp_control_process(q, 150, TRUE, TRUE) = u
  BY <1>q, <1>1, <1>4, Advances
<1> QED BY <1>3, <1>5, Zenon

(* A session whose operation has ended with the result res.                  *)
Ended(q, t, res) ==
  /\ t.control_state = "LOGGED" /\ t.sent = <<>> /\ t.done = <<res>> /\ t.op = None
  /\ t.data_pcb = NULL /\ t.control_pcb = q.control_pcb

(* The reply that ends an operation, whether it was carried out or not.      *)
LEMMA ProcessEnds ==
  ASSUME NEW q, Rested(q), NEW r, r # 0,
         \/ q.control_state \in TransferStates /\ r # 150
         \/ q.control_state = "XFERING"
         \/ q.control_state \in CommandStates /\ q.data_pcb = NULL /\ r # 350
  PROVE  Ended(q, lwftp_control_process(q, r, TRUE, TRUE), ResultOf(q.control_state, r))
<1> DEFINE res == ResultOf(q.control_state, r)
           st == Otherwise(q.control_state)
           u == [q EXCEPT !.control_state = st]
           w == SecondSwitch(u, res)
<1>q. q \in Sessions
  BY DEF Rested
<1>1. /\ q.control_state \in Awaiting
      /\ ~(q.control_state \in DOMAIN Expected /\ r = Expected[q.control_state])
  BY DEF Awaiting, Expected, TransferStates, CommandStates
<1>2. FirstSwitch(q, r, TRUE, TRUE) = u
  BY <1>1 DEF FirstSwitch, Goto
<1>3. \/ st = "DATAEND"
      \/ st = "CMDEND" /\ q.data_pcb = NULL
  BY DEF Otherwise, LoginStates, TransferStates, CommandStates
<1>4. u \in [DOMAIN q -> UNION {{q[f], st} : f \in DOMAIN q}] /\ u.control_state = st /\ u.data_pcb = q.data_pcb
      /\ u.sent = <<>> /\ u.done = <<>> /\ u.control_pcb = q.control_pcb /\ DOMAIN u = DOMAIN q
  BY DEF Rested, Sessions
<1> HIDE DEF u, st, res
<1>5. Append(u.done, res) = <<res>>
  BY <1>4
<1>6. Ended(q, w, res)
  <2>1. CASE st = "DATAEND"
    <3>1. w = lwftp_data_close(Goto(u, "LOGGED"), res)
      BY <1>4, <2>1 DEF SecondSwitch
    <3> QED BY <1>4, <1>5, <1>q, <3>1, ZenonT(60) DEF lwftp_data_close, Report, Goto, Ended, Sessions
  <2>2. CASE st = "CMDEND" /\ q.data_pcb = NULL
    <3>1. w = Report(Goto(u, "LOGGED"), res)
      BY <1>4, <2>2 DEF SecondSwitch
    <3> QED BY <1>4, <1>5, <1>q, <2>2, <3>1, ZenonT(60) DEF Report, Goto, Ended, Sessions
  <2> QED BY <1>3, <2>1, <2>2
<1> QED BY <1>2, <1>6, Zenon DEF lwftp_control_process, w, res

(* A refusal of the login, of TYPE or of PASV.                               *)
LEMMA ProcessQuits ==
  ASSUME NEW q, Rested(q), q.control_state \in LoginStates \cup {"TYPE_SENT", "PASV_SENT"}
  PROVE  LET t == lwftp_control_process(q, 550, TRUE, TRUE)
         IN  Sent(q, t, "QUIT_SENT", "QUIT")
<1> DEFINE res == ResultOf(q.control_state, 550)
           u == [q EXCEPT !.control_state = "QUIT"]
           w == Goto(lwftp_send_msg(u, "QUIT"), "QUIT_SENT")
<1>1. /\ q.control_state \in Awaiting
      /\ ~(q.control_state \in DOMAIN Expected /\ 550 = Expected[q.control_state])
  BY DEF Awaiting, Expected, LoginStates
<1>2. FirstSwitch(q, 550, TRUE, TRUE) = u
  <2>1. Otherwise(q.control_state) = "QUIT"
    BY DEF Otherwise, LoginStates, TransferStates, CommandStates
  <2>2. FirstSwitch(q, 550, TRUE, TRUE) = Goto(q, Otherwise(q.control_state))
    <3>1. 550 # 0
      OBVIOUS
    <3> QED BY <1>1, <3>1, Zenon DEF FirstSwitch
  <2> QED BY <2>1, <2>2 DEF Goto
<1>3. SecondSwitch(u, res) = w
  <2>1. u.control_state = "QUIT"
    BY DEF Rested, Sessions
  <2>2. SecondSwitch(u, res) = Goto(lwftp_send_msg(u, "QUIT"), "QUIT_SENT")
    <3> HIDE DEF u
    <3> QED BY <2>1 DEF SecondSwitch
  <2> QED BY <2>2
<1>4. Sent(q, w, "QUIT_SENT", "QUIT")
  <2>1. /\ u.sent = <<>> /\ u.done = <<>> /\ u.op = q.op /\ u.target_state = q.target_state
        /\ u.control_pcb = q.control_pcb /\ DOMAIN u = DOMAIN q
    BY DEF Rested, Sessions
  <2> HIDE DEF u
  <2>2. Append(u.sent, "QUIT") = <<"QUIT">>
    BY <2>1
  <2> QED BY <2>1, <2>2 DEF Sent, Goto, lwftp_send_msg, Rested, Sessions
<1>5. lwftp_control_process(q, 550, TRUE, TRUE) = w
  BY <1>2, <1>3, ZenonT(60) DEF lwftp_control_process
<1> QED BY <1>4, <1>5, Zenon

(* Any reply to QUIT.                                                        *)
LEMMA ProcessCloses ==
  ASSUME NEW q, Rested(q), q.control_state = "QUIT_SENT", NEW r, r # 0, NEW opened
  PROVE  LET t == lwftp_control_process(q, r, opened, TRUE)
         IN  /\ t.control_state = "CLOSED" /\ t.control_pcb = NULL /\ t.op = None
             /\ t.sent = <<>> /\ t.done = <<ResultOf("QUIT_SENT", r)>>
<1> DEFINE res == ResultOf("QUIT_SENT", r)
           u == [q EXCEPT !.control_state = "CLOSING"]
           v == [u EXCEPT !.data_pcb = NULL, !.control_pcb = NULL, !.control_state = "CLOSED"]
           w == Report(v, res)
<1>1. /\ q.control_state \in Awaiting /\ q.control_state \notin DOMAIN Expected
  BY DEF Awaiting, Expected
<1>2. FirstSwitch(q, r, opened, TRUE) = u
  <2>1. Otherwise(q.control_state) = "CLOSING"
    BY DEF Otherwise, LoginStates, TransferStates, CommandStates
  <2> QED BY <1>1, <2>1 DEF FirstSwitch, Goto
<1>r. res # None
  BY DEF ResultOf, None
<1>3. SecondSwitch(u, res) = w
  <2>1. u.control_state = "CLOSING"
    BY DEF Rested, Sessions
  <2>2. SecondSwitch(u, res) = lwftp_control_close(u, res)
    <3> HIDE DEF u
    <3> QED BY <2>1 DEF SecondSwitch
  <2> HIDE DEF u
  <2> QED BY <1>r, <2>2 DEF lwftp_control_close
<1>4. /\ v.control_state = "CLOSED" /\ v.control_pcb = NULL /\ v.sent = <<>> /\ v.done = <<>>
      /\ DOMAIN v = DOMAIN q
  BY DEF Rested, Sessions
<1> HIDE DEF v, res
<1>5. Append(v.done, res) = <<res>>
  BY <1>4
<1>6. /\ w.control_state = "CLOSED" /\ w.control_pcb = NULL /\ w.op = None
      /\ w.sent = <<>> /\ w.done = <<res>>
  BY <1>4, <1>5 DEF Report, Rested, Sessions
<1> HIDE DEF w
<1>7. lwftp_control_process(q, r, opened, TRUE) = w
  BY <1>2, <1>3, Zenon DEF lwftp_control_process, res
<1> QED BY <1>6, <1>7, Zenon DEF res

-----------------------------------------------------------------------------
(* The conversation, in the behaviours in which every step of a sequence     *)
(* works once the session is prepared, and where the login leads below the   *)
(* root.                                                                     *)

Calm == faults \subseteq {"refuse", "drop", "clear", "cancel"}

(* A path is as deep as app.dir says or, if a name was left on it, deeper.   *)
Deep(p) == /\ Len(p) >= a.dir + Len(Home)
           /\ PathKept => Len(p) = a.dir + Len(Home)
PathOK(p) == /\ p \in Clean /\ Deep(p) /\ (p \in Places => p = srv.cwd)
             /\ PathKept => p = srv.cwd
(* The name of a file is on the path.                                        *)
FileOp == /\ a.path \in Clean \ Places /\ a.path # <<>> /\ PathOK(Front(a.path))
          /\ PathKept => want = a.path
Current == a.shown = srv.cwd /\ a.list = Entries(srv.cwd, srv.files)

(* What is under way between the program and the server.                     *)
Silent == up = <<>> /\ down = <<>> /\ srv.doing = None
Asked(cmd, path) == up = <<<<cmd, path>>>> /\ down = <<>> /\ srv.doing = None
Answered(code, dir) == up = <<>> /\ down = <<<<code, dir>>>> /\ srv.doing = None

(* The login, and what precedes a transfer's command.                        *)
Asks == [USER_SENT |-> "USER", PASS_SENT |-> "PASS", TYPE_SENT |-> "TYPE", PASV_SENT |-> "PASV"]
Prepares ==
  \/ s.control_state \in {"CLOSED", "CONNECTED"} /\ Answered(220, <<>>)
  \/ /\ s.control_state \in DOMAIN Asks
     /\ \/ Asked(Asks[s.control_state], <<>>)
        \/ Answered(Simple[Asks[s.control_state]], <<>>)
        \/ "refuse" \in faults /\ Answered(550, <<>>)

(* The stages of the transfer op.                                            *)
Preparing(op) == s.op = op /\ s.control_state \in {"TYPE_SENT", "PASV_SENT"} /\ Prepares
Ordered(op) == /\ s.control_state = SentState[op] /\ s.data_pcb = "SYN_SENT"
               /\ up # <<>> /\ Asked(op, Head(up)[2]) /\ (a.done_fn # NULL => Head(up)[2] = a.path)
Denied(op) == s.control_state = SentState[op] /\ Answered(550, <<>>)
Begun(op) == /\ s.control_state = SentState[op] /\ s.data_pcb = "SYN_SENT"
             /\ up = <<>> /\ down = <<<<150, <<>>>>>> /\ srv.doing = op /\ srv.moved = FALSE
Moving(op) == /\ s.control_state = "XFERING" /\ s.op = op /\ s.data_pcb = "SYN_SENT"
              /\ up = <<>> /\ down = <<>> /\ srv.doing = op /\ srv.moved = FALSE
Moved(op) == /\ s.control_state = "XFERING" /\ s.op = op
             /\ up = <<>> /\ down = <<>> /\ srv.doing = op /\ srv.moved = TRUE
Over(op) == s.control_state = "XFERING" /\ s.op = op /\ Answered(226, <<>>)

(* What the session is doing, and what of the path holds then.               *)
Connecting ==
  /\ s.control_state \in {"CLOSED"} \cup LoginStates /\ Prepares
  /\ a = FreshApp /\ where = "login" /\ srv.cwd = Home
Listing ==
  /\ a.done_fn = "List" /\ where \in {"login", "main", "upload"}
  /\ a.path \in {<<>>, srv.cwd} /\ Deep(srv.cwd)
  /\ \/ Preparing("MLSD") \/ Ordered("MLSD")
     \/ (Begun("MLSD") \/ Moving("MLSD")) /\ srv.path = srv.cwd
     \/ (Moved("MLSD") \/ Over("MLSD")) /\ Current
Locating ==
  /\ s.control_state = "PWD_SENT" /\ a.done_fn = "Pwd" /\ where \in {"login", "main", "upload"}
  /\ a.path = <<>> /\ Deep(srv.cwd) /\ Current
  /\ Asked("PWD", <<>>) \/ Answered(257, srv.cwd)
Changing ==
  /\ s.control_state = "CWD_SENT" /\ a.done_fn = "Cwd" /\ where = "main"
  /\ a.path \in Clean /\ Deep(a.path) /\ (PathKept => a.path \in Places)
  /\ \/ Asked("CWD", a.path)
     \/ Answered(250, <<>>) /\ a.path = srv.cwd
     \/ Answered(550, <<>>) /\ a.path \notin Places
Removing(op) ==
  /\ a.done_fn \in {"Del", "Move"} /\ where = "main" /\ FileOp
  /\ \/ /\ s.control_state = SentState[op]
        /\ \/ Asked(op, a.path) /\ (PathKept => a.path \in srv.files)
           \/ Answered(550, <<>>) /\ ~PathKept
           \/ Answered(IF op = "DELE" THEN 250 ELSE 350, <<>>) /\ Front(a.path) = srv.cwd
     \/ /\ op = "RNFR" /\ s.control_state = "RNTO_SENT" /\ Front(a.path) = srv.cwd
        /\ Asked("RNTO", NewName) \/ Answered(250, <<>>)
Storing ==
  /\ a.done_fn = "Stor" /\ where \in {"main", "upload"} /\ FileOp /\ Last(a.path) = "u"
  /\ \/ Preparing("STOR") \/ Ordered("STOR")
     \/ Denied("STOR") /\ Front(a.path) \notin Places
     \/ /\ Begun("STOR") \/ Moving("STOR") \/ Moved("STOR")
        /\ Front(a.path) = srv.cwd /\ srv.path = a.path
     \/ Over("STOR") /\ Front(a.path) = srv.cwd
Loading ==
  /\ PathKept => Current
  /\ \/ a.done_fn = "Retr" /\ where = "download" /\ FileOp
     \/ a.done_fn = NULL /\ where = "main" /\ ~PathKept
  /\ \/ Preparing("RETR") \/ Ordered("RETR") \/ Denied("RETR")
     \/ Begun("RETR") \/ Moving("RETR") \/ Moved("RETR") \/ Over("RETR")
Resting ==
  /\ s.control_state = "LOGGED" /\ Silent /\ (PathKept => Current)
  /\ \/ where = "input" /\ FileOp /\ (PathKept => a.path \in srv.files)
     \/ where = "download" /\ FileOp /\ ~a.busy
     \/ where \in {"login", "main", "upload"} /\ ~a.busy /\ PathOK(a.path)
     \/ where = "main" /\ a.busy /\ ~PathKept

SrvOK == /\ DOMAIN srv = {"cwd", "files", "doing", "path", "moved"}
         /\ srv.cwd \in Places /\ srv.files \subseteq Files

Working == \/ Listing \/ Locating \/ Changing \/ Removing("DELE") \/ Removing("RNFR")
           \/ Storing \/ Loading \/ Resting

(* A session that is not on its way out.                                     *)
Alive == s.control_pcb # NULL /\ s.control_state # "QUIT_SENT"
Living ==
  /\ SrvOK /\ Listed(a.list) /\ a.wild = FALSE /\ a.dir \in Nat
  /\ s.control_state \notin {"CLOSED"} \cup LoginStates => a.ftpStarted
  /\ Connecting \/ Working

(* One that is, or that has ended.                                           *)
Dead ==
  /\ s.control_pcb = NULL => up = <<>>
  /\ s.control_state = "QUIT_SENT" => where \in {"quit", "exit"} \/ s.op # None
  /\ faults \subseteq {"clear", "cancel"} =>
       /\ where \in {"quit", "exit"} /\ a.wild = FALSE
       /\ s.control_state = "QUIT_SENT" /\ a.done_fn \in {"Stor", "Del", "Move"} => a.path # <<>>

FileCommands == {"RETR", "STOR", "DELE", "RNFR"}
OnTarget(u, file) ==
  \A i \in 1..Len(u) : u[i][1] \in FileCommands => u[i][2] = file /\ file \in Clean

PathInv ==
  Calm => /\ PathKept => OnTarget(up, want)
          /\ where = "start" => Silent /\ SrvOK /\ srv.cwd = Home
          /\ Alive => Living
          /\ ~Alive /\ where # "start" => Dead
-----------------------------------------------------------------------------
(* What the steps of a calm behaviour do.                                    *)

(* What the proofs of lwftp.c say of a session, in the words used here.      *)
LEMMA SessionFacts ==
  ASSUME NEW t, Lib!Good(t)
  PROVE  /\ t \in Sessions /\ t.control_state \in ControlStates \ PassingStates
         /\ t.control_state # "CLOSED" => t.control_pcb = "ESTABLISHED"
         /\ t.control_state = "CLOSED" => t.control_pcb # "ESTABLISHED"
         /\ t.control_state \in {"LOGGED"} \cup CommandStates => t.data_pcb = NULL
         /\ t.control_state = "LOGGED" => t.op = None
         /\ t.control_state = "CLOSED" /\ t.control_pcb = NULL => t.op = None
         /\ t.control_state \in {"TYPE_SENT", "PASV_SENT", "XFERING"} =>
              t.op \in TransferOps /\ t.target_state = SentState[t.op]
         /\ \A op \in Ops : t.control_state = SentState[op] => t.op = op
         /\ t.control_state = "RNTO_SENT" => t.op = "RNFR"
         /\ t.control_state \in {"CLOSED"} \cup LoginStates /\ t.control_pcb # NULL => t.op = "CONNECT"
<1>1. /\ Lib!NULL = NULL /\ Lib!None = None /\ Lib!TransferOps = TransferOps
      /\ Lib!CommandOps = CommandOps /\ Lib!Ops = Ops /\ Lib!SentState = SentState
      /\ Lib!TransferStates = TransferStates /\ Lib!CommandStates = CommandStates
      /\ Lib!LoginStates = LoginStates /\ Lib!PassingStates = PassingStates
  BY DEF NULL, None, TransferOps, CommandOps, Ops, SentState, TransferStates,
         CommandStates, LoginStates, PassingStates, Lib!NULL, Lib!None,
         Lib!TransferOps, Lib!CommandOps, Lib!Ops, Lib!SentState, Lib!TransferStates,
         Lib!CommandStates, Lib!LoginStates, Lib!PassingStates
<1>2. t \in Sessions
  BY GoodSession
<1>3. Lib!Settled(t) /\ Lib!PcbsFollow(t) /\ Lib!Owes(t)
  BY Zenon DEF Lib!Good
<1>4. t.control_state \in ControlStates \ PassingStates
  BY <1>1, <1>2, <1>3 DEF Lib!Settled, Sessions
<1>5. /\ t.control_state # "CLOSED" => t.control_pcb = "ESTABLISHED"
      /\ t.control_state = "CLOSED" => t.control_pcb # "ESTABLISHED"
      /\ t.control_state \in {"LOGGED"} \cup CommandStates => t.data_pcb = NULL
  BY <1>1, <1>3 DEF Lib!PcbsFollow, TransferStates, CommandStates
<1>6. /\ t.control_state = "LOGGED" => t.op = None
      /\ t.control_state = "CLOSED" /\ t.control_pcb = NULL => t.op = None
      /\ t.control_state = "CLOSED" /\ t.control_pcb # NULL => t.op = "CONNECT"
      /\ t.control_state \in LoginStates => t.op = "CONNECT"
      /\ t.control_state \in {"TYPE_SENT", "PASV_SENT", "XFERING"} =>
           t.op \in TransferOps /\ SentState[t.op] = t.target_state
      /\ t.control_state \in TransferStates \cup CommandStates =>
           IF t.control_state = "RNTO_SENT" THEN t.op = "RNFR"
           ELSE t.op \in Ops /\ SentState[t.op] = t.control_state
  BY <1>1, <1>3, Zenon DEF Lib!Owes
<1>7. \A op \in Ops : t.control_state = SentState[op] => t.op = op
  BY <1>6 DEF SentState, Ops, TransferOps, CommandOps, TransferStates, CommandStates
<1>8. t.control_state = "RNTO_SENT" => t.op = "RNFR"
  BY <1>6 DEF CommandStates
<1> QED BY <1>2, <1>4, <1>5, <1>6, <1>7, <1>8

(* In a calm behaviour there is memory, and data connections open.           *)
LEMMA CalmFacts ==
  ASSUME Calm
  PROVE  /\ Memory = {TRUE} /\ "data" \notin faults /\ "reject" \notin faults
         /\ "nomem" \notin faults /\ "unsent" \notin faults /\ "coalesce" \notin faults
         /\ "long" \notin faults /\ Pbuf = {1}
BY DEF Calm, Memory, Pbuf

(* What the program wrote is under way.                                      *)
Carries(c, b) == IF c \in PathCommands THEN b.path ELSE IF c = "RNTO" THEN NewName ELSE <<>>

(* What Go makes of the session, of the app and of the commands under way.   *)
LEMMA GoOn ==
  ASSUME NEW t, NEW b, Go([s |-> t, a |-> b])
  PROVE  /\ s' = t /\ a' = b
         /\ t.control_pcb = NULL => up' = <<>>
         /\ t.control_pcb # NULL /\ t.sent = <<>> /\ IsCommands(up) => up' = up
         /\ "unsent" \notin faults =>
              \A c : t.control_pcb # NULL /\ t.sent = <<c>> /\ up = <<>> =>
                      up' = <<<<c, Carries(c, b)>>>>
<1> DEFINE w == [s |-> t, a |-> b]
<1>1. w.s = t /\ w.a = b
  OBVIOUS
<1> HIDE DEF w
<1>2. /\ s' = t /\ a' = b /\ (t.control_pcb = NULL => up' = <<>>)
      /\ t.control_pcb # NULL => up' = up \o Written(w) \/ ("unsent" \in faults /\ up' = up)
  BY <1>1 DEF Go, w
<1>3. ASSUME t.sent = <<>>, IsCommands(up) PROVE up \o Written(w) = up
  <2>1. Len(t.sent) = 0
    BY <1>3
  <2>2. Written(w) = <<>>
    BY <1>1, <2>1 DEF Written
  <2>3. PICK D : up \in Seq(Commands \X D)
    BY <1>3 DEF IsCommands
  <2> QED BY <2>2, <2>3
<1>4. ASSUME NEW c, t.sent = <<c>>, up = <<>> PROVE up \o Written(w) = <<<<c, Carries(c, b)>>>>
  <2>1. Len(t.sent) = 1 /\ t.sent[1] = c
    BY <1>4
  <2> DEFINE x == <<c, Carries(c, b)>>
  <2>2. Written(w) = [i \in 1..1 |-> x]
    BY <1>1, <2>1 DEF Written, Carries
  <2> HIDE DEF x
  <2>3. [i \in 1..1 |-> x] = <<x>>
    OBVIOUS
  <2>4. <<>> \o <<x>> = <<x>>
    OBVIOUS
  <2> QED BY <1>4, <2>2, <2>3, <2>4 DEF x
<1> QED BY <1>2, <1>3, <1>4

(* A session in which a call may start.                                      *)
Free(q) == q \in Sessions /\ q.control_state = "LOGGED" /\ q.data_pcb = NULL /\ q.sent = <<>>
Started(q, t, st, op, c) ==
  /\ t.control_state = st /\ t.op = op /\ t.sent = <<c>> /\ Last(t.done) = "INPROGRESS"
  /\ t.control_pcb = q.control_pcb

(* A transfer starts with TYPE.                                              *)
LEMMA TransferStarts ==
  ASSUME NEW q, Free(q), NEW op \in TransferOps
  PROVE  Started(q, lwftp_transfer(q, op, TRUE, TRUE), "TYPE_SENT", op, "TYPE")
<1> DEFINE p == [q EXCEPT !.data_pcb = "CLOSED"]
           v == lwftp_start(p, op)
<1>1. lwftp_transfer(q, op, TRUE, TRUE) = Return(v, "INPROGRESS")
  BY DEF lwftp_transfer, Free
<1>2. /\ p.control_state = "LOGGED" /\ p.sent = <<>> /\ p.done = q.done /\ p.control_pcb = q.control_pcb
      /\ DOMAIN p = DOMAIN q
  BY DEF Free, Sessions
<1> HIDE DEF p
<1>3. Append(p.sent, "TYPE") = <<"TYPE">>
  BY <1>2
<1>4. /\ v.control_state = "TYPE_SENT" /\ v.op = op /\ v.sent = <<"TYPE">> /\ v.done = q.done
      /\ v.control_pcb = q.control_pcb /\ DOMAIN v = DOMAIN q
  BY <1>2, <1>3 DEF lwftp_start, lwftp_send_msg, Free, Sessions
<1> HIDE DEF v
<1>5. Last(Append(v.done, "INPROGRESS")) = "INPROGRESS"
  BY <1>4 DEF Last, Free, Sessions
<1> QED BY <1>1, <1>4, <1>5 DEF Return, Started, Free, Sessions

(* A command starts with itself.                                             *)
LEMMA CommandStarts ==
  ASSUME NEW q, Free(q), NEW op \in CommandOps
  PROVE  Started(q, lwftp_command(q, op, TRUE), SentState[op], op, op)
<1> DEFINE v == lwftp_send(q, op)
<1>1. lwftp_command(q, op, TRUE) = Return(v, "INPROGRESS")
  BY DEF lwftp_command, Free
<1>3. Append(q.sent, op) = <<op>>
  BY DEF Free
<1>4. /\ v.control_state = SentState[op] /\ v.op = op /\ v.sent = <<op>> /\ v.done = q.done
      /\ v.control_pcb = q.control_pcb /\ DOMAIN v = DOMAIN q
  BY <1>3 DEF lwftp_send, lwftp_send_msg, Free, Sessions
<1> HIDE DEF v
<1>5. Last(Append(v.done, "INPROGRESS")) = "INPROGRESS"
  BY <1>4 DEF Last, Free, Sessions
<1> QED BY <1>1, <1>4, <1>5 DEF Return, Started, Free, Sessions

(* A call that is INPROGRESS changes nothing but the session.                *)
LEMMA IssueGoes ==
  ASSUME NEW v, NEW b, NEW t, Last(t.done) = "INPROGRESS"
  PROVE  Issue([s |-> v, a |-> b], t) = [s |-> t, a |-> b]
<1> DEFINE z == [s |-> v, a |-> b]
<1>1. [z EXCEPT !.s = t] = [s |-> t, a |-> b]
  OBVIOUS
<1> HIDE DEF z
<1>2. Issue(z, t) = [z EXCEPT !.s = t]
  BY Zenon DEF Issue
<1> QED BY <1>1, <1>2 DEF z

(* util_GetRemoteFiles and the callbacks, when there is memory for a pcb.     *)
Relist(w) == util_GetRemoteFiles(w, TRUE)
Respond(w, r) == Callback(w, r, TRUE)

(* What no callback changes.                                                 *)
Keeps(c, b) == /\ IsApp(c) /\ c.ftpStarted = b.ftpStarted /\ c.dir = b.dir /\ c.shown = b.shown
               /\ c.wild = b.wild

(* The app as util_GetRemoteFiles, util_GetDir and a failure leave it.        *)
ToList(c, b) == Keeps(c, b) /\ c.path = b.path /\ c.done_fn = "List" /\ c.list = {}
ToLocate(c, b) == Keeps(c, b) /\ c.path = <<>> /\ c.done_fn = "Pwd" /\ c.list = b.list
ToRest(c, b, r) ==
  /\ Keeps(c, b) /\ c.busy = FALSE /\ c.done_fn = b.done_fn /\ c.list = b.list /\ c.ftpResult = r
  /\ c.path = IF b.done_fn = "Stor" THEN Front(b.path) ELSE b.path

(* util_GetRemoteFiles and util_GetDir start their operations.               *)
LEMMA GetStarts ==
  ASSUME NEW q, Free(q), NEW b, IsApp(b)
  PROVE  /\ \E t, c : /\ Relist([s |-> q, a |-> b]) = [s |-> t, a |-> c]
                      /\ Started(q, t, "TYPE_SENT", "MLSD", "TYPE") /\ ToList(c, b)
         /\ \E t, c : /\ util_GetDir([s |-> q, a |-> b]) = [s |-> t, a |-> c]
                      /\ Started(q, t, "PWD_SENT", "PWD", "PWD") /\ ToLocate(c, b)
<1> DEFINE w == [s |-> q, a |-> b]
<1>w. w.s = q /\ w.a = b /\ \A c : [w EXCEPT !.a = c] = [s |-> q, a |-> c]
  BY WorldApp
<1>1. \E t, c : /\ Relist(w) = [s |-> t, a |-> c]
                /\ Started(q, t, "TYPE_SENT", "MLSD", "TYPE") /\ ToList(c, b)
  <2> DEFINE c == [b EXCEPT !.busy = TRUE, !.done_fn = "List", !.list = {}]
             t == lwftp_transfer(q, "MLSD", TRUE, TRUE)
  <2>1. ToList(c, b)
    BY DEF ToList, Keeps, IsApp, AppFields, DoneFns
  <2>2. Started(q, t, "TYPE_SENT", "MLSD", "TYPE")
    BY TransferStarts DEF TransferOps
  <2>3. Relist(w) = Issue([s |-> q, a |-> c], t)
    <3> HIDE DEF w
    <3> QED BY <1>w, Zenon DEF Relist, util_GetRemoteFiles
  <2> HIDE DEF c, t, w
  <2>i. Issue([s |-> q, a |-> c], t) = [s |-> t, a |-> c]
    BY <2>2, IssueGoes DEF Started
  <2>4. Relist(w) = [s |-> t, a |-> c]
    BY <2>3, <2>i, Zenon
  <2> QED BY <2>1, <2>2, <2>4, Zenon
<1>2. \E t, c : /\ util_GetDir(w) = [s |-> t, a |-> c]
                /\ Started(q, t, "PWD_SENT", "PWD", "PWD") /\ ToLocate(c, b)
  <2> DEFINE c == [b EXCEPT !.busy = TRUE, !.done_fn = "Pwd", !.path = <<>>]
             t == lwftp_command(q, "PWD", TRUE)
  <2>1. ToLocate(c, b)
    BY DEF ToLocate, Keeps, IsApp, AppFields, DoneFns
  <2>2. Started(q, t, "PWD_SENT", "PWD", "PWD")
    BY CommandStarts DEF CommandOps, SentState
  <2>3. util_GetDir(w) = Issue([s |-> q, a |-> c], t)
    <3> HIDE DEF w
    <3> QED BY <1>w, Zenon DEF util_GetDir
  <2> HIDE DEF c, t, w
  <2>4. util_GetDir(w) = [s |-> t, a |-> c]
    BY <2>2, <2>3, IssueGoes DEF Started
  <2> QED BY <2>1, <2>2, <2>4, Zenon
<1> QED BY <1>1, <1>2, Zenon

(* The failure branch of a callback.                                         *)
LEMMA Fails ==
  ASSUME NEW t, NEW b, IsApp(b), b.done_fn # "Connect", b.done_fn = "Stor" => b.path # <<>>, NEW r
  PROVE  \E c : Fail([s |-> t, a |-> b], r) = [s |-> t, a |-> c] /\ ToRest(c, b, r)
<1> DEFINE d == IF b.done_fn = "Stor" THEN Pop(b) ELSE b
           v == [s |-> t, a |-> b]
           c == [d EXCEPT !.ftpResult = r, !.busy = FALSE]
<1>1. Keeps(d, b) /\ d.done_fn = b.done_fn /\ d.list = b.list
      /\ d.path = IF b.done_fn = "Stor" THEN Front(b.path) ELSE b.path
  BY DEF Keeps, Pop, IsApp, AppFields
<1>2. v.s = t /\ v.a = b
  OBVIOUS
<1>3. Fail(v, r) = [s |-> t, a |-> c]
  <2> HIDE DEF v
  <2> QED BY <1>2 DEF Fail
<1> HIDE DEF d
<1>4. Keeps(c, b) /\ c.busy = FALSE /\ c.done_fn = b.done_fn /\ c.list = b.list /\ c.ftpResult = r
      /\ c.path = d.path
  BY <1>1 DEF Keeps, IsApp, AppFields
<1> HIDE DEF c, v
<1>5. ToRest(c, b, r)
  BY <1>1, <1>4 DEF ToRest
<1> QED BY <1>3, <1>5, Zenon DEF v

(* The callbacks, by the function installed and the result.                  *)
LEMMA Callbacks ==
  ASSUME NEW t, NEW b, NEW r, r # "INPROGRESS", b.done_fn \in DoneFns
  PROVE  LET w == [s |-> t, a |-> b]
             z == Respond(w, r)
             fn == b.done_fn
         IN  /\ fn = NULL => z = w
             /\ fn # NULL /\ r \notin {"OK", "LOGGED"} => z = Fail(w, r)
             /\ fn = "List" /\ r = "OK" => z = util_GetDir(w)
             /\ fn = "Cwd" /\ r = "OK" => z = Relist(w)
             /\ fn \in {"Del", "Move", "Stor"} /\ r = "OK" =>
                  z = Relist([s |-> t, a |-> Pop(b)])
             /\ fn \in {"Pwd", "Retr"} /\ r = "OK" => z = [s |-> t, a |-> [b EXCEPT !.busy = FALSE]]
             /\ fn = "Connect" /\ r = "LOGGED" =>
                  z = Relist([s |-> t, a |-> [b EXCEPT !.ftpStarted = TRUE]])
<1> DEFINE w == [s |-> t, a |-> b]
           z == Respond(w, r)
           fn == b.done_fn
<1>w. w.s = t /\ w.a = b
  OBVIOUS
<1>6. /\ [w EXCEPT !.a.ftpStarted = TRUE] = [s |-> t, a |-> [b EXCEPT !.ftpStarted = TRUE]]
      /\ [w EXCEPT !.a.busy = FALSE] = [s |-> t, a |-> [b EXCEPT !.busy = FALSE]]
      /\ [w EXCEPT !.a = Pop(w.a)] = [s |-> t, a |-> Pop(b)]
  <2>1. \A c : [w EXCEPT !.a = c] = [s |-> t, a |-> c]
    BY WorldApp
  <2> HIDE DEF w
  <2>2. /\ [w EXCEPT !.a.ftpStarted = TRUE] = [w EXCEPT !.a = [w.a EXCEPT !.ftpStarted = TRUE]]
        /\ [w EXCEPT !.a.busy = FALSE] = [w EXCEPT !.a = [w.a EXCEPT !.busy = FALSE]]
    BY Zenon
  <2> QED BY <1>w, <2>1, <2>2, Zenon
<1> HIDE DEF w
<1>1. CASE fn = NULL
  <2>1. z = w
    BY <1>w, <1>1 DEF Respond, Callback, NULL
  <2> QED BY <1>1, <2>1 DEF w, NULL
<1>2. CASE fn = "Connect"
  <2>1. z = ftp_ConnectCallback(w, r, TRUE)
    BY <1>w, <1>2 DEF Respond, Callback, NULL
  <2>2. z = IF r # "LOGGED" THEN Fail(w, r)
            ELSE Relist([s |-> t, a |-> [b EXCEPT !.ftpStarted = TRUE]])
    BY <1>6, <2>1, Zenon DEF Relist, ftp_ConnectCallback
  <2> QED BY <1>2, <2>2 DEF w, NULL
<1>3. CASE fn = "List"
  <2>1. z = ftp_ListCallback(w, r)
    BY <1>w, <1>3 DEF Respond, Callback, NULL
  <2>2. z = IF r # "OK" THEN Fail(w, r) ELSE util_GetDir(w)
    BY <2>1, Zenon DEF ftp_ListCallback
  <2> QED BY <1>3, <2>2 DEF w, NULL
<1>4. CASE fn = "Pwd"
  <2>1. z = ftp_PwdCallback(w, r)
    BY <1>w, <1>4 DEF Respond, Callback, NULL
  <2>2. z = IF r # "OK" THEN Fail(w, r) ELSE [s |-> t, a |-> [b EXCEPT !.busy = FALSE]]
    BY <1>6, <2>1, Zenon DEF ftp_PwdCallback
  <2> QED BY <1>4, <2>2 DEF w, NULL
<1>5. CASE fn = "Cwd"
  <2>1. z = ftp_CwdCallback(w, r, TRUE)
    BY <1>w, <1>5 DEF Respond, Callback, NULL
  <2>2. z = IF r # "OK" THEN Fail(w, r) ELSE Relist(w)
    BY <2>1, Zenon DEF Relist, ftp_CwdCallback
  <2> QED BY <1>5, <2>2 DEF w, NULL
<1>7. CASE fn \in {"Del", "Move", "Stor"}
  <2>1. z = ftp_DelCallback(w, r, TRUE) \/ z = ftp_StorCallback(w, r, TRUE)
    BY <1>w, <1>7 DEF Respond, Callback, NULL
  <2>2. z = IF r # "OK" THEN Fail(w, r) ELSE Relist([s |-> t, a |-> Pop(b)])
    BY <1>6, <2>1, Zenon DEF Relist, ftp_DelCallback, ftp_StorCallback
  <2> QED BY <1>7, <2>2 DEF w, NULL
<1>8. CASE fn = "Retr"
  <2>1. z = ftp_RetrCallback(w, r)
    BY <1>w, <1>8 DEF Respond, Callback, NULL
  <2>2. z = IF r # "OK" THEN Fail(w, r) ELSE [s |-> t, a |-> [b EXCEPT !.busy = FALSE]]
    BY <1>6, <2>1, Zenon DEF ftp_RetrCallback
  <2> QED BY <1>8, <2>2 DEF w, NULL
<1> QED BY <1>1, <1>2, <1>3, <1>4, <1>5, <1>7, <1>8 DEF DoneFns

(* A handler and its callback, in a calm behaviour.                          *)
LEMMA Handles ==
  ASSUME Calm, NEW t, NEW b, Handler(t, b)
  PROVE  /\ t.done = <<>> => Go([s |-> t, a |-> b])
         /\ \A r : t.done = <<r>> => Go(Respond([s |-> t, a |-> b], r))
<1> DEFINE w == [s |-> t, a |-> b]
<1>1. Go(IF t.done = <<>> THEN w ELSE Respond(w, Last(t.done)))
  BY CalmFacts DEF Handler, Respond
<1>2. \A r : t.done = <<r>> => t.done # <<>> /\ Last(t.done) = r
  BY DEF Last
<1> HIDE DEF w
<1>3. t.done = <<>> => Go(w)
  BY <1>1, Zenon
<1>4. ASSUME NEW r, t.done = <<r>> PROVE Go(Respond(w, r))
  <2>1. t.done # <<>> /\ Last(t.done) = r
    BY <1>2, <1>4
  <2> QED BY <1>1, <2>1, Zenon
<1> QED BY <1>3, <1>4, Zenon DEF w

-----------------------------------------------------------------------------
(* The steps of a calm behaviour.                                            *)

(* The invariant after a step of a session that goes on.                     *)
LEMMA GoesOn ==
  ASSUME Calm, faults' = faults, where' # "start", PathKept => OnTarget(up', want'), Alive', Living'
  PROVE  PathInv'
<1>1. PathKept' = PathKept
  BY DEF PathKept
<1> QED BY <1>1, Zenon DEF PathInv

(* The invariant after a step of one that does not.                          *)
LEMMA Ends ==
  ASSUME Calm, faults' = faults, where' # "start", PathKept => OnTarget(up', want'), ~Alive', Dead'
  PROVE  PathInv'
<1>1. PathKept' = PathKept
  BY DEF PathKept
<1> QED BY <1>1, Zenon DEF PathInv

(* Streams with one command or none.                                         *)
LEMMA FewTargets ==
  /\ \A x : OnTarget(<<>>, x)
  /\ \A c, p, x : (c \in FileCommands => p = x /\ x \in Clean) => OnTarget(<<<<c, p>>>>, x)
<1>1. \A x : OnTarget(<<>>, x)
  BY DEF OnTarget
<1>2. ASSUME NEW c, NEW p, NEW x, c \in FileCommands => p = x /\ x \in Clean
      PROVE  OnTarget(<<<<c, p>>>>, x)
  <2> DEFINE u == <<<<c, p>>>>
  <2>1. Len(u) = 1 /\ u[1][1] = c /\ u[1][2] = p
    OBVIOUS
  <2> HIDE DEF u
  <2>2. OnTarget(u, x)
    BY <1>2, <2>1 DEF OnTarget
  <2> QED BY <2>2 DEF u
<1> QED BY <1>1, <1>2

(* The session a handler starts in.                                          *)
LEMMA QuietFacts ==
  ASSUME IInv
  PROVE  /\ Rested(Quiet(s)) /\ Lib!Good(s) /\ s \in Sessions /\ IsApp(a) /\ Linked(s, a)
         /\ IsCommands(up) /\ Quiet(s).op = s.op /\ Quiet(s).control_state = s.control_state
         /\ Quiet(s).control_pcb = s.control_pcb /\ Quiet(s).data_pcb = s.data_pcb
         /\ Quiet(s).target_state = s.target_state
<1>1. Quiet(s).sent = <<>> /\ Quiet(s).target_state = s.target_state
  BY IInvParts DEF Quiet, Sessions
<1>2. Quiet(s).control_state = s.control_state
  BY IInvParts, QuietSession
<1> QED BY <1>1, <1>2, IInvParts DEF Rested

(* A reply arrives.                                                          *)
ReplyApp(c, d) == IF s.control_state = "PWD_SENT" /\ c = 257 THEN [a EXCEPT !.path = d] ELSE a

(* The only reply under way arrives.                                         *)
LEMMA Arrives ==
  ASSUME Calm, IInv, ControlReply, NEW c, NEW d, down = <<<<c, d>>>>
  PROVE  /\ down' = <<>> /\ where' = where /\ n' = n /\ srv' = srv /\ want' = want /\ where # "start"
         /\ s.control_pcb = "ESTABLISHED"
         /\ Handler(lwftp_control_process(Quiet(s), c, TRUE, TRUE), ReplyApp(c, d))
<1>1. Head(down)[1] = c /\ Head(down)[2] = d /\ Tail(down) = <<>>
  OBVIOUS
<1>2. (IF "data" \in faults THEN BOOLEAN ELSE {TRUE}) = {TRUE}
  BY CalmFacts
<1>3. PICK opened \in {TRUE} :
        /\ Handler(lwftp_control_process(Quiet(s), c, opened, TRUE), ReplyApp(c, d))
        /\ down' = <<>>
  <2>1. PICK opened \in {TRUE}, k \in {1} :
          LET t == lwftp_control_process(Quiet(s), Head(down)[1], opened, TRUE)
              b == IF s.control_state = "PWD_SENT" /\ Head(down)[1] = 257
                   THEN [a EXCEPT !.path = Head(down)[2]] ELSE a
          IN  Handler(t, b) /\ down' = IF t.control_pcb = NULL THEN <<>>
                                       ELSE IF k = 2 THEN Tail(Tail(down)) ELSE Tail(down)
    BY <1>2, CalmFacts, Zenon DEF ControlReply
  <2>2. k # 2
    OBVIOUS
  <2> QED BY <1>1, <2>1, <2>2, Zenon DEF ReplyApp
<1>4. opened = TRUE
  OBVIOUS
<1>5. Handler(lwftp_control_process(Quiet(s), c, TRUE, TRUE), ReplyApp(c, d))
  BY <1>3, <1>4, Zenon
<1> QED BY <1>3, <1>5, Zenon DEF ControlReply, Served

(* A handler that wrote a command.                                           *)
LEMMA HandlerSends ==
  ASSUME Calm, IInv, up = <<>>, NEW t, NEW b, Handler(t, b), NEW st, NEW c, s.control_pcb # NULL,
         Sent(Quiet(s), t, st, c)
  PROVE  /\ s' = t /\ a' = b /\ up' = <<<<c, Carries(c, b)>>>>
         /\ s'.control_state = st /\ s'.op = s.op /\ s'.target_state = s.target_state
         /\ s'.control_pcb = s.control_pcb
<1>1. t.done = <<>> /\ t.sent = <<c>> /\ t.control_pcb = s.control_pcb /\ t.control_state = st
      /\ t.op = s.op /\ t.target_state = s.target_state
  BY QuietFacts DEF Sent
<1>2. Go([s |-> t, a |-> b])
  BY <1>1, Handles
<1>3. s' = t /\ a' = b /\ up' = <<<<c, Carries(c, b)>>>>
  BY <1>1, <1>2, GoOn, CalmFacts
<1> QED BY <1>1, <1>3

-----------------------------------------------------------------------------
(* Replies to what precedes a transfer or makes up the login.                *)

(* What the login and the preparations write carries no path.                *)
LEMMA PlainCommands ==
  \A b : \A c \in {"USER", "PASS", "TYPE", "PASV", "QUIT", "PWD"} :
    Carries(c, b) = <<>> /\ c \notin FileCommands
BY DEF Carries, PathCommands, FileCommands

(* The reply that is there, one step of the preparation.                     *)
LEMMA PrepReply ==
  ASSUME Prepares, down # <<>>
  PROVE  /\ up = <<>> /\ srv.doing = None
         /\ \/ s.control_state \in {"CLOSED", "CONNECTED"} /\ down = <<<<220, <<>>>>>>
            \/ s.control_state = "USER_SENT" /\ down = <<<<331, <<>>>>>>
            \/ s.control_state = "PASS_SENT" /\ down = <<<<230, <<>>>>>>
            \/ s.control_state = "TYPE_SENT" /\ down = <<<<200, <<>>>>>>
            \/ s.control_state = "PASV_SENT" /\ down = <<<<227, <<>>>>>>
            \/ /\ s.control_state \in DOMAIN Asks /\ "refuse" \in faults
               /\ down = <<<<550, <<>>>>>>
BY DEF Prepares, Answered, Asked, Asks, Simple

(* The next command of the preparation.                                      *)
LEMMA PrepSends ==
  ASSUME Calm, IInv, ControlReply, up = <<>>, srv.doing = None,
         \/ s.control_state = "CONNECTED" /\ down = <<<<220, <<>>>>>>
         \/ s.control_state = "USER_SENT" /\ down = <<<<331, <<>>>>>>
         \/ s.control_state = "TYPE_SENT" /\ down = <<<<200, <<>>>>>>
  PROVE  /\ a' = a /\ Prepares' /\ s'.op = s.op /\ s'.control_pcb = s.control_pcb
         /\ s.control_state = "CONNECTED" => s'.control_state = "USER_SENT"
         /\ s.control_state = "USER_SENT" => s'.control_state = "PASS_SENT"
         /\ s.control_state = "TYPE_SENT" => s'.control_state = "PASV_SENT"
         /\ OnTarget(up', want')
<1>0. s.control_pcb = "ESTABLISHED" /\ s.control_pcb # NULL
  BY DEF ControlReply, NULL
<1>1. ASSUME NEW st, NEW c \in {"USER", "PASS", "PASV"}, NEW r,
             Sent(Quiet(s), lwftp_control_process(Quiet(s), r, TRUE, TRUE), st, c),
             down = <<<<r, <<>>>>>>, ReplyApp(r, <<>>) = a
      PROVE  /\ a' = a /\ up' = <<<<c, <<>>>>>> /\ down' = <<>> /\ srv' = srv
             /\ s'.control_state = st /\ s'.op = s.op /\ s'.control_pcb = s.control_pcb
             /\ OnTarget(up', want')
  <2>1. /\ down' = <<>> /\ srv' = srv
        /\ Handler(lwftp_control_process(Quiet(s), r, TRUE, TRUE), ReplyApp(r, <<>>))
    BY <1>1, Arrives, Zenon
  <2> DEFINE t == lwftp_control_process(Quiet(s), r, TRUE, TRUE)
  <2>2. Handler(t, a) /\ Sent(Quiet(s), t, st, c)
    BY <1>1, <2>1, Zenon
  <2> HIDE DEF t
  <2>3. /\ a' = a /\ up' = <<<<c, Carries(c, a)>>>> /\ s'.control_state = st /\ s'.op = s.op
        /\ s'.control_pcb = s.control_pcb
    BY <1>0, <2>2, HandlerSends
  <2>4. Carries(c, a) = <<>> /\ c \notin FileCommands
    BY PlainCommands
  <2>5. OnTarget(up', want')
    BY <2>3, <2>4, FewTargets
  <2> QED BY <2>1, <2>3, <2>4, <2>5
<1>2. CASE s.control_state = "CONNECTED" /\ down = <<<<220, <<>>>>>>
  <2>1. Sent(Quiet(s), lwftp_control_process(Quiet(s), 220, TRUE, TRUE), "USER_SENT", "USER")
    BY <1>2, QuietFacts, ProcessSends, Zenon
  <2>2. ReplyApp(220, <<>>) = a
    BY DEF ReplyApp
  <2>3. /\ a' = a /\ up' = <<<<"USER", <<>>>>>> /\ down' = <<>> /\ srv' = srv
        /\ s'.control_state = "USER_SENT" /\ s'.op = s.op /\ s'.control_pcb = s.control_pcb
        /\ OnTarget(up', want')
    BY <1>1, <1>2, <2>1, <2>2, Zenon
  <2> QED BY <1>2, <2>3 DEF Prepares, Asked, Asks
<1>3. CASE s.control_state = "USER_SENT" /\ down = <<<<331, <<>>>>>>
  <2>1. Sent(Quiet(s), lwftp_control_process(Quiet(s), 331, TRUE, TRUE), "PASS_SENT", "PASS")
    BY <1>3, QuietFacts, ProcessSends, Zenon
  <2>2. ReplyApp(331, <<>>) = a
    BY DEF ReplyApp
  <2>3. /\ a' = a /\ up' = <<<<"PASS", <<>>>>>> /\ down' = <<>> /\ srv' = srv
        /\ s'.control_state = "PASS_SENT" /\ s'.op = s.op /\ s'.control_pcb = s.control_pcb
        /\ OnTarget(up', want')
    BY <1>1, <1>3, <2>1, <2>2, ZenonT(60)
  <2> QED BY <1>3, <2>3 DEF Prepares, Asked, Asks
<1>4. CASE s.control_state = "TYPE_SENT" /\ down = <<<<200, <<>>>>>>
  <2>1. Sent(Quiet(s), lwftp_control_process(Quiet(s), 200, TRUE, TRUE), "PASV_SENT", "PASV")
    BY <1>4, QuietFacts, ProcessSends, Zenon
  <2>2. ReplyApp(200, <<>>) = a
    BY DEF ReplyApp
  <2>3. /\ a' = a /\ up' = <<<<"PASV", <<>>>>>> /\ down' = <<>> /\ srv' = srv
        /\ s'.control_state = "PASV_SENT" /\ s'.op = s.op /\ s'.control_pcb = s.control_pcb
        /\ OnTarget(up', want')
    BY <1>1, <1>4, <2>1, <2>2, Zenon
  <2> QED BY <1>4, <2>3 DEF Prepares, Asked, Asks
<1> QED BY <1>2, <1>3, <1>4

(* A refusal: the session is on its way out.                                 *)
LEMMA PrepQuits ==
  ASSUME Calm, IInv, ControlReply, up = <<>>, s.control_state \in DOMAIN Asks,
         "refuse" \in faults, down = <<<<550, <<>>>>>>, faults' = faults
  PROVE  PathInv'
<1>0. s.control_pcb = "ESTABLISHED" /\ s.control_pcb # NULL
  BY DEF ControlReply, NULL
<1>w. where' = where /\ where # "start"
  BY DEF ControlReply, Served
<1>1. Handler(lwftp_control_process(Quiet(s), 550, TRUE, TRUE), ReplyApp(550, <<>>))
  BY Arrives, ZenonT(60)
<1>2. Sent(Quiet(s), lwftp_control_process(Quiet(s), 550, TRUE, TRUE), "QUIT_SENT", "QUIT")
  <2>1. Quiet(s).control_state \in LoginStates \cup {"TYPE_SENT", "PASV_SENT"} /\ Rested(Quiet(s))
    BY QuietFacts DEF Asks, LoginStates
  <2> QED BY <2>1, ProcessQuits, Zenon
<1> DEFINE t == lwftp_control_process(Quiet(s), 550, TRUE, TRUE)
           b == ReplyApp(550, <<>>)
<1>t. Handler(t, b) /\ Sent(Quiet(s), t, "QUIT_SENT", "QUIT")
  BY <1>1, <1>2, Zenon
<1> HIDE DEF t, b
<1>3. /\ up' = <<<<"QUIT", Carries("QUIT", b)>>>> /\ s'.control_state = "QUIT_SENT" /\ s'.op = s.op
      /\ s'.control_pcb = s.control_pcb
  BY <1>0, <1>t, HandlerSends
<1>4. OnTarget(up', want')
  BY <1>3, PlainCommands, FewTargets
<1>5. s.op # None
  BY QuietFacts, GoodSession DEF Asks
<1>6. ~Alive' /\ Dead'
  BY <1>0, <1>w, <1>3, <1>5 DEF Alive, Dead
<1> QED BY <1>w, <1>4, <1>6, Ends

(* The transfer's command follows 227.                                       *)
LEMMA PrepOrders ==
  ASSUME Calm, IInv, ControlReply, up = <<>>, srv.doing = None, s.control_state = "PASV_SENT",
         down = <<<<227, <<>>>>>>
  PROVE  /\ a' = a /\ Ordered(s.op)' /\ s.op \in TransferOps /\ s'.op = s.op
         /\ s'.control_pcb = s.control_pcb /\ up' = <<<<s.op, a.path>>>>
<1>0. s.control_pcb = "ESTABLISHED" /\ s.control_pcb # NULL
  BY DEF ControlReply, NULL
<1>1. /\ down' = <<>> /\ srv' = srv
      /\ Handler(lwftp_control_process(Quiet(s), 227, TRUE, TRUE), ReplyApp(227, <<>>))
  BY Arrives, ZenonT(60)
<1>2. ReplyApp(227, <<>>) = a
  BY DEF ReplyApp
<1>3. s.op \in TransferOps /\ s.target_state = SentState[s.op]
  BY QuietFacts, SessionFacts
<1> DEFINE t == lwftp_control_process(Quiet(s), 227, TRUE, TRUE)
<1>4. Sent(Quiet(s), t, SentState[s.op], s.op) /\ t.data_pcb = "SYN_SENT"
  <2>1. Rested(Quiet(s)) /\ Quiet(s).control_state = "PASV_SENT" /\ Quiet(s).target_state = SentState[s.op]
    BY <1>3, QuietFacts
  <2> QED BY <1>3, <2>1, ProcessIssues, Zenon
<1>5. Handler(t, a)
  BY <1>1, <1>2, Zenon
<1> HIDE DEF t
<1>6. /\ a' = a /\ up' = <<<<s.op, Carries(s.op, a)>>>> /\ s'.control_state = SentState[s.op]
      /\ s'.op = s.op /\ s'.control_pcb = s.control_pcb /\ s' = t
  BY <1>0, <1>4, <1>5, HandlerSends
<1>7. Carries(s.op, a) = a.path
  BY <1>3 DEF Carries, PathCommands, TransferOps
<1>8. Head(up')[2] = a.path /\ up' # <<>>
  BY <1>6, <1>7
<1> QED BY <1>1, <1>3, <1>4, <1>6, <1>7, <1>8 DEF Ordered, Asked

-----------------------------------------------------------------------------
(* The ends of operations.                                                   *)

(* A handler that wrote and reported nothing.                                *)
LEMMA HandlerSilent ==
  ASSUME Calm, IInv, NEW t, NEW b, Handler(t, b), t.sent = <<>>, t.done = <<>>, t.control_pcb # NULL
  PROVE  s' = t /\ a' = b /\ up' = up
<1>1. Go([s |-> t, a |-> b])
  BY Handles
<1> QED BY <1>1, QuietFacts, GoOn

(* The reply 150.                                                            *)
LEMMA Starts150 ==
  ASSUME Calm, IInv, ControlReply, NEW op \in TransferOps, Begun(op)
  PROVE  /\ a' = a /\ Moving(op)' /\ up' = <<>> /\ s'.control_pcb = s.control_pcb
         /\ srv' = srv /\ want' = want /\ where' = where
<1>0. s.control_pcb = "ESTABLISHED" /\ s.control_pcb # NULL /\ down = <<<<150, <<>>>>>>
  BY DEF ControlReply, NULL, Begun
<1>1. /\ down' = <<>> /\ srv' = srv /\ want' = want /\ where' = where
      /\ Handler(lwftp_control_process(Quiet(s), 150, TRUE, TRUE), ReplyApp(150, <<>>))
  BY <1>0, Arrives, ZenonT(60)
<1>2. ReplyApp(150, <<>>) = a
  BY DEF ReplyApp
<1> DEFINE t == lwftp_control_process(Quiet(s), 150, TRUE, TRUE)
<1>3. s.op = op /\ s.control_state \in TransferStates
  BY QuietFacts, SessionFacts DEF Begun, Ops, TransferOps, SentState, TransferStates
<1>4. /\ t.control_state = "XFERING" /\ t.sent = <<>> /\ t.done = <<>> /\ t.op = s.op
      /\ t.data_pcb = s.data_pcb /\ t.control_pcb = s.control_pcb
  <2>1. Rested(Quiet(s)) /\ Quiet(s).control_state \in TransferStates
    BY <1>3, QuietFacts
  <2>2. /\ t.control_state = "XFERING" /\ t.sent = <<>> /\ t.done = <<>> /\ t.op = Quiet(s).op
        /\ t.data_pcb = Quiet(s).data_pcb /\ t.control_pcb = Quiet(s).control_pcb
    BY <2>1, ProcessStarts, ZenonT(60)
  <2> HIDE DEF t
  <2> QED BY <2>2, QuietFacts
<1>5. Handler(t, a)
  BY <1>1, <1>2, Zenon
<1> HIDE DEF t
<1>6. s' = t /\ a' = a /\ up' = up
  BY <1>0, <1>4, <1>5, HandlerSilent
<1> QED BY <1>1, <1>3, <1>4, <1>6 DEF Begun, Moving

(* A reply that ends an operation: the session is free and the callback runs.*)
Finishing(c) == \/ s.control_state \in TransferStates /\ c = 550
                \/ s.control_state = "XFERING" /\ c = 226
                \/ s.control_state \in CommandStates /\ c \in {250, 257, 550}
Finished(t, b, r) == /\ Free(t) /\ t.control_pcb = s.control_pcb /\ t.control_pcb # NULL
                     /\ t.op = None /\ Go(Respond([s |-> t, a |-> b], r))

(* A reply that ends an operation calls done_fn with its result.             *)
LEMMA OpEnds ==
  ASSUME Calm, IInv, ControlReply, NEW c, NEW d, down = <<<<c, d>>>>, Finishing(c)
  PROVE  \E t : Finished(t, ReplyApp(c, d), ResultOf(s.control_state, c))
<1>0. s.control_pcb = "ESTABLISHED" /\ s.control_pcb # NULL
  BY DEF ControlReply, NULL
<1>1. Handler(lwftp_control_process(Quiet(s), c, TRUE, TRUE), ReplyApp(c, d))
  BY Arrives, ZenonT(60)
<1> DEFINE t == lwftp_control_process(Quiet(s), c, TRUE, TRUE)
           b == ReplyApp(c, d)
           res == ResultOf(s.control_state, c)
<1>2. c # 0 /\ c \in Codes
  BY DEF Finishing, Codes
<1>3. Ended(Quiet(s), t, res)
  <2>1. /\ Rested(Quiet(s)) /\ Quiet(s).control_state = s.control_state
        /\ \/ Quiet(s).control_state \in TransferStates /\ c # 150
           \/ Quiet(s).control_state = "XFERING"
           \/ Quiet(s).control_state \in CommandStates /\ Quiet(s).data_pcb = NULL /\ c # 350
    BY QuietFacts, SessionFacts DEF Finishing
  <2>2. Ended(Quiet(s), lwftp_control_process(Quiet(s), c, TRUE, TRUE), ResultOf(Quiet(s).control_state, c))
    BY <1>2, <2>1, ProcessEnds, Zenon
  <2> QED BY <2>1, <2>2, Zenon
<1>4. t \in Sessions
  <2>1. Shape(Quiet(s), t)
    BY <1>0, <1>2, IInvParts, ProcessShape
  <2> QED BY <2>1, Zenon DEF Shape
<1> HIDE DEF t, b, res
<1>5. Go(Respond([s |-> t, a |-> b], res))
  <2>1. Handler(t, b) /\ t.done = <<res>>
    BY <1>1, <1>3, Zenon DEF t, b, Ended
  <2> QED BY <2>1, Handles, Zenon
<1>6. Free(t) /\ t.control_pcb = s.control_pcb /\ t.control_pcb # NULL /\ t.op = None
  BY <1>0, <1>3, <1>4, QuietFacts DEF Ended, Free
<1>7. Finished(t, b, res)
  BY <1>5, <1>6, Zenon DEF Finished
<1> QED BY <1>7, Zenon DEF b, res

(* The listing begins again.                                                 *)
LEMMA ThenLists ==
  ASSUME Calm, NEW t, Free(t), NEW b, IsApp(b), t.control_pcb # NULL, up = <<>>,
         Go(Relist([s |-> t, a |-> b]))
  PROVE  /\ s'.control_state = "TYPE_SENT" /\ s'.op = "MLSD" /\ s'.control_pcb = t.control_pcb
         /\ up' = <<<<"TYPE", <<>>>>>> /\ ToList(a', b)
<1>1. PICK v, c : /\ Relist([s |-> t, a |-> b]) = [s |-> v, a |-> c]
                  /\ Started(t, v, "TYPE_SENT", "MLSD", "TYPE") /\ ToList(c, b)
  BY GetStarts, Zenon
<1>2. Go([s |-> v, a |-> c])
  BY <1>1, Zenon
<1>3. s' = v /\ a' = c /\ up' = <<<<"TYPE", Carries("TYPE", c)>>>>
  BY <1>1, <1>2, GoOn, CalmFacts DEF Started
<1> QED BY <1>1, <1>3, PlainCommands DEF Started

(* The question for the directory.                                           *)
LEMMA ThenLocates ==
  ASSUME Calm, NEW t, Free(t), NEW b, IsApp(b), t.control_pcb # NULL, up = <<>>,
         Go(util_GetDir([s |-> t, a |-> b]))
  PROVE  /\ s'.control_state = "PWD_SENT" /\ s'.control_pcb = t.control_pcb
         /\ up' = <<<<"PWD", <<>>>>>> /\ ToLocate(a', b)
<1>1. PICK v, c : /\ util_GetDir([s |-> t, a |-> b]) = [s |-> v, a |-> c]
                  /\ Started(t, v, "PWD_SENT", "PWD", "PWD") /\ ToLocate(c, b)
  BY GetStarts, Zenon
<1>2. Go([s |-> v, a |-> c])
  BY <1>1, Zenon
<1>3. s' = v /\ a' = c /\ up' = <<<<"PWD", Carries("PWD", c)>>>>
  BY <1>1, <1>2, GoOn, CalmFacts DEF Started
<1> QED BY <1>1, <1>3, PlainCommands DEF Started

(* Nothing follows: the program waits for a key.                             *)
LEMMA ThenRests ==
  ASSUME NEW t, Free(t), NEW b, t.control_pcb # NULL, up = <<>>, Go([s |-> t, a |-> b])
  PROVE  /\ s'.control_state = "LOGGED" /\ s'.control_pcb = t.control_pcb /\ up' = <<>> /\ a' = b
<1>1. IsCommands(up)
  BY NoneUnderWay
<1> QED BY <1>1, GoOn DEF Free

(* The failure of an operation.                                              *)
LEMMA ThenFails ==
  ASSUME NEW t, Free(t), NEW b, IsApp(b), t.control_pcb # NULL, up = <<>>, b.done_fn # "Connect",
         b.done_fn = "Stor" => b.path # <<>>, NEW r, Go(Fail([s |-> t, a |-> b], r))
  PROVE  /\ s'.control_state = "LOGGED" /\ s'.control_pcb = t.control_pcb /\ up' = <<>>
         /\ ToRest(a', b, r)
<1>1. PICK c : Fail([s |-> t, a |-> b], r) = [s |-> t, a |-> c] /\ ToRest(c, b, r)
  BY Fails, Zenon
<1>2. Go([s |-> t, a |-> c])
  BY <1>1, Zenon
<1> QED BY <1>1, <1>2, ThenRests

-----------------------------------------------------------------------------
(* A step of a session that is not on its way out.                           *)

Step == HomeBelow /\ Calm /\ IInv /\ IInv' /\ faults' = faults /\ Alive /\ Living

(* What is known before it.                                                  *)
LEMMA Before ==
  ASSUME Step
  PROVE  /\ HomeBelow /\ Calm /\ IInv /\ faults' = faults /\ (PathKept' <=> PathKept)
         /\ SrvOK /\ Listed(a.list) /\ a.wild = FALSE /\ a.dir \in Nat /\ s.control_pcb # NULL
         /\ IsApp(a) /\ Linked(s, a) /\ Lib!Good(s) /\ Lib!Good(s') /\ IsApp(a')
         /\ (s.control_state \notin {"CLOSED"} \cup LoginStates => a.ftpStarted)
<1>1. HomeBelow /\ Calm /\ IInv /\ faults' = faults
  BY Zenon DEF Step
<1>2. PathKept' <=> PathKept
  BY <1>1 DEF PathKept
<1>3. /\ SrvOK /\ Listed(a.list) /\ a.wild = FALSE /\ a.dir \in Nat /\ s.control_pcb # NULL
      /\ (s.control_state \notin {"CLOSED"} \cup LoginStates => a.ftpStarted)
  BY Zenon DEF Step, Living, Alive
<1>4. IsApp(a) /\ Linked(s, a) /\ Lib!Good(s)
  BY <1>1, IInvParts
<1>5. Lib!Good(s') /\ IsApp(a')
  BY Zenon DEF Step, IInv
<1> QED BY <1>1, <1>2, <1>3, <1>4, <1>5

(* The invariant after it, when the session goes on.                         *)
LEMMA After ==
  ASSUME Step, where' # "start", PathKept => OnTarget(up', want'), s'.control_pcb # NULL,
         s'.control_state # "QUIT_SENT", SrvOK', Listed(a'.list), a'.wild = FALSE, a'.dir \in Nat,
         a'.ftpStarted, Working'
  PROVE  PathInv'
<1>1. Alive' /\ Living'
  BY Zenon DEF Alive, Living
<1> QED BY <1>1, Before, GoesOn

(* A step that leaves the app and the server alone.                          *)
LEMMA Frame ==
  ASSUME a' = a, srv' = srv, where' = where, want' = want, faults' = faults
  PROVE  /\ PathKept' <=> PathKept
         /\ FileOp' <=> FileOp
         /\ Current' <=> Current
         /\ SrvOK' <=> SrvOK
         /\ Deep(srv.cwd)' <=> Deep(srv.cwd)
<1>1. PathKept' <=> PathKept
  BY Zenon DEF PathKept
<1>2. Current' <=> Current
  BY Zenon DEF Current
<1>3. SrvOK' <=> SrvOK
  BY DEF SrvOK
<1>4. Deep(srv.cwd)' <=> Deep(srv.cwd)
  BY <1>1 DEF Deep
<1>5. FileOp' <=> FileOp
  BY <1>1 DEF FileOp, PathOK, Deep
<1> QED BY <1>1, <1>2, <1>3, <1>4, <1>5

(* The invariant after such a step.                                          *)
LEMMA AfterFrame ==
  ASSUME Step, a' = a, srv' = srv, where' = where, want' = want, where # "start",
         PathKept => OnTarget(up', want'), s'.control_pcb # NULL, s'.control_state # "QUIT_SENT",
         s.control_state \notin {"CLOSED"} \cup LoginStates, Working'
  PROVE  PathInv'
<1>1. SrvOK'
  BY Before, Frame
<1> QED BY <1>1, Before, After

(* A reply to TYPE or PASV.                                                  *)
LEMMA PreparingReply ==
  ASSUME Step, ControlReply, NEW op \in TransferOps, Preparing(op)
  PROVE  \/ PathInv'
         \/ /\ a' = a /\ srv' = srv /\ want' = want /\ where' = where /\ s'.control_pcb # NULL
            /\ s'.control_state # "QUIT_SENT"
            /\ \/ Preparing(op)' /\ OnTarget(up', want')
               \/ Ordered(op)' /\ up' = <<<<op, a.path>>>>
<1>1. s.op = op /\ s.control_state \in {"TYPE_SENT", "PASV_SENT"} /\ Prepares /\ down # <<>>
  BY DEF Preparing, ControlReply
<1>2. srv' = srv /\ want' = want /\ where' = where
  BY DEF ControlReply
<1>3. /\ up = <<>> /\ srv.doing = None
      /\ \/ s.control_state = "TYPE_SENT" /\ down = <<<<200, <<>>>>>>
         \/ s.control_state = "PASV_SENT" /\ down = <<<<227, <<>>>>>>
         \/ "refuse" \in faults /\ down = <<<<550, <<>>>>>>
  BY <1>1, PrepReply
<1>4. CASE s.control_state = "TYPE_SENT" /\ down = <<<<200, <<>>>>>>
  <2>1. a' = a /\ Prepares' /\ s'.op = s.op /\ s'.control_pcb = s.control_pcb
        /\ s'.control_state = "PASV_SENT" /\ OnTarget(up', want')
    BY <1>3, <1>4, Before, PrepSends
  <2>2. Preparing(op)'
    BY <1>1, <2>1 DEF Preparing
  <2> QED BY <1>2, <2>1, <2>2, Before
<1>5. CASE s.control_state = "PASV_SENT" /\ down = <<<<227, <<>>>>>>
  <2>1. a' = a /\ Ordered(op)' /\ s'.control_pcb = s.control_pcb /\ up' = <<<<op, a.path>>>>
    BY <1>1, <1>3, <1>5, Before, PrepOrders
  <2>2. s'.control_state # "QUIT_SENT"
    BY <2>1 DEF Ordered, SentState, TransferOps
  <2> QED BY <1>2, <2>1, <2>2, Before
<1>6. CASE "refuse" \in faults /\ down = <<<<550, <<>>>>>>
  <2>1. s.control_state \in DOMAIN Asks
    BY <1>1 DEF Asks
  <2> QED BY <1>3, <1>6, <2>1, Before, PrepQuits
<1> QED BY <1>3, <1>4, <1>5, <1>6

(* The states of a transfer.                                                 *)
LEMMA StageStates ==
  ASSUME NEW op \in TransferOps
  PROVE  /\ SentState[op] \in TransferStates /\ SentState[op] # "QUIT_SENT"
         /\ SentState[op] \notin {"CLOSED"} \cup LoginStates
BY DEF TransferOps, SentState, TransferStates, LoginStates

(* Replies while a listing is fetched.                                       *)
LEMMA ListingReply ==
  ASSUME Step, ControlReply, Listing
  PROVE  PathInv'
<1>0. /\ srv' = srv /\ want' = want /\ where' = where /\ where # "start" /\ down # <<>>
      /\ "MLSD" \in TransferOps /\ "MLSD" \notin FileCommands
      /\ s.control_pcb = "ESTABLISHED"
  BY DEF ControlReply, Served, TransferOps, FileCommands
<1>1. CASE Preparing("MLSD")
  <2>1. CASE /\ a' = a /\ s'.control_pcb # NULL /\ s'.control_state # "QUIT_SENT"
             /\ (Preparing("MLSD")' \/ Ordered("MLSD")') /\ OnTarget(up', want')
    <3>1. s.control_state \notin {"CLOSED"} \cup LoginStates
      BY <1>1 DEF Preparing, LoginStates
    <3>2. Listing'
      BY <1>0, <2>1, Before, Frame DEF Listing
    <3> QED BY <1>0, <2>1, <3>1, <3>2, AfterFrame DEF Working
  <2>2. \A p : OnTarget(<<<<"MLSD", p>>>>, want')
    BY <1>0, FewTargets
  <2> QED BY <1>0, <1>1, <2>1, <2>2, PreparingReply
<1>2. CASE Begun("MLSD") /\ srv.path = srv.cwd
  <2>1. a' = a /\ Moving("MLSD")' /\ up' = <<>> /\ s'.control_pcb = s.control_pcb
    BY <1>0, <1>2, Before, Starts150
  <2>2. s.control_state \notin {"CLOSED"} \cup LoginStates /\ s'.control_state # "QUIT_SENT"
    BY <1>0, <1>2, <2>1, StageStates DEF Begun, Moving
  <2>3. Listing'
    BY <1>0, <1>2, <2>1, Before, Frame DEF Listing
  <2> QED BY <1>0, <2>1, <2>2, <2>3, Before, FewTargets, AfterFrame DEF Working
<1>3. CASE Over("MLSD") /\ Current
  <2>0. down = <<<<226, <<>>>>>> /\ up = <<>> /\ srv.doing = None /\ s.control_state = "XFERING"
    BY <1>3 DEF Over, Answered
  <2>1. Finishing(226) /\ ReplyApp(226, <<>>) = a /\ ResultOf("XFERING", 226) = "OK"
    BY <2>0 DEF Finishing, ReplyApp, ResultOf, Completes
  <2>f. PICK t : Finished(t, a, "OK")
    BY <2>0, <2>1, Before, OpEnds
  <2>2. /\ Free(t) /\ t.control_pcb = s.control_pcb /\ t.control_pcb # NULL
        /\ Go(Respond([s |-> t, a |-> a], "OK"))
    BY <2>f, Zenon DEF Finished
  <2>3. Respond([s |-> t, a |-> a], "OK") = util_GetDir([s |-> t, a |-> a])
    BY Callbacks, Zenon DEF Listing, DoneFns
  <2>4. /\ s'.control_state = "PWD_SENT" /\ s'.control_pcb = t.control_pcb
        /\ up' = <<<<"PWD", <<>>>>>> /\ ToLocate(a', a)
    BY <2>0, <2>2, <2>3, Before, ThenLocates
  <2>5. down' = <<>>
    BY <2>0, Before, Arrives
  <2>6. Locating'
    BY <1>0, <1>3, <2>0, <2>4, <2>5, Before DEF Listing, Locating, ToLocate, Keeps, Deep, Current, Asked
  <2>7. SrvOK' /\ Listed(a'.list) /\ a'.wild = FALSE /\ a'.dir \in Nat /\ a'.ftpStarted
    <3>1. SrvOK'
      BY <1>0, Before DEF SrvOK
    <3>2. a.ftpStarted
      BY <2>0, Before DEF LoginStates
    <3> QED BY <2>4, <3>1, <3>2, Before DEF ToLocate, Keeps
  <2>8. OnTarget(up', want')
    BY <2>4, PlainCommands, FewTargets
  <2> QED BY <1>0, <2>2, <2>4, <2>6, <2>7, <2>8, After DEF Working
<1>4. ~Ordered("MLSD") /\ ~Moving("MLSD") /\ ~Moved("MLSD")
  BY <1>0 DEF Ordered, Asked, Moving, Moved
<1> QED BY <1>1, <1>2, <1>3, <1>4 DEF Listing

-----------------------------------------------------------------------------
(* The ends of operations, and what follows.                                 *)

(* What the callbacks do with a success.                                     *)
Lister(b) == b.done_fn \in {"Cwd", "Del", "Move", "Stor"}
Unnamed(b) == IF b.done_fn = "Cwd" THEN b ELSE Pop(b)

(* The callbacks that ask for the listing again after a success.             *)
LEMMA ThenRelists ==
  ASSUME NEW t, NEW b, Lister(b)
  PROVE  Respond([s |-> t, a |-> b], "OK") = Relist([s |-> t, a |-> Unnamed(b)])
<1> DEFINE ok == "OK"
<1>0. ok = "OK" /\ ok # "INPROGRESS"
  OBVIOUS
<1>d. b.done_fn \in DoneFns
  BY DEF DoneFns, Lister
<1> HIDE DEF ok
<1>1. ASSUME b.done_fn = "Cwd" PROVE Respond([s |-> t, a |-> b], ok) = Relist([s |-> t, a |-> b])
  BY <1>0, <1>d, <1>1, Callbacks, ZenonT(60)
<1>2. ASSUME b.done_fn \in {"Del", "Move", "Stor"}
      PROVE  Respond([s |-> t, a |-> b], ok) = Relist([s |-> t, a |-> Pop(b)])
  BY <1>0, <1>d, <1>2, Callbacks, ZenonT(60)
<1>3. b.done_fn # "Cwd" => b.done_fn \in {"Del", "Move", "Stor"}
  BY DEF Lister
<1> QED BY <1>0, <1>1, <1>2, <1>3, Zenon DEF Unnamed

(* ... and the operation before is over by then.                             *)
LEMMA FinishedLists ==
  ASSUME NEW t, NEW b, Lister(b), Finished(t, b, "OK")
  PROVE  /\ Free(t) /\ t.control_pcb # NULL /\ t.control_pcb = s.control_pcb
         /\ Go(Relist([s |-> t, a |-> Unnamed(b)]))
<1>1. Free(t) /\ t.control_pcb # NULL /\ t.control_pcb = s.control_pcb /\ Go(Respond([s |-> t, a |-> b], "OK"))
  BY Zenon DEF Finished
<1>2. Respond([s |-> t, a |-> b], "OK") = Relist([s |-> t, a |-> Unnamed(b)])
  BY ThenRelists, Zenon
<1> QED BY <1>1, <1>2, Zenon

(* A success nothing follows.                                                *)
LEMMA ThenIdles ==
  ASSUME NEW t, NEW b, b.done_fn \in {"Pwd", "Retr"}
  PROVE  Respond([s |-> t, a |-> b], "OK") = [s |-> t, a |-> [b EXCEPT !.busy = FALSE]]
<1> DEFINE ok == "OK"
<1>0. ok = "OK" /\ ok # "INPROGRESS"
  OBVIOUS
<1>d. b.done_fn \in DoneFns
  BY DEF DoneFns
<1> HIDE DEF ok
<1>1. Respond([s |-> t, a |-> b], ok) = [s |-> t, a |-> [b EXCEPT !.busy = FALSE]]
  BY <1>0, <1>d, Callbacks, ZenonT(60)
<1> QED BY <1>0, <1>1, Zenon

(* The login was successful.                                                 *)
LEMMA LoginLists ==
  ASSUME NEW t, NEW b, b.done_fn = "Connect"
  PROVE  Respond([s |-> t, a |-> b], "LOGGED") =
           Relist([s |-> t, a |-> [b EXCEPT !.ftpStarted = TRUE]])
<1> DEFINE w == [s |-> t, a |-> b]
<1>w. w.s = t /\ w.a = b
  OBVIOUS
<1>e. [w EXCEPT !.a.ftpStarted = TRUE] = [s |-> t, a |-> [b EXCEPT !.ftpStarted = TRUE]]
  <2>1. \A c : [w EXCEPT !.a = c] = [s |-> t, a |-> c]
    BY WorldApp
  <2> HIDE DEF w
  <2>2. [w EXCEPT !.a.ftpStarted = TRUE] = [w EXCEPT !.a = [w.a EXCEPT !.ftpStarted = TRUE]]
    BY Zenon
  <2> QED BY <1>w, <2>1, <2>2, Zenon
<1> HIDE DEF w
<1>1. Respond(w, "LOGGED") = ftp_ConnectCallback(w, "LOGGED", TRUE)
  BY <1>w DEF Respond, Callback, NULL
<1>2. ftp_ConnectCallback(w, "LOGGED", TRUE) = Relist([w EXCEPT !.a.ftpStarted = TRUE])
  BY Zenon DEF ftp_ConnectCallback, Relist
<1> QED BY <1>e, <1>1, <1>2, Zenon DEF w

(* A directory was entered, or a file is gone, moved or stored: the listing  *)
(* of the working directory is fetched.                                      *)
Succeeds(c) == Finishing(c) /\ ResultOf(s.control_state, c) = "OK"

(* An operation that succeeds is followed by the listing of the directory.   *)
LEMMA EndLists ==
  ASSUME Step, ControlReply, NEW c \in {226, 250}, Answered(c, <<>>),
         Succeeds(c),
         \/ a.done_fn = "Cwd" /\ a.path = srv.cwd
         \/ a.done_fn \in {"Del", "Move", "Stor"} /\ a.path # <<>> /\ Front(a.path) = srv.cwd,
         Deep(srv.cwd), where \in {"main", "upload"}
  PROVE  PathInv'
<1> DEFINE b == Unnamed(a)
<1>0. /\ down = <<<<c, <<>>>>>> /\ up = <<>> /\ srv.doing = None
      /\ srv' = srv /\ want' = want /\ where' = where /\ where # "start"
  BY DEF Answered, ControlReply
<1>1. ReplyApp(c, <<>>) = a
  BY DEF ReplyApp
<1>2. PICK t : Finished(t, a, "OK")
  BY <1>0, <1>1, Before, OpEnds DEF Succeeds
<1>3. Free(t) /\ t.control_pcb # NULL /\ Go(Relist([s |-> t, a |-> b]))
  BY <1>2, FinishedLists DEF Lister
<1>4. Keeps(b, a) /\ b.path = srv.cwd
  BY Before DEF Unnamed, Keeps, Pop, IsApp, AppFields
<1> HIDE DEF b
<1>6. /\ s'.control_state = "TYPE_SENT" /\ s'.op = "MLSD" /\ s'.control_pcb # NULL
      /\ up' = <<<<"TYPE", <<>>>>>> /\ ToList(a', b)
  <2>1. IsApp(b)
    BY <1>4 DEF Keeps
  <2> QED BY <1>0, <1>3, <2>1, Before, ThenLists
<1>7. down' = <<>>
  BY <1>0, Before, Arrives
<1>8. Preparing("MLSD")'
  BY <1>0, <1>6, <1>7 DEF Preparing, Prepares, Asks, Asked
<1>9. /\ a'.path = srv.cwd /\ a'.dir = a.dir /\ a'.done_fn = "List" /\ a'.list = {} /\ a'.wild = FALSE
      /\ a'.ftpStarted = a.ftpStarted
  BY <1>4, <1>6, Before, ZenonT(60) DEF ToList, Keeps
<1>10. Deep(srv.cwd)'
  BY <1>0, <1>9, Before DEF Deep
<1>11. Listing'
  BY <1>0, <1>8, <1>9, <1>10 DEF Listing
<1>12. SrvOK' /\ Listed(a'.list) /\ a'.ftpStarted
  <2>1. a.ftpStarted
    BY Before DEF LoginStates, Succeeds, Finishing, TransferStates, CommandStates
  <2> QED BY <1>0, <1>9, <2>1, Before DEF SrvOK, Listed
<1>13. OnTarget(up', want')
  BY <1>6, PlainCommands, FewTargets
<1> QED BY <1>0, <1>6, <1>9, <1>11, <1>12, <1>13, Before, After DEF Working

(* An operation failed: keys work again.                                     *)
LEMMA EndFails ==
  ASSUME Step, ControlReply, Answered(550, <<>>), Finishing(550),
         a.done_fn \in {"Cwd", "Del", "Move", "Stor", "Retr"},
         a.done_fn = "Stor" => a.path # <<>>,
         PathKept => Current,
         \/ where \in {"main", "upload"} /\ a.done_fn = "Stor" /\ PathOK(Front(a.path))
         \/ where = "main" /\ a.done_fn \in {"Cwd", "Del", "Move"} /\ PathOK(a.path)
         \/ where = "download" /\ a.done_fn = "Retr" /\ FileOp
  PROVE  PathInv'
<1> DEFINE r == ResultOf(s.control_state, 550)
<1>0. /\ down = <<<<550, <<>>>>>> /\ up = <<>> /\ srv.doing = None
      /\ srv' = srv /\ want' = want /\ where' = where /\ where # "start"
  BY DEF Answered, ControlReply
<1>1. ReplyApp(550, <<>>) = a
  BY DEF ReplyApp
<1>r. r \notin {"OK", "LOGGED", "INPROGRESS"}
  BY DEF ResultOf, Completes
<1> HIDE DEF r
<1>2. PICK t : Finished(t, a, r)
  BY <1>0, <1>1, Before, OpEnds DEF r
<1>3. Free(t) /\ t.control_pcb # NULL /\ Go(Respond([s |-> t, a |-> a], r))
  BY <1>2, Zenon DEF Finished
<1>4. Respond([s |-> t, a |-> a], r) = Fail([s |-> t, a |-> a], r)
  <2>1. a.done_fn \in DoneFns /\ a.done_fn # NULL /\ r # "INPROGRESS" /\ r \notin {"OK", "LOGGED"}
    BY <1>r, Before DEF IsApp, NULL
  <2> QED BY <2>1, Callbacks, ZenonT(60)
<1>5. s'.control_state = "LOGGED" /\ s'.control_pcb # NULL /\ up' = <<>> /\ ToRest(a', a, r)
  <2>1. Go(Fail([s |-> t, a |-> a], r)) /\ a.done_fn # "Connect"
    BY <1>3, <1>4, Zenon
  <2> QED BY <1>0, <1>3, <2>1, Before, ThenFails
<1>6. down' = <<>>
  BY <1>0, Before, Arrives, ZenonT(60)
<1>7. /\ a'.path = IF a.done_fn = "Stor" THEN Front(a.path) ELSE a.path
      /\ a'.dir = a.dir /\ a'.list = a.list /\ a'.shown = a.shown /\ a'.wild = FALSE
      /\ a'.ftpStarted = a.ftpStarted /\ a'.busy = FALSE
  BY <1>5, Before DEF ToRest, Keeps
<1>8. Silent' /\ (PathKept' => Current')
  BY <1>0, <1>5, <1>6, <1>7, Before DEF Silent, Current
<1>9. Resting'
  <2>1. CASE where \in {"main", "upload"} /\ a.done_fn = "Stor" /\ PathOK(Front(a.path))
    BY <1>0, <1>5, <1>7, <1>8, <2>1, Before DEF Resting, PathOK, Deep
  <2>2. CASE where = "main" /\ a.done_fn \in {"Cwd", "Del", "Move"} /\ PathOK(a.path)
    BY <1>0, <1>5, <1>7, <1>8, <2>2, Before DEF Resting, PathOK, Deep
  <2>3. CASE where = "download" /\ a.done_fn = "Retr" /\ FileOp
    BY <1>0, <1>5, <1>7, <1>8, <2>3, Before DEF Resting, FileOp, PathOK, Deep
  <2> QED BY <2>1, <2>2, <2>3
<1>10. SrvOK' /\ Listed(a'.list) /\ a'.ftpStarted
  <2>1. a.ftpStarted
    BY Before DEF LoginStates, Finishing, TransferStates, CommandStates
  <2> QED BY <1>0, <1>7, <2>1, Before DEF SrvOK
<1>11. OnTarget(up', want')
  BY <1>5, FewTargets
<1> QED BY <1>0, <1>5, <1>7, <1>9, <1>10, <1>11, Before, After DEF Working

(* The reply to CWD.                                                         *)
LEMMA ChangingReply ==
  ASSUME Step, ControlReply, Changing
  PROVE  PathInv'
<1>1. CASE Answered(250, <<>>) /\ a.path = srv.cwd
  <2>1. Succeeds(250)
    BY DEF Changing, Succeeds, Finishing, CommandStates, ResultOf, Completes
  <2>2. a.done_fn = "Cwd" /\ Deep(srv.cwd) /\ where = "main"
    BY <1>1 DEF Changing
  <2> QED BY <1>1, <2>1, <2>2, EndLists
<1>2. CASE Answered(550, <<>>) /\ a.path \notin Places
  <2>1. Finishing(550)
    BY DEF Changing, Finishing, CommandStates
  <2>2. ~PathKept /\ PathOK(a.path) /\ a.done_fn = "Cwd" /\ where = "main"
    BY <1>2 DEF Changing, PathOK
  <2> QED BY <1>2, <2>1, <2>2, EndFails
<1>3. down # <<>>
  BY DEF ControlReply
<1> QED BY <1>1, <1>2, <1>3 DEF Changing, Asked

-----------------------------------------------------------------------------
(* Replies to the operations on files.                                       *)

(* The name of a file is on the path: what follows for the path itself.      *)
LEMMA FileOpFacts ==
  ASSUME FileOp, HomeBelow, a.dir \in Nat
  PROVE  /\ a.path \in Clean /\ a.path # <<>> /\ a.path \notin Places /\ Front(a.path) \in Clean
         /\ PathOK(Front(a.path)) /\ (~PathKept => PathOK(a.path))
         /\ (Front(a.path) = srv.cwd => Deep(srv.cwd))
         /\ (PathKept => want = a.path /\ Front(a.path) = srv.cwd)
<1>1. a.path \in Clean /\ a.path # <<>> /\ a.path \notin Places /\ PathOK(Front(a.path))
      /\ (PathKept => want = a.path)
  BY Zenon DEF FileOp
<1>2. Front(a.path) \in Clean /\ Len(Front(a.path)) = Len(a.path) - 1 /\ Len(a.path) \in Nat
  BY <1>1, CutPath DEF Clean
<1>3. Deep(Front(a.path)) /\ (PathKept => Front(a.path) = srv.cwd)
  BY <1>1 DEF PathOK
<1>4. ~PathKept => Deep(a.path)
  BY <1>2, <1>3, PlacePaths DEF Deep
<1> QED BY <1>1, <1>2, <1>3, <1>4 DEF PathOK

(* Replies to DELE, RNFR and RNTO.                                           *)
LEMMA RemovingReply ==
  ASSUME Step, ControlReply, NEW op \in {"DELE", "RNFR"}, Removing(op)
  PROVE  PathInv'
<1>0. /\ a.done_fn \in {"Del", "Move"} /\ where = "main" /\ FileOp /\ down # <<>>
      /\ srv' = srv /\ want' = want /\ where' = where
  BY DEF Removing, ControlReply
<1>f. /\ a.path \in Clean /\ a.path # <<>> /\ a.path \notin Places
      /\ PathOK(Front(a.path)) /\ (~PathKept => PathOK(a.path))
      /\ (Front(a.path) = srv.cwd => Deep(srv.cwd))
  BY <1>0, Before, FileOpFacts
<1>1. CASE s.control_state = SentState[op] /\ Answered(550, <<>>) /\ ~PathKept
  <2>1. Finishing(550)
    BY <1>1 DEF Finishing, SentState, CommandStates
  <2> QED BY <1>0, <1>f, <1>1, <2>1, EndFails
<1>2. CASE /\ op = "DELE" /\ s.control_state = SentState[op] /\ Answered(250, <<>>)
           /\ Front(a.path) = srv.cwd
  <2>1. Succeeds(250)
    BY <1>2 DEF Succeeds, Finishing, SentState, CommandStates, ResultOf, Completes
  <2> QED BY <1>0, <1>f, <1>2, <2>1, EndLists
<1>3. CASE op = "RNFR" /\ s.control_state = "RNTO_SENT" /\ Front(a.path) = srv.cwd /\ Answered(250, <<>>)
  <2>1. Succeeds(250)
    BY <1>3 DEF Succeeds, Finishing, CommandStates, ResultOf, Completes
  <2> QED BY <1>0, <1>f, <1>3, <2>1, EndLists
<1>4. CASE /\ op = "RNFR" /\ s.control_state = SentState[op] /\ Answered(350, <<>>)
           /\ Front(a.path) = srv.cwd
  <2>0. /\ s.control_state = "RNFR_SENT" /\ down = <<<<350, <<>>>>>> /\ up = <<>> /\ srv.doing = None
        /\ s.control_pcb # NULL
    BY <1>4, Before DEF SentState, Answered
  <2>1. down' = <<>> /\ Handler(lwftp_control_process(Quiet(s), 350, TRUE, TRUE), ReplyApp(350, <<>>))
    BY <2>0, Before, Arrives, ZenonT(60)
  <2>2. ReplyApp(350, <<>>) = a
    BY DEF ReplyApp
  <2> DEFINE t == lwftp_control_process(Quiet(s), 350, TRUE, TRUE)
  <2>3. Sent(Quiet(s), t, "RNTO_SENT", "RNTO")
    <3>1. Rested(Quiet(s)) /\ Quiet(s).control_state = "RNFR_SENT"
      BY <2>0, Before, QuietFacts
    <3> QED BY <3>1, ProcessSends, Zenon
  <2>4. Handler(t, a)
    BY <2>1, <2>2, Zenon
  <2> HIDE DEF t
  <2>5. /\ a' = a /\ up' = <<<<"RNTO", Carries("RNTO", a)>>>> /\ s'.control_state = "RNTO_SENT"
        /\ s'.control_pcb = s.control_pcb
    BY <2>0, <2>3, <2>4, Before, HandlerSends
  <2>6. Carries("RNTO", a) = NewName /\ "RNTO" \notin FileCommands
    BY DEF Carries, PathCommands, FileCommands
  <2>7. FileOp' /\ Removing("RNFR")'
    <3>1. FileOp'
      BY <1>0, <2>5, Before, Frame
    <3> QED BY <1>0, <1>4, <2>0, <2>1, <2>5, <2>6, <3>1 DEF Removing, Asked
  <2>8. OnTarget(up', want')
    BY <2>5, <2>6, FewTargets
  <2>9. s.control_state \notin {"CLOSED"} \cup LoginStates
    BY <2>0 DEF LoginStates
  <2> QED BY <1>0, <2>0, <2>5, <2>7, <2>8, <2>9, AfterFrame DEF Working
<1>5. ~Asked(op, a.path) /\ ~Asked("RNTO", NewName)
  BY <1>0 DEF Asked
<1> QED BY <1>1, <1>2, <1>3, <1>4, <1>5 DEF Removing

(* Replies to the commands of an upload.                                     *)
LEMMA StoringReply ==
  ASSUME Step, ControlReply, Storing
  PROVE  PathInv'
<1>0. /\ srv' = srv /\ want' = want /\ where' = where /\ where # "start" /\ down # <<>>
      /\ "STOR" \in TransferOps /\ s.control_pcb = "ESTABLISHED" /\ where \in {"main", "upload"}
      /\ FileOp /\ a.done_fn = "Stor" /\ Last(a.path) = "u"
  BY DEF ControlReply, Served, TransferOps, Storing
<1>f. /\ a.path \in Clean /\ a.path # <<>> /\ a.path \notin Places
      /\ PathOK(Front(a.path)) /\ (Front(a.path) = srv.cwd => Deep(srv.cwd))
      /\ (PathKept => want = a.path /\ Front(a.path) = srv.cwd)
  BY <1>0, Before, FileOpFacts
<1>1. CASE Preparing("STOR")
  <2>1. CASE /\ a' = a /\ s'.control_pcb # NULL /\ s'.control_state # "QUIT_SENT"
             /\ Preparing("STOR")' \/ Ordered("STOR")'
             /\ PathKept => OnTarget(up', want')
    <3>1. s.control_state \notin {"CLOSED"} \cup LoginStates
      BY <1>1 DEF Preparing, LoginStates
    <3>2. FileOp'
      BY <1>0, <2>1, Before, Frame
    <3>3. Storing'
      BY <1>0, <2>1, <3>2 DEF Storing
    <3> QED BY <1>0, <2>1, <3>1, <3>3, AfterFrame DEF Working
  <2>2. PathKept => OnTarget(<<<<"STOR", a.path>>>>, want')
    BY <1>0, <1>f, FewTargets
  <2> QED BY <1>0, <1>1, <2>1, <2>2, PreparingReply
<1>2. CASE Begun("STOR") /\ Front(a.path) = srv.cwd /\ srv.path = a.path
  <2>1. a' = a /\ Moving("STOR")' /\ up' = <<>> /\ s'.control_pcb = s.control_pcb
    BY <1>0, <1>2, Before, Starts150
  <2>2. s.control_state \notin {"CLOSED"} \cup LoginStates /\ s'.control_state # "QUIT_SENT"
    BY <1>0, <1>2, <2>1, StageStates DEF Begun, Moving
  <2>3. FileOp'
    BY <1>0, <2>1, Before, Frame
  <2>4. Storing'
    BY <1>0, <1>2, <2>1, <2>3 DEF Storing
  <2> QED BY <1>0, <2>1, <2>2, <2>4, Before, FewTargets, AfterFrame DEF Working
<1>3. CASE Over("STOR") /\ Front(a.path) = srv.cwd
  <2>1. Succeeds(226) /\ Answered(226, <<>>)
    BY <1>3 DEF Over, Succeeds, Finishing, ResultOf, Completes
  <2> QED BY <1>0, <1>f, <1>3, <2>1, EndLists
<1>4. CASE Denied("STOR") /\ Front(a.path) \notin Places
  <2>1. Finishing(550) /\ Answered(550, <<>>)
    BY <1>4 DEF Denied, Finishing, SentState, TransferStates
  <2>2. ~PathKept
    BY <1>f, <1>4, Before DEF SrvOK
  <2> QED BY <1>0, <1>f, <2>1, <2>2, EndFails
<1>5. ~Ordered("STOR") /\ ~Moving("STOR") /\ ~Moved("STOR")
  BY <1>0 DEF Ordered, Asked, Moving, Moved
<1> QED BY <1>1, <1>2, <1>3, <1>4, <1>5 DEF Storing

-----------------------------------------------------------------------------
(* Replies to a download, to PWD and to the login.                           *)

(* A success after which keys work again.                                    *)
LEMMA FinishedIdles ==
  ASSUME NEW t, NEW b, b.done_fn \in {"Pwd", "Retr"}, Finished(t, b, "OK")
  PROVE  /\ Free(t) /\ t.control_pcb # NULL /\ t.control_pcb = s.control_pcb
         /\ Go([s |-> t, a |-> [b EXCEPT !.busy = FALSE]])
<1>1. Free(t) /\ t.control_pcb # NULL /\ t.control_pcb = s.control_pcb /\ Go(Respond([s |-> t, a |-> b], "OK"))
  BY Zenon DEF Finished
<1>2. Respond([s |-> t, a |-> b], "OK") = [s |-> t, a |-> [b EXCEPT !.busy = FALSE]]
  BY ThenIdles
<1> QED BY <1>1, <1>2, Zenon

(* The end of a download whose callback was taken away.                      *)
LEMMA FinishedSilent ==
  ASSUME NEW t, NEW b, b.done_fn = NULL, NEW r, Finished(t, b, r)
  PROVE  /\ Free(t) /\ t.control_pcb # NULL /\ t.control_pcb = s.control_pcb
         /\ Go([s |-> t, a |-> b])
<1> DEFINE w == [s |-> t, a |-> b]
<1>w. w.a = b
  OBVIOUS
<1>1. Free(t) /\ t.control_pcb # NULL /\ t.control_pcb = s.control_pcb /\ Go(Respond(w, r))
  BY Zenon DEF Finished
<1> HIDE DEF w
<1>2. Respond(w, r) = w
  BY <1>w DEF Respond, Callback, NULL
<1> QED BY <1>1, <1>2, Zenon DEF w

(* Replies to the commands of a download.                                    *)
LEMMA LoadingReply ==
  ASSUME Step, ControlReply, Loading
  PROVE  PathInv'
<1>0. /\ srv' = srv /\ want' = want /\ where' = where /\ where # "start" /\ down # <<>>
      /\ "RETR" \in TransferOps /\ s.control_pcb = "ESTABLISHED" /\ (PathKept => Current)
      /\ \/ a.done_fn = "Retr" /\ where = "download" /\ FileOp
         \/ a.done_fn = NULL /\ where = "main" /\ ~PathKept
  BY DEF ControlReply, Served, TransferOps, Loading
<1>f. PathKept => a.path \in Clean /\ want = a.path
  BY <1>0, Before, FileOpFacts
<1>p. ASSUME a' = a
      PROVE  /\ PathKept' => Current'
             /\ \/ a'.done_fn = "Retr" /\ where' = "download" /\ FileOp'
                \/ a'.done_fn = NULL /\ where' = "main" /\ ~PathKept'
  BY <1>0, <1>p, Before, Frame
<1>1. CASE Preparing("RETR")
  <2>1. CASE /\ a' = a /\ s'.control_pcb # NULL /\ s'.control_state # "QUIT_SENT"
             /\ Preparing("RETR")' \/ Ordered("RETR")'
             /\ PathKept => OnTarget(up', want')
    <3>1. s.control_state \notin {"CLOSED"} \cup LoginStates
      BY <1>1 DEF Preparing, LoginStates
    <3>2. Loading'
      BY <1>p, <2>1 DEF Loading
    <3> QED BY <1>0, <2>1, <3>1, <3>2, AfterFrame DEF Working
  <2>2. PathKept => OnTarget(<<<<"RETR", a.path>>>>, want')
    BY <1>0, <1>f, FewTargets
  <2> QED BY <1>0, <1>1, <2>1, <2>2, PreparingReply
<1>2. CASE Begun("RETR")
  <2>1. a' = a /\ Moving("RETR")' /\ up' = <<>> /\ s'.control_pcb = s.control_pcb
    BY <1>0, <1>2, Before, Starts150
  <2>2. s.control_state \notin {"CLOSED"} \cup LoginStates /\ s'.control_state # "QUIT_SENT"
    BY <1>0, <1>2, <2>1, StageStates DEF Begun, Moving
  <2>3. Loading'
    BY <1>p, <2>1 DEF Loading
  <2> QED BY <1>0, <2>1, <2>2, <2>3, Before, FewTargets, AfterFrame DEF Working
<1>3. CASE Denied("RETR") /\ a.done_fn = "Retr"
  <2>1. Finishing(550) /\ Answered(550, <<>>)
    BY <1>3 DEF Denied, Finishing, SentState, TransferStates
  <2> QED BY <1>0, <1>3, <2>1, EndFails DEF NULL
<1>4. CASE (Denied("RETR") \/ Over("RETR")) /\ a.done_fn = NULL
  <2>1. PICK c \in {226, 550} : Answered(c, <<>>) /\ Finishing(c)
    BY <1>4 DEF Denied, Over, Finishing, SentState, TransferStates
  <2>2. down = <<<<c, <<>>>>>> /\ up = <<>> /\ srv.doing = None /\ ReplyApp(c, <<>>) = a
    BY <2>1 DEF Answered, ReplyApp
  <2>3. PICK t : Finished(t, a, ResultOf(s.control_state, c))
    BY <2>1, <2>2, Before, OpEnds
  <2>4. Free(t) /\ t.control_pcb # NULL /\ Go([s |-> t, a |-> a])
    BY <1>4, <2>3, FinishedSilent
  <2>5. s'.control_state = "LOGGED" /\ s'.control_pcb # NULL /\ up' = <<>> /\ a' = a
    BY <2>2, <2>4, ThenRests
  <2>6. down' = <<>>
    <3>1. Calm /\ IInv
      BY Before
    <3>2. down = <<<<c, <<>>>>>>
      BY <2>2
    <3> QED BY <3>1, <3>2, Arrives, Zenon
  <2>7. a.busy /\ s.control_state \notin {"CLOSED"} \cup LoginStates
    <3>1. s.control_state \in {"RETR_SENT", "XFERING"}
      BY <1>4 DEF Denied, Over, SentState
    <3>2. s.op # None
      BY <3>1, Before, GoodSession
    <3>3. a.ftpStarted
      BY <3>1, Before DEF LoginStates
    <3> QED BY <3>1, <3>2, <3>3, Before DEF Linked, IsApp, LoginStates
  <2>8. Resting'
    BY <1>0, <1>4, <1>p, <2>2, <2>5, <2>6, <2>7, Before DEF Resting, Silent, NULL
  <2> QED BY <1>0, <2>5, <2>7, <2>8, FewTargets, AfterFrame DEF Working
<1>5. CASE Over("RETR") /\ a.done_fn = "Retr"
  <2>1. down = <<<<226, <<>>>>>> /\ up = <<>> /\ srv.doing = None /\ s.control_state = "XFERING"
    BY <1>5 DEF Over, Answered
  <2>2. Finishing(226) /\ ReplyApp(226, <<>>) = a /\ ResultOf("XFERING", 226) = "OK"
    BY <2>1 DEF Finishing, ReplyApp, ResultOf, Completes
  <2>3. PICK t : Finished(t, a, "OK")
    BY <2>1, <2>2, Before, OpEnds
  <2> DEFINE b == [a EXCEPT !.busy = FALSE]
  <2>b. /\ b.path = a.path /\ b.dir = a.dir /\ b.list = a.list /\ b.shown = a.shown /\ b.wild = a.wild
        /\ b.ftpStarted = a.ftpStarted /\ b.busy = FALSE
    BY Before DEF IsApp, AppFields
  <2>4. Free(t) /\ t.control_pcb # NULL /\ Go([s |-> t, a |-> b])
    BY <1>5, <2>3, FinishedIdles
  <2> HIDE DEF b
  <2>5. s'.control_state = "LOGGED" /\ s'.control_pcb # NULL /\ up' = <<>> /\ a' = b
    BY <2>1, <2>4, ThenRests
  <2>6. down' = <<>>
    BY <2>1, Before, Arrives
  <2>7. FileOp' /\ (PathKept' => Current')
    BY <1>0, <1>5, <2>b, <2>5, Before DEF FileOp, PathOK, Deep, Current, NULL
  <2>8. Resting'
    BY <1>0, <1>5, <2>1, <2>b, <2>5, <2>6, <2>7, Before DEF Resting, Silent, NULL
  <2>9. SrvOK' /\ Listed(a'.list) /\ a'.ftpStarted /\ a'.wild = FALSE /\ a'.dir \in Nat
    <3>1. a.ftpStarted
      BY <2>1, Before DEF LoginStates
    <3> QED BY <1>0, <2>b, <2>5, <3>1, Before DEF SrvOK
  <2> QED BY <1>0, <2>5, <2>8, <2>9, FewTargets, After DEF Working
<1>6. ~Ordered("RETR") /\ ~Moving("RETR") /\ ~Moved("RETR")
  BY <1>0 DEF Ordered, Asked, Moving, Moved
<1> QED BY <1>0, <1>1, <1>2, <1>3, <1>4, <1>5, <1>6 DEF Loading

(* The reply to PWD.                                                         *)
LEMMA LocatingReply ==
  ASSUME Step, ControlReply, Locating
  PROVE  PathInv'
<1>0. /\ srv' = srv /\ want' = want /\ where' = where /\ where # "start" /\ down # <<>>
      /\ a.done_fn = "Pwd" /\ where \in {"login", "main", "upload"} /\ s.control_state = "PWD_SENT"
      /\ Deep(srv.cwd) /\ Current
  BY DEF ControlReply, Served, Locating
<1>1. down = <<<<257, srv.cwd>>>> /\ up = <<>> /\ srv.doing = None
  BY <1>0 DEF Locating, Asked, Answered
<1> DEFINE b == [a EXCEPT !.path = srv.cwd]
           c == [b EXCEPT !.busy = FALSE]
<1>2. Finishing(257) /\ ReplyApp(257, srv.cwd) = b /\ ResultOf("PWD_SENT", 257) = "OK"
  BY <1>0 DEF Finishing, CommandStates, ReplyApp, ResultOf, Completes
<1>3. b.done_fn = "Pwd"
  BY <1>0, Before DEF IsApp, AppFields
<1>4. /\ c.path = srv.cwd /\ c.dir = a.dir /\ c.list = a.list /\ c.shown = a.shown /\ c.wild = a.wild
      /\ c.ftpStarted = a.ftpStarted /\ c.busy = FALSE
  BY Before DEF IsApp, AppFields
<1>5. PICK t : Finished(t, ReplyApp(257, srv.cwd), "OK")
  BY <1>0, <1>1, <1>2, Before, OpEnds
<1> HIDE DEF b
<1>6. Free(t) /\ t.control_pcb # NULL /\ Go([s |-> t, a |-> c])
  <2>1. Finished(t, b, "OK")
    BY <1>2, <1>5, Zenon
  <2> QED BY <1>3, <2>1, FinishedIdles
<1> HIDE DEF c
<1>7. s'.control_state = "LOGGED" /\ s'.control_pcb # NULL /\ up' = <<>> /\ a' = c
  BY <1>1, <1>6, ThenRests
<1>8. down' = <<>>
  BY <1>1, Before, Arrives
<1>9. Current' /\ PathOK(a.path)'
  <2>1. srv.cwd \in Clean
    BY Before, PlacePaths DEF SrvOK
  <2> QED BY <1>0, <1>4, <1>7, <2>1, Before DEF Current, PathOK, Deep
<1>10. Resting'
  BY <1>0, <1>1, <1>4, <1>7, <1>8, <1>9 DEF Resting, Silent
<1>11. SrvOK' /\ Listed(a'.list) /\ a'.ftpStarted /\ a'.wild = FALSE /\ a'.dir \in Nat
  <2>1. a.ftpStarted
    BY <1>0, Before DEF LoginStates
  <2> QED BY <1>0, <1>4, <1>7, <2>1, Before DEF SrvOK
<1> QED BY <1>0, <1>7, <1>10, <1>11, FewTargets, After DEF Working

-----------------------------------------------------------------------------
(* Replies to the login, and any reply.                                      *)

(* The session is logged in and fetches a listing.                           *)
LEMMA LoggedLists ==
  ASSUME Calm, IInv, ControlReply, s.control_state = "PASS_SENT", down = <<<<230, <<>>>>>>, up = <<>>,
         a.done_fn = "Connect"
  PROVE  /\ down' = <<>> /\ s'.control_state = "TYPE_SENT" /\ s'.op = "MLSD" /\ s'.control_pcb # NULL
         /\ up' = <<<<"TYPE", <<>>>>>> /\ ToList(a', [a EXCEPT !.ftpStarted = TRUE])
<1>0. s.control_pcb = "ESTABLISHED" /\ s.control_pcb # NULL
  BY DEF ControlReply, NULL
<1>1. down' = <<>> /\ Handler(lwftp_control_process(Quiet(s), 230, TRUE, TRUE), ReplyApp(230, <<>>))
  BY Arrives, ZenonT(60)
<1>2. ReplyApp(230, <<>>) = a
  BY DEF ReplyApp
<1> DEFINE t == lwftp_control_process(Quiet(s), 230, TRUE, TRUE)
<1>3. /\ t.control_state = "LOGGED" /\ t.sent = <<>> /\ t.done = <<"LOGGED">>
      /\ t.data_pcb = Quiet(s).data_pcb /\ t.control_pcb = Quiet(s).control_pcb
  <2>1. Rested(Quiet(s)) /\ Quiet(s).control_state = "PASS_SENT"
    BY QuietFacts
  <2> QED BY <2>1, ProcessLogs, ZenonT(60)
<1>4. t \in Sessions
  <2>1. Shape(Quiet(s), t)
    <3>1. 230 \in Codes /\ TRUE \in BOOLEAN
      BY DEF Codes
    <3>2. Lib!Good(Quiet(s)) /\ Quiet(s).done = <<>> /\ Quiet(s).control_pcb = "ESTABLISHED"
      BY <1>0, IInvParts
    <3> QED BY <3>1, <3>2, ProcessShape, Zenon
  <2> QED BY <2>1, Zenon DEF Shape
<1>5. Handler(t, a)
  BY <1>1, <1>2, Zenon
<1> HIDE DEF t
<1>6. Go(Respond([s |-> t, a |-> a], "LOGGED"))
  BY <1>3, <1>5, Handles
<1> DEFINE b == [a EXCEPT !.ftpStarted = TRUE]
<1>7. Go(Relist([s |-> t, a |-> b]))
  BY <1>6, LoginLists, Zenon
<1>8. IsApp(b)
  BY IInvParts DEF IsApp, AppFields
<1>9. s.data_pcb = NULL
  <2>1. Lib!PcbsFollow(s)
    BY QuietFacts, Zenon DEF Lib!Good
  <2> QED BY <2>1 DEF Lib!PcbsFollow, Lib!NULL, Lib!TransferStates, NULL
<1>10. Free(t) /\ t.control_pcb # NULL
  BY <1>0, <1>3, <1>4, <1>9, QuietFacts DEF Free
<1> HIDE DEF b
<1>11. /\ s'.control_state = "TYPE_SENT" /\ s'.op = "MLSD" /\ s'.control_pcb = t.control_pcb
       /\ up' = <<<<"TYPE", <<>>>>>> /\ ToList(a', b)
  BY <1>7, <1>8, <1>10, ThenLists
<1> QED BY <1>1, <1>10, <1>11 DEF b

(* The first path is the one PWD will say.                                   *)
LEMMA FreshFacts ==
  /\ IsApp(FreshApp) /\ FreshApp.path = <<>> /\ FreshApp.dir = 0 /\ FreshApp.list = {}
  /\ FreshApp.wild = FALSE /\ FreshApp.done_fn = "Connect" /\ FreshApp.ftpStarted = FALSE
  /\ Listed({})
BY DEF FreshApp, IsApp, AppFields, DoneFns, Listed

(* Replies to the login.                                                     *)
LEMMA ConnectingReply ==
  ASSUME Step, ControlReply, Connecting
  PROVE  PathInv'
<1>0. /\ srv' = srv /\ want' = want /\ where' = where /\ where = "login" /\ down # <<>>
      /\ s.control_pcb = "ESTABLISHED" /\ a = FreshApp /\ srv.cwd = Home /\ Prepares
      /\ s.control_state \in {"CLOSED"} \cup LoginStates
  BY DEF ControlReply, Served, Connecting
<1>s. s.control_state \in LoginStates
  BY <1>0, Before, SessionFacts
<1>1. /\ up = <<>> /\ srv.doing = None
      /\ \/ s.control_state = "CONNECTED" /\ down = <<<<220, <<>>>>>>
         \/ s.control_state = "USER_SENT" /\ down = <<<<331, <<>>>>>>
         \/ s.control_state = "PASS_SENT" /\ down = <<<<230, <<>>>>>>
         \/ /\ s.control_state \in DOMAIN Asks /\ "refuse" \in faults
            /\ down = <<<<550, <<>>>>>>
  BY <1>0, <1>s, PrepReply DEF LoginStates
<1>2. CASE \/ s.control_state = "CONNECTED" /\ down = <<<<220, <<>>>>>>
           \/ s.control_state = "USER_SENT" /\ down = <<<<331, <<>>>>>>
  <2>1. /\ a' = a /\ Prepares' /\ s'.control_pcb = s.control_pcb
        /\ s'.control_state \in {"USER_SENT", "PASS_SENT"} /\ OnTarget(up', want')
    BY <1>1, <1>2, Before, PrepSends
  <2>2. Connecting'
    BY <1>0, <2>1 DEF Connecting, LoginStates
  <2>3. SrvOK' /\ Listed(a'.list) /\ a'.wild = FALSE /\ a'.dir \in Nat
    BY <1>0, <2>1, Before, FreshFacts DEF SrvOK
  <2>4. s'.control_state \in {"CLOSED"} \cup LoginStates /\ s'.control_state # "QUIT_SENT"
    BY <2>1 DEF LoginStates
  <2>5. Alive' /\ Living'
    BY <2>1, <2>2, <2>3, <2>4, Before DEF Alive, Living
  <2> QED BY <1>0, <2>1, <2>5, Before, GoesOn
<1>3. CASE s.control_state = "PASS_SENT" /\ down = <<<<230, <<>>>>>>
  <2> DEFINE b == [a EXCEPT !.ftpStarted = TRUE]
  <2>1. /\ down' = <<>> /\ s'.control_state = "TYPE_SENT" /\ s'.op = "MLSD" /\ s'.control_pcb # NULL
        /\ up' = <<<<"TYPE", <<>>>>>> /\ ToList(a', b)
    BY <1>0, <1>1, <1>3, Before, FreshFacts, LoggedLists
  <2>2. b.path = <<>> /\ b.dir = 0 /\ b.wild = FALSE /\ b.ftpStarted = TRUE
    BY <1>0, FreshFacts DEF IsApp, AppFields
  <2> HIDE DEF b
  <2>3. /\ a'.path = <<>> /\ a'.dir = 0 /\ a'.done_fn = "List" /\ a'.list = {} /\ a'.wild = FALSE
        /\ a'.ftpStarted
    BY <2>1, <2>2 DEF ToList, Keeps
  <2>4. Preparing("MLSD")'
    BY <1>0, <1>1, <2>1 DEF Preparing, Prepares, Asks, Asked
  <2>5. Deep(srv.cwd)'
    BY <1>0, <2>3, Before, PlacePaths DEF Deep
  <2>6. Listing'
    BY <1>0, <2>3, <2>4, <2>5 DEF Listing
  <2>7. SrvOK' /\ Listed(a'.list)
    BY <1>0, <2>3, Before, FreshFacts DEF SrvOK
  <2>8. OnTarget(up', want')
    BY <2>1, PlainCommands, FewTargets
  <2>9. where' # "start" /\ s'.control_state # "QUIT_SENT" /\ a'.dir \in Nat /\ Working'
    BY <1>0, <2>1, <2>3, <2>6 DEF Working
  <2> QED BY <2>1, <2>3, <2>7, <2>8, <2>9, After
<1>4. CASE s.control_state \in DOMAIN Asks /\ "refuse" \in faults /\ down = <<<<550, <<>>>>>>
  BY <1>1, <1>4, Before, PrepQuits
<1> QED BY <1>1, <1>2, <1>3, <1>4

(* Any reply.                                                                *)
LEMMA ReplyKeeps ==
  ASSUME Step, ControlReply
  PROVE  PathInv'
<1>1. ~Resting
  BY DEF Resting, Silent, ControlReply
<1>2. Connecting \/ Working
  BY Zenon DEF Step, Living
<1> QED BY <1>1, <1>2, ConnectingReply, ListingReply, LocatingReply, ChangingReply, RemovingReply,
           StoringReply, LoadingReply DEF Working

-----------------------------------------------------------------------------
(* The server's steps.                                                       *)

(* A session that is open has left the start.                                *)
LEMMA NotStart ==
  ASSUME Step
  PROVE  where # "start"
<1>1. where = "start" => s = FreshSession
  BY Zenon DEF Step, IInv
<1>2. FreshSession.control_pcb = NULL
  BY DEF FreshSession
<1> QED BY <1>1, <1>2, Before

(* A step that leaves the app and the working directory alone.               *)
LEMMA FrameDir ==
  ASSUME a' = a, srv'.cwd = srv.cwd, want' = want, faults' = faults
  PROVE  /\ PathKept' <=> PathKept
         /\ FileOp' <=> FileOp
         /\ srv'.files = srv.files => (Current' <=> Current)
         /\ Deep(srv.cwd)' <=> Deep(srv.cwd)
         /\ Deep(a.path)' <=> Deep(a.path)
<1>1. PathKept' <=> PathKept
  BY Zenon DEF PathKept
<1>2. srv'.files = srv.files => (Current' <=> Current)
  BY DEF Current
<1>4. (Deep(srv.cwd)' <=> Deep(srv.cwd)) /\ (Deep(a.path)' <=> Deep(a.path))
  BY <1>1 DEF Deep
<1>5. FileOp' <=> FileOp
  BY <1>1 DEF FileOp, PathOK, Deep
<1> QED BY <1>1, <1>2, <1>4, <1>5

(* The invariant after a step of the server.                                 *)
LEMMA AfterServer ==
  ASSUME Step, s' = s, a' = a, where' = where, want' = want, up' = <<>>, SrvOK',
         s.control_state \notin {"CLOSED"} \cup LoginStates, Working'
  PROVE  PathInv'
<1>1. s.control_pcb # NULL /\ s.control_state # "QUIT_SENT"
  BY Zenon DEF Step, Alive
<1> QED BY <1>1, Before, NotStart, FewTargets, After

(* The server takes the command that is under way.                           *)
Refused(cmd, path) == /\ Refusable(cmd) \/ ~Possible(cmd, path)
                      /\ down' = <<<<550, <<>>>>>> /\ srv' = srv

(* The server takes the only command under way.                              *)
LEMMA Takes ==
  ASSUME ServerCommand, NEW cmd, NEW path, Asked(cmd, path)
  PROVE  /\ s' = s /\ a' = a /\ where' = where /\ n' = n /\ want' = want /\ up' = <<>>
         /\ srv.doing = None /\ s.control_pcb = "ESTABLISHED"
         /\ (Possible(cmd, path) /\ Perform(cmd, path)) \/ Refused(cmd, path)
         /\ \A code, dir : Reply(code, dir) <=> down' = <<<<code, dir>>>>
<1>1. up = <<<<cmd, path>>>> /\ down = <<>>
  BY DEF Asked
<1>2. Head(up)[1] = cmd /\ Head(up)[2] = path /\ Tail(up) = <<>>
  BY <1>1
<1>3. \A code, dir : Reply(code, dir) <=> down' = <<<<code, dir>>>>
  BY <1>1 DEF Reply
<1>4. /\ s' = s /\ a' = a /\ where' = where /\ n' = n /\ want' = want /\ up' = Tail(up)
      /\ srv.doing = None /\ s.control_pcb = "ESTABLISHED"
  BY DEF ServerCommand
<1>5. \/ Possible(cmd, path) /\ Perform(cmd, path)
      \/ (Refusable(cmd) \/ ~Possible(cmd, path)) /\ Reply(550, <<>>) /\ UNCHANGED srv
  BY <1>2, Zenon DEF ServerCommand
<1>6. (Possible(cmd, path) /\ Perform(cmd, path)) \/ Refused(cmd, path)
  BY <1>3, <1>5, Zenon DEF Refused
<1> QED BY <1>2, <1>3, <1>4, <1>6, Zenon

(* In a calm behaviour the commands of operations are refused for a reason.  *)
LEMMA RefusedWhy ==
  ASSUME Calm, NEW cmd \in Ops \cup {"RNTO"}, NEW path, Refused(cmd, path)
  PROVE  ~Possible(cmd, path) /\ down' = <<<<550, <<>>>>>> /\ srv' = srv
<1>1. ~Refusable(cmd)
  BY CalmFacts DEF Refusable, Simple, Ops, TransferOps, CommandOps
<1> QED BY <1>1, Zenon DEF Refused

(* The server keeps its files and its working directory.                     *)
SameFiles(v) == v.cwd = srv.cwd /\ v.files = srv.files

(* The working directory is a path the server reads as it stands.            *)
LEMMA ServerPlace ==
  ASSUME SrvOK, HomeBelow
  PROVE  /\ DOMAIN srv = {"cwd", "files", "doing", "path", "moved"}
         /\ srv.cwd \in Clean /\ srv.cwd # <<>> /\ Resolve(srv.cwd) = srv.cwd
BY PlacePaths DEF SrvOK

(* What the server does when it carries out a command.                       *)
LEMMA Performs ==
  ASSUME NEW cmd, NEW path, Perform(cmd, path)
  PROVE  /\ cmd \in DOMAIN Simple => Reply(Simple[cmd], <<>>) /\ srv' = srv
         /\ cmd \in TransferOps =>
              /\ Reply(150, <<>>)
              /\ srv' = [srv EXCEPT !.doing = cmd, !.path = Target(path), !.moved = FALSE]
         /\ cmd = "DELE" => Reply(250, <<>>) /\ srv' = [srv EXCEPT !.files = srv.files \ {Resolve(path)}]
         /\ cmd = "CWD" => Reply(250, <<>>) /\ srv' = [srv EXCEPT !.cwd = Resolve(path)]
         /\ cmd = "PWD" => Reply(257, IF srv.cwd = <<>> THEN <<"">> ELSE srv.cwd) /\ srv' = srv
         /\ cmd = "RNFR" => Reply(350, <<>>) /\ srv' = [srv EXCEPT !.path = Resolve(path)]
         /\ cmd = "RNTO" => /\ Reply(250, <<>>)
                            /\ srv' = [srv EXCEPT !.files = (srv.files \ {srv.path}) \cup {srv.cwd \o path}]
<1>0. DOMAIN Simple = {"USER", "PASS", "TYPE", "PASV", "QUIT"}
  BY DEF Simple
<1>1. CASE cmd \in DOMAIN Simple
  <2>1. cmd \notin TransferOps /\ cmd \notin {"DELE", "CWD", "PWD", "RNFR", "RNTO"}
    BY <1>0, <1>1 DEF TransferOps
  <2>2. Reply(Simple[cmd], <<>>) /\ UNCHANGED srv
    BY <1>1, <2>1, Zenon DEF Perform
  <2> QED BY <2>1, <2>2
<1>2. CASE cmd \in TransferOps
  <2>1. cmd \notin DOMAIN Simple /\ cmd \notin {"DELE", "CWD", "PWD", "RNFR", "RNTO"}
    BY <1>0, <1>2 DEF TransferOps
  <2>2. /\ Reply(150, <<>>)
        /\ srv' = [srv EXCEPT !.doing = cmd, !.path = Target(path), !.moved = FALSE]
    BY <1>2, <2>1, Zenon DEF Perform
  <2> QED BY <2>1, <2>2
<1>3. CASE cmd = "DELE"
  <2>1. cmd \notin DOMAIN Simple /\ cmd \notin TransferOps /\ cmd # "CWD" /\ cmd # "PWD" /\ cmd # "RNFR" /\ cmd # "RNTO"
    BY <1>0, <1>3 DEF TransferOps
  <2>2. Reply(250, <<>>) /\ srv' = [srv EXCEPT !.files = srv.files \ {Resolve(path)}]
    BY <1>3, <2>1, Zenon DEF Perform
  <2> QED BY <2>1, <2>2
<1>4. CASE cmd = "CWD"
  <2>1. cmd \notin DOMAIN Simple /\ cmd \notin TransferOps /\ cmd # "DELE" /\ cmd # "PWD" /\ cmd # "RNFR" /\ cmd # "RNTO"
    BY <1>0, <1>4 DEF TransferOps
  <2>2. Reply(250, <<>>) /\ srv' = [srv EXCEPT !.cwd = Resolve(path)]
    BY <1>4, <2>1, Zenon DEF Perform
  <2> QED BY <2>1, <2>2
<1>5. CASE cmd = "PWD"
  <2>1. cmd \notin DOMAIN Simple /\ cmd \notin TransferOps /\ cmd # "CWD" /\ cmd # "DELE" /\ cmd # "RNFR" /\ cmd # "RNTO"
    BY <1>0, <1>5 DEF TransferOps
  <2>2. Reply(257, IF srv.cwd = <<>> THEN <<"">> ELSE srv.cwd) /\ UNCHANGED srv
    BY <1>5, <2>1, Zenon DEF Perform
  <2> QED BY <2>1, <2>2
<1>6. CASE cmd = "RNFR"
  <2>1. cmd \notin DOMAIN Simple /\ cmd \notin TransferOps /\ cmd # "CWD" /\ cmd # "PWD" /\ cmd # "DELE" /\ cmd # "RNTO"
    BY <1>0, <1>6 DEF TransferOps
  <2>2. Reply(350, <<>>) /\ srv' = [srv EXCEPT !.path = Resolve(path)]
    BY <1>6, <2>1, Zenon DEF Perform
  <2> QED BY <2>1, <2>2
<1>7. CASE cmd = "RNTO"
  <2>1. cmd \notin DOMAIN Simple /\ cmd \notin TransferOps /\ cmd # "CWD" /\ cmd # "PWD" /\ cmd # "RNFR" /\ cmd # "DELE"
    BY <1>0, <1>7 DEF TransferOps
  <2>2. /\ Reply(250, <<>>)
        /\ srv' = [srv EXCEPT !.files = (srv.files \ {srv.path}) \cup {srv.cwd \o path}]
    BY <1>7, <2>1, Zenon DEF Perform
  <2> QED BY <2>1, <2>2
<1> QED BY <1>1, <1>2, <1>3, <1>4, <1>5, <1>6, <1>7, Zenon

(* The answer to a command of the preparation.                               *)
LEMMA PreparedServed ==
  ASSUME Calm, ServerCommand, Prepares, faults' = faults
  PROVE  /\ Prepares' /\ s' = s /\ a' = a /\ where' = where /\ want' = want /\ up' = <<>>
         /\ srv' = srv
<1>1. up # <<>>
  BY DEF ServerCommand
<1>2. /\ s.control_state \in DOMAIN Asks
      /\ Asked(Asks[s.control_state], <<>>)
  BY <1>1 DEF Prepares, Answered
<1> DEFINE cmd == Asks[s.control_state]
<1>3. cmd \in DOMAIN Simple /\ cmd \notin Ops \cup {"RNTO"}
  BY <1>2 DEF Asks, Simple, Ops, TransferOps, CommandOps
<1> HIDE DEF cmd
<1>4. /\ s' = s /\ a' = a /\ where' = where /\ want' = want /\ up' = <<>>
      /\ srv.doing = None
      /\ (Possible(cmd, <<>>) /\ Perform(cmd, <<>>)) \/ Refused(cmd, <<>>)
      /\ \A code, dir : Reply(code, dir) <=> down' = <<<<code, dir>>>>
  <2>1. Asked(cmd, <<>>)
    BY <1>2 DEF cmd
  <2> QED BY <2>1, Takes
<1>5. CASE Perform(cmd, <<>>)
  <2>1. Reply(Simple[cmd], <<>>) /\ srv' = srv
    BY <1>3, <1>5, Performs
  <2>2. down' = <<<<Simple[cmd], <<>>>>>>
    BY <1>4, <2>1
  <2> QED BY <1>2, <1>4, <2>1, <2>2 DEF Prepares, Answered, cmd
<1>6. CASE Refused(cmd, <<>>)
  <2>1. Possible(cmd, <<>>)
    BY <1>3 DEF Possible, Simple
  <2>2. "refuse" \in faults /\ down' = <<<<550, <<>>>>>> /\ srv' = srv
    BY <1>3, <1>6, <2>1, CalmFacts DEF Refused, Refusable
  <2> QED BY <1>2, <1>4, <2>2 DEF Prepares, Answered
<1> QED BY <1>4, <1>5, <1>6

-----------------------------------------------------------------------------
(* The server's answers to the commands of the operations.                   *)

(* A transfer's command is carried out.                                      *)
LEMMA TransferTaken ==
  ASSUME Step, ServerCommand, NEW op \in TransferOps, Ordered(op)
  PROVE  /\ s' = s /\ a' = a /\ where' = where /\ want' = want /\ up' = <<>> /\ SrvOK' /\ SameFiles(srv')
         /\ Asked(op, Head(up)[2]) /\ s.control_state \notin {"CLOSED"} \cup LoginStates
         /\ \/ Possible(op, Head(up)[2]) /\ Begun(op)' /\ srv'.path = Target(Head(up)[2])
            \/ ~Possible(op, Head(up)[2]) /\ Denied(op)'
<1> DEFINE path == Head(up)[2]
<1>0. s.control_state = SentState[op] /\ s.data_pcb = "SYN_SENT" /\ Asked(op, path)
  BY DEF Ordered
<1> HIDE DEF path
<1>1. /\ s' = s /\ a' = a /\ where' = where /\ want' = want /\ up' = <<>> /\ srv.doing = None
      /\ (Possible(op, path) /\ Perform(op, path)) \/ Refused(op, path)
      /\ \A code, dir : Reply(code, dir) <=> down' = <<<<code, dir>>>>
  BY <1>0, Takes
<1>2. s.control_state \notin {"CLOSED"} \cup LoginStates
  BY <1>0, StageStates
<1>3. CASE Possible(op, path) /\ Perform(op, path)
  <2>1. Reply(150, <<>>) /\ srv' = [srv EXCEPT !.doing = op, !.path = Target(path), !.moved = FALSE]
    BY <1>3, Performs
  <2>2. down' = <<<<150, <<>>>>>>
    BY <1>1, <2>1
  <2>3. DOMAIN srv' = DOMAIN srv /\ SameFiles(srv') /\ srv'.doing = op /\ srv'.path = Target(path) /\ srv'.moved = FALSE
    BY <2>1, Before, ServerPlace DEF SameFiles
  <2>4. Begun(op)'
    BY <1>0, <1>1, <2>2, <2>3 DEF Begun
  <2>5. SrvOK'
    BY <2>3, Before DEF SrvOK, SameFiles
  <2> QED BY <1>0, <1>1, <1>2, <1>3, <2>3, <2>4, <2>5 DEF path
<1>4. CASE Refused(op, path)
  <2>0. op \in Ops \cup {"RNTO"}
    BY DEF Ops
  <2>1. ~Possible(op, path) /\ down' = <<<<550, <<>>>>>> /\ srv' = srv
    BY <1>4, <2>0, Before, RefusedWhy
  <2>2. Denied(op)'
    BY <1>0, <1>1, <2>1 DEF Denied, Answered
  <2>3. SrvOK' /\ SameFiles(srv')
    BY <2>1, Before DEF SrvOK, SameFiles
  <2> QED BY <1>0, <1>1, <1>2, <2>1, <2>2, <2>3 DEF path
<1> QED BY <1>1, <1>3, <1>4

(* A command while a listing is fetched.                                     *)
LEMMA ListingServed ==
  ASSUME Step, ServerCommand, Listing
  PROVE  PathInv'
<1>0. /\ a.done_fn = "List" /\ where \in {"login", "main", "upload"} /\ a.path \in {<<>>, srv.cwd}
      /\ Deep(srv.cwd) /\ "MLSD" \in TransferOps /\ up # <<>>
  BY DEF Listing, TransferOps, ServerCommand
<1>1. CASE Preparing("MLSD")
  <2>1. /\ Prepares' /\ s' = s /\ a' = a /\ where' = where /\ want' = want /\ up' = <<>> /\ srv' = srv
    BY <1>1, Before, PreparedServed DEF Preparing
  <2>2. Listing'
    BY <1>0, <1>1, <2>1, Before, Frame DEF Listing, Preparing
  <2>3. s.control_state \notin {"CLOSED"} \cup LoginStates /\ SrvOK'
    BY <1>1, <2>1, Before DEF Preparing, LoginStates, SrvOK
  <2> QED BY <2>1, <2>2, <2>3, AfterServer DEF Working
<1>2. CASE Ordered("MLSD")
  <2> DEFINE path == Head(up)[2]
  <2>1. /\ s' = s /\ a' = a /\ where' = where /\ want' = want /\ up' = <<>> /\ SrvOK' /\ SameFiles(srv')
        /\ s.control_state \notin {"CLOSED"} \cup LoginStates
        /\ \/ Begun("MLSD")' /\ srv'.path = Target(path)
           \/ ~Possible("MLSD", path)
    BY <1>0, <1>2, TransferTaken
  <2>2. path \in {<<>>, srv.cwd}
    BY <1>0, <1>2 DEF Ordered, NULL
  <2> HIDE DEF path
  <2>3. Target(path) = srv.cwd
    BY <2>2, Before, ServerPlace DEF Target
  <2>4. Possible("MLSD", path)
    BY <2>3, Before, PlacePaths DEF Possible, SrvOK
  <2>5. Listing'
    BY <1>0, <2>1, <2>3, <2>4, Before, FrameDir DEF Listing, SameFiles
  <2> QED BY <2>1, <2>5, AfterServer DEF Working
<1>3. /\ ~Begun("MLSD") /\ ~Moving("MLSD") /\ ~Moved("MLSD") /\ ~Over("MLSD")
  BY <1>0 DEF Begun, Moving, Moved, Over, Answered
<1> QED BY <1>1, <1>2, <1>3 DEF Listing

(* ... and while a file is stored.                                           *)
LEMMA StoringServed ==
  ASSUME Step, ServerCommand, Storing
  PROVE  PathInv'
<1>0. /\ a.done_fn = "Stor" /\ where \in {"main", "upload"} /\ FileOp /\ Last(a.path) = "u"
      /\ "STOR" \in TransferOps /\ up # <<>>
  BY DEF Storing, TransferOps, ServerCommand
<1>1. CASE Preparing("STOR")
  <2>1. /\ Prepares' /\ s' = s /\ a' = a /\ where' = where /\ want' = want /\ up' = <<>> /\ srv' = srv
    BY <1>1, Before, PreparedServed DEF Preparing
  <2>2. FileOp'
    BY <1>0, <2>1, Before, Frame
  <2>3. Storing'
    BY <1>0, <1>1, <2>1, <2>2 DEF Storing, Preparing
  <2>4. s.control_state \notin {"CLOSED"} \cup LoginStates /\ SrvOK'
    BY <1>1, <2>1, Before DEF Preparing, LoginStates, SrvOK
  <2> QED BY <2>1, <2>3, <2>4, AfterServer DEF Working
<1>2. CASE Ordered("STOR")
  <2>1. Head(up)[2] = a.path
    BY <1>0, <1>2 DEF Ordered, NULL
  <2>2. /\ s' = s /\ a' = a /\ where' = where /\ want' = want /\ up' = <<>> /\ SrvOK' /\ SameFiles(srv')
        /\ s.control_state \notin {"CLOSED"} \cup LoginStates
        /\ \/ Possible("STOR", a.path) /\ Begun("STOR")' /\ srv'.path = Target(a.path)
           \/ ~Possible("STOR", a.path) /\ Denied("STOR")'
    BY <1>0, <1>2, <2>1, TransferTaken
  <2>3. a.path \in Clean /\ a.path # <<>> /\ Front(a.path) \in Clean /\ PathOK(Front(a.path))
    BY <1>0, Before, FileOpFacts
  <2>4. Target(a.path) = a.path /\ Resolve(a.path) = a.path
    BY <2>3, Before, CleanResolves DEF Target
  <2>5. Front(a.path) # <<>>
    <3>1. Len(Front(a.path)) >= a.dir + Len(Home)
      BY <2>3 DEF PathOK, Deep
    <3>2. Len(Home) \in Nat \ {0} /\ a.dir \in Nat
      BY Before, PlacePaths
    <3> QED BY <2>3, <3>1, <3>2 DEF Clean
  <2>6. Possible("STOR", a.path) => Front(a.path) = srv.cwd
    <3>1. Possible("STOR", a.path) => Front(a.path) \in Dirs
      BY <2>4 DEF Possible
    <3> QED BY <2>3, <2>5, <3>1, Before, PlacePaths DEF PathOK
  <2>7. ~Possible("STOR", a.path) => Front(a.path) \notin Places
    <3>1. ~Possible("STOR", a.path) => Front(a.path) \notin Dirs
      BY <2>4 DEF Possible
    <3> QED BY <3>1, Before, PlacePaths
  <2>8. FileOp'
    BY <1>0, <2>2, Before, FrameDir DEF SameFiles
  <2>9. Storing'
    BY <1>0, <2>2, <2>4, <2>6, <2>7, <2>8 DEF Storing, SameFiles
  <2> QED BY <2>2, <2>9, AfterServer DEF Working
<1>3. /\ ~Begun("STOR") /\ ~Moving("STOR") /\ ~Moved("STOR") /\ ~Over("STOR") /\ ~Denied("STOR")
  BY <1>0 DEF Begun, Moving, Moved, Over, Denied, Answered
<1> QED BY <1>1, <1>2, <1>3 DEF Storing

(* ... or fetched.                                                           *)
LEMMA LoadingServed ==
  ASSUME Step, ServerCommand, Loading
  PROVE  PathInv'
<1>0. /\ (PathKept => Current) /\ "RETR" \in TransferOps /\ up # <<>>
      /\ \/ a.done_fn = "Retr" /\ where = "download" /\ FileOp
         \/ a.done_fn = NULL /\ where = "main" /\ ~PathKept
  BY DEF Loading, TransferOps, ServerCommand
<1>p. ASSUME a' = a, where' = where, want' = want, SameFiles(srv')
      PROVE  /\ PathKept' => Current'
             /\ \/ a'.done_fn = "Retr" /\ where' = "download" /\ FileOp'
                \/ a'.done_fn = NULL /\ where' = "main" /\ ~PathKept'
  BY <1>0, <1>p, Before, FrameDir DEF SameFiles
<1>1. CASE Preparing("RETR")
  <2>1. /\ Prepares' /\ s' = s /\ a' = a /\ where' = where /\ want' = want /\ up' = <<>> /\ srv' = srv
    BY <1>1, Before, PreparedServed DEF Preparing
  <2>2. Loading'
    BY <1>p, <1>1, <2>1 DEF Loading, Preparing, SameFiles
  <2>3. s.control_state \notin {"CLOSED"} \cup LoginStates /\ SrvOK'
    BY <1>1, <2>1, Before DEF Preparing, LoginStates, SrvOK
  <2> QED BY <2>1, <2>2, <2>3, AfterServer DEF Working
<1>2. CASE Ordered("RETR")
  <2>1. /\ s' = s /\ a' = a /\ where' = where /\ want' = want /\ up' = <<>> /\ SrvOK' /\ SameFiles(srv')
        /\ s.control_state \notin {"CLOSED"} \cup LoginStates
        /\ Begun("RETR")' \/ Denied("RETR")'
    BY <1>0, <1>2, TransferTaken
  <2>2. Loading'
    BY <1>p, <2>1 DEF Loading
  <2> QED BY <2>1, <2>2, AfterServer DEF Working
<1>3. /\ ~Begun("RETR") /\ ~Moving("RETR") /\ ~Moved("RETR") /\ ~Over("RETR") /\ ~Denied("RETR")
  BY <1>0 DEF Begun, Moving, Moved, Over, Denied, Answered
<1> QED BY <1>1, <1>2, <1>3 DEF Loading

-----------------------------------------------------------------------------
(* The server's answers, continued.                                          *)

(* PWD.                                                                      *)
LEMMA LocatingServed ==
  ASSUME Step, ServerCommand, Locating
  PROVE  PathInv'
<1>0. /\ s.control_state = "PWD_SENT" /\ a.done_fn = "Pwd" /\ where \in {"login", "main", "upload"}
      /\ a.path = <<>> /\ Deep(srv.cwd) /\ Current /\ up # <<>>
  BY DEF Locating, ServerCommand
<1>1. Asked("PWD", <<>>)
  BY <1>0 DEF Locating, Answered
<1>2. /\ s' = s /\ a' = a /\ where' = where /\ want' = want /\ up' = <<>> /\ srv.doing = None
      /\ (Possible("PWD", <<>>) /\ Perform("PWD", <<>>)) \/ Refused("PWD", <<>>)
      /\ \A code, dir : Reply(code, dir) <=> down' = <<<<code, dir>>>>
  BY <1>1, Takes
<1>3. Possible("PWD", <<>>)
  BY DEF Possible
<1>4. ~Refused("PWD", <<>>)
  BY <1>3, Before, RefusedWhy DEF Ops, CommandOps
<1>5. Reply(257, IF srv.cwd = <<>> THEN <<"">> ELSE srv.cwd) /\ srv' = srv
  BY <1>2, <1>4, Performs
<1>6. down' = <<<<257, srv.cwd>>>>
  BY <1>2, <1>5, Before, ServerPlace
<1>7. Locating'
  BY <1>0, <1>2, <1>5, <1>6, Before, Frame DEF Locating, Answered
<1>8. s.control_state \notin {"CLOSED"} \cup LoginStates /\ SrvOK'
  BY <1>0, <1>5, Before DEF LoginStates, SrvOK
<1> QED BY <1>2, <1>7, <1>8, AfterServer DEF Working

(* CWD.                                                                      *)
LEMMA ChangingServed ==
  ASSUME Step, ServerCommand, Changing
  PROVE  PathInv'
<1>0. /\ s.control_state = "CWD_SENT" /\ a.done_fn = "Cwd" /\ where = "main" /\ up # <<>>
      /\ a.path \in Clean /\ Deep(a.path) /\ (PathKept => a.path \in Places)
  BY DEF Changing, ServerCommand
<1>1. Asked("CWD", a.path)
  BY <1>0 DEF Changing, Answered
<1> DEFINE path == a.path
<1>2. /\ s' = s /\ a' = a /\ where' = where /\ want' = want /\ up' = <<>> /\ srv.doing = None
      /\ (Possible("CWD", path) /\ Perform("CWD", path)) \/ Refused("CWD", path)
      /\ \A code, dir : Reply(code, dir) <=> down' = <<<<code, dir>>>>
  BY <1>1, Takes
<1>3. path # <<>> /\ Resolve(path) = path
  <2>1. Resolve(path) = path
    BY <1>0, Before, CleanResolves
  <2>2. Len(path) >= a.dir + Len(Home) /\ Len(Home) \in Nat \ {0} /\ a.dir \in Nat
    BY <1>0, Before, PlacePaths DEF Deep
  <2> QED BY <1>0, <2>1, <2>2 DEF Clean
<1>4. Possible("CWD", path) <=> path \in Places
  <2>1. Possible("CWD", path) <=> path \in Dirs
    BY <1>3 DEF Possible
  <2> QED BY <1>3, <2>1, Before, PlacePaths
<1>5. s.control_state \notin {"CLOSED"} \cup LoginStates
  BY <1>0 DEF LoginStates
<1>6. CASE Possible("CWD", path) /\ Perform("CWD", path)
  <2>1. Reply(250, <<>>) /\ srv' = [srv EXCEPT !.cwd = path]
    <3>1. Reply(250, <<>>) /\ srv' = [srv EXCEPT !.cwd = Resolve(path)]
      BY <1>6, Performs
    <3> QED BY <1>3, <3>1
  <2>2. down' = <<<<250, <<>>>>>>
    BY <1>2, <2>1
  <2>3. DOMAIN srv' = DOMAIN srv /\ srv'.cwd = path /\ srv'.files = srv.files /\ srv'.doing = srv.doing
    BY <2>1, Before, ServerPlace
  <2>4. SrvOK'
    BY <1>4, <1>6, <2>3, Before DEF SrvOK
  <2>5. Deep(a.path)'
    BY <1>0, <1>2, Before DEF Deep
  <2>6. Changing'
    BY <1>0, <1>2, <1>4, <1>6, <2>2, <2>3, <2>5, Before DEF Changing, Answered
  <2> QED BY <1>2, <1>5, <2>4, <2>6, AfterServer DEF Working
<1>7. CASE Refused("CWD", path)
  <2>1. ~Possible("CWD", path) /\ down' = <<<<550, <<>>>>>> /\ srv' = srv
    BY <1>7, Before, RefusedWhy, ZenonT(60) DEF Ops, CommandOps
  <2>2. SrvOK' /\ Deep(a.path)'
    BY <1>0, <1>2, <2>1, Before, Frame DEF Deep
  <2>3. Changing'
    BY <1>0, <1>2, <1>4, <2>1, <2>2, Before DEF Changing, Answered
  <2> QED BY <1>2, <1>5, <2>2, <2>3, AfterServer DEF Working
<1> QED BY <1>2, <1>6, <1>7

(* The files that are there.                                                 *)
LEMMA FilePlaces ==
  ASSUME HomeBelow, NEW p, p \in Files
  PROVE  Front(p) \in Places /\ p \in Clean
<1>1. PICK d \in Places, x \in FileNames : p = Append(d, x)
  BY DEF Files
<1>2. d \in Clean /\ x \in Names
  BY PlacePaths, NamesUsed
<1> QED BY <1>1, <1>2, PushedPath

(* DELE and RNFR.                                                            *)
LEMMA RemovingServed ==
  ASSUME Step, ServerCommand, NEW op \in {"DELE", "RNFR"}, Removing(op), s.control_state = SentState[op]
  PROVE  PathInv'
<1>0. a.done_fn \in {"Del", "Move"} /\ where = "main" /\ FileOp /\ up # <<>>
  BY DEF Removing, ServerCommand
<1>1. Asked(op, a.path) /\ (PathKept => a.path \in srv.files)
  BY <1>0 DEF Removing, Answered, SentState
<1> DEFINE path == a.path
           code == IF op = "DELE" THEN 250 ELSE 350
<1>2. /\ s' = s /\ a' = a /\ where' = where /\ want' = want /\ up' = <<>> /\ srv.doing = None
      /\ (Possible(op, path) /\ Perform(op, path)) \/ Refused(op, path)
      /\ \A c, dir : Reply(c, dir) <=> down' = <<<<c, dir>>>>
  BY <1>1, Takes
<1>3. path \in Clean /\ Resolve(path) = path /\ PathOK(Front(path))
  BY <1>0, Before, FileOpFacts, CleanResolves
<1>4. Possible(op, path) <=> path \in srv.files
  BY <1>3 DEF Possible
<1>5. s.control_state \notin {"CLOSED"} \cup LoginStates /\ op \in Ops \cup {"RNTO"}
  BY DEF LoginStates, SentState, Ops, CommandOps
<1>6. CASE Possible(op, path) /\ Perform(op, path)
  <2>1. /\ op = "DELE" => Reply(250, <<>>) /\ srv' = [srv EXCEPT !.files = srv.files \ {path}]
        /\ op = "RNFR" => Reply(350, <<>>) /\ srv' = [srv EXCEPT !.path = path]
    <3>1. /\ op = "DELE" => Reply(250, <<>>) /\ srv' = [srv EXCEPT !.files = srv.files \ {Resolve(path)}]
          /\ op = "RNFR" => Reply(350, <<>>) /\ srv' = [srv EXCEPT !.path = Resolve(path)]
      BY <1>6, Performs
    <3> QED BY <1>3, <3>1
  <2>2. down' = <<<<code, <<>>>>>>
    BY <1>2, <2>1
  <2>3. /\ DOMAIN srv' = DOMAIN srv /\ srv'.cwd = srv.cwd /\ srv'.files \subseteq srv.files
        /\ srv'.doing = srv.doing
    BY <2>1, Before, ServerPlace
  <2>4. SrvOK'
    BY <2>3, Before DEF SrvOK
  <2>5. Front(path) = srv.cwd
    <3>1. path \in Files
      BY <1>4, <1>6, Before DEF SrvOK
    <3> QED BY <1>3, <3>1, Before, FilePlaces DEF PathOK
  <2>6. FileOp'
    BY <1>0, <1>2, <2>3, Before, FrameDir
  <2>7. Removing(op)'
    BY <1>0, <1>2, <2>2, <2>3, <2>5, <2>6 DEF Removing, Answered
  <2> QED BY <1>2, <1>5, <2>4, <2>7, AfterServer DEF Working
<1>7. CASE Refused(op, path)
  <2>1. ~Possible(op, path) /\ down' = <<<<550, <<>>>>>> /\ srv' = srv
    BY <1>5, <1>7, Before, RefusedWhy
  <2>2. FileOp' /\ SrvOK' /\ ~PathKept'
    BY <1>0, <1>1, <1>2, <1>4, <2>1, Before, Frame
  <2>3. Removing(op)'
    BY <1>0, <1>2, <2>1, <2>2 DEF Removing, Answered
  <2> QED BY <1>2, <1>5, <2>2, <2>3, AfterServer DEF Working
<1> QED BY <1>2, <1>6, <1>7

(* RNTO.                                                                     *)
LEMMA RenamingServed ==
  ASSUME Step, ServerCommand, Removing("RNFR"), s.control_state = "RNTO_SENT"
  PROVE  PathInv'
<1>0. /\ a.done_fn \in {"Del", "Move"} /\ where = "main" /\ FileOp /\ up # <<>>
      /\ Front(a.path) = srv.cwd /\ Asked("RNTO", NewName)
  BY DEF Removing, ServerCommand, SentState, Answered
<1>2. /\ s' = s /\ a' = a /\ where' = where /\ want' = want /\ up' = <<>> /\ srv.doing = None
      /\ (Possible("RNTO", NewName) /\ Perform("RNTO", NewName)) \/ Refused("RNTO", NewName)
      /\ \A code, dir : Reply(code, dir) <=> down' = <<<<code, dir>>>>
  BY <1>0, Takes
<1>3. Possible("RNTO", NewName)
  BY DEF Possible
<1>4. ~Refused("RNTO", NewName)
  BY <1>3, Before, RefusedWhy
<1>5. Reply(250, <<>>) /\ srv' = [srv EXCEPT !.files = (srv.files \ {srv.path}) \cup {srv.cwd \o NewName}]
  BY <1>2, <1>4, Performs
<1>6. down' = <<<<250, <<>>>>>>
  BY <1>2, <1>5
<1>7. /\ DOMAIN srv' = DOMAIN srv /\ srv'.cwd = srv.cwd /\ srv'.doing = srv.doing
      /\ srv'.files = (srv.files \ {srv.path}) \cup {srv.cwd \o NewName}
  BY <1>5, Before, ServerPlace
<1>8. srv.cwd \o NewName \in Files
  <2>1. srv.cwd \in Seq(Names) /\ "m" \in Names /\ srv.cwd \in Places /\ "m" \in FileNames
    BY Before, ServerPlace, NamesUsed DEF Clean, SrvOK, FileNames
  <2>2. srv.cwd \o <<"m">> = Append(srv.cwd, "m")
    BY <2>1
  <2>3. Append(srv.cwd, "m") \in Files
    <3> DEFINE p == Append(srv.cwd, "m")
    <3>1. \E d \in Places, x \in FileNames : p = Append(d, x)
      BY <2>1, Zenon
    <3> HIDE DEF p
    <3>2. p \in Files
      BY <3>1 DEF Files
    <3> QED BY <3>2 DEF p
  <2> QED BY <2>2, <2>3 DEF NewName
<1>9. SrvOK'
  BY <1>7, <1>8, Before DEF SrvOK
<1>10. FileOp'
  BY <1>0, <1>2, <1>7, Before, FrameDir
<1>11. Removing("RNFR")'
  BY <1>0, <1>2, <1>6, <1>7, <1>10 DEF Removing, Answered
<1>12. s.control_state \notin {"CLOSED"} \cup LoginStates
  BY DEF LoginStates
<1> QED BY <1>2, <1>9, <1>11, <1>12, AfterServer DEF Working

(* Any command.                                                              *)
LEMMA CommandKeeps ==
  ASSUME Step, ServerCommand
  PROVE  PathInv'
<1>1. CASE Connecting
  <2>1. /\ Prepares' /\ s' = s /\ a' = a /\ where' = where /\ want' = want /\ up' = <<>> /\ srv' = srv
    BY <1>1, Before, PreparedServed DEF Connecting
  <2>2. Connecting'
    BY <1>1, <2>1 DEF Connecting
  <2>3. SrvOK'
    BY <2>1, Before DEF SrvOK
  <2>4. Alive' /\ Living'
    BY <1>1, <2>1, <2>2, <2>3, Before DEF Step, Alive, Living, Connecting
  <2> QED BY <2>1, <2>4, Before, NotStart, FewTargets, GoesOn
<1>2. ~Resting
  BY DEF Resting, Silent, ServerCommand
<1>3. CASE Removing("DELE")
  <2>1. s.control_state = SentState["DELE"]
    BY <1>3 DEF Removing
  <2> QED BY <1>3, <2>1, RemovingServed
<1>4. CASE Removing("RNFR")
  <2>1. s.control_state = SentState["RNFR"] \/ s.control_state = "RNTO_SENT"
    BY <1>4 DEF Removing
  <2> QED BY <1>4, <2>1, RemovingServed, RenamingServed
<1>5. Connecting \/ Working
  BY Zenon DEF Step, Living
<1> QED BY <1>1, <1>2, <1>3, <1>4, <1>5, ListingServed, LocatingServed, ChangingServed,
           StoringServed, LoadingServed DEF Working

-----------------------------------------------------------------------------
(* Transfers go on and end.                                                  *)

(* The server is at work in the middle of a transfer only.                   *)
LEMMA AtWork ==
  ASSUME Step, srv.doing # None
  PROVE  \/ Listing /\ (Begun("MLSD") \/ Moving("MLSD") \/ Moved("MLSD"))
         \/ Storing /\ (Begun("STOR") \/ Moving("STOR") \/ Moved("STOR"))
         \/ Loading /\ (Begun("RETR") \/ Moving("RETR") \/ Moved("RETR"))
<1>1. ~Prepares /\ \A c, p : ~Asked(c, p) /\ ~Answered(c, p)
  BY DEF Prepares, Asked, Answered
<1>2. /\ ~Connecting /\ ~Locating /\ ~Changing /\ ~Removing("DELE") /\ ~Removing("RNFR") /\ ~Resting
  <2>1. ~Connecting /\ ~Locating /\ ~Changing
    BY <1>1, ZenonT(60) DEF Connecting, Locating, Changing
  <2>2. ~Removing("DELE") /\ ~Removing("RNFR")
    BY <1>1 DEF Removing
  <2>3. ~Resting
    BY DEF Resting, Silent
  <2> QED BY <2>1, <2>2, <2>3
<1>3. \A op : ~Preparing(op) /\ ~Ordered(op) /\ ~Denied(op) /\ ~Over(op)
  BY <1>1, ZenonT(60) DEF Preparing, Ordered, Denied, Over
<1>4. Listing => Begun("MLSD") \/ Moving("MLSD") \/ Moved("MLSD")
  BY <1>3 DEF Listing
<1>5. Storing => Begun("STOR") \/ Moving("STOR") \/ Moved("STOR")
  BY <1>3 DEF Storing
<1>6. Loading => Begun("RETR") \/ Moving("RETR") \/ Moved("RETR")
  BY <1>3 DEF Loading
<1>7. Connecting \/ Working
  BY Zenon DEF Step, Living
<1> QED BY <1>2, <1>4, <1>5, <1>6, <1>7 DEF Working

(* The server is through with a transfer.                                    *)
LEMMA DoneOver ==
  ASSUME Step, ServerDone, NEW op \in TransferOps, Begun(op) \/ Moving(op) \/ Moved(op)
  PROVE  /\ Moved(op) /\ Over(op)' /\ s' = s /\ a' = a /\ where' = where /\ want' = want /\ up' = <<>>
         /\ DOMAIN srv' = DOMAIN srv /\ srv'.cwd = srv.cwd
         /\ srv'.files = IF op = "STOR" THEN srv.files \cup {srv.path} ELSE srv.files
         /\ s.control_state \notin {"CLOSED"} \cup LoginStates
<1>1. s' = s /\ a' = a /\ where' = where /\ want' = want /\ up' = up
  BY DEF ServerDone
<1>2. Moved(op) /\ srv.moved /\ Reply(226, <<>>)
      /\ srv' = [srv EXCEPT !.doing = None,
                            !.files = IF srv.doing = "STOR" THEN srv.files \cup {srv.path} ELSE srv.files]
  BY DEF ServerDone, Begun, Moving, Moved, NULL
<1>3. srv.doing = op /\ up = <<>> /\ down = <<>> /\ s.control_state = "XFERING" /\ s.op = op
  BY <1>2 DEF Moved
<1>4. down' = <<<<226, <<>>>>>>
  BY <1>2, <1>3 DEF Reply
<1>5. /\ DOMAIN srv' = DOMAIN srv /\ srv'.cwd = srv.cwd /\ srv'.doing = None
      /\ srv'.files = IF op = "STOR" THEN srv.files \cup {srv.path} ELSE srv.files
  BY <1>2, <1>3, Before, ServerPlace
<1>6. Over(op)'
  BY <1>1, <1>3, <1>4, <1>5 DEF Over, Answered
<1> QED BY <1>1, <1>2, <1>3, <1>5, <1>6 DEF LoginStates

(* The end of any transfer, on the server's side.                            *)
LEMMA DoneKeeps ==
  ASSUME Step, ServerDone
  PROVE  PathInv'
<1>0. srv.doing # None /\ {"MLSD", "STOR", "RETR"} \subseteq TransferOps
  BY DEF ServerDone, TransferOps
<1>1. CASE Listing /\ (Begun("MLSD") \/ Moving("MLSD") \/ Moved("MLSD"))
  <2>1. /\ Moved("MLSD") /\ Over("MLSD")' /\ s' = s /\ a' = a /\ where' = where /\ want' = want
        /\ up' = <<>> /\ DOMAIN srv' = DOMAIN srv /\ srv'.cwd = srv.cwd /\ srv'.files = srv.files
        /\ s.control_state \notin {"CLOSED"} \cup LoginStates
    BY <1>0, <1>1, DoneOver
  <2>2. SrvOK'
    BY <2>1, Before DEF SrvOK
  <2>3. Current
    BY <1>1, <2>1 DEF Listing, Moved, Preparing, Prepares, Asked, Answered, Ordered, Begun, Moving, Over,
                      None
  <2>4. Listing'
    BY <1>1, <2>1, <2>3, Before, FrameDir DEF Listing
  <2> QED BY <2>1, <2>2, <2>4, AfterServer DEF Working
<1>2. CASE Storing /\ (Begun("STOR") \/ Moving("STOR") \/ Moved("STOR"))
  <2>1. /\ Moved("STOR") /\ Over("STOR")' /\ s' = s /\ a' = a /\ where' = where /\ want' = want
        /\ up' = <<>> /\ DOMAIN srv' = DOMAIN srv /\ srv'.cwd = srv.cwd
        /\ srv'.files = srv.files \cup {srv.path}
        /\ s.control_state \notin {"CLOSED"} \cup LoginStates
    BY <1>0, <1>2, DoneOver
  <2>2. Front(a.path) = srv.cwd /\ srv.path = a.path
    <3>1. \A op : ~Preparing(op) /\ ~Ordered(op) /\ ~Denied(op) /\ ~Over(op)
      BY <1>0 DEF Preparing, Ordered, Denied, Over, Prepares, Asked, Answered
    <3> QED BY <1>2, <3>1 DEF Storing
  <2>3. FileOp /\ Last(a.path) = "u" /\ a.done_fn = "Stor" /\ where \in {"main", "upload"}
    BY <1>2 DEF Storing
  <2>4. a.path \in Files
    <3>1. a.path = Append(Front(a.path), Last(a.path))
      BY <2>3, CutPath DEF FileOp
    <3>2. Front(a.path) \in Places /\ Last(a.path) \in FileNames
      BY <2>2, <2>3, Before DEF SrvOK, FileNames
    <3> DEFINE p == a.path
    <3>3. \E d \in Places, x \in FileNames : p = Append(d, x)
      BY <3>1, <3>2, Zenon
    <3> HIDE DEF p
    <3>4. p \in Files
      BY <3>3 DEF Files
    <3> QED BY <3>4 DEF p
  <2>5. SrvOK'
    BY <2>1, <2>2, <2>4, Before DEF SrvOK
  <2>6. FileOp'
    BY <2>1, <2>3, Before, FrameDir
  <2>7. Storing'
    BY <2>1, <2>2, <2>3, <2>6 DEF Storing
  <2> QED BY <2>1, <2>5, <2>7, AfterServer DEF Working
<1>3. CASE Loading /\ (Begun("RETR") \/ Moving("RETR") \/ Moved("RETR"))
  <2>1. /\ Moved("RETR") /\ Over("RETR")' /\ s' = s /\ a' = a /\ where' = where /\ want' = want
        /\ up' = <<>> /\ DOMAIN srv' = DOMAIN srv /\ srv'.cwd = srv.cwd /\ srv'.files = srv.files
        /\ s.control_state \notin {"CLOSED"} \cup LoginStates
    BY <1>0, <1>3, DoneOver
  <2>2. SrvOK'
    BY <2>1, Before DEF SrvOK
  <2>3. Loading'
    BY <1>3, <2>1, Before, FrameDir DEF Loading
  <2> QED BY <2>1, <2>2, <2>3, AfterServer DEF Working
<1> QED BY <1>0, <1>1, <1>2, <1>3, AtWork

(* What a data connection carries.                                           *)
LEMMA DataMoves ==
  ASSUME Step, DataTransfer, NEW op \in TransferOps, Begun(op) \/ Moving(op) \/ Moved(op)
  PROVE  /\ Moving(op) /\ Moved(op)' /\ where' = where /\ want' = want /\ up' = <<>>
         /\ DOMAIN srv' = DOMAIN srv /\ SameFiles(srv') /\ srv'.path = srv.path
         /\ s'.control_pcb # NULL /\ s'.control_state = "XFERING"
         /\ a' = IF op = "MLSD" THEN [a EXCEPT !.list = Entries(srv.path, srv.files), !.shown = srv.path]
                 ELSE a
<1> DEFINE b == IF srv.doing = "MLSD"
                THEN [a EXCEPT !.list = Entries(srv.path, srv.files), !.shown = srv.path] ELSE a
           t == lwftp_data_connected(Quiet(s))
<1>1. /\ s.control_state = "XFERING" /\ ~srv.moved /\ Handler(t, b) /\ srv' = [srv EXCEPT !.moved = TRUE]
      /\ where' = where /\ want' = want /\ down' = down
  <2>1. "coalesce" \notin faults
    BY Before, CalmFacts
  <2> QED BY <2>1, Zenon DEF DataTransfer
<1>2. Moving(op)
  BY <1>1, StageStates DEF Begun, Moving, Moved, TransferStates
<1>3. srv.doing = op /\ up = <<>> /\ down = <<>> /\ s.op = op
  BY <1>2 DEF Moving
<1>4. /\ t.sent = <<>> /\ t.done = <<>> /\ t.control_pcb = s.control_pcb /\ t.control_state = "XFERING"
      /\ t.op = s.op
  BY <1>1, Before, QuietFacts DEF lwftp_data_connected, Rested, Sessions
<1>5. b = IF op = "MLSD" THEN [a EXCEPT !.list = Entries(srv.path, srv.files), !.shown = srv.path]
          ELSE a
  BY <1>3
<1> HIDE DEF t, b
<1>6. s' = t /\ a' = b /\ up' = up
  BY <1>1, <1>4, Before, HandlerSilent
<1>7. DOMAIN srv' = DOMAIN srv /\ SameFiles(srv') /\ srv'.path = srv.path /\ srv'.doing = srv.doing
      /\ srv'.moved = TRUE
  BY <1>1, Before, ServerPlace DEF SameFiles
<1>8. Moved(op)'
  BY <1>1, <1>3, <1>4, <1>6, <1>7 DEF Moved
<1> QED BY <1>1, <1>2, <1>3, <1>4, <1>5, <1>6, <1>7, <1>8, Before

(* Any data.                                                                 *)
LEMMA DataKeeps ==
  ASSUME Step, DataTransfer
  PROVE  PathInv'
<1>0. srv.doing # None /\ {"MLSD", "STOR", "RETR"} \subseteq TransferOps
  BY DEF DataTransfer, TransferOps
<1>n. \A op : srv.doing # None => ~Preparing(op) /\ ~Ordered(op) /\ ~Denied(op) /\ ~Over(op)
  BY DEF Preparing, Ordered, Denied, Over, Prepares, Asked, Answered
<1>x. ASSUME s.control_state = "XFERING" PROVE s.control_state \notin {"CLOSED"} \cup LoginStates /\ a.ftpStarted
  BY <1>x, Before DEF LoginStates
<1>1. CASE Listing /\ (Begun("MLSD") \/ Moving("MLSD") \/ Moved("MLSD"))
  <2> DEFINE b == [a EXCEPT !.list = Entries(srv.path, srv.files), !.shown = srv.path]
  <2>1. /\ Moving("MLSD") /\ Moved("MLSD")' /\ where' = where /\ want' = want /\ up' = <<>>
        /\ DOMAIN srv' = DOMAIN srv /\ SameFiles(srv') /\ s'.control_pcb # NULL
        /\ s'.control_state = "XFERING" /\ a' = b
    BY <1>0, <1>1, DataMoves
  <2>2. /\ b.list = Entries(srv.path, srv.files) /\ b.shown = srv.path /\ b.path = a.path
        /\ b.dir = a.dir /\ b.done_fn = a.done_fn /\ b.wild = a.wild /\ b.ftpStarted = a.ftpStarted
    BY Before DEF IsApp, AppFields
  <2> HIDE DEF b
  <2>3. /\ srv.path = srv.cwd /\ Deep(srv.cwd) /\ a.done_fn = "List" /\ a.path \in {<<>>, srv.cwd}
        /\ where \in {"login", "main", "upload"}
    <3>1. ~Moved("MLSD")
      BY <2>1 DEF Moving, Moved
    <3> QED BY <1>0, <1>n, <1>1, <3>1 DEF Listing
  <2>4. Current' /\ Deep(srv.cwd)'
    BY <2>1, <2>2, <2>3, Before DEF Current, SameFiles, Deep
  <2>5. SrvOK' /\ Listed(a'.list) /\ a'.wild = FALSE /\ a'.dir \in Nat /\ a'.ftpStarted
    <3>1. a.ftpStarted
      BY <1>x, <2>1 DEF Moving
    <3>2. Listed(Entries(srv.path, srv.files))
      BY <2>3, Before, EntriesListed DEF SrvOK
    <3> QED BY <2>1, <2>2, <3>1, <3>2, Before DEF SrvOK, SameFiles
  <2>6. Listing'
    BY <2>1, <2>2, <2>3, <2>4 DEF Listing, SameFiles
  <2> QED BY <2>1, <2>5, <2>6, NotStart, FewTargets, After DEF Working
<1>2. CASE Storing /\ (Begun("STOR") \/ Moving("STOR") \/ Moved("STOR"))
  <2>1. /\ Moving("STOR") /\ Moved("STOR")' /\ where' = where /\ want' = want /\ up' = <<>>
        /\ DOMAIN srv' = DOMAIN srv /\ SameFiles(srv') /\ srv'.path = srv.path /\ s'.control_pcb # NULL
        /\ s'.control_state = "XFERING" /\ a' = a
    BY <1>0, <1>2, DataMoves
  <2>2. /\ Front(a.path) = srv.cwd /\ srv.path = a.path /\ FileOp /\ Last(a.path) = "u"
        /\ a.done_fn = "Stor" /\ where \in {"main", "upload"}
    BY <1>0, <1>n, <1>2 DEF Storing
  <2>3. FileOp'
    BY <2>1, <2>2, Before, FrameDir DEF SameFiles
  <2>4. Storing'
    BY <2>1, <2>2, <2>3 DEF Storing, SameFiles
  <2>5. SrvOK' /\ a'.ftpStarted
    BY <1>x, <2>1, Before DEF SrvOK, SameFiles, Moving
  <2> QED BY <2>1, <2>4, <2>5, Before, NotStart, FewTargets, After DEF Working
<1>3. CASE Loading /\ (Begun("RETR") \/ Moving("RETR") \/ Moved("RETR"))
  <2>1. /\ Moving("RETR") /\ Moved("RETR")' /\ where' = where /\ want' = want /\ up' = <<>>
        /\ DOMAIN srv' = DOMAIN srv /\ SameFiles(srv') /\ srv'.path = srv.path /\ s'.control_pcb # NULL
        /\ s'.control_state = "XFERING" /\ a' = a
    BY <1>0, <1>3, DataMoves
  <2>2. Loading'
    BY <1>3, <2>1, Before, FrameDir DEF Loading, SameFiles
  <2>3. SrvOK' /\ a'.ftpStarted
    BY <1>x, <2>1, Before DEF SrvOK, SameFiles, Moving
  <2> QED BY <2>1, <2>2, <2>3, Before, NotStart, FewTargets, After DEF Working
<1> QED BY <1>0, <1>1, <1>2, <1>3, AtWork

-----------------------------------------------------------------------------
(* The user's steps.                                                         *)

(* Keys start an operation when the session rests.                           *)
LEMMA IdleRests ==
  ASSUME Step, Idle
  PROVE  /\ s.control_state = "LOGGED" /\ up = <<>> /\ down = <<>> /\ srv.doing = None
         /\ (PathKept => Current) /\ PathOK(a.path) /\ a.path \in Clean /\ a.path # <<>>
         /\ Len(a.path) >= a.dir + Len(Home) /\ Len(a.path) \in Nat
         /\ Free(Quiet(s)) /\ where = "main" /\ a.ftpStarted /\ a.busy = FALSE
<1>0. where = "main" /\ a.ftpStarted /\ ~a.busy
  BY DEF Idle
<1>b. a.busy = FALSE
  BY <1>0, Before DEF IsApp
<1>1. s.op = None
  BY <1>0, Before DEF Linked
<1>2. s.control_state = "LOGGED"
  <2>1. s.control_pcb # NULL /\ s.control_state # "QUIT_SENT"
    BY Zenon DEF Step, Alive
  <2>2. s.control_state # "CLOSED"
    BY <1>1, <2>1, Before, SessionFacts DEF None
  <2> QED BY <1>1, <2>1, <2>2, Before, GoodSession
<1>3. Resting
  <2>1. ~Preparing("MLSD") /\ ~Preparing("STOR") /\ ~Preparing("RETR")
    BY <1>2 DEF Preparing
  <2>2. \A op \in TransferOps : /\ ~Ordered(op) /\ ~Denied(op) /\ ~Begun(op) /\ ~Moving(op) /\ ~Moved(op)
                                /\ ~Over(op)
    BY <1>2, StageStates DEF Ordered, Denied, Begun, Moving, Moved, Over, TransferStates
  <2>3. ~Connecting
    BY <1>2 DEF Connecting, LoginStates
  <2>4. ~Listing /\ ~Storing /\ ~Loading
    BY <2>1, <2>2 DEF Listing, Storing, Loading, TransferOps
  <2>5. ~Locating /\ ~Changing /\ ~Removing("DELE") /\ ~Removing("RNFR")
    BY <1>2 DEF Locating, Changing, Removing, SentState
  <2>6. Connecting \/ Working
    BY Zenon DEF Step, Living
  <2> QED BY <2>3, <2>4, <2>5, <2>6 DEF Working
<1>4. Silent /\ (PathKept => Current) /\ PathOK(a.path)
  BY <1>0, <1>3 DEF Resting
<1>5. a.path \in Clean /\ Len(a.path) >= a.dir + Len(Home)
  BY <1>4 DEF PathOK, Deep
<1>6. a.path # <<>> /\ Len(a.path) \in Nat
  <2>1. Len(Home) \in Nat \ {0} /\ a.dir \in Nat /\ Len(a.path) \in Nat
    BY <1>5, Before, PlacePaths DEF Clean
  <2> QED BY <1>5, <2>1
<1>7. Free(Quiet(s))
  <2>1. s.data_pcb = NULL
    BY <1>2, Before, SessionFacts
  <2> QED BY <1>2, <2>1, Before, QuietFacts DEF Free, Rested
<1> QED BY <1>0, <1>b, <1>2, <1>4, <1>5, <1>6, <1>7 DEF Silent

(* A call starts an operation.                                               *)
LEMMA CallGoes ==
  ASSUME Calm, IInv, NEW t, NEW b, NEW c, NEW st, NEW op, Started(Quiet(s), t, st, op, c), up = <<>>,
         s.control_pcb # NULL, Go([s |-> t, a |-> b])
  PROVE  /\ a' = b /\ s'.control_state = st /\ s'.op = op /\ s'.control_pcb # NULL
         /\ up' = <<<<c, Carries(c, b)>>>>
<1>1. t.sent = <<c>> /\ t.control_pcb # NULL /\ t.control_state = st /\ t.op = op
  BY QuietFacts DEF Started
<1> QED BY <1>1, GoOn, CalmFacts

(* util_ChangeDir.                                                           *)
LEMMA ChangeGoes ==
  ASSUME Step, Idle, NEW b, IsApp(b), NEW dir, util_ChangeDir(b, dir)
  PROVE  /\ s'.control_state = "CWD_SENT" /\ s'.control_pcb # NULL /\ up' = <<<<"CWD", b.path>>>>
         /\ down' = <<>> /\ srv' = srv /\ want' = want /\ where' = "main"
         /\ a' = [b EXCEPT !.busy = TRUE, !.done_fn = "Cwd", !.dir = dir]
<1> DEFINE c == [b EXCEPT !.busy = TRUE, !.done_fn = "Cwd"]
           t == lwftp_command(Quiet(s), "CWD", TRUE)
           w == Issue([s |-> s, a |-> c], t)
           d == [b EXCEPT !.busy = TRUE, !.done_fn = "Cwd", !.dir = dir]
<1>0. Go([w EXCEPT !.a.dir = dir]) /\ where' = where /\ down' = down /\ srv' = srv /\ want' = want
  BY Zenon DEF util_ChangeDir
<1>1. Started(Quiet(s), t, "CWD_SENT", "CWD", "CWD")
  BY IdleRests, CommandStarts DEF CommandOps, SentState
<1>2. d = [c EXCEPT !.dir = dir] /\ d.path = b.path
  BY DEF IsApp, AppFields
<1> HIDE DEF c, d, t
<1>3. w = [s |-> t, a |-> c]
  BY <1>1, IssueGoes DEF Started
<1>4. [w EXCEPT !.a.dir = dir] = [s |-> t, a |-> d]
  <2>w. w.a = c
    BY <1>3
  <2>1. \A x : [w EXCEPT !.a = x] = [s |-> t, a |-> x]
    BY <1>3, WorldApp
  <2> HIDE DEF w
  <2>2. [w EXCEPT !.a.dir = dir] = [w EXCEPT !.a = [w.a EXCEPT !.dir = dir]]
    BY Zenon
  <2> QED BY <1>2, <2>w, <2>1, <2>2, Zenon
<1>5. Go([s |-> t, a |-> d])
  BY <1>0, <1>4, Zenon
<1>6. a' = d /\ s'.control_state = "CWD_SENT" /\ s'.control_pcb # NULL /\ up' = <<<<"CWD", Carries("CWD", d)>>>>
  BY <1>1, <1>5, Before, IdleRests, CallGoes
<1>7. Carries("CWD", d) = b.path
  BY <1>2 DEF Carries, PathCommands
<1> QED BY <1>0, <1>6, <1>7, IdleRests DEF d

(* A change of directory is asked for.                                       *)
LEMMA ChangeKeeps ==
  ASSUME Step, Idle, NEW b, Keeps(b, a), b.list = a.list, NEW dir \in Nat, util_ChangeDir(b, dir),
         b.path \in Clean, Len(b.path) >= dir + Len(Home), Len(b.path) \in Nat,
         PathKept => Len(b.path) = dir + Len(Home) /\ b.path \in Places
  PROVE  PathInv'
<1>1. /\ s'.control_state = "CWD_SENT" /\ s'.control_pcb # NULL /\ up' = <<<<"CWD", b.path>>>>
      /\ down' = <<>> /\ srv' = srv /\ want' = want /\ where' = "main"
      /\ a' = [b EXCEPT !.busy = TRUE, !.done_fn = "Cwd", !.dir = dir]
  BY ChangeGoes DEF Keeps
<1>2. /\ a'.path = b.path /\ a'.dir = dir /\ a'.done_fn = "Cwd" /\ a'.list = a.list /\ a'.wild = FALSE
      /\ a'.ftpStarted
  BY <1>1, Before, IdleRests DEF Keeps, IsApp, AppFields
<1>3. Deep(a.path)'
  BY <1>2, Before DEF Deep
<1>4. Changing'
  BY <1>1, <1>2, <1>3, Before, IdleRests DEF Changing, Asked
<1>5. OnTarget(up', want')
  BY <1>1, FewTargets DEF FileCommands
<1>6. SrvOK' /\ Listed(a'.list)
  BY <1>1, <1>2, Before DEF SrvOK
<1>7. where' # "start" /\ s'.control_state # "QUIT_SENT" /\ a'.dir \in Nat /\ Working'
  BY <1>1, <1>2, <1>4 DEF Working
<1> QED BY <1>1, <1>2, <1>5, <1>6, <1>7, After

(* A directory of the listing is opened.                                     *)
LEMMA DownKeeps ==
  ASSUME Step, Key2nd
  PROVE  PathInv'
<1>1. PICK e \in a.list : e.type = "dir" /\ util_ChangeDir(Push(a, e.name), a.dir + 1)
  BY DEF Key2nd
<1>i. Idle
  BY DEF Key2nd
<1>2. e.name = "d" /\ "d" \in Names
  BY <1>1, Before, NamesUsed DEF Listed
<1> DEFINE b == Push(a, e.name)
<1>3. Keeps(b, a) /\ b.list = a.list /\ b.path = Append(a.path, e.name)
  BY Before DEF Keeps, Push, IsApp, AppFields
<1>4. b.path \in Clean /\ Len(b.path) = Len(a.path) + 1
  <2>1. a.path \in Clean /\ e.name \in Names
    BY <1>i, <1>2, IdleRests
  <2>2. Append(a.path, e.name) \in Clean /\ Len(Append(a.path, e.name)) = Len(a.path) + 1
    BY <2>1, PushedPath
  <2> HIDE DEF b
  <2> QED BY <1>3, <2>2
<1>5. PathKept => Len(b.path) = a.dir + 1 + Len(Home) /\ b.path \in Places
  <2> SUFFICES ASSUME PathKept PROVE Len(b.path) = a.dir + 1 + Len(Home) /\ b.path \in Places
    OBVIOUS
  <2>1. a.path = srv.cwd /\ Len(a.path) = a.dir + Len(Home) /\ a.list = Entries(srv.cwd, srv.files)
    BY <1>i, IdleRests DEF PathOK, Deep, Current
  <2>2. Append(srv.cwd, e.name) \in Places
    BY <1>1, <2>1, Before, EntriesListed DEF SrvOK
  <2>3. Len(Home) \in Nat /\ a.dir \in Nat
    BY Before, PlacePaths
  <2> HIDE DEF b
  <2> QED BY <1>3, <1>4, <2>1, <2>2, <2>3
<1>6. Len(b.path) >= a.dir + 1 + Len(Home) /\ Len(b.path) \in Nat /\ a.dir + 1 \in Nat
  <2>1. Len(Home) \in Nat /\ a.dir \in Nat
    BY Before, PlacePaths
  <2> HIDE DEF b
  <2> QED BY <1>i, <1>4, <2>1, IdleRests
<1>7. util_ChangeDir(b, a.dir + 1)
  BY <1>1
<1> HIDE DEF b
<1> QED BY <1>i, <1>3, <1>4, <1>5, <1>6, <1>7, ChangeKeeps

(* Back to the directory above.                                              *)
LEMMA BackKeeps ==
  ASSUME Step, KeyYequ
  PROVE  PathInv'
<1>1. Idle /\ a.dir > 0 /\ util_ChangeDir(Pop(a), a.dir - 1)
  BY DEF KeyYequ
<1> DEFINE b == Pop(a)
<1>2. a.path \in Clean /\ a.path # <<>> /\ Len(a.path) >= a.dir + Len(Home) /\ Len(a.path) \in Nat
  BY <1>1, IdleRests
<1>3. Keeps(b, a) /\ b.list = a.list /\ b.path = Front(a.path)
  BY <1>2, Before DEF Keeps, Pop, IsApp, AppFields
<1>4. b.path \in Clean /\ Len(b.path) = Len(a.path) - 1
  BY <1>2, <1>3, CutPath
<1>5. Len(Home) \in Nat \ {0} /\ a.dir \in Nat
  BY Before, PlacePaths
<1>6. /\ Len(b.path) >= a.dir - 1 + Len(Home) /\ Len(b.path) \in Nat /\ a.dir - 1 \in Nat
  <2> HIDE DEF b
  <2> QED BY <1>1, <1>2, <1>4, <1>5
<1>7. PathKept => Len(b.path) = a.dir - 1 + Len(Home) /\ b.path \in Places
  <2> SUFFICES ASSUME PathKept PROVE Len(b.path) = a.dir - 1 + Len(Home) /\ b.path \in Places
    OBVIOUS
  <2>1. a.path = srv.cwd /\ Len(a.path) = a.dir + Len(Home) /\ srv.cwd \in Places
    BY <1>1, IdleRests, Before DEF PathOK, Deep, SrvOK
  <2>2. a.path # Home
    BY <1>1, <1>5, <2>1
  <2>3. a.path = Append(Home, "d")
    BY <2>1, <2>2 DEF Places
  <2>4. Front(a.path) = Home /\ Home \in Places
    BY <2>3, NamesUsed, PushedPath, Before, PlacePaths
  <2> HIDE DEF b
  <2> QED BY <1>1, <1>3, <1>4, <1>5, <2>1, <2>4
<1> HIDE DEF b
<1> QED BY <1>1, <1>3, <1>4, <1>6, <1>7, ChangeKeeps DEF b

-----------------------------------------------------------------------------
(* A name is put on the path.                                                *)
LEMMA NameGoes ==
  ASSUME Step, Idle, NEW name \in Names, name # "d", a'.path = Append(a.path, name), a'.dir = a.dir,
         srv' = srv, want' = Append(a.shown, name)
  PROVE  FileOp' /\ Last(a'.path) = name /\ a'.path \in Clean
<1>1. /\ a.path \in Clean /\ PathOK(a.path) /\ (PathKept => Current) /\ Len(a.path) >= a.dir + Len(Home)
      /\ a.dir \in Nat /\ Len(Home) \in Nat /\ Len(a.path) \in Nat
  BY IdleRests, Before, PlacePaths
<1>2. /\ a'.path \in Clean /\ a'.path # <<>> /\ Front(a'.path) = a.path /\ Last(a'.path) = name
  BY <1>1, PushedPath
<1>3. a'.path \notin Places
  <2>1. Len(a.path) >= Len(Home)
    BY <1>1
  <2> QED BY <1>1, <2>1, Before, OnlyDown
<1>4. PathOK(Front(a.path))'
  BY <1>1, <1>2, Before DEF PathOK, Deep
<1>5. PathKept => want' = a'.path
  BY <1>1 DEF Current, PathOK
<1> QED BY <1>2, <1>3, <1>4, <1>5, Before DEF FileOp

(* An operation on a file starts.                                            *)
LEMMA OperateGoes ==
  ASSUME Step, NEW name \in Names, name # "d", NEW fn \in DoneFns, NEW t, NEW st, NEW op, NEW c,
         Started(Quiet(s), t, st, op, c), NEW next, Operate(name, name, fn, t, next)
  PROVE  /\ s'.control_state = st /\ s'.op = op /\ s'.control_pcb # NULL
         /\ up' = <<<<c, Carries(c, a')>>>> /\ down' = <<>> /\ srv' = srv /\ where' = next
         /\ a'.done_fn = fn /\ a'.list = a.list /\ a'.shown = a.shown /\ a'.dir = a.dir
         /\ a'.wild = FALSE /\ a'.ftpStarted /\ a'.path = Append(a.path, name) /\ srv.doing = None
         /\ FileOp' /\ Last(a'.path) = name /\ (PathKept => Current')
<1> DEFINE b == [Push(a, name) EXCEPT !.busy = TRUE, !.done_fn = fn]
<1>1. Idle /\ Go(Issue([s |-> s, a |-> b], t)) /\ where' = next /\ want' = Append(a.shown, name)
      /\ down' = down /\ srv' = srv
  BY Zenon DEF Operate
<1>2. /\ b.path = Append(a.path, name) /\ b.done_fn = fn /\ b.list = a.list /\ b.shown = a.shown
      /\ b.dir = a.dir /\ b.wild = a.wild /\ b.ftpStarted = a.ftpStarted
  BY Before DEF Push, IsApp, AppFields
<1> HIDE DEF b
<1>3. Go([s |-> t, a |-> b])
  <2>1. Issue([s |-> s, a |-> b], t) = [s |-> t, a |-> b]
    BY IssueGoes DEF Started
  <2> QED BY <1>1, <2>1, Zenon
<1>4. a' = b /\ s'.control_state = st /\ s'.op = op /\ s'.control_pcb # NULL /\ up' = <<<<c, Carries(c, b)>>>>
  BY <1>1, <1>3, Before, IdleRests, CallGoes
<1>5. FileOp' /\ Last(a'.path) = name
  BY <1>1, <1>2, <1>4, NameGoes
<1>6. PathKept => Current'
  BY <1>1, <1>2, <1>4, IdleRests DEF Current
<1> QED BY <1>1, <1>2, <1>4, <1>5, <1>6, Before, IdleRests

(* What then remains to be shown.                                            *)
LEMMA OperateKeeps ==
  ASSUME Step, s'.control_pcb # NULL, s'.control_state # "QUIT_SENT", srv' = srv,
         where' \in {"main", "upload", "download", "input"}, a'.list = a.list, a'.dir = a.dir, a'.wild = FALSE,
         a'.ftpStarted, PathKept => OnTarget(up', want'), Working'
  PROVE  PathInv'
<1>1. SrvOK' /\ Listed(a'.list) /\ a'.dir \in Nat /\ where' # "start"
  BY Before DEF SrvOK
<1> QED BY <1>1, After

(* util_UploadFile.                                                          *)
LEMMA UploadKeeps ==
  ASSUME Step, util_UploadFile
  PROVE  PathInv'
<1> DEFINE t == lwftp_transfer(Quiet(s), "STOR", TRUE, TRUE)
<1>1. Operate("u", "u", "Stor", t, "upload")
  BY Before, CalmFacts DEF util_UploadFile
<1>i. Idle
  BY <1>1, Zenon DEF Operate
<1>2. Started(Quiet(s), t, "TYPE_SENT", "STOR", "TYPE")
  BY <1>i, IdleRests, TransferStarts DEF TransferOps
<1> HIDE DEF t
<1>3. "u" \in Names /\ "u" # "d" /\ "Stor" \in DoneFns
  BY NamesUsed DEF FileNames, DoneFns
<1>4. /\ s'.control_state = "TYPE_SENT" /\ s'.op = "STOR" /\ s'.control_pcb # NULL
      /\ up' = <<<<"TYPE", Carries("TYPE", a')>>>> /\ down' = <<>> /\ srv' = srv /\ where' = "upload"
      /\ a'.done_fn = "Stor" /\ a'.list = a.list /\ a'.dir = a.dir
      /\ a'.wild = FALSE /\ a'.ftpStarted /\ srv.doing = None /\ FileOp' /\ Last(a'.path) = "u"
  BY <1>1, <1>2, <1>3, OperateGoes, ZenonT(60)
<1>5. up' = <<<<"TYPE", <<>>>>>> /\ OnTarget(up', want')
  BY <1>4, PlainCommands, FewTargets
<1>6. Preparing("STOR")'
  BY <1>4, <1>5 DEF Preparing, Prepares, Asked, Asks
<1>7. Storing'
  BY <1>4, <1>6 DEF Storing
<1> QED BY <1>4, <1>5, <1>7, OperateKeeps DEF Working

(* util_DownloadFile.                                                        *)
LEMMA DownloadKeeps ==
  ASSUME Step, util_DownloadFile
  PROVE  PathInv'
<1> DEFINE t == lwftp_transfer(Quiet(s), "RETR", TRUE, TRUE)
<1>p. PICK e \in a.list, pcb \in Memory :
        Operate(Extended(e, e.name), Extended(e, e.of), "Retr",
                lwftp_transfer(Quiet(s), "RETR", TRUE, pcb), "download")
  BY Zenon DEF util_DownloadFile
<1> DEFINE name == Extended(e, e.name)
<1>3. name \in Names /\ name # "d" /\ "Retr" \in DoneFns /\ Extended(e, e.of) = name
  BY Before, NamesUsed DEF Listed, FileNames, DoneFns, Extended
<1>1. Operate(name, name, "Retr", t, "download")
  <2>1. pcb = TRUE
    BY Before, CalmFacts
  <2> QED BY <1>p, <1>3, <2>1, Zenon
<1> HIDE DEF name
<1>i. Idle
  BY <1>1, Zenon DEF Operate
<1>2. Started(Quiet(s), t, "TYPE_SENT", "RETR", "TYPE")
  BY <1>i, IdleRests, TransferStarts DEF TransferOps
<1> HIDE DEF t
<1>4. /\ s'.control_state = "TYPE_SENT" /\ s'.op = "RETR" /\ s'.control_pcb # NULL
      /\ up' = <<<<"TYPE", Carries("TYPE", a')>>>> /\ down' = <<>> /\ srv' = srv /\ where' = "download"
      /\ a'.done_fn = "Retr" /\ a'.list = a.list /\ a'.dir = a.dir
      /\ a'.wild = FALSE /\ a'.ftpStarted /\ srv.doing = None /\ FileOp' /\ (PathKept => Current')
  BY <1>1, <1>2, <1>3, OperateGoes, ZenonT(60)
<1>5. up' = <<<<"TYPE", <<>>>>>> /\ OnTarget(up', want')
  BY <1>4, PlainCommands, FewTargets
<1>6. Preparing("RETR")'
  BY <1>4, <1>5 DEF Preparing, Prepares, Asked, Asks
<1>7. Loading'
  BY <1>4, <1>6, Before DEF Loading
<1> QED BY <1>4, <1>5, <1>7, OperateKeeps DEF Working

(* A file of the listing is one of the server's.                             *)
LEMMA SelectedNamed ==
  ASSUME Step, Idle, NEW e \in Selected
  PROVE  /\ e.name \in Names /\ e.name # "d" /\ e.of = e.name
         /\ PathKept => Append(a.path, e.name) \in srv.files
<1>1. e \in a.list /\ e.type = "file"
  BY DEF Selected
<1>2. e.name \in Names /\ e.name # "d" /\ e.of = e.name
  BY <1>1, Before, NamesUsed DEF Listed, FileNames
<1>3. ASSUME PathKept PROVE Append(a.path, e.name) \in srv.files
  <2>1. a.path = srv.cwd /\ a.list = Entries(srv.cwd, srv.files) /\ srv.cwd \in Places
        /\ srv.files \in SUBSET Files
    BY <1>3, IdleRests, Before DEF PathOK, Current, SrvOK
  <2> QED BY <1>1, <2>1, Before, EntriesListed
<1> QED BY <1>2, <1>3

(* util_DeleteFile.                                                          *)
LEMMA DeleteKeeps ==
  ASSUME Step, util_DeleteFile
  PROVE  PathInv'
<1> DEFINE t == lwftp_command(Quiet(s), "DELE", TRUE)
<1>p. PICK e \in Selected : Operate(e.name, e.of, "Del", t, "main")
  BY DEF util_DeleteFile
<1>i. Idle
  BY <1>p, Zenon DEF Operate
<1> DEFINE name == e.name
<1>1. Operate(name, name, "Del", t, "main")
  BY <1>p, <1>i, SelectedNamed
<1>2. Started(Quiet(s), t, "DELE_SENT", "DELE", "DELE")
  BY <1>i, IdleRests, CommandStarts DEF CommandOps, SentState
<1> HIDE DEF t
<1>3. /\ name \in Names /\ name # "d" /\ "Del" \in DoneFns
      /\ PathKept => Append(a.path, name) \in srv.files
  BY <1>i, SelectedNamed DEF DoneFns
<1> HIDE DEF name
<1>4. /\ s'.control_state = "DELE_SENT" /\ s'.op = "DELE" /\ s'.control_pcb # NULL
      /\ up' = <<<<"DELE", Carries("DELE", a')>>>> /\ down' = <<>> /\ srv' = srv /\ where' = "main"
      /\ a'.done_fn = "Del" /\ a'.list = a.list /\ a'.dir = a.dir /\ a'.path = Append(a.path, name)
      /\ a'.wild = FALSE /\ a'.ftpStarted /\ srv.doing = None /\ FileOp'
  BY <1>1, <1>2, <1>3, OperateGoes, ZenonT(60)
<1>5. up' = <<<<"DELE", a'.path>>>>
  BY <1>4 DEF Carries, PathCommands
<1>6. PathKept => OnTarget(up', want')
  BY <1>4, <1>5, FewTargets, Before DEF FileOp
<1>7. Removing("DELE")'
  BY <1>3, <1>4, <1>5, Before DEF Removing, Asked, SentState
<1> QED BY <1>4, <1>6, <1>7, OperateKeeps DEF Working

-----------------------------------------------------------------------------
(* util_MoveFile, up to the input.                                           *)
LEMMA MoveKeeps ==
  ASSUME Step, util_MoveFile
  PROVE  PathInv'
<1>p. PICK e \in Selected : a' = Push(a, e.name) /\ want' = Append(a.shown, e.of)
  BY DEF util_MoveFile
<1>2. Idle /\ where' = "input" /\ s' = s /\ up' = up /\ down' = down /\ srv' = srv
  BY DEF util_MoveFile
<1> DEFINE name == e.name
<1>1. a' = Push(a, name) /\ want' = Append(a.shown, name)
  BY <1>p, <1>2, SelectedNamed
<1>3. /\ name \in Names /\ name # "d"
      /\ PathKept => Append(a.path, name) \in srv.files
  BY <1>2, SelectedNamed
<1>4. /\ a'.path = Append(a.path, name) /\ a'.dir = a.dir /\ a'.list = a.list /\ a'.shown = a.shown
      /\ a'.wild = FALSE /\ a'.ftpStarted = a.ftpStarted
  BY <1>1, Before DEF Push, IsApp, AppFields
<1>5. FileOp'
  BY <1>1, <1>2, <1>3, <1>4, NameGoes
<1>6. PathKept => Current'
  BY <1>2, <1>4, IdleRests DEF Current
<1>7. Resting'
  BY <1>2, <1>3, <1>4, <1>5, <1>6, Before, IdleRests DEF Resting, Silent
<1>8. OnTarget(up', want')
  BY <1>2, IdleRests, FewTargets
<1> QED BY <1>2, <1>4, <1>7, <1>8, Before, IdleRests, OperateKeeps DEF Working

(* The name is typed while the session rests.                                *)
LEMMA InputRests ==
  ASSUME Step, where = "input"
  PROVE  /\ s.control_state = "LOGGED" /\ up = <<>> /\ down = <<>> /\ srv.doing = None
         /\ (PathKept => Current /\ a.path \in srv.files) /\ FileOp /\ a.ftpStarted /\ a.busy = FALSE
         /\ Free(Quiet(s))
<1>1. ~Connecting
  BY DEF Connecting
<1>2. ~Listing /\ ~Locating /\ ~Changing
  BY DEF Listing, Locating, Changing
<1>3. ~Removing("DELE") /\ ~Removing("RNFR") /\ ~Storing /\ ~Loading
  BY DEF Removing, Storing, Loading
<1>4. Resting
  <2>1. Connecting \/ Working
    BY Zenon DEF Step, Living
  <2> QED BY <1>1, <1>2, <1>3, <2>1 DEF Working
<1>5. s.control_state = "LOGGED" /\ Silent /\ (PathKept => Current /\ a.path \in srv.files) /\ FileOp
  BY <1>4 DEF Resting
<1>6. Free(Quiet(s))
  <2>1. s.data_pcb = NULL
    BY <1>5, Before, SessionFacts
  <2> QED BY <1>5, <2>1, Before, QuietFacts DEF Free, Rested
<1>7. a.ftpStarted /\ a.busy = FALSE
  BY Before DEF IInv, IsApp
<1> QED BY <1>5, <1>6, <1>7 DEF Silent

(* ... and after the input.                                                  *)
LEMMA InputKeeps ==
  ASSUME Step, InputDone
  PROVE  PathInv'
<1> DEFINE t == lwftp_command(Quiet(s), "RNFR", TRUE)
           b == [a EXCEPT !.busy = TRUE, !.done_fn = "Move"]
<1>1. /\ where = "input" /\ where' = "main" /\ Go(Issue([s |-> s, a |-> b], t))
      /\ down' = down /\ srv' = srv /\ want' = want
  BY Zenon DEF InputDone
<1>2. Started(Quiet(s), t, "RNFR_SENT", "RNFR", "RNFR")
  BY <1>1, InputRests, CommandStarts DEF CommandOps, SentState
<1>3. /\ b.path = a.path /\ b.dir = a.dir /\ b.list = a.list /\ b.done_fn = "Move" /\ b.wild = a.wild
      /\ b.ftpStarted = a.ftpStarted
  BY Before DEF IsApp, AppFields
<1> HIDE DEF t, b
<1>4. Go([s |-> t, a |-> b])
  <2>1. Issue([s |-> s, a |-> b], t) = [s |-> t, a |-> b]
    BY <1>2, IssueGoes DEF Started
  <2> QED BY <1>1, <2>1, Zenon
<1>5. /\ a' = b /\ s'.control_state = "RNFR_SENT" /\ s'.control_pcb # NULL
      /\ up' = <<<<"RNFR", Carries("RNFR", b)>>>>
  BY <1>1, <1>2, <1>4, Before, InputRests, CallGoes
<1>6. up' = <<<<"RNFR", a'.path>>>>
  BY <1>5 DEF Carries, PathCommands
<1>7. FileOp'
  BY <1>1, <1>3, <1>5, Before, InputRests DEF FileOp, PathOK, Deep
<1>8. Removing("RNFR")'
  BY <1>1, <1>3, <1>5, <1>6, <1>7, Before, InputRests DEF Removing, Asked, SentState
<1>9. PathKept => OnTarget(up', want')
  BY <1>6, <1>7, FewTargets, Before DEF FileOp
<1> QED BY <1>1, <1>3, <1>5, <1>8, <1>9, Before, InputRests, OperateKeeps DEF Working

(* No name is typed.                                                         *)
LEMMA EmptyKeeps ==
  ASSUME Step, InputEmpty
  PROVE  PathInv'
<1>1. /\ where = "input" /\ where' = "main" /\ s' = s /\ a' = a /\ up' = up /\ down' = down /\ srv' = srv
      /\ want' = want /\ "cancel" \in faults
  BY DEF InputEmpty
<1>2. ~PathKept
  BY <1>1 DEF PathKept
<1>3. PathOK(a.path)
  BY <1>1, <1>2, InputRests, Before, FileOpFacts
<1>4. PathOK(a.path)'
  BY <1>1, <1>3, Before DEF PathOK, Deep
<1>5. Resting'
  BY <1>1, <1>2, <1>4, Before, InputRests DEF Resting, Silent
<1> QED BY <1>1, <1>2, <1>5, Before, InputRests, OperateKeeps DEF Working

(* The login loop ends.                                                      *)
LEMMA LoginKeeps ==
  ASSUME Step, LoginOver
  PROVE  PathInv'
<1>1. /\ where = "login" /\ where' = IF a.ftpStarted THEN "main" ELSE "exit"
      /\ s' = s /\ a' = a /\ up' = up /\ down' = down /\ srv' = srv /\ want' = want
      /\ a.ftpStarted \/ a.ftpResult # "INPROGRESS"
  BY DEF LoginOver
<1>2. ~Connecting
  BY <1>1 DEF Connecting, FreshApp
<1>3. Working
  BY <1>2, Zenon DEF Step, Living
<1>4. ~Changing /\ ~Removing("DELE") /\ ~Removing("RNFR") /\ ~Storing /\ ~Loading
  BY <1>1 DEF Changing, Removing, Storing, Loading
<1>5. Listing \/ Locating \/ Resting
  BY <1>3, <1>4 DEF Working
<1>6. s.control_state \notin {"CLOSED"} \cup LoginStates
  BY <1>5, StageStates DEF Listing, Locating, Resting, Preparing, Ordered, Begun, Moving, Moved, Over,
     LoginStates, TransferOps
<1>7. a.ftpStarted /\ where' = "main"
  BY <1>1, <1>6, Before
<1>8. Working'
  <2>1. CASE Listing
    <3>1. Listing'
      BY <1>1, <1>7, <2>1, Before DEF Listing, Deep, Preparing, Prepares, Ordered, Begun, Moving, Moved, Over,
         Asked, Answered, Current, PathKept
    <3> QED BY <3>1 DEF Working
  <2>2. CASE Locating
    <3>1. Locating'
      BY <1>1, <1>7, <2>2, Before DEF Locating, Deep, Asked, Answered, Current
    <3> QED BY <3>1 DEF Working
  <2>3. CASE Resting
    <3>1. Resting'
      BY <1>1, <1>7, <2>3, Before DEF Resting, Silent, Current, PathOK, Deep
    <3> QED BY <3>1 DEF Working
  <2> QED BY <1>5, <2>1, <2>2, <2>3
<1>9. PathKept => OnTarget(up', want')
  <2>1. up = <<>> \/ \E c, p : up = <<<<c, p>>>> /\ c \notin FileCommands
    BY <1>5 DEF Listing, Locating, Resting, Silent, Preparing, Prepares, Asks, Ordered, Begun, Moving, Moved,
       Over, Asked, Answered, FileCommands
  <2> QED BY <1>1, <2>1, FewTargets
<1> QED BY <1>1, <1>7, <1>8, <1>9, Before, OperateKeeps DEF Step, Alive

-----------------------------------------------------------------------------
(* The loop at the end of util_UploadFile is left.                           *)
LEMMA UploadOverKeeps ==
  ASSUME Step, UploadOver, PathKept => OnTarget(up, want)
  PROVE  PathInv'
<1>1. /\ where = "upload" /\ where' = "main"
      /\ s' = s /\ a' = a /\ up' = up /\ down' = down /\ srv' = srv /\ want' = want
  BY DEF UploadOver
<1>2. ~Connecting /\ ~Changing /\ ~Removing("DELE") /\ ~Removing("RNFR") /\ ~Loading
  BY <1>1 DEF Connecting, Changing, Removing, Loading
<1>3. Connecting \/ Working
  BY Zenon DEF Step, Living
<1>4. Listing \/ Locating \/ Storing \/ Resting
  BY <1>2, <1>3 DEF Working
<1>5. s.control_state \notin {"CLOSED"} \cup LoginStates
  BY <1>4, StageStates DEF Listing, Locating, Storing, Resting, Preparing, Ordered, Denied, Begun, Moving,
     Moved, Over, LoginStates, TransferOps
<1>6. \A op : /\ Preparing(op) => Preparing(op)'
              /\ Ordered(op) => Ordered(op)'
              /\ Denied(op) => Denied(op)'
              /\ Begun(op) => Begun(op)'
              /\ Moving(op) => Moving(op)'
              /\ Moved(op) => Moved(op)'
              /\ Over(op) => Over(op)'
  BY <1>1, Before DEF Preparing, Prepares, Ordered, Denied, Begun, Moving, Moved, Over, Asked, Answered
<1>7. Working'
  <2>1. CASE Listing
    <3>1. Listing'
      BY <1>1, <1>6, <2>1, Before DEF Listing, Deep, Current
    <3> QED BY <3>1 DEF Working
  <2>2. CASE Locating
    <3>1. Locating'
      BY <1>1, <2>2, Before DEF Locating, Deep, Asked, Answered, Current
    <3> QED BY <3>1 DEF Working
  <2>3. CASE Resting
    <3>1. Resting'
      BY <1>1, <2>3, Before DEF Resting, Silent, Current, PathOK, Deep
    <3> QED BY <3>1 DEF Working
  <2>4. CASE Storing
    <3>1. FileOp'
      BY <1>1, <2>4, Before, FrameDir DEF Storing
    <3>2. Storing'
      BY <1>1, <1>6, <2>4, <3>1 DEF Storing
    <3> QED BY <3>2 DEF Working
  <2> QED BY <1>4, <2>1, <2>2, <2>3, <2>4
<1>8. PathKept => OnTarget(up', want')
  BY <1>1
<1>9. a.ftpStarted /\ s.control_state # "QUIT_SENT"
  BY <1>5, Before DEF Step, Alive
<1> QED BY <1>1, <1>7, <1>8, <1>9, Before, OperateKeeps

(* The loop at the end of util_DownloadFile is left.                         *)
LEMMA DownloadOverKeeps ==
  ASSUME Step, DownloadOver, PathKept => OnTarget(up, want)
  PROVE  PathInv'
<1>1. /\ where = "download" /\ where' = "main" /\ (~a.busy \/ "clear" \in faults)
      /\ a' = [Pop(a) EXCEPT !.done_fn = NULL]
      /\ s' = s /\ up' = up /\ down' = down /\ srv' = srv /\ want' = want
  BY DEF DownloadOver
<1>2. ~Connecting /\ ~Listing /\ ~Locating /\ ~Changing
  BY <1>1 DEF Connecting, Changing, Listing, Locating
<1>2b. ~Removing("DELE") /\ ~Removing("RNFR") /\ ~Storing
  BY <1>1 DEF Removing, Storing
<1>3. Connecting \/ Working
  BY Zenon DEF Step, Living
<1>4. Loading \/ Resting
  BY <1>2, <1>2b, <1>3 DEF Working
<1>5. FileOp /\ (PathKept => Current)
  BY <1>1, <1>4 DEF Loading, Resting
<1>6. /\ a.path \in Clean /\ a.path # <<>> /\ PathOK(Front(a.path))
  BY <1>5, Before, FileOpFacts
<1>7. /\ a'.path = Front(a.path) /\ a'.dir = a.dir /\ a'.list = a.list /\ a'.shown = a.shown
      /\ a'.wild = FALSE /\ a'.ftpStarted = a.ftpStarted /\ a'.done_fn = NULL /\ a'.busy = a.busy
  BY <1>1, <1>6, Before DEF Pop, IsApp, AppFields
<1>8. PathKept => Current'
  BY <1>1, <1>5, <1>7 DEF Current
<1>9. s.control_state \notin {"CLOSED"} \cup LoginStates
  BY <1>4, StageStates DEF Loading, Resting, Preparing, Ordered, Denied, Begun, Moving,
     Moved, Over, LoginStates, TransferOps
<1>10. a.ftpStarted /\ s.control_state # "QUIT_SENT"
  BY <1>9, Before DEF Step, Alive
<1>11. Working'
  <2>1. CASE Resting
    <3>1. PathOK(a.path)'
      BY <1>1, <1>6, <1>7, Before DEF PathOK, Deep
    <3>2. ~a.busy
      BY <1>1, <2>1 DEF Resting
    <3>3. Resting'
      BY <1>1, <1>7, <1>8, <2>1, <3>1, <3>2, Before DEF Resting, Silent
    <3> QED BY <3>3 DEF Working
  <2>2. CASE Loading
    <3>1. s.op = "RETR"
      <4>1. "RETR" \in TransferOps /\ "RETR" \in Ops
        BY DEF TransferOps, Ops
      <4>2. s.control_state = SentState["RETR"] => s.op = "RETR"
        BY <4>1, Before, SessionFacts
      <4> QED BY <2>2, <4>2 DEF Loading, Preparing, Ordered, Denied, Begun, Moving, Moved, Over
    <3>2. a.busy
      BY <1>10, <3>1, Before DEF Linked, None
    <3>3. ~PathKept
      BY <1>1, <3>2 DEF PathKept
    <3>4. \/ Preparing("RETR")' \/ Ordered("RETR")' \/ Denied("RETR")' \/ Begun("RETR")'
          \/ Moving("RETR")' \/ Moved("RETR")' \/ Over("RETR")'
      BY <1>1, <1>7, <2>2, Before DEF Loading, Preparing, Prepares, Ordered, Denied, Begun, Moving, Moved,
         Over, Asked, Answered
    <3>5. Loading'
      BY <1>1, <1>7, <3>3, <3>4, Before DEF Loading
    <3> QED BY <3>5 DEF Working
  <2> QED BY <1>4, <2>1, <2>2
<1>12. PathKept => OnTarget(up', want')
  BY <1>1
<1> QED BY <1>1, <1>7, <1>10, <1>11, <1>12, Before, OperateKeeps

(* Clear has been pressed before the second main().                          *)
LEMMA StillHere ==
  ASSUME Step
  PROVE  where \notin {"quit", "exit", "start"}
<1>1. Connecting \/ Working
  BY Zenon DEF Step, Living
<1>2. Connecting => where = "login"
  BY DEF Connecting
<1>3. Listing \/ Locating => where \in {"login", "main", "upload"}
  BY DEF Listing, Locating
<1>4. Changing \/ Storing => where \in {"main", "upload"}
  BY DEF Changing, Storing
<1>5. Removing("DELE") \/ Removing("RNFR") \/ Loading => where \in {"main", "download"}
  BY DEF Removing, Loading
<1>6. Resting => where \in {"input", "download", "login", "main", "upload"}
  BY DEF Resting
<1> QED BY <1>1, <1>2, <1>3, <1>4, <1>5, <1>6 DEF Working

(* main() connects.                                                          *)
LEMMA ConnectKeeps ==
  ASSUME HomeBelow, Calm, IInv, faults' = faults, PathInv, Connect
  PROVE  PathInv'
<1> DEFINE q == Quiet(s)
           t == lwftp_connect(q, TRUE, TRUE, TRUE)
           w == Issue([s |-> s, a |-> a], t)
<1>1. where = "start" /\ srv' = srv /\ want' = want
  BY DEF Connect
<1>2. /\ Go(w) /\ where' = (IF Last(t.done) = "INPROGRESS" THEN "login" ELSE "exit")
      /\ down' = IF w.s.control_pcb = NULL THEN <<>> ELSE <<<<220, <<>>>>>>
  <2>1. PICK pcb \in Memory, link \in Memory :
          LET u == lwftp_connect(Quiet(s), TRUE, pcb, link)
              v == Issue([s |-> s, a |-> a], u)
          IN  /\ Go(v) /\ where' = (IF Last(u.done) = "INPROGRESS" THEN "login" ELSE "exit")
              /\ down' = IF v.s.control_pcb = NULL THEN <<>> ELSE <<<<220, <<>>>>>>
    BY Zenon DEF Connect
  <2>2. pcb = TRUE /\ link = TRUE
    BY CalmFacts
  <2> QED BY <2>1, <2>2, Zenon
<1>3. s = FreshSession /\ a = FreshApp /\ Silent /\ SrvOK /\ srv.cwd = Home
  BY <1>1, Zenon DEF IInv, PathInv
<1>4. /\ q.control_state = "CLOSED" /\ q.control_pcb = NULL /\ q.data_pcb = NULL /\ q.sent = <<>>
      /\ q.done = <<>> /\ q \in Sessions
  BY <1>3, QuietFacts DEF FreshSession, Rested
<1> HIDE DEF q
<1>5. /\ t.control_state = "CLOSED" /\ t.control_pcb = "SYN_SENT" /\ t.sent = <<>>
      /\ t.done = <<"INPROGRESS">>
  <2> DEFINE v == [q EXCEPT !.control_pcb = "SYN_SENT", !.op = "CONNECT"]
  <2>1. t = Return(v, "INPROGRESS")
    BY <1>4 DEF lwftp_connect
  <2>2. /\ v.control_state = "CLOSED" /\ v.control_pcb = "SYN_SENT" /\ v.sent = <<>> /\ v.done = <<>>
        /\ DOMAIN v = DOMAIN q
    BY <1>4 DEF Sessions
  <2> HIDE DEF v, t
  <2>3. Append(v.done, "INPROGRESS") = <<"INPROGRESS">>
    BY <2>2
  <2> QED BY <1>4, <2>1, <2>2, <2>3 DEF Return, Sessions
<1> HIDE DEF t
<1>6. Last(t.done) = "INPROGRESS"
  BY <1>5 DEF Last
<1>7. w = [s |-> t, a |-> a]
  BY <1>6, IssueGoes
<1>8. Go([s |-> t, a |-> a]) /\ w.s = t
  BY <1>2, <1>7
<1>9. s' = t /\ a' = a /\ up' = up
  BY <1>5, <1>8, GoOn, QuietFacts DEF NULL
<1>10. where' = "login" /\ down' = <<<<220, <<>>>>>>
  BY <1>2, <1>5, <1>6, <1>8 DEF NULL
<1>11. Connecting'
  BY <1>1, <1>3, <1>5, <1>9, <1>10 DEF Connecting, Prepares, Answered, Silent
<1>12. Living'
  BY <1>1, <1>3, <1>5, <1>9, <1>11, FreshFacts DEF Living, SrvOK
<1>13. Alive'
  BY <1>5, <1>9 DEF Alive, NULL
<1>14. OnTarget(up', want')
  BY <1>3, <1>9, FewTargets DEF Silent
<1> QED BY <1>10, <1>12, <1>13, <1>14, GoesOn

(* The control connection is open.                                           *)
LEMMA OpenKeeps ==
  ASSUME Step, Handler(lwftp_control_connected(Quiet(s)), a), s.control_pcb = "SYN_SENT", down' = down,
         where' = where, srv' = srv, want' = want
  PROVE  PathInv'
<1> DEFINE t == lwftp_control_connected(Quiet(s))
<1>1. s.control_state = "CLOSED"
  BY Before, SessionFacts
<1>2. Connecting
  <2>1. ~Listing /\ ~Storing /\ ~Loading
    BY <1>1, StageStates DEF Listing, Storing, Loading, Preparing, Ordered, Denied, Begun, Moving, Moved, Over,
       TransferOps
  <2>2. ~Locating /\ ~Changing /\ ~Removing("DELE") /\ ~Removing("RNFR") /\ ~Resting
    BY <1>1 DEF Locating, Changing, Removing, SentState, Resting
  <2>3. Connecting \/ Working
    BY Zenon DEF Step, Living
  <2> QED BY <2>1, <2>2, <2>3 DEF Working
<1>3. up = <<>> /\ down = <<<<220, <<>>>>>> /\ srv.doing = None
  BY <1>1, <1>2 DEF Connecting, Prepares, Answered, Asks
<1>4. /\ t.sent = <<>> /\ t.done = <<>> /\ t.control_pcb = "ESTABLISHED" /\ t.control_state = "CONNECTED"
  BY Before, QuietFacts DEF lwftp_control_connected, Rested, Sessions
<1> HIDE DEF t
<1>5. s' = t /\ a' = a /\ up' = up
  BY <1>4, Before, HandlerSilent DEF NULL, t
<1>6. Connecting'
  BY <1>2, <1>3, <1>4, <1>5, Before DEF Connecting, Prepares, Answered, LoginStates
<1>7. Living'
  BY <1>4, <1>5, <1>6, Before DEF Living, SrvOK, LoginStates
<1>8. Alive'
  BY <1>4, <1>5 DEF Alive, NULL
<1>9. OnTarget(up', want')
  BY <1>3, <1>5, FewTargets
<1> QED BY <1>7, <1>8, <1>9, Before, NotStart, GoesOn

-----------------------------------------------------------------------------
(* A session that has ended, and callbacks on it.                            *)
Closed(t) == t \in Sessions /\ t.control_state = "CLOSED" /\ t.control_pcb = NULL
Sound(b) == b.wild = FALSE /\ (b.done_fn \in {"Stor", "Del", "Move"} => b.path # <<>>)
Shut(w, sound) == \E u, c : w = [s |-> u, a |-> c] /\ Closed(u) /\ (sound => c.wild = FALSE)

(* No call goes through.                                                     *)
LEMMA ClosedRefuses ==
  ASSUME NEW t, Closed(t), NEW op, NEW pcb
  PROVE  /\ lwftp_transfer(t, op, TRUE, pcb) = Return(t, "ERR_ARGUMENT")
         /\ lwftp_command(t, op, TRUE) = Return(t, "ERR_ARGUMENT")
         /\ lwftp_close(t) = t
<1>1. t.control_state = "CLOSED" /\ t.control_state # "LOGGED"
  BY DEF Closed
<1> QED BY <1>1 DEF lwftp_transfer, lwftp_command, lwftp_close

(* ... and the session stays as it was.                                      *)
LEMMA ClosedReturn ==
  ASSUME NEW t, Closed(t)
  PROVE  Closed(Return(t, "ERR_ARGUMENT")) /\ Last(Return(t, "ERR_ARGUMENT").done) = "ERR_ARGUMENT"
<1>1. t \in Sessions /\ "ERR_ARGUMENT" \in Results
  BY DEF Closed, Results
<1>2. Append(t.done, "ERR_ARGUMENT") \in Seq(Results) /\ Last(Append(t.done, "ERR_ARGUMENT")) = "ERR_ARGUMENT"
  BY <1>1 DEF Sessions, Last
<1> QED BY <1>1, <1>2 DEF Closed, Return, Sessions

(* The failure branch.                                                       *)
LEMMA ClosedFail ==
  ASSUME NEW t, Closed(t), NEW b, IsApp(b), NEW r
  PROVE  Shut(Fail([s |-> t, a |-> b], r), Sound(b))
<1> DEFINE d == IF b.done_fn = "Stor" THEN Pop(b) ELSE b
           v == [s |-> t, a |-> b]
           c == [d EXCEPT !.ftpResult = r, !.busy = FALSE]
<1>1. IsApp(d) /\ (Sound(b) => d.wild = FALSE)
  BY DEF Sound, Pop, IsApp, AppFields
<1>2. v.s = t /\ v.a = b
  OBVIOUS
<1>3. Fail(v, r) = [s |-> t, a |-> c]
  <2>1. lwftp_close(t) = t
    BY ClosedRefuses
  <2> HIDE DEF v
  <2> QED BY <1>2, <2>1 DEF Fail
<1> HIDE DEF d
<1>4. Sound(b) => c.wild = FALSE
  BY <1>1 DEF IsApp, AppFields
<1> HIDE DEF c, v
<1> QED BY <1>3, <1>4, Zenon DEF v, Shut

(* A call from a callback, or from a key.                                    *)
LEMMA ClosedIssue ==
  ASSUME NEW t, Closed(t), NEW b, IsApp(b), NEW v, NEW u, u = Return(t, "ERR_ARGUMENT")
  PROVE  Shut(Issue([s |-> v, a |-> b], u), Sound(b))
<1> DEFINE z == [s |-> v, a |-> b]
<1>1. [z EXCEPT !.s = u] = [s |-> u, a |-> b]
  OBVIOUS
<1>2. Closed(u) /\ Last(u.done) = "ERR_ARGUMENT"
  BY ClosedReturn
<1> HIDE DEF z
<1>3. Issue(z, u) = Fail([s |-> u, a |-> b], "ERR_ARGUMENT")
  BY <1>1, <1>2 DEF Issue
<1>4. Shut(Fail([s |-> u, a |-> b], "ERR_ARGUMENT"), Sound(b))
  BY <1>2, ClosedFail
<1> QED BY <1>3, <1>4, Zenon DEF z

(* util_GetRemoteFiles and util_GetDir.                                      *)
LEMMA ClosedGets ==
  ASSUME NEW t, Closed(t), NEW b, IsApp(b), NEW pcb
  PROVE  /\ Shut(util_GetRemoteFiles([s |-> t, a |-> b], pcb), b.wild = FALSE)
         /\ Shut(util_GetDir([s |-> t, a |-> b]), b.wild = FALSE)
<1> DEFINE w == [s |-> t, a |-> b]
           c == [b EXCEPT !.busy = TRUE, !.done_fn = "List", !.list = {}]
           d == [b EXCEPT !.busy = TRUE, !.done_fn = "Pwd", !.path = <<>>]
           u == Return(t, "ERR_ARGUMENT")
<1>w. w.s = t /\ w.a = b /\ \A x : [w EXCEPT !.a = x] = [s |-> t, a |-> x]
  BY WorldApp
<1>u. lwftp_transfer(t, "MLSD", TRUE, pcb) = u /\ lwftp_command(t, "PWD", TRUE) = u
  BY ClosedRefuses, Zenon
<1>1. util_GetRemoteFiles(w, pcb) = Issue([s |-> t, a |-> c], u)
  <2> HIDE DEF w, u, c
  <2> QED BY <1>w, <1>u, Zenon DEF util_GetRemoteFiles, c
<1>2. util_GetDir(w) = Issue([s |-> t, a |-> d], u)
  <2> HIDE DEF w, u, d
  <2> QED BY <1>w, <1>u, Zenon DEF util_GetDir, d
<1>3. IsApp(c) /\ IsApp(d) /\ (b.wild = FALSE => Sound(c) /\ Sound(d))
  BY DEF IsApp, AppFields, DoneFns, Sound
<1> HIDE DEF w, c, d
<1>4. Shut(Issue([s |-> t, a |-> c], u), Sound(c)) /\ Shut(Issue([s |-> t, a |-> d], u), Sound(d))
  BY <1>3, ClosedIssue
<1> HIDE DEF u
<1>5. Shut(util_GetRemoteFiles(w, pcb), Sound(c)) /\ Shut(util_GetDir(w), Sound(d))
  BY <1>1, <1>2, <1>4, Zenon
<1>6. \A x, p, q : Shut(x, p) /\ (q => p) => Shut(x, q)
  BY Zenon DEF Shut
<1>7. Shut(util_GetRemoteFiles(w, pcb), b.wild = FALSE) /\ Shut(util_GetDir(w), b.wild = FALSE)
  BY <1>3, <1>5, <1>6, Zenon
<1> QED BY <1>7 DEF w

(* What a callback comes down to.                                            *)
LEMMA AnyCallback ==
  ASSUME NEW t, NEW b, b.done_fn \in DoneFns, NEW r, r # "INPROGRESS", NEW pcb
  PROVE  LET w == [s |-> t, a |-> b]
             z == Callback(w, r, pcb)
         IN  \/ z = w \/ z = Fail(w, r) \/ z = [s |-> t, a |-> [b EXCEPT !.busy = FALSE]]
             \/ z = util_GetDir(w) \/ z = util_GetRemoteFiles(w, pcb)
             \/ z = util_GetRemoteFiles([s |-> t, a |-> [b EXCEPT !.ftpStarted = TRUE]], pcb)
             \/ b.done_fn \in {"Del", "Move", "Stor"} /\ z = util_GetRemoteFiles([s |-> t, a |-> Pop(b)], pcb)
<1> DEFINE w == [s |-> t, a |-> b]
           z == Callback(w, r, pcb)
           fn == b.done_fn
<1>w. w.s = t /\ w.a = b
  OBVIOUS
<1>6. /\ [w EXCEPT !.a.ftpStarted = TRUE] = [s |-> t, a |-> [b EXCEPT !.ftpStarted = TRUE]]
      /\ [w EXCEPT !.a.busy = FALSE] = [s |-> t, a |-> [b EXCEPT !.busy = FALSE]]
      /\ [w EXCEPT !.a = Pop(w.a)] = [s |-> t, a |-> Pop(b)]
  <2>1. \A c : [w EXCEPT !.a = c] = [s |-> t, a |-> c]
    BY WorldApp
  <2> HIDE DEF w
  <2>2. /\ [w EXCEPT !.a.ftpStarted = TRUE] = [w EXCEPT !.a = [w.a EXCEPT !.ftpStarted = TRUE]]
        /\ [w EXCEPT !.a.busy = FALSE] = [w EXCEPT !.a = [w.a EXCEPT !.busy = FALSE]]
    BY Zenon
  <2> QED BY <1>w, <2>1, <2>2, Zenon
<1> HIDE DEF w
<1>1. CASE fn = NULL
  <2>1. z = w
    BY <1>w, <1>1 DEF Callback, NULL
  <2> QED BY <2>1 DEF w
<1>2. CASE fn = "Connect"
  <2>1. z = ftp_ConnectCallback(w, r, pcb)
    BY <1>w, <1>2 DEF Callback, NULL
  <2>2. z = Fail(w, r) \/ z = util_GetRemoteFiles([s |-> t, a |-> [b EXCEPT !.ftpStarted = TRUE]], pcb)
    BY <1>6, <2>1, Zenon DEF ftp_ConnectCallback
  <2> QED BY <2>2 DEF w
<1>3. CASE fn = "List"
  <2>1. z = ftp_ListCallback(w, r)
    BY <1>w, <1>3 DEF Callback, NULL
  <2>2. z = Fail(w, r) \/ z = util_GetDir(w)
    BY <2>1, Zenon DEF ftp_ListCallback
  <2> QED BY <2>2 DEF w
<1>4. CASE fn \in {"Pwd", "Retr"}
  <2>1. z = ftp_PwdCallback(w, r) \/ z = ftp_RetrCallback(w, r)
    BY <1>w, <1>4 DEF Callback, NULL
  <2>2. z = Fail(w, r) \/ z = [s |-> t, a |-> [b EXCEPT !.busy = FALSE]]
    BY <1>6, <2>1, Zenon DEF ftp_PwdCallback, ftp_RetrCallback
  <2> QED BY <2>2 DEF w
<1>5. CASE fn = "Cwd"
  <2>1. z = ftp_CwdCallback(w, r, pcb)
    BY <1>w, <1>5 DEF Callback, NULL
  <2>2. z = Fail(w, r) \/ z = util_GetRemoteFiles(w, pcb)
    BY <2>1, Zenon DEF ftp_CwdCallback
  <2> QED BY <2>2 DEF w
<1>7. CASE fn \in {"Del", "Move", "Stor"}
  <2>1. z = ftp_DelCallback(w, r, pcb) \/ z = ftp_StorCallback(w, r, pcb)
    BY <1>w, <1>7 DEF Callback, NULL
  <2>2. z = Fail(w, r) \/ z = util_GetRemoteFiles([s |-> t, a |-> Pop(b)], pcb)
    BY <1>6, <2>1, Zenon DEF ftp_DelCallback, ftp_StorCallback
  <2> QED BY <1>7, <2>2 DEF w
<1> QED BY <1>1, <1>2, <1>3, <1>4, <1>5, <1>7 DEF DoneFns

(* A callback on a session that has ended leaves it so.                      *)
LEMMA ClosedCallback ==
  ASSUME NEW t, Closed(t), NEW b, IsApp(b), NEW r, r # "INPROGRESS", NEW pcb
  PROVE  Shut(Callback([s |-> t, a |-> b], r, pcb), Sound(b))
<1> DEFINE w == [s |-> t, a |-> b]
           z == Callback(w, r, pcb)
           e == [b EXCEPT !.ftpStarted = TRUE]
           f == [b EXCEPT !.busy = FALSE]
<1>0. \/ z = w \/ z = Fail(w, r) \/ z = [s |-> t, a |-> f]
      \/ z = util_GetDir(w) \/ z = util_GetRemoteFiles(w, pcb) \/ z = util_GetRemoteFiles([s |-> t, a |-> e], pcb)
      \/ b.done_fn \in {"Del", "Move", "Stor"} /\ z = util_GetRemoteFiles([s |-> t, a |-> Pop(b)], pcb)
  BY AnyCallback DEF IsApp
<1>1. IsApp(e) /\ IsApp(Pop(b)) /\ (Sound(b) => b.wild = FALSE /\ e.wild = FALSE /\ f.wild = FALSE)
      /\ (Sound(b) /\ b.done_fn \in {"Del", "Move", "Stor"} => Pop(b).wild = FALSE)
  BY DEF IsApp, AppFields, Pop, Sound
<1> HIDE DEF e, f
<1>3. Shut(Fail(w, r), Sound(b))
  BY ClosedFail
<1>4. Shut(w, b.wild = FALSE) /\ Shut([s |-> t, a |-> f], f.wild = FALSE)
  BY Zenon DEF Shut
<1>5. /\ Shut(util_GetRemoteFiles(w, pcb), b.wild = FALSE) /\ Shut(util_GetDir(w), b.wild = FALSE)
      /\ Shut(util_GetRemoteFiles([s |-> t, a |-> e], pcb), e.wild = FALSE)
      /\ Shut(util_GetRemoteFiles([s |-> t, a |-> Pop(b)], pcb), Pop(b).wild = FALSE)
  BY <1>1, ClosedGets
<1> HIDE DEF w, z
<1>6. Shut(z, Sound(b))
  <2>0. \A x : (Shut(x, b.wild = FALSE) \/ Shut(x, f.wild = FALSE) \/ Shut(x, e.wild = FALSE))
              => Shut(x, Sound(b))
    <3>1. Sound(b) => b.wild = FALSE /\ e.wild = FALSE /\ f.wild = FALSE
      BY <1>1
    <3> QED BY <3>1, Zenon DEF Shut
  <2>2. ASSUME b.done_fn \in {"Del", "Move", "Stor"}
        PROVE  Shut(util_GetRemoteFiles([s |-> t, a |-> Pop(b)], pcb), Sound(b))
    <3>1. Sound(b) => Pop(b).wild = FALSE
      BY <1>1, <2>2
    <3>2. Shut(util_GetRemoteFiles([s |-> t, a |-> Pop(b)], pcb), Pop(b).wild = FALSE)
      BY <1>5
    <3> QED BY <3>1, <3>2, Zenon DEF Shut
  <2> QED BY <1>0, <1>3, <1>4, <1>5, <2>0, <2>2, Zenon
<1> QED BY <1>6 DEF w, z

-----------------------------------------------------------------------------
(* The session ends.                                                         *)

(* The program goes on with a session that has ended.                        *)
LEMMA ShutGoes ==
  ASSUME NEW w, NEW sound, Shut(w, sound), Go(w)
  PROVE  /\ s'.control_pcb = NULL /\ s'.control_state = "CLOSED" /\ up' = <<>>
         /\ sound => a'.wild = FALSE
<1>1. PICK u, c : w = [s |-> u, a |-> c] /\ Closed(u) /\ (sound => c.wild = FALSE)
  BY Zenon DEF Shut
<1>2. Go([s |-> u, a |-> c])
  BY <1>1, Zenon
<1>3. s' = u /\ a' = c /\ (u.control_pcb = NULL => up' = <<>>)
  BY <1>2, GoOn
<1> QED BY <1>1, <1>3 DEF Closed

(* ... so also after the callback of the handler that ended it.              *)
LEMMA ClosedHandler ==
  ASSUME NEW t, Closed(t), NEW r, r # "INPROGRESS", t.done = <<r>>, NEW b, IsApp(b), Handler(t, b)
  PROVE  /\ s'.control_pcb = NULL /\ s'.control_state = "CLOSED" /\ up' = <<>>
         /\ Sound(b) => a'.wild = FALSE
<1>0. t.done # <<>> /\ Last(t.done) = r
  BY DEF Last
<1>1. PICK pcb \in Memory : Go(Callback([s |-> t, a |-> b], r, pcb))
  BY <1>0, Zenon DEF Handler
<1>2. Shut(Callback([s |-> t, a |-> b], r, pcb), Sound(b))
  BY ClosedCallback
<1> QED BY <1>1, <1>2, ShutGoes

(* What then remains to be shown.                                            *)
LEMMA Gone ==
  ASSUME Calm, faults' = faults, where' # "start", s'.control_pcb = NULL, s'.control_state = "CLOSED",
         up' = <<>>,
         faults \subseteq {"clear", "cancel"} => where' \in {"quit", "exit"} /\ a'.wild = FALSE
  PROVE  PathInv'
<1>1. ~Alive' /\ Dead'
  BY DEF Alive, Dead
<1> QED BY <1>1, FewTargets, Ends

(* lwftp_control_err.                                                        *)
LEMMA ErrCloses ==
  ASSUME NEW q, Rested(q)
  PROVE  LET t == lwftp_control_err(q)
         IN  Closed(t) /\ \E r : r # "INPROGRESS" /\ t.done = <<r>>
<1> DEFINE r == IF q.control_state = "CLOSED" THEN "ERR_CONNECT" ELSE "ERR_CLOSED"
           v == [[q EXCEPT !.control_pcb = NULL] EXCEPT !.data_pcb = NULL, !.control_pcb = NULL,
                                                        !.control_state = "CLOSED"]
           t == lwftp_control_err(q)
<1>1. r # "INPROGRESS" /\ r \in Results /\ r # None
  BY DEF Results, None
<1>2. v \in Sessions /\ v.control_pcb = NULL /\ v.control_state = "CLOSED" /\ v.done = <<>>
  BY DEF Rested, Sessions, NULL, ControlPcbs, DataPcbs, ControlStates
<1> HIDE DEF r
<1>3. t = Report(v, r)
  BY <1>1 DEF lwftp_control_err, lwftp_control_close, r
<1> HIDE DEF v, t
<1>4. Append(v.done, r) = <<r>> /\ <<r>> \in Seq(Results)
  BY <1>1, <1>2
<1>5. Closed(t) /\ t.done = <<r>>
  BY <1>2, <1>3, <1>4 DEF Report, Closed, Sessions, None
<1> QED BY <1>1, <1>5 DEF t

(* The control connection fails.                                             *)
LEMMA DropKeeps ==
  ASSUME Calm, IInv, faults' = faults, "drop" \in faults, Handler(lwftp_control_err(Quiet(s)), a),
         where' = where, where # "start"
  PROVE  PathInv'
<1> DEFINE t == lwftp_control_err(Quiet(s))
<1>1. Closed(t) /\ \E r : r # "INPROGRESS" /\ t.done = <<r>>
  BY QuietFacts, ErrCloses
<1> HIDE DEF t
<1>2. PICK r : r # "INPROGRESS" /\ t.done = <<r>>
  BY <1>1
<1>3. s'.control_pcb = NULL /\ s'.control_state = "CLOSED" /\ up' = <<>>
  BY <1>1, <1>2, QuietFacts, ClosedHandler DEF t
<1> QED BY <1>3, Gone

(* QUIT is written.                                                          *)
LEMMA CloseGoes ==
  ASSUME IInv, s.control_pcb # NULL, s.control_state # "CLOSED",
         Go([s |-> lwftp_close(Quiet(s)), a |-> a]), want' = want
  PROVE  /\ s'.control_state = "QUIT_SENT" /\ s'.control_pcb # NULL /\ s'.op = s.op /\ a' = a
         /\ OnTarget(up, want) => OnTarget(up', want')
<1> DEFINE t == lwftp_close(Quiet(s))
           w == [s |-> t, a |-> a]
<1>1. /\ t.control_state = "QUIT_SENT" /\ t.control_pcb = s.control_pcb /\ t.op = s.op
      /\ t.sent = <<"QUIT">>
  BY QuietFacts, AdvanceSends DEF lwftp_close, Sent, Lasting
<1> HIDE DEF t
<1>2. w.s = t /\ w.a = a
  OBVIOUS
<1>3. s' = t /\ a' = a /\ (up' = up \o Written(w) \/ up' = up)
  BY <1>1, <1>2 DEF Go, t
<1>4. Written(w) = <<<<"QUIT", Carries("QUIT", a)>>>>
  <2> DEFINE c == "QUIT"
             x == <<c, Carries(c, a)>>
  <2> HIDE DEF c, w
  <2>1. Len(t.sent) = 1 /\ t.sent[1] = c
    BY <1>1 DEF c
  <2>2. Written(w) = [i \in 1..1 |-> x]
    BY <1>2, <2>1 DEF Written, Carries
  <2> HIDE DEF x
  <2>3. [i \in 1..1 |-> x] = <<x>>
    OBVIOUS
  <2> QED BY <2>2, <2>3 DEF x, c
<1>5. ASSUME OnTarget(up, want) PROVE OnTarget(up', want')
  <2> DEFINE x == <<"QUIT", Carries("QUIT", a)>>
  <2>1. PICK D : up \in Seq(Commands \X D)
    BY QuietFacts DEF IsCommands
  <2>2. x[1] \notin FileCommands
    BY DEF FileCommands
  <2> HIDE DEF x
  <2>3. Len(up \o <<x>>) = Len(up) + 1 /\ Len(up) \in Nat
        /\ \A i \in 1..(Len(up) + 1) : (up \o <<x>>)[i] = IF i <= Len(up) THEN up[i] ELSE x
    BY <2>1
  <2>4. up' = up \o <<x>> \/ up' = up
    BY <1>3, <1>4 DEF x
  <2>5. CASE up' = up
    BY <1>5, <2>5
  <2>6. CASE up' = up \o <<x>>
    BY <1>5, <2>2, <2>3, <2>6 DEF OnTarget
  <2> QED BY <2>4, <2>5, <2>6
<1> QED BY <1>1, <1>3, <1>5

-----------------------------------------------------------------------------
(* Clear is pressed while the session lives.                                 *)
LEMMA ClearKeeps ==
  ASSUME Step, KeyClear, PathKept => OnTarget(up, want)
  PROVE  PathInv'
<1>1. /\ where = "main" /\ where' = "quit" /\ want' = want
      /\ Go([s |-> lwftp_close(Quiet(s)), a |-> a])
  BY DEF KeyClear
<1>2. ~Connecting
  BY <1>1 DEF Connecting
<1>3. Working
  BY <1>2, Zenon DEF Step, Living
<1>4. s.control_state # "CLOSED"
  <2>1. (~Listing /\ ~Storing /\ ~Loading) \/ s.control_state # "CLOSED"
    BY StageStates DEF Listing, Storing, Loading, Preparing, Ordered, Denied, Begun, Moving, Moved, Over,
       TransferOps
  <2>2. \/ ~Locating /\ ~Changing /\ ~Removing("DELE") /\ ~Removing("RNFR") /\ ~Resting
        \/ s.control_state # "CLOSED"
    BY DEF Locating, Changing, Removing, SentState, Resting
  <2> QED BY <1>3, <2>1, <2>2 DEF Working
<1>5. /\ s'.control_state = "QUIT_SENT" /\ s'.control_pcb # NULL /\ a' = a
      /\ OnTarget(up, want) => OnTarget(up', want')
  BY <1>1, <1>4, Before, CloseGoes
<1>6. a.done_fn \in {"Stor", "Del", "Move"} => a.path # <<>>
  <2>1. CASE Listing \/ Locating \/ Changing \/ Loading
    BY <2>1 DEF Listing, Locating, Changing, Loading, NULL
  <2>2. CASE Removing("DELE") \/ Removing("RNFR") \/ Storing
    BY <2>2 DEF Removing, Storing, FileOp
  <2>3. CASE Resting
    <3>1. s.op = None
      BY <2>3, Before, SessionFacts DEF Resting
    <3>2. CASE a.busy
      BY <3>1, <3>2, Before DEF Linked, NULL
    <3>3. CASE ~a.busy
      <4>1. PathOK(a.path)
        BY <1>1, <2>3, <3>3 DEF Resting
      <4>2. Len(a.path) >= a.dir + Len(Home) /\ a.dir \in Nat /\ Len(Home) \in Nat \ {0}
        BY <4>1, Before, PlacePaths DEF PathOK, Deep
      <4> QED BY <4>2
    <3> QED BY <3>2, <3>3
  <2> QED BY <1>3, <2>1, <2>2, <2>3 DEF Working
<1>7. ~Alive' /\ Dead'
  BY <1>1, <1>5, <1>6, Before DEF Alive, Dead
<1> QED BY <1>1, <1>5, <1>7, Before, Ends

-----------------------------------------------------------------------------
(* Steps of a session on its way out, or after it.                           *)
Late == /\ HomeBelow /\ Calm /\ IInv /\ IInv' /\ faults' = faults /\ ~Alive /\ where # "start" /\ Dead
        /\ PathKept => OnTarget(up, want)

(* Nothing can be started while QUIT is unanswered.                          *)
LEMMA LateFacts ==
  ASSUME Late
  PROVE  /\ Calm /\ IInv /\ faults' = faults /\ where # "start" /\ (PathKept' <=> PathKept)
         /\ IsApp(a) /\ Linked(s, a) /\ Lib!Good(s) /\ Lib!Good(s') /\ IsApp(a') /\ IsCommands(up)
         /\ \/ s.control_pcb = NULL /\ s.control_state = "CLOSED" /\ up = <<>> /\ Closed(Quiet(s))
            \/ s.control_pcb = "ESTABLISHED" /\ s.control_state = "QUIT_SENT"
         /\ s.control_state = "QUIT_SENT" => ~Idle /\ where # "input"
         /\ where \notin {"quit", "exit"} => ~(faults \subseteq {"clear", "cancel"})
<1>1. /\ Calm /\ IInv /\ IInv' /\ faults' = faults /\ where # "start" /\ ~Alive /\ Dead
  BY DEF Late
<1>2. /\ IsApp(a) /\ Linked(s, a) /\ Lib!Good(s) /\ Lib!Good(s') /\ IsApp(a') /\ IsCommands(up)
      /\ where = "input" => a.ftpStarted /\ ~a.busy
  BY <1>1, Zenon DEF IInv
<1>3. \/ s.control_pcb = NULL /\ s.control_state = "CLOSED"
      \/ s.control_pcb = "ESTABLISHED" /\ s.control_state = "QUIT_SENT"
  BY <1>1, <1>2, SessionFacts DEF Alive, NULL
<1>4. s.control_pcb = NULL => up = <<>> /\ (s.control_state = "CLOSED" => Closed(Quiet(s)))
  BY <1>1, QuietFacts DEF Dead, Closed, Rested
<1>5. s.control_state = "QUIT_SENT" => ~Idle /\ where # "input"
  <2> SUFFICES ASSUME s.control_state = "QUIT_SENT", Idle \/ where = "input" PROVE FALSE
    OBVIOUS
  <2>1. s.op # None
    BY <1>1 DEF Dead, Idle
  <2>2. a.ftpStarted /\ ~a.busy
    BY <1>2 DEF Idle
  <2> QED BY <1>2, <2>1, <2>2 DEF Linked
<1>6. where \notin {"quit", "exit"} => ~(faults \subseteq {"clear", "cancel"})
  BY <1>1 DEF Dead
<1>7. PathKept' <=> PathKept
  BY <1>1 DEF PathKept
<1> QED BY <1>1, <1>2, <1>3, <1>4, <1>5, <1>6, <1>7

(* A key finds the session gone.                                             *)
LEMMA LateUser ==
  ASSUME Late, where \notin {"quit", "exit"}, s'.control_pcb = NULL, up' = <<>>, where' # "start"
  PROVE  PathInv'
<1>1. s'.control_state = "CLOSED"
  BY LateFacts, SessionFacts DEF NULL
<1> QED BY <1>1, LateFacts, Gone

(* A call on a session that has ended leaves it ended.                       *)
LEMMA LateCall ==
  ASSUME Late, s.control_pcb = NULL, NEW b, IsApp(b), NEW u, u = Return(Quiet(s), "ERR_ARGUMENT"),
         NEW w, w.s = Issue([s |-> s, a |-> b], u).s, Go(w)
  PROVE  s'.control_pcb = NULL /\ up' = <<>>
<1>1. Closed(Quiet(s))
  BY LateFacts DEF NULL
<1>2. Shut(Issue([s |-> s, a |-> b], u), Sound(b))
  BY <1>1, ClosedIssue
<1> DEFINE v == Issue([s |-> s, a |-> b], u)
<1>3. Shut(v, Sound(b)) /\ w.s = v.s
  BY <1>2
<1> HIDE DEF v
<1>4. v.s.control_pcb = NULL
  BY <1>3 DEF Shut, Closed
<1> QED BY <1>3, <1>4 DEF Go

(* The keys that start an operation on a file.                               *)
LEMMA LateOperate ==
  ASSUME Late, NEW name, NEW of, NEW fn \in DoneFns, NEW u, u = Return(Quiet(s), "ERR_ARGUMENT"),
         NEW next, next # "start", Operate(name, of, fn, u, next)
  PROVE  PathInv'
<1> DEFINE b == [Push(a, name) EXCEPT !.busy = TRUE, !.done_fn = fn]
           w == Issue([s |-> s, a |-> b], u)
<1>1. Idle /\ Go(w) /\ where' = next
  BY Zenon DEF Operate
<1>2. IsApp(b)
  BY LateFacts DEF Push, IsApp, AppFields
<1>3. s.control_pcb = NULL
  BY <1>1, LateFacts
<1> HIDE DEF b
<1>4. s'.control_pcb = NULL /\ up' = <<>>
  BY <1>1, <1>2, <1>3, LateCall
<1> QED BY <1>1, <1>4, LateUser DEF Idle

(* The keys that upload, delete and download.                                *)
LEMMA LateFiles ==
  ASSUME Late, util_UploadFile \/ util_DeleteFile \/ util_DownloadFile
  PROVE  PathInv'
<1>i. Idle
  <2>1. CASE util_UploadFile
    BY <2>1, Zenon DEF util_UploadFile, Operate
  <2>2. CASE util_DeleteFile
    BY <2>2, Zenon DEF util_DeleteFile, Operate
  <2>3. CASE util_DownloadFile
    BY <2>3, Zenon DEF util_DownloadFile, Operate
  <2> QED BY <2>1, <2>2, <2>3
<1> DEFINE u == Return(Quiet(s), "ERR_ARGUMENT")
<1>u. \A op, pcb : lwftp_transfer(Quiet(s), op, TRUE, pcb) = u /\ lwftp_command(Quiet(s), op, TRUE) = u
  BY <1>i, LateFacts, ClosedRefuses
<1>d. {"Stor", "Del", "Retr"} \subseteq DoneFns
  BY DEF DoneFns
<1> HIDE DEF u
<1>1. \/ Operate("u", "u", "Stor", u, "upload") \/ (\E name, of : Operate(name, of, "Del", u, "main"))
      \/ \E name, of : Operate(name, of, "Retr", u, "download")
  <2>1. CASE util_UploadFile
    BY <1>u, <2>1, Zenon DEF util_UploadFile
  <2>2. CASE util_DeleteFile
    BY <1>u, <2>2, Zenon DEF util_DeleteFile
  <2>3. CASE util_DownloadFile
    BY <1>u, <2>3, Zenon DEF util_DownloadFile
  <2> QED BY <2>1, <2>2, <2>3
<1>2. u = Return(Quiet(s), "ERR_ARGUMENT")
  BY DEF u
<1>3. CASE Operate("u", "u", "Stor", u, "upload")
  BY <1>d, <1>2, <1>3, LateOperate
<1>4. CASE \E name, of : Operate(name, of, "Del", u, "main")
  <2>1. PICK name, of : Operate(name, of, "Del", u, "main")
    BY <1>4
  <2> QED BY <1>d, <1>2, <2>1, LateOperate
<1>5. CASE \E name, of : Operate(name, of, "Retr", u, "download")
  <2>1. PICK name, of : Operate(name, of, "Retr", u, "download")
    BY <1>5
  <2> QED BY <1>d, <1>2, <2>1, LateOperate
<1> QED BY <1>1, <1>3, <1>4, <1>5

(* The keys that change the directory, and a new name.                       *)
LEMMA LateChange ==
  ASSUME Late, Idle, NEW b, IsApp(b), NEW dir, util_ChangeDir(b, dir)
  PROVE  PathInv'
<1> DEFINE c == [b EXCEPT !.busy = TRUE, !.done_fn = "Cwd"]
           u == Return(Quiet(s), "ERR_ARGUMENT")
           v == Issue([s |-> s, a |-> c], u)
           w == [v EXCEPT !.a.dir = dir]
<1>1. lwftp_command(Quiet(s), "CWD", TRUE) = u
  BY LateFacts, ClosedRefuses
<1>2. IsApp(c)
  BY DEF IsApp, AppFields, DoneFns
<1>3. Go(w) /\ where' = where
  <2> HIDE DEF u
  <2> QED BY <1>1, Zenon DEF util_ChangeDir
<1>4. s.control_pcb = NULL /\ Closed(Quiet(s))
  BY LateFacts
<1>5. w.s = v.s
  <2>1. Shut(v, Sound(c))
    BY <1>2, <1>4, ClosedIssue
  <2> HIDE DEF v
  <2>2. PICK x, y : v = [s |-> x, a |-> y]
    BY <2>1, Zenon DEF Shut
  <2> QED BY <2>2
<1> HIDE DEF w, c
<1>6. s'.control_pcb = NULL /\ up' = <<>>
  BY <1>2, <1>3, <1>4, <1>5, LateCall
<1> QED BY <1>3, <1>6, LateUser, LateFacts DEF Idle

(* The keys that open a directory and go back.                               *)
LEMMA LateDirs ==
  ASSUME Late, Key2nd \/ KeyYequ
  PROVE  PathInv'
<1>1. Idle
  BY DEF Key2nd, KeyYequ
<1>2. IsApp(Pop(a)) /\ \A name : IsApp(Push(a, name))
  BY LateFacts, PopApp, PushApp
<1>3. \E b, dir : IsApp(b) /\ util_ChangeDir(b, dir)
  BY <1>2, Zenon DEF Key2nd, KeyYequ
<1> QED BY <1>1, <1>3, LateChange

(* Renaming.                                                                 *)
LEMMA LateInput ==
  ASSUME Late, InputDone \/ InputEmpty \/ util_MoveFile
  PROVE  PathInv'
<1>1. s.control_pcb = NULL /\ Closed(Quiet(s)) /\ up = <<>> /\ where \notin {"quit", "exit"} /\ where' # "start"
  BY LateFacts DEF InputDone, InputEmpty, util_MoveFile, Idle
<1>2. CASE InputEmpty \/ util_MoveFile
  <2>1. s' = s /\ up' = up
    BY <1>2 DEF InputEmpty, util_MoveFile
  <2> QED BY <1>1, <2>1, LateUser
<1>3. CASE InputDone
  <2> DEFINE b == [a EXCEPT !.busy = TRUE, !.done_fn = "Move"]
             u == Return(Quiet(s), "ERR_ARGUMENT")
             w == Issue([s |-> s, a |-> b], u)
  <2>1. lwftp_command(Quiet(s), "RNFR", TRUE) = u
    BY <1>1, ClosedRefuses
  <2>2. IsApp(b)
    BY LateFacts DEF IsApp, AppFields, DoneFns
  <2>3. Go(w)
    <3> HIDE DEF u
    <3> QED BY <1>3, <2>1, Zenon DEF InputDone
  <2> HIDE DEF b
  <2>4. s'.control_pcb = NULL /\ up' = <<>>
    BY <1>1, <2>2, <2>3, LateCall
  <2> QED BY <1>1, <2>4, LateUser
<1> QED BY <1>2, <1>3

-----------------------------------------------------------------------------

(* Clear is pressed when the session has ended or is being closed.           *)
LEMMA LateClear ==
  ASSUME Late, KeyClear
  PROVE  PathInv'
<1>1. /\ where = "main" /\ where' = "quit" /\ want' = want
      /\ Go([s |-> lwftp_close(Quiet(s)), a |-> a])
  BY DEF KeyClear
<1>2. where' # "start" /\ where \notin {"quit", "exit"} /\ ~(faults \subseteq {"clear", "cancel"})
  BY <1>1, LateFacts
<1>3. CASE s.control_pcb = NULL
  <2>1. Closed(Quiet(s))
    BY <1>3, LateFacts DEF NULL
  <2>2. lwftp_close(Quiet(s)) = Quiet(s)
    BY <2>1, ClosedRefuses
  <2>3. Go([s |-> Quiet(s), a |-> a])
    BY <1>1, <2>2, Zenon
  <2>4. s' = Quiet(s) /\ (Quiet(s).control_pcb = NULL => up' = <<>>)
    BY <2>3, GoOn
  <2> QED BY <1>2, <2>1, <2>4, LateUser DEF Closed
<1>4. CASE s.control_pcb # NULL
  <2>1. s.control_state # "CLOSED"
    BY <1>4, LateFacts
  <2>2. /\ s'.control_state = "QUIT_SENT" /\ s'.control_pcb # NULL
        /\ OnTarget(up, want) => OnTarget(up', want')
    BY <1>1, <1>4, <2>1, LateFacts, CloseGoes
  <2>3. ~Alive' /\ Dead'
    BY <1>1, <1>2, <2>2, LateFacts DEF Alive, Dead
  <2>4. PathKept => OnTarget(up', want')
    BY <2>2 DEF Late
  <2> QED BY <1>2, <2>3, <2>4, LateFacts, Ends
<1> QED BY <1>3, <1>4

(* The loops of main() end.                                                  *)
LEMMA LateMain ==
  ASSUME Late, LoginOver \/ UploadOver \/ DownloadOver \/ Exit
  PROVE  PathInv'
<1>1. /\ s' = s /\ up' = up /\ want' = want /\ where' # "start"
      /\ where' \in {"quit", "exit"} \/ where \notin {"quit", "exit"}
      /\ where \in {"quit", "exit"} => a' = a /\ where' \in {"quit", "exit"}
  BY DEF LoginOver, UploadOver, DownloadOver, Exit
<1>2. ~Alive' /\ Dead'
  BY <1>1 DEF Late, Alive, Dead
<1>3. PathKept => OnTarget(up', want')
  BY <1>1 DEF Late
<1> QED BY <1>1, <1>2, <1>3, LateFacts, Ends

(* The server goes on.                                                       *)
LEMMA LateServer ==
  ASSUME Late, ServerCommand \/ ServerDone
  PROVE  PathInv'
<1>1. s' = s /\ a' = a /\ where' = where /\ want' = want /\ s.control_pcb # NULL
  BY DEF ServerCommand, ServerDone, NULL
<1>2. ASSUME PathKept PROVE OnTarget(up', want')
  <2>1. OnTarget(up, want)
    BY <1>2 DEF Late
  <2>2. CASE ServerDone
    BY <1>1, <2>1, <2>2 DEF ServerDone
  <2>3. CASE ServerCommand
    <3>1. up' = Tail(up) /\ up # <<>>
      BY <2>3 DEF ServerCommand
    <3>2. PICK D : up \in Seq(Commands \X D)
      BY LateFacts DEF IsCommands
    <3>3. /\ Len(up) \in Nat \ {0} /\ Len(Tail(up)) = Len(up) - 1
          /\ \A i \in 1..(Len(up) - 1) : Tail(up)[i] = up[i + 1]
      BY <3>1, <3>2
    <3> HIDE DEF IsCommands
    <3>4. \A i \in 1..Len(Tail(up)) : i + 1 \in 1..Len(up) /\ Tail(up)[i] = up[i + 1]
      BY <3>3
    <3> QED BY <1>1, <2>1, <3>1, <3>4 DEF OnTarget
  <2> QED BY <2>2, <2>3
<1>3. ~Alive' /\ Dead'
  BY <1>1 DEF Late, Alive, Dead
<1> QED BY <1>1, <1>2, <1>3, LateFacts, Ends

(* The reply to QUIT, or what comes before it.                               *)
LEMMA LateReply ==
  ASSUME Late, ControlReply
  PROVE  PathInv'
<1> DEFINE r == Head(down)[1]
           t == lwftp_control_process(Quiet(s), r, TRUE, TRUE)
<1>1. s.control_pcb = "ESTABLISHED" /\ s.control_state = "QUIT_SENT" /\ down # <<>> /\ where' = where
  BY LateFacts DEF ControlReply, NULL
<1>2. Handler(t, a)
  <2>1. "data" \notin faults
    BY LateFacts, CalmFacts
  <2>2. s.control_state # "PWD_SENT"
    BY <1>1
  <2> HIDE DEF t
  <2> QED BY <2>1, <2>2 DEF ControlReply, t
<1>3. r \in Codes /\ r # 0
  <2>1. r \in Codes
    BY <1>1, LateFacts, NextReply DEF IInv
  <2> HIDE DEF r
  <2> QED BY <2>1 DEF Codes
<1>4. /\ t.control_state = "CLOSED" /\ t.control_pcb = NULL /\ t.done = <<ResultOf("QUIT_SENT", r)>>
  <2>1. Rested(Quiet(s)) /\ Quiet(s).control_state = "QUIT_SENT"
    BY <1>1, LateFacts, QuietFacts
  <2> HIDE DEF r
  <2> QED BY <1>3, <2>1, ProcessCloses, Zenon
<1>5. t \in Sessions
  <2>1. Lib!Good(Quiet(s)) /\ Quiet(s).done = <<>> /\ Quiet(s).control_pcb = "ESTABLISHED"
    BY <1>1, LateFacts, IInvParts
  <2>2. Shape(Quiet(s), t)
    <3>0. TRUE \in BOOLEAN
      OBVIOUS
    <3> HIDE DEF r
    <3> QED BY <1>3, <2>1, <3>0, ProcessShape, Zenon
  <2> QED BY <2>2, Zenon DEF Shape
<1>6. ResultOf("QUIT_SENT", r) # "INPROGRESS"
  BY DEF ResultOf
<1> HIDE DEF t, r
<1>7. Closed(t)
  BY <1>4, <1>5 DEF Closed
<1>8. /\ s'.control_pcb = NULL /\ s'.control_state = "CLOSED" /\ up' = <<>>
      /\ Sound(a) => a'.wild = FALSE
  <2> DEFINE res == ResultOf("QUIT_SENT", r)
  <2>1. res # "INPROGRESS" /\ t.done = <<res>>
    BY <1>4, <1>6
  <2> HIDE DEF res
  <2> QED BY <1>2, <1>7, <2>1, LateFacts, ClosedHandler
<1>9. faults \subseteq {"clear", "cancel"} => where' \in {"quit", "exit"} /\ a'.wild = FALSE
  BY <1>1, <1>8 DEF Late, Dead, Sound
<1> QED BY <1>1, <1>8, <1>9, LateFacts, Gone

(* Every other callback of the connections.                                  *)
LEMMA LateNetwork ==
  ASSUME Late, Network
  PROVE  PathInv'
<1>1. ~ControlConnected
  BY LateFacts DEF ControlConnected, NULL
<1>2. ~DataTransfer
  BY LateFacts, CalmFacts DEF DataTransfer, Late
<1>3. ~DataErr
  BY LateFacts, CalmFacts DEF DataErr
<1>4. CASE ControlDrop
  BY <1>4, LateFacts, DropKeeps DEF ControlDrop
<1>5. CASE ControlReply
  BY <1>5, LateReply
<1> QED BY <1>1, <1>2, <1>3, <1>4, <1>5 DEF Network

-----------------------------------------------------------------------------
(* The steps of a session that lives.                                        *)
LEMMA LivingSteps ==
  ASSUME Step, PathKept => OnTarget(up, want), User \/ Main \/ Network \/ Server
  PROVE  PathInv'
<1>1. CASE User
  BY <1>1, DownKeeps, BackKeeps, UploadKeeps, DeleteKeeps, DownloadKeeps, MoveKeeps, InputKeeps,
     EmptyKeeps, ClearKeeps DEF User
<1>2. CASE Main
  <2>1. ~Connect /\ ~Exit
    BY StillHere DEF Connect, Exit
  <2> QED BY <1>2, <2>1, LoginKeeps, UploadOverKeeps, DownloadOverKeeps DEF Main
<1>3. CASE Network
  <2>1. CASE ControlConnected
    <3>1. /\ s.control_pcb = "SYN_SENT" /\ where' = where /\ srv' = srv /\ want' = want
          /\ \/ Handler(lwftp_control_connected(Quiet(s)), a) /\ down' = down
             \/ "drop" \in faults /\ Handler(lwftp_control_err(Quiet(s)), a)
      BY <2>1 DEF ControlConnected
    <3> QED BY <3>1, OpenKeeps, DropKeeps, Before, NotStart
  <2>2. CASE ControlReply
    BY <2>2, ReplyKeeps
  <2>3. CASE ControlDrop
    BY <2>3, DropKeeps, Before, NotStart DEF ControlDrop
  <2>4. CASE DataTransfer
    BY <2>4, DataKeeps
  <2>5. ~DataErr
    BY Before, CalmFacts DEF DataErr
  <2> QED BY <1>3, <2>1, <2>2, <2>3, <2>4, <2>5 DEF Network
<1>4. CASE Server
  BY <1>4, CommandKeeps, DoneKeeps DEF Server
<1> QED BY <1>1, <1>2, <1>3, <1>4

(* The steps of one that does not.                                           *)
LEMMA LateSteps ==
  ASSUME Late, User \/ Main \/ Network \/ Server
  PROVE  PathInv'
<1>1. CASE User
  BY <1>1, LateDirs, LateFiles, LateInput, LateClear DEF User
<1>2. CASE Main
  <2>1. ~Connect
    BY LateFacts DEF Connect
  <2> QED BY <1>2, <2>1, LateMain DEF Main
<1>3. CASE Network
  BY <1>3, LateNetwork
<1>4. CASE Server
  BY <1>4, LateServer DEF Server
<1> QED BY <1>1, <1>2, <1>3, <1>4

(* Before it there is only the connecting.                                   *)
LEMMA OnlyConnect ==
  ASSUME IInv, where = "start", User \/ Main \/ Network \/ Server
  PROVE  Connect
<1>1. s.control_pcb = NULL
  BY DEF IInv, FreshSession
<1>2. ~User
  BY DEF User, Key2nd, KeyYequ, util_UploadFile, util_DeleteFile, util_DownloadFile, util_MoveFile, InputDone,
     InputEmpty, KeyClear, Operate, Idle
<1>3. ~Network
  BY DEF Network, ControlConnected, ControlReply, ControlDrop, DataTransfer, DataErr, Served
<1>4. ~Server
  BY <1>1 DEF Server, ServerCommand, ServerDone, NULL
<1> QED BY <1>2, <1>3, <1>4 DEF Main, LoginOver, UploadOver, DownloadOver, Exit

-----------------------------------------------------------------------------

(* The parts of the invariant in a calm behaviour.                           *)
LEMMA PathInvParts ==
  ASSUME Calm, PathInv
  PROVE  /\ PathKept => OnTarget(up, want)
         /\ Alive => Living
         /\ ~Alive /\ where # "start" => Dead
BY Zenon DEF PathInv

(* Every step keeps the invariant.                                           *)
LEMMA PathStepwise ==
  ASSUME HomeBelow, IInv, IInv', PathInv, Next
  PROVE  PathInv'
<1>1. faults' = faults /\ (User \/ Main \/ Network \/ Server)
  BY DEF Next
<1>2. CASE ~Calm
  <2>1. ~Calm'
    BY <1>1, <1>2 DEF Calm
  <2> QED BY <2>1 DEF PathInv
<1>3. CASE Calm /\ Alive
  <2>1. Step /\ (PathKept => OnTarget(up, want))
    BY <1>1, <1>3, PathInvParts DEF Step
  <2> QED BY <1>1, <2>1, LivingSteps
<1>4. CASE Calm /\ ~Alive /\ where # "start"
  <2>1. Late
    BY <1>1, <1>4, PathInvParts DEF Late
  <2> QED BY <1>1, <2>1, LateSteps
<1>5. CASE Calm /\ where = "start"
  BY <1>1, <1>5, OnlyConnect, ConnectKeeps
<1> QED BY <1>2, <1>3, <1>4, <1>5

(* A step that changes nothing keeps it.                                     *)
LEMMA PathStutters ==
  ASSUME PathInv, UNCHANGED vars
  PROVE  PathInv'
<1>1. /\ faults' = faults /\ s' = s /\ a' = a /\ where' = where /\ up' = up /\ down' = down /\ srv' = srv
      /\ want' = want
  BY DEF vars, state
<1>2. /\ Calm' = Calm /\ PathKept' = PathKept /\ OnTarget(up, want)' = OnTarget(up, want) /\ Silent' = Silent
      /\ SrvOK' = SrvOK /\ Alive' = Alive /\ Dead' = Dead /\ Current' = Current /\ FileOp' = FileOp
  BY <1>1 DEF Calm, PathKept, OnTarget, Silent, SrvOK, Alive, Dead, Current, FileOp, PathOK, Deep
<1>3. \A op : /\ Preparing(op) = Preparing(op)'
              /\ Ordered(op) = Ordered(op)'
              /\ Denied(op) = Denied(op)'
              /\ Begun(op) = Begun(op)'
              /\ Moving(op) = Moving(op)'
              /\ Moved(op) = Moved(op)'
              /\ Over(op) = Over(op)'
  BY <1>1 DEF Preparing, Prepares, Ordered, Denied, Begun, Moving, Moved, Over, Asked, Answered
<1>4. Connecting' = Connecting /\ Locating' = Locating /\ Changing' = Changing
  BY <1>1 DEF Connecting, Prepares, Locating, Changing, Asked, Answered, Deep, Current, PathKept
<1>5. Listing' = Listing /\ Storing' = Storing /\ Loading' = Loading
  BY <1>1, <1>2, <1>3 DEF Listing, Storing, Loading, Deep
<1>6. Removing("DELE")' = Removing("DELE") /\ Removing("RNFR")' = Removing("RNFR")
  BY <1>1, <1>2 DEF Removing, Asked, Answered
<1>7. Resting' = Resting
  BY <1>1, <1>2 DEF Resting, PathOK, Deep
<1>8. Living' = Living
  BY <1>1, <1>2, <1>4, <1>5, <1>6, <1>7 DEF Living, Working
<1> QED BY <1>1, <1>2, <1>8 DEF PathInv

(* It holds at the start.                                                    *)
LEMMA PathInitially ==
  ASSUME HomeBelow, Init
  PROVE  PathInv
<1> SUFFICES ASSUME Calm PROVE PathInv
  BY Zenon DEF PathInv
<1>1. /\ s = FreshSession /\ where = "start" /\ up = <<>> /\ down = <<>>
      /\ srv = [cwd |-> Home, files |-> {Append(Home, "f"), Home \o <<"d", "f">>} \cup {},
                doing |-> None, path |-> <<>>, moved |-> FALSE]
  BY CalmFacts, Zenon DEF Init
<1>2. /\ DOMAIN srv = {"cwd", "files", "doing", "path", "moved"} /\ srv.cwd = Home /\ srv.doing = None
      /\ srv.files = {Append(Home, "f"), Home \o <<"d", "f">>}
  BY <1>1
<1>3. srv.files \subseteq Files
  <2>1. Home \o <<"d", "f">> = Append(Append(Home, "d"), "f")
    BY AppAssumption
  <2>2. \A d \in Places : Append(d, "f") \in Files
    BY DEF Files, FileNames
  <2>3. Home \in Places /\ Append(Home, "d") \in Places
    BY DEF Places
  <2> QED BY <1>2, <2>1, <2>2, <2>3
<1>4. SrvOK /\ Silent /\ ~Alive
  BY <1>1, <1>2, <1>3, PlacePaths DEF SrvOK, Silent, Alive, FreshSession
<1> QED BY <1>1, <1>2, <1>4, FewTargets DEF PathInv

(* The conversation of program and server is always in one of its stages,    *)
(* with what each stage says of app.path, the listing and the server, in     *)
(* every behaviour without rejected commands, failing data connections and   *)
(* lack of memory, when the login leads below the root.                      *)
THEOREM PathInvAlways == ASSUME HomeBelow PROVE Spec => []PathInv
<1>1. Init => PathInv
  BY PathInitially
<1>2. IInv /\ IInv' /\ PathInv /\ [Next]_vars => PathInv'
  BY PathStepwise, PathStutters
<1> QED BY <1>1, <1>2, IInvAlways, PTL DEF Spec

(* What it says of the path, of the commands and of the cuts.                *)
LEMMA PathImplies ==
  ASSUME HomeBelow, IInv, PathInv
  PROVE  /\ PathInSync /\ TargetsSelected
         /\ faults \subseteq {"clear", "cancel"} => ~a.wild
<1>1. PathInSync
  <2> SUFFICES ASSUME PathKept, Ready
               PROVE  /\ a.path # <<>> /\ Resolve(a.path) = srv.cwd /\ a.shown = srv.cwd
                      /\ a.dir = Len(srv.cwd) - Len(Home)
    BY DEF PathInSync
  <2>1. Calm /\ Idle /\ s.control_state = "LOGGED"
    BY DEF PathKept, Calm, Ready
  <2>2. Alive
    BY <2>1, QuietFacts, SessionFacts DEF Alive, NULL
  <2>3. Living
    BY <2>1, <2>2, PathInvParts
  <2>4. Resting
    <3>1. ~Connecting /\ ~Locating /\ ~Changing /\ ~Removing("DELE") /\ ~Removing("RNFR")
      BY <2>1 DEF Connecting, LoginStates, Locating, Changing, Removing, SentState
    <3>2. ~Listing /\ ~Storing /\ ~Loading
      BY <2>1, StageStates DEF Listing, Storing, Loading, Preparing, Ordered, Denied, Begun, Moving, Moved,
         Over, TransferOps, TransferStates
    <3> QED BY <2>3, <3>1, <3>2 DEF Living, Working
  <2>5. Current /\ PathOK(a.path)
    BY <2>1, <2>4 DEF Resting, Idle
  <2>6. a.path = srv.cwd /\ a.shown = srv.cwd /\ Len(a.path) = a.dir + Len(Home) /\ a.dir \in Nat
    BY <2>3, <2>5 DEF PathOK, Deep, Current, Living
  <2>7. srv.cwd # <<>> /\ Resolve(srv.cwd) = srv.cwd /\ Len(Home) \in Nat
    BY <2>3, ServerPlace, PlacePaths DEF Living
  <2> QED BY <2>6, <2>7
<1>2. TargetsSelected
  <2> SUFFICES ASSUME PathKept, NEW i \in 1..Len(up), up[i][1] \in {"RETR", "STOR", "DELE", "RNFR"}
               PROVE  Resolve(up[i][2]) = want
    BY DEF TargetsSelected, SelectedFile
  <2>1. OnTarget(up, want)
    BY PathInvParts DEF Calm, PathKept
  <2>2. up[i][2] = want /\ want \in Clean
    BY <2>1 DEF OnTarget, FileCommands
  <2>3. Resolve(want) = want
    BY <2>2, CleanResolves
  <2> QED BY <2>2, <2>3
<1>3. ASSUME faults \subseteq {"clear", "cancel"} PROVE ~a.wild
  <2>1. Calm
    BY <1>3 DEF Calm
  <2>2. CASE Alive
    BY <2>1, <2>2, PathInvParts DEF Living
  <2>3. CASE ~Alive /\ where # "start"
    BY <1>3, <2>1, <2>3, PathInvParts DEF Dead
  <2>4. CASE where = "start"
    BY <2>4, FreshFacts DEF IInv
  <2> QED BY <2>2, <2>3, <2>4
<1> QED BY <1>1, <1>2, <1>3

(* When the main loop accepts keys, app.path and the listing shown are of    *)
(* the server's working directory and app.dir is its depth below the one of  *)
(* the login, for every login directory below the root and any number of     *)
(* operations.                                                               *)
THEOREM PathAlwaysInSync == ASSUME HomeBelow PROVE Spec => []PathInSync
<1>1. IInv /\ PathInv => PathInSync
  BY PathImplies
<1> QED BY <1>1, IInvAlways, PathInvAlways, PTL

(* Every RETR, STOR, DELE and RNFR under way names the file the user         *)
(* selected in the listing that was shown, though remote_path points to      *)
(* app.path and the command is written several replies later: as long as no  *)
(* operation before failed half-way, and for names that the listing keeps    *)
(* whole (at most 8 characters and no '.' before the extension).             *)
THEOREM TargetsAlwaysSelected == ASSUME HomeBelow PROVE Spec => []TargetsSelected
<1>1. IInv /\ PathInv => TargetsSelected
  BY PathImplies
<1> QED BY <1>1, IInvAlways, PathInvAlways, PTL

-----------------------------------------------------------------------------
(* The types of the application's fields, whatever goes wrong.               *)
AppTypes(b) == IsApp(b) /\ b.ftpResult \in Results /\ b.dir \in Nat /\ b.wild \in BOOLEAN
TypedWorld(w) == \E u, c : w = [s |-> u, a |-> c] /\ AppTypes(c)

(* The types of a world are those of the state it becomes.                   *)
LEMMA TypedGo ==
  ASSUME NEW w, TypedWorld(w), Go(w)
  PROVE  AppTypes(a')
BY DEF TypedWorld, Go

(* Adding a name to the path and cutting one off keep the types.             *)
LEMMA TypedPath ==
  ASSUME NEW b, AppTypes(b), NEW name
  PROVE  AppTypes(Pop(b)) /\ AppTypes(Push(b, name))
BY DEF AppTypes, IsApp, AppFields, Pop, Push

(* An API function reports one of its results.                               *)
LEMMA StartResults ==
  ASSUME NEW t \in Sessions, NEW x \in Ops, NEW u, Starts(t, x, u)
  PROVE  Last(u.done) \in Results
<1>1. ASSUME NEW v, NEW y, v.done \in Seq(Results), DOMAIN v = DOMAIN t, y \in Results
      PROVE  Last(Return(v, y).done) \in Results
  <2>1. Last(Append(v.done, y)) = y
    BY <1>1 DEF Last
  <2> QED BY <1>1, <2>1 DEF Return, Sessions
<1>2. CASE u = Return(t, "ERR_ARGUMENT") \/ u = Return(t, "ERR_MEMORY")
  BY <1>1, <1>2 DEF Sessions, Results
<1>3. ASSUME t.control_state = "LOGGED", u = Return(lwftp_start([t EXCEPT !.data_pcb = "CLOSED"], x), "INPROGRESS")
      PROVE  Last(u.done) \in Results
  <2> DEFINE v == lwftp_start([t EXCEPT !.data_pcb = "CLOSED"], x)
  <2>1. v.done = t.done /\ DOMAIN v = DOMAIN t
    BY <1>3 DEF lwftp_start, lwftp_send_msg, Sessions
  <2> HIDE DEF v
  <2>2. u = Return(v, "INPROGRESS")
    BY <1>3 DEF v
  <2> QED BY <1>1, <2>1, <2>2 DEF Sessions, Results
<1>4. ASSUME t.control_state = "LOGGED", u = Return(lwftp_send(t, x), "INPROGRESS")
      PROVE  Last(u.done) \in Results
  <2> DEFINE v == lwftp_send(t, x)
  <2>1. v.done = t.done /\ DOMAIN v = DOMAIN t
    BY <1>4 DEF lwftp_send, lwftp_send_msg, Sessions
  <2> HIDE DEF v
  <2>2. u = Return(v, "INPROGRESS")
    BY <1>4 DEF v
  <2> QED BY <1>1, <2>1, <2>2 DEF Sessions, Results
<1> QED BY <1>2, <1>3, <1>4 DEF Starts, lwftp_transfer, lwftp_command

(* The failure branch of the callbacks.                                      *)
LEMMA TypedFail ==
  ASSUME NEW t, NEW b, AppTypes(b), NEW r \in Results
  PROVE  TypedWorld(Fail([s |-> t, a |-> b], r))
<1> DEFINE d == IF b.done_fn = "Stor" THEN Pop(b) ELSE b
           v == [s |-> t, a |-> b]
           c == [d EXCEPT !.ftpResult = r, !.busy = FALSE]
           u == IF b.done_fn = "Connect" THEN lwftp_close(t) ELSE t
<1>1. AppTypes(d)
  BY TypedPath
<1>2. v.s = t /\ v.a = b
  OBVIOUS
<1>3. Fail(v, r) = [s |-> u, a |-> c]
  <2> HIDE DEF v
  <2> QED BY <1>2 DEF Fail
<1> HIDE DEF d
<1>4. AppTypes(c)
  BY <1>1 DEF AppTypes, IsApp, AppFields
<1> HIDE DEF c, v, u
<1> QED BY <1>3, <1>4, Zenon DEF v, TypedWorld

(* A call and its return value.                                              *)
LEMMA TypedIssue ==
  ASSUME NEW v, NEW b, AppTypes(b), NEW u, Last(u.done) \in Results
  PROVE  TypedWorld(Issue([s |-> v, a |-> b], u))
<1> DEFINE z == [s |-> v, a |-> b]
<1>1. [z EXCEPT !.s = u] = [s |-> u, a |-> b]
  OBVIOUS
<1> HIDE DEF z
<1>2. \/ Issue(z, u) = [s |-> u, a |-> b]
      \/ Issue(z, u) = Fail([s |-> u, a |-> b], Last(u.done))
  BY <1>1, Zenon DEF Issue
<1>3. TypedWorld(Fail([s |-> u, a |-> b], Last(u.done)))
  BY TypedFail
<1>4. TypedWorld([s |-> u, a |-> b])
  BY Zenon DEF TypedWorld
<1> QED BY <1>2, <1>3, <1>4, Zenon DEF z

(* util_GetRemoteFiles and util_GetDir.                                      *)
LEMMA TypedGets ==
  ASSUME NEW t \in Sessions, NEW b, AppTypes(b), NEW pcb \in BOOLEAN
  PROVE  /\ TypedWorld(util_GetRemoteFiles([s |-> t, a |-> b], pcb))
         /\ TypedWorld(util_GetDir([s |-> t, a |-> b]))
<1> DEFINE w == [s |-> t, a |-> b]
           c == [b EXCEPT !.busy = TRUE, !.done_fn = "List", !.list = {}]
           d == [b EXCEPT !.busy = TRUE, !.done_fn = "Pwd", !.path = <<>>]
           u == lwftp_transfer(t, "MLSD", TRUE, pcb)
           v == lwftp_command(t, "PWD", TRUE)
<1>w. w.s = t /\ w.a = b /\ \A x : [w EXCEPT !.a = x] = [s |-> t, a |-> x]
  BY WorldApp
<1>1. util_GetRemoteFiles(w, pcb) = Issue([s |-> t, a |-> c], u)
  <2> HIDE DEF w, u, c
  <2> QED BY <1>w, Zenon DEF util_GetRemoteFiles, c, u
<1>2. util_GetDir(w) = Issue([s |-> t, a |-> d], v)
  <2> HIDE DEF w, v, d
  <2> QED BY <1>w, Zenon DEF util_GetDir, d, v
<1>3. AppTypes(c) /\ AppTypes(d)
  BY DEF AppTypes, IsApp, AppFields, DoneFns
<1>4. {"MLSD", "PWD"} \subseteq Ops /\ "MLSD" \in TransferOps /\ "PWD" \in CommandOps
  BY DEF Ops, TransferOps, CommandOps
<1>5. Starts(t, "MLSD", u) /\ Starts(t, "PWD", v)
  BY <1>4, Zenon DEF Starts
<1> HIDE DEF w, c, d, u, v
<1>6. Last(u.done) \in Results /\ Last(v.done) \in Results
  BY <1>4, <1>5, StartResults
<1>7. TypedWorld(Issue([s |-> t, a |-> c], u)) /\ TypedWorld(Issue([s |-> t, a |-> d], v))
  BY <1>3, <1>6, TypedIssue
<1>8. TypedWorld(util_GetRemoteFiles(w, pcb)) /\ TypedWorld(util_GetDir(w))
  BY <1>1, <1>2, <1>7, Zenon
<1> QED BY <1>8 DEF w

(* The callbacks.                                                            *)
LEMMA TypedCallback ==
  ASSUME NEW t \in Sessions, NEW b, AppTypes(b), NEW r \in Results, r # "INPROGRESS", NEW pcb \in BOOLEAN
  PROVE  TypedWorld(Callback([s |-> t, a |-> b], r, pcb))
<1> DEFINE w == [s |-> t, a |-> b]
           z == Callback(w, r, pcb)
           e == [b EXCEPT !.ftpStarted = TRUE]
           f == [b EXCEPT !.busy = FALSE]
<1>0. \/ z = w \/ z = Fail(w, r) \/ z = [s |-> t, a |-> f]
      \/ z = util_GetDir(w) \/ z = util_GetRemoteFiles(w, pcb)
      \/ z = util_GetRemoteFiles([s |-> t, a |-> e], pcb)
      \/ z = util_GetRemoteFiles([s |-> t, a |-> Pop(b)], pcb)
  BY AnyCallback DEF AppTypes, IsApp
<1>1. AppTypes(e) /\ AppTypes(f) /\ AppTypes(Pop(b))
  BY TypedPath DEF AppTypes, IsApp, AppFields
<1> HIDE DEF e, f
<1>2. TypedWorld(Fail(w, r))
  BY TypedFail
<1>3. TypedWorld(w) /\ TypedWorld([s |-> t, a |-> f])
  BY <1>1, Zenon DEF TypedWorld
<1>4. /\ TypedWorld(util_GetDir(w)) /\ TypedWorld(util_GetRemoteFiles(w, pcb))
      /\ TypedWorld(util_GetRemoteFiles([s |-> t, a |-> e], pcb))
      /\ TypedWorld(util_GetRemoteFiles([s |-> t, a |-> Pop(b)], pcb))
  BY <1>1, TypedGets
<1> HIDE DEF w, z
<1>5. TypedWorld(z)
  BY <1>0, <1>2, <1>3, <1>4, Zenon
<1> QED BY <1>5 DEF w, z

(* A handler of lwftp.c and its callback.                                    *)
LEMMA TypedHandler ==
  ASSUME NEW q, NEW t, Shape(q, t), NEW b, AppTypes(b), Handler(t, b)
  PROVE  AppTypes(a')
<1>1. t \in Sessions /\ t.done \in Seq(Results) /\ (t.done # <<>> => Last(t.done) # "INPROGRESS")
  BY DEF Shape, Sessions
<1>2. CASE t.done = <<>>
  <2>1. Go([s |-> t, a |-> b])
    BY <1>2, Zenon DEF Handler
  <2> QED BY <2>1, GoOn
<1>3. CASE t.done # <<>>
  <2>1. Last(t.done) \in Results /\ Last(t.done) # "INPROGRESS"
    BY <1>1, <1>3 DEF Last
  <2>2. PICK pcb \in Memory : Go(Callback([s |-> t, a |-> b], Last(t.done), pcb))
    BY <1>3, Zenon DEF Handler
  <2>3. TypedWorld(Callback([s |-> t, a |-> b], Last(t.done), pcb))
    BY <1>1, <2>1, MemoryBoolean, TypedCallback
  <2> QED BY <2>2, <2>3, TypedGo
<1> QED BY <1>2, <1>3

(* An operation on a file.                                                   *)
LEMMA TypedOperate ==
  ASSUME IInv, AppTypes(a), NEW name, NEW of, NEW fn \in DoneFns, NEW x \in Ops, NEW u,
         Starts(Quiet(s), x, u), NEW next, Operate(name, of, fn, u, next)
  PROVE  AppTypes(a') /\ where' = next /\ n < MaxOps /\ n' = n + 1
<1> DEFINE b == [Push(a, name) EXCEPT !.busy = TRUE, !.done_fn = fn]
<1>1. Go(Issue([s |-> s, a |-> b], u)) /\ where' = next /\ n < MaxOps /\ n' = n + 1
  BY Zenon DEF Operate
<1>2. AppTypes(b)
  <2>1. AppTypes(Push(a, name))
    BY TypedPath
  <2> QED BY <2>1 DEF AppTypes, IsApp, AppFields
<1>3. Last(u.done) \in Results
  BY IInvParts, StartResults
<1> HIDE DEF b
<1>4. TypedWorld(Issue([s |-> s, a |-> b], u))
  BY <1>2, <1>3, TypedIssue
<1> QED BY <1>1, <1>4, TypedGo

-----------------------------------------------------------------------------
MainPlaces == {"start", "login", "main", "upload", "download", "input", "quit", "exit"}
TInv == AppTypes(a) /\ where \in MainPlaces /\ n \in 0..MaxOps

(* The bound on the operations.                                              *)
LEMMA Counted ==
  ASSUME n \in 0..MaxOps, n < MaxOps, n' = n + 1
  PROVE  n' \in 0..MaxOps
BY AppAssumption

(* The keys that start an operation on a file.                               *)
LEMMA TypedFiles ==
  ASSUME IInv, TInv, util_UploadFile \/ util_DeleteFile \/ util_DownloadFile
  PROVE  TInv'
<1>1. /\ {"Stor", "Del", "Retr"} \subseteq DoneFns /\ {"STOR", "DELE", "RETR"} \subseteq Ops
      /\ "STOR" \in TransferOps /\ "RETR" \in TransferOps /\ "DELE" \in CommandOps
      /\ {"upload", "main", "download"} \subseteq MainPlaces
  BY DEF DoneFns, Ops, TransferOps, CommandOps, MainPlaces
<1>2. \E name, of, x, u, fn, next : /\ fn \in DoneFns /\ x \in Ops /\ Starts(Quiet(s), x, u)
                                /\ next \in MainPlaces /\ Operate(name, of, fn, u, next)
  <2>1. CASE util_UploadFile
    <3>1. PICK pcb \in Memory :
            Operate("u", "u", "Stor", lwftp_transfer(Quiet(s), "STOR", TRUE, pcb), "upload")
      BY <2>1, Zenon DEF util_UploadFile
    <3>2. Starts(Quiet(s), "STOR", lwftp_transfer(Quiet(s), "STOR", TRUE, pcb))
      BY <1>1, MemoryBoolean, Zenon DEF Starts
    <3>3. "Stor" \in DoneFns /\ "STOR" \in Ops /\ "upload" \in MainPlaces
      BY <1>1
    <3> QED BY <3>1, <3>2, <3>3, Zenon
  <2>2. CASE util_DeleteFile
    <3>1. PICK e \in Selected : Operate(e.name, e.of, "Del", lwftp_command(Quiet(s), "DELE", TRUE), "main")
      BY <2>2, Zenon DEF util_DeleteFile
    <3>2. Starts(Quiet(s), "DELE", lwftp_command(Quiet(s), "DELE", TRUE))
      BY <1>1, Zenon DEF Starts
    <3>3. "Del" \in DoneFns /\ "DELE" \in Ops /\ "main" \in MainPlaces
      BY <1>1
    <3> QED BY <3>1, <3>2, <3>3, Zenon
  <2>3. CASE util_DownloadFile
    <3>1. PICK e \in a.list, pcb \in Memory :
            Operate(Extended(e, e.name), Extended(e, e.of), "Retr",
                    lwftp_transfer(Quiet(s), "RETR", TRUE, pcb), "download")
      BY <2>3, Zenon DEF util_DownloadFile
    <3>2. Starts(Quiet(s), "RETR", lwftp_transfer(Quiet(s), "RETR", TRUE, pcb))
      BY <1>1, MemoryBoolean, Zenon DEF Starts
    <3>3. "Retr" \in DoneFns /\ "RETR" \in Ops /\ "download" \in MainPlaces
      BY <1>1
    <3> QED BY <3>1, <3>2, <3>3, Zenon
  <2> QED BY <2>1, <2>2, <2>3
<1>3. PICK name, of, x, u, fn, next : /\ fn \in DoneFns /\ x \in Ops /\ Starts(Quiet(s), x, u)
                                  /\ next \in MainPlaces /\ Operate(name, of, fn, u, next)
  BY <1>2
<1>4. AppTypes(a') /\ where' = next /\ n < MaxOps /\ n' = n + 1
  BY <1>3, TypedOperate DEF TInv
<1> QED BY <1>3, <1>4, Counted DEF TInv

(* The keys that change the directory.                                       *)
LEMMA TypedChange ==
  ASSUME IInv, TInv, NEW b, AppTypes(b), NEW dir \in Nat, util_ChangeDir(b, dir)
  PROVE  TInv'
<1> DEFINE c == [b EXCEPT !.busy = TRUE, !.done_fn = "Cwd"]
           u == lwftp_command(Quiet(s), "CWD", TRUE)
           v == Issue([s |-> s, a |-> c], u)
           w == [v EXCEPT !.a.dir = dir]
<1>1. Go(w) /\ where' = where /\ n < MaxOps /\ n' = n + 1
  BY Zenon DEF util_ChangeDir
<1>2. AppTypes(c)
  BY DEF AppTypes, IsApp, AppFields, DoneFns
<1>3. Starts(Quiet(s), "CWD", u) /\ "CWD" \in Ops
  <2>1. "CWD" \in Ops /\ "CWD" \in CommandOps
    BY DEF Ops, CommandOps
  <2> QED BY <2>1, Zenon DEF Starts
<1> HIDE DEF c, u
<1>4. TypedWorld(v)
  <2>1. Last(u.done) \in Results
    BY <1>3, IInvParts, StartResults
  <2> QED BY <1>2, <2>1, TypedIssue
<1> HIDE DEF v
<1>5. PICK x, y : v = [s |-> x, a |-> y] /\ AppTypes(y)
  BY <1>4, Zenon DEF TypedWorld
<1>6. w = [s |-> x, a |-> [y EXCEPT !.dir = dir]] /\ AppTypes([y EXCEPT !.dir = dir])
  BY <1>5 DEF AppTypes, IsApp, AppFields
<1> HIDE DEF w
<1>7. TypedWorld(w)
  BY <1>6, Zenon DEF TypedWorld
<1> QED BY <1>1, <1>7, TypedGo, Counted DEF TInv

(* The keys that open a directory and go back.                               *)
LEMMA TypedDirs ==
  ASSUME IInv, TInv, Key2nd \/ KeyYequ
  PROVE  TInv'
<1>1. a.dir \in Nat /\ AppTypes(a)
  BY DEF TInv, AppTypes
<1>2. CASE Key2nd
  <2>1. PICK e \in a.list : util_ChangeDir(Push(a, e.name), a.dir + 1)
    BY <1>2 DEF Key2nd
  <2>2. AppTypes(Push(a, e.name)) /\ a.dir + 1 \in Nat
    BY <1>1, TypedPath
  <2> QED BY <2>1, <2>2, TypedChange
<1>3. CASE KeyYequ
  <2>1. a.dir > 0 /\ util_ChangeDir(Pop(a), a.dir - 1)
    BY <1>3 DEF KeyYequ
  <2>2. AppTypes(Pop(a)) /\ a.dir - 1 \in Nat
    BY <1>1, <2>1, TypedPath
  <2> QED BY <2>1, <2>2, TypedChange
<1> QED BY <1>2, <1>3

(* Renaming, and Clear.                                                      *)
LEMMA TypedKeys ==
  ASSUME IInv, TInv, util_MoveFile \/ InputDone \/ InputEmpty \/ KeyClear
  PROVE  TInv'
<1>1. CASE util_MoveFile
  <2>1. PICK e \in Selected : a' = Push(a, e.name)
    BY <1>1 DEF util_MoveFile
  <2>2. AppTypes(a')
    BY <2>1, TypedPath DEF TInv
  <2> QED BY <1>1, <2>2, Counted DEF util_MoveFile, TInv, MainPlaces
<1>2. CASE InputDone
  <2> DEFINE b == [a EXCEPT !.busy = TRUE, !.done_fn = "Move"]
             u == lwftp_command(Quiet(s), "RNFR", TRUE)
  <2>1. Go(Issue([s |-> s, a |-> b], u)) /\ where' = "main" /\ n' = n
    BY <1>2, Zenon DEF InputDone
  <2>2. AppTypes(b)
    BY DEF TInv, AppTypes, IsApp, AppFields, DoneFns
  <2>3. Starts(Quiet(s), "RNFR", u) /\ "RNFR" \in Ops
    <3>1. "RNFR" \in Ops /\ "RNFR" \in CommandOps
      BY DEF Ops, CommandOps
    <3> QED BY <3>1, Zenon DEF Starts
  <2> HIDE DEF b, u
  <2>4. Last(u.done) \in Results
    BY <2>3, IInvParts, StartResults
  <2>5. AppTypes(a')
    BY <2>1, <2>2, <2>4, TypedIssue, TypedGo
  <2> QED BY <2>1, <2>5 DEF TInv, MainPlaces
<1>3. CASE InputEmpty
  BY <1>3 DEF InputEmpty, TInv, MainPlaces
<1>4. CASE KeyClear
  <2>1. Go([s |-> lwftp_close(Quiet(s)), a |-> a]) /\ where' = "quit" /\ n' = n
    BY <1>4, Zenon DEF KeyClear
  <2>2. a' = a
    BY <2>1, GoOn
  <2> QED BY <2>1, <2>2 DEF TInv, MainPlaces
<1> QED BY <1>1, <1>2, <1>3, <1>4

(* main().                                                                   *)
LEMMA TypedMain ==
  ASSUME IInv, TInv, Main
  PROVE  TInv'
<1>1. CASE Connect
  <2>1. PICK pcb \in Memory, link \in Memory :
          /\ Go(Issue([s |-> s, a |-> a], lwftp_connect(Quiet(s), TRUE, pcb, link)))
          /\ where' \in {"login", "exit"} /\ n' = n
    BY <1>1 DEF Connect
  <2> DEFINE q == Quiet(s)
             u == lwftp_connect(q, TRUE, pcb, link)
  <2>2. q \in Sessions
    BY IInvParts
  <2>3. Last(u.done) \in Results
    <3> HIDE DEF q
    <3>1. ASSUME NEW v, NEW y \in Results, v.done = q.done, DOMAIN v = DOMAIN q
          PROVE  Last(Return(v, y).done) \in Results
      <4>1. Last(Append(v.done, y)) = y
        BY <2>2, <3>1 DEF Last, Sessions
      <4> QED BY <2>2, <3>1, <4>1 DEF Return, Sessions
    <3>2. {"ERR_ARGUMENT", "ERR_MEMORY", "INPROGRESS", "ERR_UNKNOWN"} \subseteq Results
      BY DEF Results
    <3> DEFINE x == [q EXCEPT !.control_pcb = "SYN_SENT", !.op = "CONNECT"]
               y == lwftp_control_close(q, None)
    <3>3. x.done = q.done /\ DOMAIN x = DOMAIN q /\ y.done = q.done /\ DOMAIN y = DOMAIN q
      BY <2>2 DEF lwftp_control_close, Sessions
    <3>4. \/ u = Return(q, "ERR_ARGUMENT") \/ u = Return(q, "ERR_MEMORY") \/ u = Return(x, "INPROGRESS")
          \/ u = Return(y, "ERR_UNKNOWN")
      BY Zenon DEF lwftp_connect
    <3> HIDE DEF x, y, u
    <3> QED BY <3>1, <3>2, <3>3, <3>4
  <2>4. Go(Issue([s |-> s, a |-> a], u))
    BY <2>1
  <2> HIDE DEF u
  <2>5. AppTypes(a')
    BY <2>3, <2>4, TypedIssue, TypedGo DEF TInv
  <2> QED BY <2>1, <2>5 DEF TInv, MainPlaces
<1>2. CASE DownloadOver
  <2>1. a' = [Pop(a) EXCEPT !.done_fn = NULL] /\ where' = "main" /\ n' = n
    BY <1>2 DEF DownloadOver
  <2>2. AppTypes(Pop(a))
    BY TypedPath DEF TInv
  <2>3. AppTypes(a')
    BY <2>1, <2>2 DEF AppTypes, IsApp, AppFields, DoneFns
  <2> QED BY <2>1, <2>3 DEF TInv, MainPlaces
<1>3. CASE LoginOver \/ UploadOver \/ Exit
  BY <1>3 DEF LoginOver, UploadOver, Exit, TInv, MainPlaces
<1> QED BY <1>1, <1>2, <1>3 DEF Main

(* The callbacks of the connections.                                         *)
LEMMA TypedNetwork ==
  ASSUME IInv, TInv, Network
  PROVE  TInv'
<1>1. where' = where /\ n' = n
  BY DEF Network, ControlConnected, ControlReply, ControlDrop, DataTransfer, DataErr
<1>2. AppTypes(a')
  <2>0. AppTypes(a)
    BY DEF TInv
  <2>1. CASE ControlConnected \/ ControlDrop
    <3>1. Shape(Quiet(s), lwftp_control_connected(Quiet(s))) /\ Shape(Quiet(s), lwftp_control_err(Quiet(s)))
      BY IInvParts, ConnectedShape, ControlErrShape
    <3>2. Handler(lwftp_control_connected(Quiet(s)), a) \/ Handler(lwftp_control_err(Quiet(s)), a)
      BY <2>1 DEF ControlConnected, ControlDrop
    <3> QED BY <2>0, <3>1, <3>2, TypedHandler
  <2>2. CASE ControlReply
    <3> DEFINE r == Head(down)[1]
               b == IF s.control_state = "PWD_SENT" /\ r = 257
                    THEN [a EXCEPT !.path = Head(down)[2]] ELSE a
    <3>1. s.control_pcb = "ESTABLISHED" /\ down # <<>>
      BY <2>2 DEF ControlReply
    <3>2. PICK opened \in BOOLEAN : Handler(lwftp_control_process(Quiet(s), r, opened, TRUE), b)
      BY <2>2 DEF ControlReply
    <3>3. r \in Codes
      BY <3>1, IInvParts, NextReply
    <3>4. AppTypes(b)
      BY <2>0 DEF AppTypes, IsApp, AppFields
    <3> HIDE DEF r, b
    <3>5. Shape(Quiet(s), lwftp_control_process(Quiet(s), r, opened, TRUE))
      BY <3>1, <3>3, IInvParts, ProcessShape
    <3> QED BY <3>2, <3>4, <3>5, TypedHandler
  <2>3. CASE DataTransfer
    <3> DEFINE b == IF srv.doing = "MLSD"
                    THEN [a EXCEPT !.list = Entries(srv.path, srv.files), !.shown = srv.path] ELSE a
    <3>1. Handler(lwftp_data_connected(Quiet(s)), b)
      BY <2>3, Zenon DEF DataTransfer
    <3>2. AppTypes(b)
      BY <2>0 DEF AppTypes, IsApp, AppFields
    <3> HIDE DEF b
    <3>3. Shape(Quiet(s), lwftp_data_connected(Quiet(s)))
      BY IInvParts, ConnectedShape
    <3> QED BY <3>1, <3>2, <3>3, TypedHandler
  <2>4. CASE DataErr
    <3>1. s.data_pcb \in {"SYN_SENT", "ESTABLISHED"} /\ Handler(lwftp_data_err(Quiet(s)), a)
      BY <2>4 DEF DataErr
    <3>2. Shape(Quiet(s), lwftp_data_err(Quiet(s)))
      BY <3>1, IInvParts, DataErrShape
    <3> QED BY <2>0, <3>1, <3>2, TypedHandler
  <2> QED BY <2>1, <2>2, <2>3, <2>4 DEF Network
<1> QED BY <1>1, <1>2 DEF TInv

(* The types of the program's state hold in every world: no result but those *)
(* of lwftp.h is stored, app.dir is never below 0, and the program is in one *)
(* of the places of main().                                                  *)
THEOREM TypesAlways == Spec => []TypeOK
<1>1. Init => TInv
  <2> SUFFICES ASSUME Init PROVE TInv
    OBVIOUS
  <2>1. a = FreshApp /\ where = "start" /\ n = 0
    BY DEF Init
  <2>2. AppTypes(FreshApp)
    BY FreshFacts DEF AppTypes, FreshApp, Results
  <2> QED BY <2>1, <2>2, AppAssumption DEF TInv, MainPlaces
<1>2. IInv /\ TInv /\ [Next]_vars => TInv'
  <2>1. ASSUME IInv, TInv, UNCHANGED vars PROVE TInv'
    BY <2>1 DEF TInv, vars, state
  <2>2. ASSUME IInv, TInv, Next PROVE TInv'
    <3>1. CASE User
      BY <2>2, <3>1, TypedFiles, TypedDirs, TypedKeys DEF User
    <3>2. CASE Main \/ Network
      BY <2>2, <3>2, TypedMain, TypedNetwork
    <3>3. CASE Server
      BY <2>2, <3>3 DEF Server, ServerCommand, ServerDone, TInv
    <3> QED BY <2>2, <3>1, <3>2, <3>3 DEF Next
  <2> QED BY <2>1, <2>2
<1>3. IInv /\ TInv => TypeOK
  BY QuietFacts DEF TInv, AppTypes, IsApp, TypeOK, MainPlaces
<1> QED BY <1>1, <1>2, <1>3, IInvAlways, PTL DEF Spec

(* strrchr finds the '/' it looks for, at every cut of app.path, also when   *)
(* the user leaves a transfer, an input or the program in the middle.        *)
THEOREM StripAlwaysFinds == ASSUME HomeBelow PROVE Spec => []NoNullStrip
<1>1. IInv /\ PathInv /\ TypeOK => NoNullStrip
  BY PathImplies DEF NoNullStrip
<1> QED BY <1>1, IInvAlways, PathInvAlways, TypesAlways, PTL

=============================================================================
