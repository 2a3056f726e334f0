-------------------------- MODULE FtpSessionProofs --------------------------
(***************************************************************************)
(* Proofs about FtpSession: lwftp.c and an FTP server that answers its      *)
(* commands in order stay in step over two connections.                     *)
(***************************************************************************)
EXTENDS FtpSession, SequenceTheorems, TLAPS

(* What is proved of lwftp.c with any client.                               *)
Lib == INSTANCE LwFtpProofs WITH Responses <- Replies

-----------------------------------------------------------------------------
(* The functions of lwftp.c mean the same here, in the client that FtpSession *)
(* implements and in the proofs about that client.                          *)

(* The proofs.                                                              *)
LEMMA SameLib ==
  /\ Lib!FreshSession = FreshSession /\ \A t : Lib!Quiet(t) = Quiet(t)
  /\ \A t, args, pcb, ok : Lib!lwftp_connect(t, args, pcb, ok) = lwftp_connect(t, args, pcb, ok)
  /\ \A t, op, args, pcb : Lib!lwftp_transfer(t, op, args, pcb) = lwftp_transfer(t, op, args, pcb)
  /\ \A t, op, args : Lib!lwftp_command(t, op, args) = lwftp_command(t, op, args)
  /\ \A t, r, opened, more :
       Lib!lwftp_control_process(t, r, opened, more) = lwftp_control_process(t, r, opened, more)
  /\ \A t, more : Lib!lwftp_data_sent(t, more) = lwftp_data_sent(t, more)
  /\ \A t : /\ Lib!lwftp_close(t) = lwftp_close(t) /\ Lib!lwftp_control_err(t) = lwftp_control_err(t)
           /\ Lib!lwftp_control_recv_null(t) = lwftp_control_recv_null(t)
           /\ Lib!lwftp_control_connected(t) = lwftp_control_connected(t)
           /\ Lib!lwftp_data_connected(t) = lwftp_data_connected(t)
           /\ Lib!lwftp_data_recv_null(t) = lwftp_data_recv_null(t)
           /\ Lib!lwftp_data_err(t) = lwftp_data_err(t)
<1>1. \A t, r, opened, more :
        Lib!lwftp_control_process(t, r, opened, more) = lwftp_control_process(t, r, opened, more)
  BY SMT DEF NULL, None, TransferOps, CommandOps, Ops, SentState, TransferStates, CommandStates,
         LoginStates, lwftp_send_msg, Report, Goto, lwftp_send_next_data, lwftp_data_sent,
         lwftp_data_open, lwftp_data_close, lwftp_control_close, Expected, Otherwise, Awaiting,
         lwftp_issue_transfer, Advance, FirstSwitch, Completes, ResultOf, SecondSwitch,
         lwftp_control_process, Lib!NULL, Lib!None, Lib!TransferOps, Lib!CommandOps, Lib!Ops,
         Lib!SentState, Lib!TransferStates, Lib!CommandStates, Lib!LoginStates,
         Lib!lwftp_send_msg, Lib!Report, Lib!Goto, Lib!lwftp_send_next_data,
         Lib!lwftp_data_sent, Lib!lwftp_data_open, Lib!lwftp_data_close,
         Lib!lwftp_control_close, Lib!Expected, Lib!Otherwise, Lib!Awaiting,
         Lib!lwftp_issue_transfer, Lib!Advance, Lib!FirstSwitch, Lib!Completes, Lib!ResultOf,
         Lib!SecondSwitch, Lib!lwftp_control_process
<1>2. \A t : Lib!lwftp_data_err(t) = lwftp_data_err(t)
  BY <1>1, Zenon DEF NULL, Goto, lwftp_data_err, Lib!NULL, Lib!Goto, Lib!lwftp_data_err
<1>3. /\ Lib!FreshSession = FreshSession /\ \A t : Lib!Quiet(t) = Quiet(t)
      /\ \A t, more : Lib!lwftp_data_sent(t, more) = lwftp_data_sent(t, more)
      /\ \A t : /\ Lib!lwftp_close(t) = lwftp_close(t) /\ Lib!lwftp_control_err(t) = lwftp_control_err(t)
               /\ Lib!lwftp_control_recv_null(t) = lwftp_control_recv_null(t)
               /\ Lib!lwftp_control_connected(t) = lwftp_control_connected(t)
               /\ Lib!lwftp_data_connected(t) = lwftp_data_connected(t)
               /\ Lib!lwftp_data_recv_null(t) = lwftp_data_recv_null(t)
  BY SMT DEF NULL, None, FreshSession, Quiet, Report, Goto, lwftp_send_msg, lwftp_send_next_data,
         lwftp_data_sent, lwftp_control_close, lwftp_close, lwftp_control_err,
         lwftp_control_recv_null, lwftp_control_connected, lwftp_data_connected,
         lwftp_data_recv_null, Lib!NULL, Lib!None, Lib!FreshSession, Lib!Quiet, Lib!Report,
         Lib!Goto, Lib!lwftp_send_msg, Lib!lwftp_send_next_data, Lib!lwftp_data_sent,
         Lib!lwftp_control_close, Lib!lwftp_close, Lib!lwftp_control_err,
         Lib!lwftp_control_recv_null, Lib!lwftp_control_connected, Lib!lwftp_data_connected,
         Lib!lwftp_data_recv_null
<1>4. /\ \A t, args, pcb, ok : Lib!lwftp_connect(t, args, pcb, ok) = lwftp_connect(t, args, pcb, ok)
      /\ \A t, op, args, pcb : Lib!lwftp_transfer(t, op, args, pcb) = lwftp_transfer(t, op, args, pcb)
      /\ \A t, op, args : Lib!lwftp_command(t, op, args) = lwftp_command(t, op, args)
  BY SMT DEF NULL, None, TransferOps, CommandOps, Ops, SentState, Report, Return, lwftp_send_msg,
         lwftp_control_close, lwftp_connect, lwftp_start, lwftp_transfer, lwftp_send,
         lwftp_command, Lib!NULL, Lib!None, Lib!TransferOps, Lib!CommandOps, Lib!Ops,
         Lib!SentState, Lib!Report, Lib!Return, Lib!lwftp_send_msg, Lib!lwftp_control_close,
         Lib!lwftp_connect, Lib!lwftp_start, Lib!lwftp_transfer, Lib!lwftp_send,
         Lib!lwftp_command
<1> QED BY <1>1, <1>2, <1>3, <1>4, Zenon

(* The client.                                                              *)
LEMMA SameLibrary ==
  /\ Library!FreshSession = FreshSession /\ \A t : Library!Quiet(t) = Quiet(t)
  /\ \A t, args, pcb, ok : Library!lwftp_connect(t, args, pcb, ok) = lwftp_connect(t, args, pcb, ok)
  /\ \A t, op, args, pcb : Library!lwftp_transfer(t, op, args, pcb) = lwftp_transfer(t, op, args, pcb)
  /\ \A t, op, args : Library!lwftp_command(t, op, args) = lwftp_command(t, op, args)
  /\ \A t, r, opened, more :
       Library!lwftp_control_process(t, r, opened, more) = lwftp_control_process(t, r, opened, more)
  /\ \A t, more : Library!lwftp_data_sent(t, more) = lwftp_data_sent(t, more)
  /\ \A t : /\ Library!lwftp_close(t) = lwftp_close(t) /\ Library!lwftp_control_err(t) = lwftp_control_err(t)
           /\ Library!lwftp_control_recv_null(t) = lwftp_control_recv_null(t)
           /\ Library!lwftp_control_connected(t) = lwftp_control_connected(t)
           /\ Library!lwftp_data_connected(t) = lwftp_data_connected(t)
           /\ Library!lwftp_data_recv_null(t) = lwftp_data_recv_null(t)
           /\ Library!lwftp_data_err(t) = lwftp_data_err(t)
<1>1. \A t, r, opened, more :
        Library!lwftp_control_process(t, r, opened, more) = lwftp_control_process(t, r, opened, more)
  BY SMT DEF NULL, None, TransferOps, CommandOps, Ops, SentState, TransferStates, CommandStates,
         LoginStates, lwftp_send_msg, Report, Goto, lwftp_send_next_data, lwftp_data_sent,
         lwftp_data_open, lwftp_data_close, lwftp_control_close, Expected, Otherwise, Awaiting,
         lwftp_issue_transfer, Advance, FirstSwitch, Completes, ResultOf, SecondSwitch,
         lwftp_control_process, Library!NULL, Library!None, Library!TransferOps,
         Library!CommandOps, Library!Ops, Library!SentState, Library!TransferStates,
         Library!CommandStates, Library!LoginStates, Library!lwftp_send_msg, Library!Report,
         Library!Goto, Library!lwftp_send_next_data, Library!lwftp_data_sent,
         Library!lwftp_data_open, Library!lwftp_data_close, Library!lwftp_control_close,
         Library!Expected, Library!Otherwise, Library!Awaiting, Library!lwftp_issue_transfer,
         Library!Advance, Library!FirstSwitch, Library!Completes, Library!ResultOf,
         Library!SecondSwitch, Library!lwftp_control_process
<1>2. \A t : Library!lwftp_data_err(t) = lwftp_data_err(t)
  BY <1>1, Zenon DEF NULL, Goto, lwftp_data_err, Library!NULL, Library!Goto, Library!lwftp_data_err
<1>3. /\ Library!FreshSession = FreshSession /\ \A t : Library!Quiet(t) = Quiet(t)
      /\ \A t, more : Library!lwftp_data_sent(t, more) = lwftp_data_sent(t, more)
      /\ \A t : /\ Library!lwftp_close(t) = lwftp_close(t) /\ Library!lwftp_control_err(t) = lwftp_control_err(t)
               /\ Library!lwftp_control_recv_null(t) = lwftp_control_recv_null(t)
               /\ Library!lwftp_control_connected(t) = lwftp_control_connected(t)
               /\ Library!lwftp_data_connected(t) = lwftp_data_connected(t)
               /\ Library!lwftp_data_recv_null(t) = lwftp_data_recv_null(t)
  BY SMT DEF NULL, None, FreshSession, Quiet, Report, Goto, lwftp_send_msg, lwftp_send_next_data,
         lwftp_data_sent, lwftp_control_close, lwftp_close, lwftp_control_err,
         lwftp_control_recv_null, lwftp_control_connected, lwftp_data_connected,
         lwftp_data_recv_null, Library!NULL, Library!None, Library!FreshSession, Library!Quiet,
         Library!Report, Library!Goto, Library!lwftp_send_msg, Library!lwftp_send_next_data,
         Library!lwftp_data_sent, Library!lwftp_control_close, Library!lwftp_close,
         Library!lwftp_control_err, Library!lwftp_control_recv_null,
         Library!lwftp_control_connected, Library!lwftp_data_connected,
         Library!lwftp_data_recv_null
<1>4. /\ \A t, args, pcb, ok : Library!lwftp_connect(t, args, pcb, ok) = lwftp_connect(t, args, pcb, ok)
      /\ \A t, op, args, pcb : Library!lwftp_transfer(t, op, args, pcb) = lwftp_transfer(t, op, args, pcb)
      /\ \A t, op, args : Library!lwftp_command(t, op, args) = lwftp_command(t, op, args)
  BY SMT DEF NULL, None, TransferOps, CommandOps, Ops, SentState, Report, Return, lwftp_send_msg,
         lwftp_control_close, lwftp_connect, lwftp_start, lwftp_transfer, lwftp_send,
         lwftp_command, Library!NULL, Library!None, Library!TransferOps, Library!CommandOps,
         Library!Ops, Library!SentState, Library!Report, Library!Return,
         Library!lwftp_send_msg, Library!lwftp_control_close, Library!lwftp_connect,
         Library!lwftp_start, Library!lwftp_transfer, Library!lwftp_send, Library!lwftp_command
<1> QED BY <1>1, <1>2, <1>3, <1>4, Zenon

(* The client and the client of the proofs take the same steps.             *)
LEMMA SameNext == Library!Next <=> Lib!Next
<1>1. /\ Library!NULL = Lib!NULL /\ Library!TransferOps = Lib!TransferOps
      /\ Library!CommandOps = Lib!CommandOps
  BY DEF Library!NULL, Lib!NULL, Library!TransferOps, Lib!TransferOps, Library!CommandOps, Lib!CommandOps
<1>2. Library!Calls = Lib!Calls
  BY <1>1, Zenon DEF Library!Calls, Lib!Calls
<1>3. \A t, c : Library!Call(t, c) = Lib!Call(t, c)
  BY <1>1, SameLib, SameLibrary, Zenon DEF Library!Call, Lib!Call
<1>4. \A t : Library!Handler(t) <=> Lib!Handler(t)
  BY <1>2, <1>3, Zenon DEF Library!Handler, Lib!Handler
<1>5. \A t : Library!lwftp_control_recv_err(t) = Lib!lwftp_control_recv_err(t)
  BY SMT DEF Library!lwftp_control_recv_err, Library!lwftp_control_close, Library!Report,
             Library!NULL, Library!None, Lib!lwftp_control_recv_err, Lib!lwftp_control_close,
             Lib!Report, Lib!NULL, Lib!None
<1>6. Library!UserCall <=> Lib!UserCall
  BY <1>2, <1>3, SameLib, SameLibrary, Zenon DEF Library!UserCall, Lib!UserCall
<1>7. /\ Library!DataConnected <=> Lib!DataConnected
      /\ Library!DataSent <=> Lib!DataSent
      /\ Library!DataClosed <=> Lib!DataClosed
      /\ Library!DataErr <=> Lib!DataErr
  BY <1>4, SameLib, SameLibrary, Zenon
     DEF Library!DataConnected, Lib!DataConnected, Library!DataSent, Lib!DataSent,
         Library!DataClosed, Lib!DataClosed, Library!DataErr, Lib!DataErr
<1>8. /\ Library!ControlConnected <=> Lib!ControlConnected
      /\ Library!ControlReply <=> Lib!ControlReply
      /\ Library!ControlClosed <=> Lib!ControlClosed
      /\ Library!ControlErr <=> Lib!ControlErr
  BY <1>1, <1>4, <1>5, SameLib, SameLibrary, Zenon
     DEF Library!ControlConnected, Lib!ControlConnected, Library!ControlReply, Lib!ControlReply,
         Library!ControlClosed, Lib!ControlClosed, Library!ControlErr, Lib!ControlErr
<1> QED BY <1>6, <1>7, <1>8, Zenon DEF Library!Next, Lib!Next

(* What a handler, or a call from the main loop, may do with the session.    *)
Called(t) ==
  \/ \E pcb, ok \in BOOLEAN : t = lwftp_connect(Quiet(s), TRUE, pcb, ok)
  \/ \E op \in TransferOps, pcb \in BOOLEAN : t = lwftp_transfer(Quiet(s), op, TRUE, pcb)
  \/ \E op \in CommandOps : t = lwftp_command(Quiet(s), op, TRUE)
  \/ t = lwftp_close(Quiet(s))

Handled(t) ==
  \/ s.control_pcb = "SYN_SENT" /\ t = lwftp_control_connected(Quiet(s))
  \/ s.control_pcb # NULL /\ t = lwftp_control_err(Quiet(s))
  \/ /\ s.control_pcb = "ESTABLISHED"
     /\ \/ t = lwftp_control_recv_null(Quiet(s))
        \/ \E r \in Replies, opened, more \in BOOLEAN :
             t = lwftp_control_process(Quiet(s), r, opened, more)
  \/ s.data_pcb = "SYN_SENT" /\ t = lwftp_data_connected(Quiet(s))
  \/ /\ s.data_pcb = "ESTABLISHED" /\ s.target_state = "STOR_SENT"
     /\ s.control_state \in {"XFERING", "QUIT_SENT"}
     /\ \E more \in BOOLEAN : t = lwftp_data_sent(Quiet(s), more)
  \/ s.data_pcb = "ESTABLISHED" /\ t = lwftp_data_recv_null(Quiet(s))
  \/ s.data_pcb \in {"SYN_SENT", "ESTABLISHED"} /\ t = lwftp_data_err(Quiet(s))

(* A call of FtpSession is a call of a client.                              *)
LEMMA CallStep ==
  ASSUME NEW t, Called(t), s' = t
  PROVE  Lib!Next
<1> DEFINE q == Quiet(s)
           Made == \E c \in Lib!Calls : t = Lib!Call(q, c)
<1>1. Lib!TransferOps = TransferOps /\ Lib!CommandOps = CommandOps /\ Lib!Quiet(s) = q
  BY SameLib DEF TransferOps, CommandOps, Lib!TransferOps, Lib!CommandOps
<1> SUFFICES Made
  BY <1>1, Zenon DEF Lib!Next, Lib!UserCall
<1> HIDE DEF q
<1>3. ASSUME NEW pcb \in BOOLEAN, NEW ok \in BOOLEAN, t = lwftp_connect(q, TRUE, pcb, ok)
      PROVE  Made
  <2> DEFINE c == [api |-> "CONNECT", args |-> TRUE, pcb |-> pcb, link |-> ok]
  <2>1. c \in Lib!Calls /\ c.api = "CONNECT" /\ c.args = TRUE /\ c.pcb = pcb /\ c.link = ok
    BY DEF Lib!Calls
  <2>2. Lib!Call(q, c) = Lib!lwftp_connect(q, TRUE, pcb, ok)
    <3> HIDE DEF c
    <3> QED BY <1>1, <2>1 DEF Lib!Call, TransferOps, CommandOps
  <2> QED BY <1>3, <2>1, <2>2, SameLib
<1>4. ASSUME NEW op \in TransferOps, NEW pcb \in BOOLEAN, t = lwftp_transfer(q, op, TRUE, pcb)
      PROVE  Made
  <2> DEFINE c == [api |-> op, args |-> TRUE, pcb |-> pcb, link |-> TRUE]
  <2>1. c \in Lib!Calls /\ c.api = op /\ c.args = TRUE /\ c.pcb = pcb /\ op # "CONNECT"
    BY <1>1 DEF Lib!Calls, TransferOps
  <2>2. Lib!Call(q, c) = Lib!lwftp_transfer(q, op, TRUE, pcb)
    <3> HIDE DEF c
    <3> QED BY <1>1, <2>1 DEF Lib!Call, TransferOps, CommandOps
  <2> QED BY <1>4, <2>1, <2>2, SameLib
<1>5. ASSUME NEW op \in CommandOps, t = lwftp_command(q, op, TRUE)
      PROVE  Made
  <2> DEFINE c == [api |-> op, args |-> TRUE, pcb |-> TRUE, link |-> TRUE]
  <2>1. c \in Lib!Calls /\ c.api = op /\ c.args = TRUE /\ op # "CONNECT" /\ op \notin TransferOps
    BY <1>1 DEF Lib!Calls, CommandOps, TransferOps
  <2>2. Lib!Call(q, c) = Lib!lwftp_command(q, op, TRUE)
    <3> HIDE DEF c
    <3> QED BY <1>1, <2>1 DEF Lib!Call, TransferOps, CommandOps
  <2> QED BY <1>5, <2>1, <2>2, SameLib
<1>6. ASSUME t = lwftp_close(q)
      PROVE  Made
  <2> DEFINE c == [api |-> "CLOSE", args |-> TRUE, pcb |-> TRUE, link |-> TRUE]
  <2>1. c \in Lib!Calls /\ c.api = "CLOSE"
    BY DEF Lib!Calls
  <2>2. Lib!Call(q, c) = Lib!lwftp_close(q)
    <3> HIDE DEF c
    <3> QED BY <1>1, <2>1 DEF Lib!Call, TransferOps, CommandOps
  <2> QED BY <1>6, <2>1, <2>2, SameLib
<1> QED BY <1>3, <1>4, <1>5, <1>6, Zenon DEF Called, q

(* A callback from lwIP is a callback of a client.                          *)
LEMMA HandlerStep ==
  ASSUME NEW t, Handled(t), s' = t
  PROVE  Lib!Next
<1>1. Lib!Quiet(s) = Quiet(s) /\ Lib!NULL = NULL /\ Lib!Handler(t)
  BY SameLib, Zenon DEF NULL, Lib!NULL, Lib!Handler
<1>2. CASE s.control_pcb = "SYN_SENT" /\ t = lwftp_control_connected(Quiet(s))
  BY <1>1, <1>2, SameLib, Zenon DEF Lib!Next, Lib!ControlConnected
<1>3. CASE s.control_pcb # NULL /\ t = lwftp_control_err(Quiet(s))
  BY <1>1, <1>3, SameLib, Zenon DEF Lib!Next, Lib!ControlErr
<1>4. CASE s.control_pcb = "ESTABLISHED" /\ t = lwftp_control_recv_null(Quiet(s))
  BY <1>1, <1>4, SameLib, Zenon DEF Lib!Next, Lib!ControlClosed
<1>5. ASSUME s.control_pcb = "ESTABLISHED", NEW r \in Replies, NEW opened \in BOOLEAN,
             NEW more \in BOOLEAN, t = lwftp_control_process(Quiet(s), r, opened, more)
      PROVE  Lib!Next
  <2>1. t = Lib!lwftp_control_process(Lib!Quiet(s), r, opened, more)
    BY <1>1, <1>5, SameLib, Zenon
  <2>2. Lib!ControlReply
    BY <1>1, <1>5, <2>1, Zenon DEF Lib!ControlReply
  <2> QED BY <2>2, Zenon DEF Lib!Next
<1>6. CASE s.data_pcb = "SYN_SENT" /\ t = lwftp_data_connected(Quiet(s))
  BY <1>1, <1>6, SameLib, Zenon DEF Lib!Next, Lib!DataConnected
<1>7. ASSUME s.data_pcb = "ESTABLISHED", s.target_state = "STOR_SENT",
             s.control_state \in {"XFERING", "QUIT_SENT"},
             NEW more \in BOOLEAN, t = lwftp_data_sent(Quiet(s), more)
      PROVE  Lib!Next
  BY <1>1, <1>7, SameLib, Zenon DEF Lib!Next, Lib!DataSent
<1>8. CASE s.data_pcb = "ESTABLISHED" /\ t = lwftp_data_recv_null(Quiet(s))
  BY <1>1, <1>8, SameLib, Zenon DEF Lib!Next, Lib!DataClosed
<1>9. CASE s.data_pcb \in {"SYN_SENT", "ESTABLISHED"} /\ t = lwftp_data_err(Quiet(s))
  BY <1>1, <1>9, SameLib, Zenon DEF Lib!Next, Lib!DataErr
<1> QED BY <1>2, <1>3, <1>4, <1>5, <1>6, <1>7, <1>8, <1>9, Zenon DEF Handled

(* The replies meet the assumption of LwFtpClient.                          *)
LEMMA RepliesNat == Replies \subseteq Nat \ {0}
BY DEF Replies, Accepted

(* Either leaves a session that is as lwftp.c keeps it.                      *)
LEMMA GoodNext ==
  ASSUME Lib!Good(s), Lib!Next
  PROVE  Lib!Good(s)'
BY RepliesNat, Lib!StepGood

-----------------------------------------------------------------------------
(* What each function leaves, for a session q in which a handler begins.     *)

Fresh(q) == q \in Sessions /\ q.sent = <<>> /\ q.done = <<>>

(* The handler leaves u: in state st, with these commands written, these     *)
(* results reported, this data pcb, and this operation owed.                *)
Turns(q, u, st, cmds, res, data, owed) ==
  /\ u.control_state = st /\ u.sent = cmds /\ u.done = res /\ u.data_pcb = data /\ u.op = owed
  /\ u.control_pcb = q.control_pcb /\ u.target_state = q.target_state /\ u.wild = q.wild

(* The session is over.                                                     *)
Ends(q, u) ==
  /\ u.control_state = "CLOSED" /\ u.control_pcb = NULL /\ u.data_pcb = NULL
  /\ u.sent = <<>> /\ u.op = None /\ u.wild = q.wild
  /\ \E r \in Results : u.done = <<r>>

(* Types are the same in the proofs of lwftp.c.                             *)
LEMMA SameSessions == Lib!Sessions = Sessions
BY DEF Sessions, ControlStates, ControlPcbs, DataPcbs, Commands, Results, Ops, TransferOps,
       CommandOps, LoginStates, TransferStates, CommandStates, PassingStates, NULL, None,
       Lib!Sessions, Lib!ControlStates, Lib!ControlPcbs, Lib!DataPcbs, Lib!Commands,
       Lib!Results, Lib!Ops, Lib!TransferOps, Lib!CommandOps, Lib!LoginStates,
       Lib!TransferStates, Lib!CommandStates, Lib!PassingStates, Lib!NULL, Lib!None

(* What the proofs of lwftp.c say of a session.                             *)
LEMMA GoodSession ==
  ASSUME NEW t, Lib!Good(t)
  PROVE  /\ t \in Sessions
         /\ t.control_state \notin PassingStates
         /\ t.control_state # "CLOSED" <=> t.control_pcb = "ESTABLISHED"
         /\ t.data_pcb # NULL =>
              t.control_state \in TransferStates
                                  \cup {"TYPE_SENT", "PASV_SENT", "XFERING", "QUIT_SENT"}
         /\ t.control_state \in {"TYPE_SENT", "PASV_SENT"} => t.data_pcb = "CLOSED"
         /\ t.control_state \in {"TYPE_SENT", "PASV_SENT", "XFERING"} =>
              t.target_state \in TransferStates
         /\ t.control_state \in TransferStates => t.target_state = t.control_state
         /\ t.control_state \in {"LOGGED", "CLOSED"} /\ t.control_pcb # "SYN_SENT" => t.op = None
         /\ t.control_state \in LoginStates => t.op = "CONNECT"
         /\ t.control_state \in {"TYPE_SENT", "PASV_SENT", "XFERING"} =>
              t.op \in TransferOps /\ SentState[t.op] = t.target_state
         /\ t.control_state = "RNTO_SENT" => t.op = "RNFR"
         /\ t.control_state \in (TransferStates \cup CommandStates) \ {"RNTO_SENT"} =>
              t.op \in Ops /\ SentState[t.op] = t.control_state
<1>1. /\ Lib!TransferStates = TransferStates /\ Lib!CommandStates = CommandStates
      /\ Lib!LoginStates = LoginStates /\ Lib!PassingStates = PassingStates
      /\ Lib!NULL = NULL /\ Lib!None = None /\ Lib!TransferOps = TransferOps /\ Lib!Ops = Ops
      /\ Lib!SentState = SentState
  BY DEF TransferStates, CommandStates, LoginStates, PassingStates, NULL, None, TransferOps,
         CommandOps, Ops, SentState, Lib!TransferStates, Lib!CommandStates, Lib!LoginStates,
         Lib!PassingStates, Lib!NULL, Lib!None, Lib!TransferOps, Lib!CommandOps, Lib!Ops,
         Lib!SentState
<1>2. t \in Sessions
  BY SameSessions, Zenon DEF Lib!Good
<1>3. t.control_pcb \in {NULL, "SYN_SENT", "ESTABLISHED"}
  BY <1>2 DEF Sessions, ControlPcbs
<1>4. t.control_state \notin PassingStates
  BY <1>1, Zenon DEF Lib!Good, Lib!Settled
<1>5. /\ t.control_state # "CLOSED" <=> t.control_pcb = "ESTABLISHED"
      /\ t.data_pcb # NULL =>
              t.control_state \in TransferStates
                                  \cup {"TYPE_SENT", "PASV_SENT", "XFERING", "QUIT_SENT"}
      /\ t.control_state \in {"TYPE_SENT", "PASV_SENT"} => t.data_pcb = "CLOSED"
  BY <1>1, Zenon DEF Lib!Good, Lib!PcbsFollow
<1>6. /\ t.control_state \in {"TYPE_SENT", "PASV_SENT", "XFERING"} =>
              t.target_state \in TransferStates
      /\ t.control_state \in TransferStates => t.target_state = t.control_state
  BY <1>1, Zenon DEF Lib!Good, Lib!TargetNamed
<1>7. Lib!Owes(t)
  BY DEF Lib!Good
<1>8. /\ t.control_state \in {"LOGGED", "CLOSED"} /\ t.control_pcb # "SYN_SENT" => t.op = None
      /\ t.control_state \in LoginStates => t.op = "CONNECT"
      /\ t.control_state \in {"TYPE_SENT", "PASV_SENT", "XFERING"} =>
              t.op \in TransferOps /\ SentState[t.op] = t.target_state
  BY <1>1, <1>3, <1>5, <1>7 DEF Lib!Owes
<1>9. /\ t.control_state = "RNTO_SENT" => t.op = "RNFR"
      /\ t.control_state \in (TransferStates \cup CommandStates) \ {"RNTO_SENT"} =>
              t.op \in Ops /\ SentState[t.op] = t.control_state
  BY <1>1, <1>7 DEF Lib!Owes, CommandStates
<1> QED BY <1>2, <1>4, <1>5, <1>6, <1>8, <1>9

(* A handler begins in the same session.                                    *)
LEMMA QuietSession ==
  ASSUME NEW t, Lib!Good(t)
  PROVE  /\ Lib!Good(Quiet(t)) /\ Fresh(Quiet(t))
         /\ Quiet(t).control_pcb = t.control_pcb /\ Quiet(t).data_pcb = t.data_pcb
         /\ Quiet(t).control_state = t.control_state /\ Quiet(t).target_state = t.target_state
         /\ Quiet(t).op = t.op /\ Quiet(t).wild = t.wild
<1>1. Lib!Good(Quiet(t))
  BY SameLib, RepliesNat, Lib!QuietGood
<1>2. t \in Sessions /\ Quiet(t) \in Sessions
  BY <1>1, GoodSession
<1> QED BY <1>1, <1>2 DEF Fresh, Quiet, Sessions

(* Writing one command, reporting one result.                               *)
LEMMA WritesOne ==
  ASSUME NEW q, Fresh(q), NEW x
  PROVE  Append(q.sent, x) = <<x>> /\ Append(q.done, x) = <<x>>
BY DEF Fresh

(* A reply that no state waits for is ignored.                              *)
LEMMA ProcessLogged ==
  ASSUME NEW q, Fresh(q), q.control_state = "LOGGED", NEW r, NEW opened, NEW more
  PROVE  lwftp_control_process(q, r, opened, more) = q
BY DEF lwftp_control_process, FirstSwitch, SecondSwitch, Awaiting, LoginStates, TransferStates,
       CommandStates

(* A refusal before the operation proper makes the session quit.            *)
LEMMA ProcessRefused ==
  ASSUME NEW q, Fresh(q), NEW r, r # 0, NEW opened, NEW more,
         q.control_state \in LoginStates \cup {"TYPE_SENT", "PASV_SENT"},
         r # Expected[q.control_state]
  PROVE  Turns(q, lwftp_control_process(q, r, opened, more), "QUIT_SENT", <<"QUIT">>, <<>>,
               q.data_pcb, q.op)
<1> DEFINE v == Goto(q, "QUIT")
           u == lwftp_control_process(q, r, opened, more)
<1>1. Otherwise(q.control_state) = "QUIT"
  BY DEF Otherwise, LoginStates, TransferStates, CommandStates
<1>2. FirstSwitch(q, r, opened, more) = v
  BY <1>1 DEF FirstSwitch, Awaiting
<1>3. v.control_state = "QUIT"
  BY DEF Goto, Fresh, Sessions
<1>4. u = Goto(lwftp_send_msg(v, "QUIT"), "QUIT_SENT")
  BY <1>2, <1>3 DEF lwftp_control_process, SecondSwitch
<1>5. Append(q.sent, "QUIT") = <<"QUIT">>
  BY WritesOne
<1> QED BY <1>4, <1>5 DEF Turns, Goto, lwftp_send_msg, Fresh, Sessions

(* The reply it waits for moves the session on.                             *)
LEMMA ProcessExpected ==
  ASSUME NEW q, Fresh(q), NEW r, r # 0, NEW opened, NEW more,
         q.control_state \in DOMAIN Expected, r = Expected[q.control_state]
  PROVE  lwftp_control_process(q, r, opened, more) =
           SecondSwitch(Advance(q, opened, more), ResultOf(q.control_state, r))
BY DEF lwftp_control_process, FirstSwitch, Expected, Awaiting, LoginStates, TransferStates,
       CommandStates

(* ... by the next command of the login, of a transfer or of a rename,      *)
Follows(st, cmd, next) ==
  \/ st = "CONNECTED" /\ cmd = "USER" /\ next = "USER_SENT"
  \/ st = "USER_SENT" /\ cmd = "PASS" /\ next = "PASS_SENT"
  \/ st = "TYPE_SENT" /\ cmd = "PASV" /\ next = "PASV_SENT"
  \/ st = "RNFR_SENT" /\ cmd = "RNTO" /\ next = "RNTO_SENT"

(* which is the one Follows names,                                          *)
LEMMA ProcessNext ==
  ASSUME NEW q, Fresh(q), NEW r, r # 0, NEW opened, NEW more,
         NEW st, NEW cmd, Follows(q.control_state, cmd, st), r = Expected[q.control_state]
  PROVE  Turns(q, lwftp_control_process(q, r, opened, more), st, <<cmd>>, <<>>, q.data_pcb, q.op)
<1> DEFINE v == Goto(lwftp_send_msg(q, cmd), st)
           u == lwftp_control_process(q, r, opened, more)
<1>1. Advance(q, opened, more) = v
  BY DEF Advance, Follows
<1>2. v.control_state = st /\ st \notin {"DATAEND", "CMDEND", "QUIT", "CLOSING"}
  BY DEF Goto, lwftp_send_msg, Fresh, Sessions, Follows
<1>3. q.control_state \in DOMAIN Expected
  BY DEF Expected, Follows
<1>4. u = v
  <2> HIDE DEF v
  <2>1. u = SecondSwitch(v, ResultOf(q.control_state, r))
    BY <1>1, <1>3, ProcessExpected
  <2> QED BY <1>2, <2>1 DEF SecondSwitch
<1>5. Append(q.sent, cmd) = <<cmd>>
  BY WritesOne
<1> QED BY <1>4, <1>5 DEF Turns, Goto, lwftp_send_msg, Fresh, Sessions

(* ... by the end of the login,                                             *)
LEMMA ProcessLogin ==
  ASSUME NEW q, Fresh(q), q.control_state = "PASS_SENT", NEW opened, NEW more
  PROVE  Turns(q, lwftp_control_process(q, 230, opened, more), "LOGGED", <<>>, <<"LOGGED">>,
               q.data_pcb, None)
<1> DEFINE v == Report(Goto(q, "LOGGED"), "LOGGED")
           u == lwftp_control_process(q, 230, opened, more)
<1>1. Advance(q, opened, more) = v
  BY DEF Advance
<1>2. v.control_state = "LOGGED"
  BY DEF Goto, Report, Fresh, Sessions
<1>3. q.control_state \in DOMAIN Expected /\ Expected[q.control_state] = 230
  BY DEF Expected
<1>4. u = v
  <2> HIDE DEF v
  <2>1. u = SecondSwitch(v, ResultOf(q.control_state, 230))
    BY <1>1, <1>3, ProcessExpected
  <2> QED BY <1>2, <2>1 DEF SecondSwitch
<1>5. Append(q.done, "LOGGED") = <<"LOGGED">>
  BY WritesOne
<1>6. q \in Sessions /\ q.sent = <<>>
  BY DEF Fresh
<1>7. /\ v.done = Append(q.done, "LOGGED") /\ v.sent = q.sent /\ v.op = None
      /\ v.data_pcb = q.data_pcb /\ v.control_pcb = q.control_pcb
      /\ v.target_state = q.target_state /\ v.wild = q.wild
  BY <1>6 DEF Goto, Report, Sessions
<1> HIDE DEF v
<1> QED BY <1>2, <1>4, <1>5, <1>6, <1>7 DEF Turns

(* ... by the transfer command, with the data connection opening or not,     *)
LEMMA ProcessPassive ==
  ASSUME NEW q, Fresh(q), q.control_state = "PASV_SENT", NEW opened, NEW more,
         q.op \in TransferOps, SentState[q.op] = q.target_state
  PROVE  Turns(q, lwftp_control_process(q, 227, opened, more), q.target_state, <<q.op>>, <<>>,
               IF opened THEN "SYN_SENT" ELSE q.data_pcb, q.op)
<1> DEFINE v == lwftp_data_open(q, opened)
           verb == CHOOSE x \in TransferOps : SentState[x] = v.target_state
           w == [lwftp_send_msg(v, q.op)
                   EXCEPT !.target_state = q.target_state, !.control_state = q.target_state]
           u == lwftp_control_process(q, 227, opened, more)
<1>1. /\ DOMAIN v = DOMAIN q /\ v.target_state = q.target_state /\ v.control_state = q.control_state
      /\ v.data_pcb = (IF opened THEN "SYN_SENT" ELSE q.data_pcb) /\ v.op = q.op
      /\ v.sent = q.sent /\ v.done = <<>> /\ v.wild = q.wild /\ v.control_pcb = q.control_pcb
  BY DEF lwftp_data_open, Fresh, Sessions
<1>2. verb = q.op /\ q.target_state \in TransferStates
  BY <1>1 DEF TransferOps, SentState, TransferStates
<1>3. Advance(q, opened, more) = lwftp_issue_transfer(v)
  BY DEF Advance
<1>4. lwftp_issue_transfer(v) = w
  BY <1>1, <1>2, Zenon DEF lwftp_issue_transfer
<1>5. q.control_state \in DOMAIN Expected /\ Expected[q.control_state] = 227
  BY DEF Expected
<1> HIDE DEF v, verb
<1>6. w.control_state = q.target_state
  BY <1>1 DEF lwftp_send_msg, Fresh, Sessions
<1>7. u = w
  <2> HIDE DEF w
  <2>1. u = SecondSwitch(w, ResultOf(q.control_state, 227))
    BY <1>3, <1>4, <1>5, ProcessExpected
  <2> QED BY <1>2, <1>6, <2>1 DEF SecondSwitch, TransferStates
<1>8. Append(v.sent, q.op) = <<q.op>>
  BY <1>1, WritesOne
<1>9. q \in Sessions
  BY DEF Fresh
<1>10. /\ w.sent = Append(v.sent, q.op) /\ w.done = v.done /\ w.op = v.op
       /\ w.data_pcb = v.data_pcb /\ w.control_pcb = v.control_pcb
       /\ w.target_state = q.target_state /\ w.wild = v.wild
  BY <1>1, <1>9 DEF lwftp_send_msg, Sessions
<1> HIDE DEF w
<1> QED BY <1>1, <1>6, <1>7, <1>8, <1>10 DEF Turns

(* ... by the start of a transfer, the first block of a STOR included,       *)
LEMMA ProcessStarted ==
  ASSUME NEW q, Fresh(q), q.control_state \in TransferStates, NEW opened, NEW more
  PROVE  LET u == lwftp_control_process(q, 150, opened, more) IN
         /\ q.control_state # "STOR_SENT" =>
              Turns(q, u, "XFERING", <<>>, <<>>, q.data_pcb, q.op)
         /\ q.control_state = "STOR_SENT" =>
              Turns([q EXCEPT !.wild = q.wild \/ q.data_pcb = NULL], u, "XFERING", <<>>, <<>>,
                    IF more THEN q.data_pcb ELSE NULL, q.op)
<1> DEFINE g == Goto(q, "XFERING")
           v == IF q.control_state = "STOR_SENT" THEN lwftp_data_sent(g, more) ELSE g
           u == lwftp_control_process(q, 150, opened, more)
<1>1. Advance(q, opened, more) = v
  BY DEF Advance, TransferStates
<1>2. v.control_state = "XFERING"
  BY DEF Goto, lwftp_data_sent, lwftp_send_next_data, Fresh, Sessions
<1>3. q.control_state \in DOMAIN Expected /\ Expected[q.control_state] = 150
  BY DEF Expected, TransferStates
<1>4. u = v
  <2> HIDE DEF v
  <2>1. u = SecondSwitch(v, ResultOf(q.control_state, 150))
    BY <1>1, <1>3, ProcessExpected
  <2> QED BY <1>2, <2>1 DEF SecondSwitch
<1>5. ASSUME q.control_state # "STOR_SENT"
      PROVE  Turns(q, u, "XFERING", <<>>, <<>>, q.data_pcb, q.op)
  BY <1>4, <1>5 DEF Turns, Goto, Fresh, Sessions
<1>6. ASSUME q.control_state = "STOR_SENT"
      PROVE  Turns([q EXCEPT !.wild = q.wild \/ q.data_pcb = NULL], u, "XFERING", <<>>, <<>>,
                   IF more THEN q.data_pcb ELSE NULL, q.op)
  <2> DEFINE p == [q EXCEPT !.wild = q.wild \/ q.data_pcb = NULL]
  <2>1. v = lwftp_data_sent(g, more)
    BY <1>6
  <2>2. /\ v.sent = q.sent /\ v.done = q.done /\ v.op = q.op
        /\ v.data_pcb = (IF more THEN q.data_pcb ELSE NULL) /\ v.control_pcb = q.control_pcb
        /\ v.target_state = q.target_state /\ (v.wild <=> p.wild)
        /\ p.control_pcb = q.control_pcb /\ p.target_state = q.target_state
    BY <2>1 DEF Goto, lwftp_data_sent, lwftp_send_next_data, Fresh, Sessions
  <2>3. v.wild \in BOOLEAN /\ p.wild \in BOOLEAN
    BY <2>1 DEF Goto, lwftp_data_sent, lwftp_send_next_data, Fresh, Sessions
  <2>4. q.sent = <<>> /\ q.done = <<>> /\ v.wild = p.wild
    BY <2>2, <2>3 DEF Fresh
  <2> HIDE DEF v, p
  <2>5. Turns(p, u, "XFERING", <<>>, <<>>, IF more THEN q.data_pcb ELSE NULL, q.op)
    BY <1>2, <1>4, <2>2, <2>4 DEF Turns
  <2> QED BY <2>5 DEF p
<1> QED BY <1>5, <1>6

(* The end of an operation: what the second switch makes of DATAEND and      *)
(* CMDEND.                                                                  *)
LEMMA EndShape ==
  ASSUME NEW q, Fresh(q), NEW r
  PROVE  /\ Turns(q, SecondSwitch(Goto(q, "DATAEND"), r), "LOGGED", <<>>, <<r>>, NULL, None)
         /\ Turns(q, SecondSwitch(Goto(q, "CMDEND"), r), "LOGGED", <<>>, <<r>>, q.data_pcb, None)
<1>1. q \in Sessions /\ q.sent = <<>> /\ Append(q.done, r) = <<r>>
  BY WritesOne DEF Fresh
<1>2. Goto(q, "DATAEND").control_state = "DATAEND" /\ Goto(q, "CMDEND").control_state = "CMDEND"
  BY <1>1 DEF Goto, Sessions
<1> DEFINE v == lwftp_data_close(Goto(Goto(q, "DATAEND"), "LOGGED"), r)
           w == Report(Goto(Goto(q, "CMDEND"), "LOGGED"), r)
<1>3. SecondSwitch(Goto(q, "DATAEND"), r) = v /\ SecondSwitch(Goto(q, "CMDEND"), r) = w
  BY <1>2 DEF SecondSwitch
<1>4. /\ v.done = Append(q.done, r) /\ v.sent = q.sent /\ v.op = None /\ v.data_pcb = NULL
      /\ v.control_pcb = q.control_pcb /\ v.target_state = q.target_state /\ v.wild = q.wild
      /\ v.control_state = "LOGGED"
  BY <1>1 DEF lwftp_data_close, Report, Goto, Sessions
<1>5. /\ w.done = Append(q.done, r) /\ w.sent = q.sent /\ w.op = None /\ w.data_pcb = q.data_pcb
      /\ w.control_pcb = q.control_pcb /\ w.target_state = q.target_state /\ w.wild = q.wild
      /\ w.control_state = "LOGGED"
  BY <1>1 DEF Report, Goto, Sessions
<1> HIDE DEF v, w
<1> QED BY <1>1, <1>3, <1>4, <1>5 DEF Turns

(* A reply that ends a transfer, before it has begun or after,              *)
LEMMA ProcessTransferEnd ==
  ASSUME NEW q, Fresh(q), NEW r, r # 0, NEW opened, NEW more,
         q.control_state \in TransferStates \cup {"XFERING"},
         q.control_state \in TransferStates => r # 150
  PROVE  /\ Turns(q, lwftp_control_process(q, r, opened, more), "LOGGED", <<>>,
                  <<ResultOf(q.control_state, r)>>, NULL, None)
         /\ ResultOf(q.control_state, r) \notin {"INPROGRESS", "LOGGED"}
         /\ ResultOf(q.control_state, r) = "OK" <=> q.control_state = "XFERING" /\ r = 226
<1>1. Otherwise(q.control_state) = "DATAEND"
  BY DEF Otherwise, LoginStates, TransferStates, CommandStates
<1>2. FirstSwitch(q, r, opened, more) = Goto(q, "DATAEND")
  BY <1>1 DEF FirstSwitch, Awaiting, TransferStates, Expected
<1>3. /\ ResultOf(q.control_state, r) \notin {"INPROGRESS", "LOGGED"}
      /\ ResultOf(q.control_state, r) = "OK" <=> q.control_state = "XFERING" /\ r = 226
  BY DEF ResultOf, Completes, TransferStates
<1> QED BY <1>2, <1>3, EndShape DEF lwftp_control_process

(* ... that ends an operation without one,                                  *)
LEMMA ProcessCommandEnd ==
  ASSUME NEW q, Fresh(q), NEW r, r # 0, NEW opened, NEW more,
         q.control_state \in CommandStates, q.control_state = "RNFR_SENT" => r # 350
  PROVE  /\ Turns(q, lwftp_control_process(q, r, opened, more), "LOGGED", <<>>,
                  <<ResultOf(q.control_state, r)>>, q.data_pcb, None)
         /\ ResultOf(q.control_state, r) \notin {"INPROGRESS", "LOGGED"}
         /\ ResultOf(q.control_state, r) = "OK" <=>
              q.control_state \in CommandStates \ {"RNFR_SENT"} /\ r = Completes[q.control_state]
<1>1. Otherwise(q.control_state) = "CMDEND"
  BY DEF Otherwise, LoginStates, TransferStates, CommandStates
<1>2. FirstSwitch(q, r, opened, more) = Goto(q, "CMDEND")
  BY <1>1 DEF FirstSwitch, Awaiting, CommandStates, Expected
<1>3. /\ ResultOf(q.control_state, r) \notin {"INPROGRESS", "LOGGED"}
      /\ ResultOf(q.control_state, r) = "OK" <=>
           q.control_state \in CommandStates \ {"RNFR_SENT"} /\ r = Completes[q.control_state]
  BY DEF ResultOf, Completes, CommandStates
<1> QED BY <1>2, <1>3, EndShape DEF lwftp_control_process

(* ... and that ends the session.                                           *)
LEMMA CloseShape ==
  ASSUME NEW q, Fresh(q), NEW r \in Results
  PROVE  Ends(q, lwftp_control_close(q, r))
<1>1. q \in Sessions /\ q.sent = <<>> /\ Append(q.done, r) = <<r>>
  BY WritesOne DEF Fresh
<1> DEFINE v == Report([q EXCEPT !.data_pcb = NULL, !.control_pcb = NULL,
                                 !.control_state = "CLOSED"], r)
<1>2. lwftp_control_close(q, r) = v
  BY DEF lwftp_control_close, Results, None
<1>3. /\ v.done = Append(q.done, r) /\ v.sent = q.sent /\ v.op = None /\ v.data_pcb = NULL
      /\ v.control_pcb = NULL /\ v.wild = q.wild /\ v.control_state = "CLOSED"
  BY <1>1 DEF Report, Sessions
<1> HIDE DEF v
<1> QED BY <1>1, <1>2, <1>3, Zenon DEF Ends

(* Any reply to QUIT ends it.                                               *)
LEMMA ProcessQuit ==
  ASSUME NEW q, Fresh(q), NEW r, r # 0, NEW opened, NEW more, q.control_state = "QUIT_SENT"
  PROVE  Ends(q, lwftp_control_process(q, r, opened, more))
<1>1. Otherwise(q.control_state) = "CLOSING"
  BY DEF Otherwise, LoginStates, TransferStates, CommandStates
<1>2. FirstSwitch(q, r, opened, more) = Goto(q, "CLOSING")
  BY <1>1 DEF FirstSwitch, Awaiting, Expected
<1> DEFINE v == Goto(q, "CLOSING")
           res == ResultOf(q.control_state, r)
<1>3. Fresh(v) /\ v.wild = q.wild /\ v.control_state = "CLOSING"
  BY DEF Goto, Fresh, Sessions, ControlStates, PassingStates
<1>4. res \in Results
  BY DEF ResultOf, Results
<1> HIDE DEF v, res
<1>5. lwftp_control_process(q, r, opened, more) = lwftp_control_close(v, res)
  BY <1>2, <1>3 DEF lwftp_control_process, SecondSwitch, v, res
<1>6. Ends(v, lwftp_control_close(v, res))
  BY <1>3, <1>4, CloseShape
<1> QED BY <1>3, <1>5, <1>6 DEF Ends

(* The control connection is closed by the peer, or fails.                  *)
LEMMA ControlEnds ==
  ASSUME NEW q, Fresh(q)
  PROVE  Ends(q, lwftp_control_recv_null(q)) /\ Ends(q, lwftp_control_err(q))
<1> DEFINE v == [q EXCEPT !.control_pcb = NULL]
<1>1. Fresh(v) /\ v.wild = q.wild
  BY DEF Fresh, Sessions, ControlPcbs
<1> HIDE DEF v
<1>2. Ends(v, lwftp_control_err(q))
  <2>1. lwftp_control_err(q) = lwftp_control_close(v, "ERR_CONNECT")
        \/ lwftp_control_err(q) = lwftp_control_close(v, "ERR_CLOSED")
    BY DEF lwftp_control_err, v
  <2> QED BY <1>1, <2>1, CloseShape DEF Results
<1>3. Ends(q, lwftp_control_recv_null(q))
  BY CloseShape DEF lwftp_control_recv_null, Results
<1> QED BY <1>1, <1>2, <1>3 DEF Ends

(* The callbacks of the data connection.                                    *)
LEMMA DataShapes ==
  ASSUME NEW q, Fresh(q), NEW more
  PROVE  /\ Turns(q, lwftp_data_connected(q), q.control_state, <<>>, <<>>, "ESTABLISHED", q.op)
         /\ Turns(q, lwftp_data_recv_null(q), q.control_state, <<>>, <<>>, NULL, q.op)
         /\ q.data_pcb # NULL =>
              Turns(q, lwftp_data_sent(q, more), q.control_state, <<>>, <<>>,
                    IF more THEN q.data_pcb ELSE NULL, q.op)
BY DEF Turns, lwftp_data_connected, lwftp_data_recv_null, lwftp_data_sent, lwftp_send_next_data,
       Fresh, Sessions

(* Its failure ends a transfer under way.                                   *)
LEMMA DataErrShape ==
  ASSUME NEW q, Fresh(q)
  PROVE  /\ q.control_state = "XFERING" =>
              Turns(q, lwftp_data_err(q), "LOGGED", <<>>, <<"ERR_SRVR_RESP">>, NULL, None)
         /\ q.control_state # "XFERING" =>
              Turns(q, lwftp_data_err(q), q.control_state, <<>>, <<>>, NULL, q.op)
<1> DEFINE t == [q EXCEPT !.data_pcb = NULL]
           v == Goto(t, "DATAEND")
<1>1. /\ Fresh(t) /\ t.control_state = q.control_state /\ t.data_pcb = NULL /\ t.op = q.op
      /\ t.control_pcb = q.control_pcb /\ t.target_state = q.target_state /\ t.wild = q.wild
      /\ t.sent = <<>> /\ t.done = <<>>
  BY DEF Fresh, Sessions, DataPcbs
<1>2. ASSUME q.control_state # "XFERING"
      PROVE  lwftp_data_err(q) = t
  BY <1>1, <1>2 DEF lwftp_data_err
<1>3. ASSUME q.control_state = "XFERING"
      PROVE  lwftp_data_err(q) = SecondSwitch(v, "ERR_SRVR_RESP")
  <2>1. v.control_state = "DATAEND"
    BY <1>1 DEF Goto, Fresh, Sessions
  <2>2. FirstSwitch(v, 0, FALSE, FALSE) = v
    BY DEF FirstSwitch
  <2>3. ResultOf(v.control_state, 0) = "ERR_SRVR_RESP"
    BY <2>1 DEF ResultOf, Completes
  <2> QED BY <1>1, <1>3, <2>2, <2>3 DEF lwftp_data_err, lwftp_control_process
<1> HIDE DEF t
<1>4. Turns(t, SecondSwitch(v, "ERR_SRVR_RESP"), "LOGGED", <<>>, <<"ERR_SRVR_RESP">>, NULL, None)
  BY <1>1, EndShape
<1> HIDE DEF v
<1> QED BY <1>1, <1>2, <1>3, <1>4 DEF Turns

(* The caller connects: refused at once, or under way.                      *)
LEMMA ConnectShape ==
  ASSUME NEW q, Fresh(q), q.control_state = "CLOSED", q.control_pcb = NULL, q.data_pcb = NULL,
         q.op = None, q.wild = FALSE, NEW pcb \in BOOLEAN, NEW ok \in BOOLEAN
  PROVE  LET u == lwftp_connect(q, TRUE, pcb, ok) IN
         \/ Ends(q, u) /\ u.done \in {<<"ERR_MEMORY">>, <<"ERR_UNKNOWN">>}
         \/ /\ u.control_state = "CLOSED" /\ u.control_pcb = "SYN_SENT" /\ u.data_pcb = NULL
            /\ u.sent = <<>> /\ u.done = <<"INPROGRESS">> /\ ~u.wild
<1> DEFINE v == [q EXCEPT !.control_pcb = "SYN_SENT", !.op = "CONNECT"]
           w == [q EXCEPT !.data_pcb = NULL, !.control_pcb = NULL, !.control_state = "CLOSED"]
           u == lwftp_connect(q, TRUE, pcb, ok)
<1>1. /\ q.control_state = "CLOSED" /\ q.control_pcb = NULL /\ q.data_pcb = NULL /\ q.sent = <<>>
      /\ q.done = <<>> /\ q.op = None /\ q.wild = FALSE
      /\ DOMAIN q = {"control_state", "target_state", "control_pcb", "data_pcb", "sent", "done",
                     "op", "wild"}
  BY DEF Fresh, Sessions
<1>2. u = Return(q, "ERR_MEMORY") \/ u = Return(v, "INPROGRESS") \/ u = Return(w, "ERR_UNKNOWN")
  BY <1>1 DEF lwftp_connect, lwftp_control_close
<1> HIDE DEF u
<1>3. \A x : Append(q.done, x) = <<x>>
  BY <1>1
<1>4. CASE u = Return(q, "ERR_MEMORY")
  <2>1. /\ u.control_state = "CLOSED" /\ u.control_pcb = NULL /\ u.data_pcb = NULL
        /\ u.sent = q.sent /\ u.done = Append(q.done, "ERR_MEMORY") /\ u.op = None
        /\ u.wild = q.wild
    BY <1>1, <1>4 DEF Return
  <2> QED BY <1>1, <1>3, <2>1 DEF Ends, Results, u
<1>5. CASE u = Return(v, "INPROGRESS")
  <2>1. /\ u.control_state = "CLOSED" /\ u.control_pcb = "SYN_SENT" /\ u.data_pcb = NULL
        /\ u.sent = q.sent /\ u.done = Append(q.done, "INPROGRESS") /\ u.wild = FALSE
    BY <1>1, <1>5 DEF Return
  <2> QED BY <1>1, <1>3, <2>1 DEF u
<1>6. CASE u = Return(w, "ERR_UNKNOWN")
  <2>1. /\ u.control_state = "CLOSED" /\ u.control_pcb = NULL /\ u.data_pcb = NULL
        /\ u.sent = q.sent /\ u.done = Append(q.done, "ERR_UNKNOWN") /\ u.op = None
        /\ u.wild = q.wild
    BY <1>1, <1>6 DEF Return
  <2> QED BY <1>1, <1>3, <2>1 DEF Ends, Results, u
<1> QED BY <1>2, <1>4, <1>5, <1>6 DEF u

(* It starts a transfer: TYPE is written unless there is no pcb,            *)
LEMMA TransferShape ==
  ASSUME NEW q, Fresh(q), q.control_state = "LOGGED", q.data_pcb = NULL, q.op = None,
         NEW op \in TransferOps, NEW pcb \in BOOLEAN
  PROVE  LET u == lwftp_transfer(q, op, TRUE, pcb) IN
         \/ Turns(q, u, "LOGGED", <<>>, <<"ERR_MEMORY">>, NULL, None)
         \/ Turns([q EXCEPT !.target_state = SentState[op]], u, "TYPE_SENT", <<"TYPE">>,
                  <<"INPROGRESS">>, "CLOSED", op)
<1> DEFINE u == lwftp_transfer(q, op, TRUE, pcb)
           p == [q EXCEPT !.target_state = SentState[op]]
           v == lwftp_start([q EXCEPT !.data_pcb = "CLOSED"], op)
           w == [lwftp_send_msg([q EXCEPT !.data_pcb = "CLOSED"], "TYPE")
                   EXCEPT !.control_state = "TYPE_SENT", !.target_state = SentState[op], !.op = op]
<1>1. q \in Sessions /\ q.sent = <<>> /\ q.done = <<>> /\ \A x : Append(q.done, x) = <<x>>
      /\ Append(q.sent, "TYPE") = <<"TYPE">>
  BY WritesOne DEF Fresh
<1>2. u = Return(q, "ERR_MEMORY") \/ u = Return(v, "INPROGRESS")
  BY DEF lwftp_transfer
<1>3. v = w
  BY <1>1 DEF lwftp_start, Sessions
<1>4. CASE u = Return(q, "ERR_MEMORY")
  <2> HIDE DEF u
  <2>1. /\ u.control_state = "LOGGED" /\ u.control_pcb = q.control_pcb /\ u.data_pcb = NULL
        /\ u.sent = q.sent /\ u.done = Append(q.done, "ERR_MEMORY") /\ u.op = None
        /\ u.wild = q.wild /\ u.target_state = q.target_state
    BY <1>1, <1>4 DEF Return, Sessions
  <2> QED BY <1>1, <2>1 DEF Turns, u
<1>5. CASE u = Return(v, "INPROGRESS")
  <2>1. u = Return(w, "INPROGRESS")
    BY <1>3, <1>5
  <2> HIDE DEF u, v
  <2>2. /\ u.control_state = "TYPE_SENT" /\ u.control_pcb = q.control_pcb /\ u.data_pcb = "CLOSED"
        /\ u.sent = Append(q.sent, "TYPE") /\ u.done = Append(q.done, "INPROGRESS") /\ u.op = op
        /\ u.wild = q.wild /\ u.target_state = SentState[op]
    BY <1>1, <2>1 DEF Return, lwftp_send_msg, Sessions
  <2>3. p.control_pcb = q.control_pcb /\ p.wild = q.wild /\ p.target_state = SentState[op]
    BY <1>1 DEF Sessions
  <2> HIDE DEF p
  <2>4. Turns(p, u, "TYPE_SENT", <<"TYPE">>, <<"INPROGRESS">>, "CLOSED", op)
    BY <1>1, <2>2, <2>3 DEF Turns
  <2> QED BY <2>4 DEF p, u
<1> QED BY <1>2, <1>4, <1>5

(* ... or an operation without a data connection,                           *)
LEMMA CommandShape ==
  ASSUME NEW q, Fresh(q), q.control_state = "LOGGED", q.data_pcb = NULL, NEW op \in CommandOps
  PROVE  Turns(q, lwftp_command(q, op, TRUE), SentState[op], <<op>>, <<"INPROGRESS">>, NULL, op)
<1> DEFINE u == lwftp_command(q, op, TRUE)
           w == [lwftp_send_msg(q, op) EXCEPT !.control_state = SentState[op], !.op = op]
<1>1. q \in Sessions /\ q.sent = <<>> /\ q.done = <<>> /\ Append(q.done, "INPROGRESS") = <<"INPROGRESS">>
      /\ Append(q.sent, op) = <<op>>
  BY WritesOne DEF Fresh
<1>2. u = Return(w, "INPROGRESS")
  BY DEF lwftp_command, lwftp_send
<1> HIDE DEF u
<1>3. /\ u.control_state = SentState[op] /\ u.control_pcb = q.control_pcb /\ u.data_pcb = NULL
      /\ u.sent = Append(q.sent, op) /\ u.done = Append(q.done, "INPROGRESS") /\ u.op = op
      /\ u.wild = q.wild /\ u.target_state = q.target_state
  BY <1>1, <1>2 DEF Return, lwftp_send_msg, Sessions
<1> QED BY <1>1, <1>3 DEF Turns, u

(* ... or closes.                                                           *)
LEMMA QuitShape ==
  ASSUME NEW q, Fresh(q), q.control_state # "CLOSED", q.control_pcb # NULL
  PROVE  Turns(q, lwftp_close(q), "QUIT_SENT", <<"QUIT">>, <<>>, q.data_pcb, q.op)
<1>1. q \in Sessions /\ q.sent = <<>> /\ q.done = <<>> /\ Append(q.sent, "QUIT") = <<"QUIT">>
  BY WritesOne DEF Fresh
<1> DEFINE u == lwftp_close(q)
<1>2. u = Goto(lwftp_send_msg(q, "QUIT"), "QUIT_SENT")
  BY DEF lwftp_close
<1> HIDE DEF u
<1>3. /\ u.control_state = "QUIT_SENT" /\ u.control_pcb = q.control_pcb /\ u.data_pcb = q.data_pcb
      /\ u.sent = Append(q.sent, "QUIT") /\ u.done = q.done /\ u.op = q.op
      /\ u.wild = q.wild /\ u.target_state = q.target_state
  BY <1>1, <1>2 DEF Goto, lwftp_send_msg, Sessions
<1> QED BY <1>1, <1>3 DEF Turns, u

-----------------------------------------------------------------------------
(* The inductive invariant: what is under way in each state of the session.  *)

(* The command whose reply a state waits for.                               *)
CommandOf ==
  [USER_SENT |-> "USER", PASS_SENT |-> "PASS", TYPE_SENT |-> "TYPE", PASV_SENT |-> "PASV",
   RETR_SENT |-> "RETR", STOR_SENT |-> "STOR", MLSD_SENT |-> "MLSD",
   DELE_SENT |-> "DELE", RMD_SENT |-> "RMD", CWD_SENT |-> "CWD", PWD_SENT |-> "PWD",
   RNFR_SENT |-> "RNFR", RNTO_SENT |-> "RNTO"]

(* tcp_write has refused the command that is waited for.                    *)
Lost == "unsent" \in faults /\ up = <<>> /\ down = <<>>

(* A command is on its way to the server, or its one reply on its way back, *)
(* or the command was lost.                                                 *)
Exchange(cmd) ==
  /\ srv = NoTransfer
  /\ \/ up = <<<<cmd, n>>>> /\ down = <<>>
     \/ up = <<>> /\ (down = <<Accepted[cmd]>> \/ (Rejects(cmd) /\ down = <<550>>))
     \/ Lost

Greeting == /\ up = <<>> /\ srv = NoTransfer
            /\ down = <<220>> \/ ("refuse" \in faults /\ down = <<421, 0>>)

(* A data connection over which nothing has gone.                           *)
Unused(l) == /\ l.left = 0 /\ l.fly = 0 /\ l.got = 0 /\ l.src = Blocks /\ l.stored = 0
             /\ ~l.fin /\ ~l.out /\ ~l.eof

(* Every block of a transfer is somewhere.                                  *)
Coming(l) == l.left + l.fly + l.got = Blocks /\ ~l.out /\ ~l.eof
Out(l) == IF l.out THEN 1 ELSE 0
Going(l) == /\ l.src + Out(l) + l.stored = Blocks /\ (l.eof => l.src = 0 /\ ~l.out)
            /\ l.left = 0 /\ l.fly = 0
Blockwise(x, l) == IF x = "STOR" THEN Going(l) ELSE Coming(l)

(* The transfer command has been written; the server may have run ahead to  *)
(* the end of the transfer, but not to that of a STOR.                      *)
Announced(x) ==
  \/ up = <<<<x, n>>>> /\ down = <<>> /\ srv = NoTransfer /\ Unused(link)
  \/ Lost /\ srv = NoTransfer /\ Unused(link)
  \/ /\ up = <<>>
     /\ \/ Rejects(x) /\ down = <<550>> /\ srv = NoTransfer /\ Unused(link)
        \/ /\ Blockwise(x, link) /\ (x = "STOR" => Unused(link))
           /\ \/ down = <<150>> /\ srv = [doing |-> x, id |-> n] /\ ~link.fin
              \/ down = <<150, 426>> /\ srv = NoTransfer /\ ~link.fin
              \/ x # "STOR" /\ down = <<150, 226>> /\ srv = NoTransfer /\ link.left = 0

(* The transfer is under way, or its last reply is; when two replies came   *)
(* in one pbuf it may have been lost.                                       *)
Moving(x) ==
  /\ up = <<>> /\ Blockwise(x, link)
  /\ \/ down = <<>> /\ srv = [doing |-> x, id |-> n]
     \/ down = <<426>> /\ srv = NoTransfer
     \/ /\ down = <<226>> /\ srv = NoTransfer
        /\ link.left = 0 /\ (x = "STOR" => link.stored = Blocks)
     \/ "coalesce" \in faults /\ down = <<>> /\ srv = NoTransfer

(* What a transfer that ended with its data connection leaves under way     *)
(* stays ahead of every later command, but a TYPE is answered after all of  *)
(* it.                                                                      *)
LateCommands == CommandOps \cup {"RNTO"}
LateReplies == {226, 426, 250, 257, 350, 550}
Backlog ==
  /\ \A i \in DOMAIN up :
       \/ up[i][1] \in LateCommands
       \/ s.control_state = "TYPE_SENT" /\ up[i][1] = "TYPE" /\ i = Len(up)
  /\ \A i \in DOMAIN down :
       \/ down[i] \in LateReplies
       \/ /\ s.control_state = "TYPE_SENT" /\ down[i] = 200 /\ i = Len(down)
          /\ up = <<>> /\ srv = NoTransfer

Conversation ==
  /\ s.control_pcb # "ESTABLISHED" => up = <<>>
  /\ s = FreshSession => down = <<>> /\ srv = NoTransfer /\ link = NoLink
  /\ s.control_pcb = "SYN_SENT" \/ s.control_state = "CONNECTED" => Greeting
  /\ s.control_state \in {"USER_SENT", "PASS_SENT", "PASV_SENT"} =>
       Exchange(CommandOf[s.control_state])
  /\ s.control_state = "PASV_SENT" /\ down = <<227>> => Unused(link)
  /\ s.control_state \in {"LOGGED", "TYPE_SENT"} \cup CommandStates => Backlog
  /\ s.control_state \in TransferStates => Announced(CommandOf[s.control_state])
  /\ s.control_state = "XFERING" => Moving(s.op)

(* The blocks of a data connection, and who may acknowledge one.            *)
Links ==
  /\ link.left + link.fly + link.got <= Blocks
  /\ link.src + Out(link) + link.stored <= Blocks
  /\ \A i \in DOMAIN up : up[i][1] \in TransferOps =>
       i = 1 /\ Unused(link) /\ srv = NoTransfer
  /\ link.out /\ srv.doing = "STOR" /\ s.data_pcb \in {"SYN_SENT", "ESTABLISHED"} =>
       s.control_state \in {"XFERING", "QUIT_SENT"} /\ s.target_state = "STOR_SENT"

(* As long as the data connection does not fail.                            *)
InStep ==
  /\ s.control_state = "LOGGED" => up = <<>> /\ down = <<>> /\ srv = NoTransfer
  /\ s.control_state \in CommandStates \cup {"TYPE_SENT"} =>
       Exchange(CommandOf[s.control_state])
  /\ s.control_state = "STOR_SENT" => s.data_pcb # NULL
  /\ ~s.wild

(* A command under way, with the number of its operation.                   *)
Tags == (DOMAIN Accepted) \X (0..MaxOps)

(* Data connections.                                                        *)
Connections ==
  [st : {"none", "listen", "est", "broken"}, left : 0..Blocks, fly : 0..Blocks, fin : BOOLEAN,
   got : 0..Blocks, src : 0..Blocks, out : BOOLEAN, eof : BOOLEAN, stored : 0..Blocks]

(* The types, in which a session is as lwftp.c keeps it and nothing but the *)
(* commands and replies of the protocol is under way.                       *)
Basic ==
  /\ faults \in Worlds /\ Lib!Good(s) /\ n \in 0..MaxOps
  /\ up \in Seq(Tags) /\ down \in Seq(Replies \cup {0})
  /\ srv \in [doing : TransferOps \cup {None}, id : 0..MaxOps]
  /\ srv.doing = None => srv = NoTransfer
  /\ link \in Connections
  /\ good \subseteq 0..MaxOps /\ asked \in BOOLEAN

IInv ==
  /\ Basic
  /\ Conversation
  /\ Links
  /\ "reset" \notin faults => InStep

(* The operation under way has been carried out.                            *)
Carried ==
  \/ s.control_state \in CommandStates \ {"RNFR_SENT"} /\ up = <<>> /\ down # <<550>>
  \/ s.control_state \in TransferStates /\ down = <<150, 226>>
  \/ s.control_state = "XFERING" /\ down = <<226>>

(* The worlds with no fault but rejections, and what is known there of who  *)
(* has been told what: the result on record is one of an operation,         *)
Plain == faults \subseteq {"reject"}
Judged == last.op # None /\ ~last.asked /\ last.result \notin {"INPROGRESS", "LOGGED"}

(* ... all that is under way belongs to the last operation,                 *)
Numbered ==
  /\ good \subseteq 1..n /\ last.id \in 0..n
  /\ \A i \in DOMAIN up : up[i][2] = n /\ (up[i][1] \in Ops \cup {"RNTO"} => n > 0)
  /\ srv # NoTransfer => srv.id = n /\ n > 0

(* ... and the server has carried that out or not yet,                      *)
WorkingStates == TransferStates \cup CommandStates \cup {"TYPE_SENT", "PASV_SENT", "XFERING"}
InHand == s.control_state \in WorkingStates => n > 0 /\ (n \in good <=> Carried)

(* ... nothing is reported before the login,                                *)
Early == s = FreshSession \/ s.control_pcb = "SYN_SENT" \/ s.control_state \in LoginStates =>
           n = 0 /\ last.result = "INPROGRESS"

(* ... nothing happens to an operation after its result but the QUIT,       *)
Over == Judged /\ last.id = n =>
          s.op = None /\ srv = NoTransfer /\ \A i \in DOMAIN up : up[i][1] = "QUIT"

(* ... and the result is true.                                              *)
Honest == Judged => (last.result = "OK" <=> last.id \in good)
Whole == last.result = "OK" /\ ~last.asked =>
           /\ last.op = "STOR" => last.stored = Blocks
           /\ last.op \in {"RETR", "MLSD"} => last.got + last.fly = Blocks

Truth == /\ Numbered /\ InHand /\ Early /\ Over /\ Honest /\ Whole
         /\ s.control_state = "QUIT_SENT" => asked
-----------------------------------------------------------------------------
(* Facts that every step needs.                                             *)

(* Sequences of at most two elements.                                       *)
LEMMA ShortSeqs ==
  /\ Len(<<>>) = 0
  /\ \A a : /\ Append(<<>>, a) = <<a>> /\ Len(<<a>>) = 1 /\ <<a>>[1] = a /\ <<a>> # <<>>
            /\ Head(<<a>>) = a /\ Tail(<<a>>) = <<>> /\ SubSeq(<<a>>, 2, 1) = <<>>
  /\ \A a, b : /\ Append(<<a>>, b) = <<a, b>> /\ Len(<<a, b>>) = 2
               /\ <<a, b>>[1] = a /\ <<a, b>>[2] = b /\ Head(<<a, b>>) = a /\ <<a, b>> # <<>>
               /\ SubSeq(<<a, b>>, 2, 2) = <<b>> /\ SubSeq(<<a, b>>, 3, 2) = <<>>
<1>1. \A a : /\ Append(<<>>, a) = <<a>> /\ Len(<<a>>) = 1 /\ <<a>>[1] = a /\ <<a>> # <<>>
             /\ Head(<<a>>) = a
  OBVIOUS
<1>2. \A a : Tail(<<a>>) = <<>>
  OBVIOUS
<1>3. \A a : SubSeq(<<a>>, 2, 1) = <<>>
  OBVIOUS
<1>4. ASSUME NEW a, NEW b
      PROVE  /\ Append(<<a>>, b) = <<a, b>> /\ Len(<<a, b>>) = 2
             /\ <<a, b>>[1] = a /\ <<a, b>>[2] = b /\ Head(<<a, b>>) = a /\ <<a, b>> # <<>>
  <2>1. /\ Len(<<a, b>>) = 2 /\ <<a, b>>[1] = a /\ <<a, b>>[2] = b /\ Head(<<a, b>>) = a
        /\ <<a, b>> # <<>> /\ <<a, b>> \in Seq({a, b})
    OBVIOUS
  <2>2. <<a>> \in Seq({a, b}) /\ b \in {a, b}
    OBVIOUS
  <2>3. /\ Append(<<a>>, b) \in Seq({a, b}) /\ Len(Append(<<a>>, b)) = 2
        /\ Append(<<a>>, b)[1] = a /\ Append(<<a>>, b)[2] = b
    BY <2>2
  <2>4. Append(<<a>>, b) = <<a, b>>
    <3> DEFINE x == Append(<<a>>, b)
               y == <<a, b>>
    <3>1. x \in Seq({a, b}) /\ y \in Seq({a, b}) /\ Len(x) = Len(y)
      BY <2>1, <2>3
    <3>2. \A i \in 1..Len(x) : x[i] = y[i]
      BY <2>1, <2>3
    <3> HIDE DEF x, y
    <3>3. x = y
      BY <3>1, <3>2, SeqEqual
    <3> QED BY <3>3 DEF x, y
  <2> QED BY <2>1, <2>4
<1>5. \A a, b : SubSeq(<<a, b>>, 3, 2) = <<>>
  OBVIOUS
<1>6. ASSUME NEW a, NEW b
      PROVE  SubSeq(<<a, b>>, 2, 2) = <<b>>
  <2> DEFINE x == SubSeq(<<a, b>>, 2, 2)
             y == <<b>>
  <2>1. <<a, b>> \in Seq({a, b}) /\ y \in Seq({a, b}) /\ Len(y) = 1 /\ y[1] = b
    OBVIOUS
  <2>2. x \in Seq({a, b}) /\ Len(x) = 1 /\ x[1] = b
    BY <2>1
  <2> HIDE DEF x, y
  <2>3. x = y
    BY <2>1, <2>2, SeqEqual
  <2> QED BY <2>3 DEF x, y
<1>7. Len(<<>>) = 0
  OBVIOUS
<1> QED BY <1>1, <1>2, <1>3, <1>4, <1>5, <1>6, <1>7, Zenon

(* The commands and what they are accepted with.                            *)
LEMMA CommandsAre ==
  /\ DOMAIN Accepted = {"USER", "PASS", "TYPE", "PASV", "RETR", "STOR", "MLSD", "DELE", "RMD",
                        "CWD", "PWD", "RNFR", "RNTO", "QUIT"}
  /\ DOMAIN Accepted \subseteq Commands
  /\ \A c \in DOMAIN Accepted : Accepted[c] \in Replies
BY DEF Accepted, Commands, Ops, TransferOps, CommandOps, Replies

(* The tags of a handler's commands.                                        *)
LEMMA Tagged ==
  ASSUME NEW id
  PROVE  Tag(<<>>, id) = <<>> /\ \A c : Tag(<<c>>, id) = <<<<c, id>>>>
<1>1. Tag(<<>>, id) = <<>>
  BY DEF Tag
<1>2. ASSUME NEW c PROVE Tag(<<c>>, id) = <<<<c, id>>>>
  BY DEF Tag
<1> QED BY <1>1, <1>2

(* A command is put at the end of those under way, or lost.                 *)
Puts(x) == up' = Append(up, x) \/ ("unsent" \in faults /\ up' = up)

LEMMA Written ==
  ASSUME up \in Seq(Tags), NEW x, Puts(x)
  PROVE  /\ \A i \in DOMAIN up' : \/ i = Len(up') /\ up'[i] = x
                                  \/ i \in DOMAIN up /\ up'[i] = up[i]
         /\ up = <<>> => up' = <<x>> \/ ("unsent" \in faults /\ up' = <<>>)
<1>1. CASE up' = Append(up, x)
  <2>1. \A i \in DOMAIN up' : \/ i = Len(up') /\ up'[i] = x
                              \/ i \in DOMAIN up /\ up'[i] = up[i]
    BY <1>1 DEF Tags
  <2>2. up = <<>> => up' = <<x>>
    BY <1>1
  <2> QED BY <2>1, <2>2
<1>2. CASE up' = up /\ "unsent" \in faults
  BY <1>2 DEF Tags
<1> QED BY <1>1, <1>2 DEF Puts

(* What a handler leaves: a session as lwftp.c keeps it, and its command at  *)
(* the end of those under way, or lost.                                     *)
LEMMA FinishFacts ==
  ASSUME Basic, NEW t, NEW id \in 0..MaxOps, Finish(t, id), Called(t) \/ Handled(t),
         t.sent = <<>> \/ \E c \in DOMAIN Accepted : t.sent = <<c>>
  PROVE  /\ s' = t /\ Lib!Good(s)' /\ up' \in Seq(Tags)
         /\ t.control_pcb = NULL => up' = <<>>
         /\ t.control_pcb # NULL /\ t.sent = <<>> => up' = up
         /\ \A c : t.control_pcb # NULL /\ t.sent = <<c>> =>
              Puts(<<c, id>>)
<1>1. s' = t
  BY DEF Finish
<1>2. Lib!Good(s)'
  BY <1>1, GoodNext, CallStep, HandlerStep DEF Basic
<1>3. up \in Seq(Tags)
  BY DEF Basic
<1>4. t.control_pcb = NULL => up' = <<>>
  BY DEF Finish
<1>5. ASSUME t.control_pcb # NULL, t.sent = <<>> PROVE up' = up
  <2>1. up' = up \o Tag(<<>>, id) \/ up' = up
    BY <1>5 DEF Finish
  <2>2. up \o <<>> = up
    BY <1>3, ConcatEmptySeq
  <2> QED BY <2>1, <2>2, Tagged
<1>6. ASSUME NEW c, t.control_pcb # NULL, t.sent = <<c>>
      PROVE  Puts(<<c, id>>)
  <2>1. up' = up \o Tag(<<c>>, id) \/ ("unsent" \in faults /\ up' = up)
    BY <1>6 DEF Finish
  <2>2. up' = up \o <<<<c, id>>>> \/ ("unsent" \in faults /\ up' = up)
    BY <2>1, Tagged
  <2>3. up \o <<<<c, id>>>> = Append(up, <<c, id>>)
    BY <1>3
  <2> QED BY <2>2, <2>3 DEF Puts
<1>7. up' \in Seq(Tags)
  <2>1. CASE t.control_pcb = NULL \/ t.sent = <<>>
    BY <1>3, <1>4, <1>5, <2>1, EmptySeq
  <2>2. ASSUME NEW c \in DOMAIN Accepted, t.sent = <<c>>, t.control_pcb # NULL
        PROVE  up' \in Seq(Tags)
    <3>1. <<c, id>> \in Tags
      BY <2>2 DEF Tags
    <3>2. up' = Append(up, <<c, id>>) \/ up' = up
      BY <1>6, <2>2 DEF Puts
    <3>3. Append(up, <<c, id>>) \in Seq(Tags)
      BY <1>3, <3>1
    <3> QED BY <1>3, <3>2, <3>3
  <2> QED BY <2>1, <2>2
<1> QED BY <1>1, <1>2, <1>4, <1>5, <1>6, <1>7

(* A handler begins in the session there is.                                *)
LEMMA Begins ==
  ASSUME Basic
  PROVE  /\ Lib!Good(s) /\ Lib!Good(Quiet(s)) /\ Fresh(Quiet(s))
         /\ Quiet(s).control_pcb = s.control_pcb /\ Quiet(s).data_pcb = s.data_pcb
         /\ Quiet(s).control_state = s.control_state /\ Quiet(s).target_state = s.target_state
         /\ Quiet(s).op = s.op /\ Quiet(s).wild = s.wild
         /\ \A u, st, cmds, res, data, owed :
              Turns(Quiet(s), u, st, cmds, res, data, owed) =>
                Turns(s, u, st, cmds, res, data, owed)
<1>1. Lib!Good(s)
  BY DEF Basic
<1>2. /\ Lib!Good(Quiet(s)) /\ Fresh(Quiet(s))
      /\ Quiet(s).control_pcb = s.control_pcb /\ Quiet(s).data_pcb = s.data_pcb
      /\ Quiet(s).control_state = s.control_state /\ Quiet(s).target_state = s.target_state
      /\ Quiet(s).op = s.op /\ Quiet(s).wild = s.wild
  BY <1>1, QuietSession
<1> QED BY <1>1, <1>2, Zenon DEF Turns

(* A session that has begun is not one that has not.                        *)
LEMMA NotFresh ==
  ASSUME NEW t, t.control_state # "CLOSED" \/ t.control_pcb # NULL \/ t.done # <<>>
  PROVE  t # FreshSession
BY DEF FreshSession

(* Nothing is said of the conversation once the session quits.              *)
LEMMA Quitting ==
  ASSUME Lib!Good(s)', s'.control_state = "QUIT_SENT"
  PROVE  Conversation'
<1>1. s'.control_pcb = "ESTABLISHED"
  BY GoodSession
<1>2. s' # FreshSession
  BY NotFresh
<1> QED BY <1>1, <1>2 DEF Conversation, TransferStates, CommandStates

-----------------------------------------------------------------------------
(* The steps.                                                               *)

(* The caller closes.                                                       *)
LEMMA CloseKeeps ==
  ASSUME IInv, Close, UNCHANGED faults
  PROVE  IInv'
<1> DEFINE t == lwftp_close(Quiet(s))
<1>1. Basic /\ n \in 0..MaxOps /\ s.control_state # "CLOSED" /\ Finish(t, n) /\ Called(t)
  BY DEF IInv, Basic, Close, Called
<1>2. s.control_pcb = "ESTABLISHED"
  BY <1>1, Begins, GoodSession
<1>3. Turns(s, t, "QUIT_SENT", <<"QUIT">>, <<>>, s.data_pcb, s.op)
  BY <1>1, <1>2, Begins, QuitShape DEF NULL
<1> HIDE DEF t
<1>4. "QUIT" \in DOMAIN Accepted
  BY CommandsAre
<1>5. t.control_pcb # NULL /\ t.sent = <<"QUIT">>
  BY <1>2, <1>3 DEF Turns, NULL
<1>6. /\ s' = t /\ Lib!Good(s)' /\ up' \in Seq(Tags)
      /\ Puts(<<"QUIT", n>>)
  BY <1>1, <1>4, <1>5, FinishFacts
<1>7. Basic'
  BY <1>6 DEF IInv, Basic, Close
<1>8. Conversation'
  BY <1>3, <1>6, Quitting DEF Turns
<1>9. Links'
  <2>1. \A i \in DOMAIN up' : up'[i] = <<"QUIT", n>> \/ (i \in DOMAIN up /\ up'[i] = up[i])
    BY <1>6, Written DEF IInv, Basic
  <2> QED BY <1>3, <1>6, <2>1 DEF IInv, Links, Close, Turns, Unused, TransferOps
<1>10. "reset" \notin faults' => InStep'
  BY <1>3, <1>6 DEF IInv, InStep, Turns, CommandStates, Close
<1> QED BY <1>7, <1>8, <1>9, <1>10 DEF IInv

(* The session ends, whatever is under way.                                 *)
LEMMA EndKeeps ==
  ASSUME IInv, NEW t, Finish(t, n), Called(t) \/ Handled(t), Ends(s, t),
         down' \in Seq(Replies \cup {0}), srv' \in {srv, NoTransfer},
         UNCHANGED <<n, link, good, asked, faults>>
  PROVE  IInv'
<1>1. Basic /\ n \in 0..MaxOps
  BY DEF IInv, Basic
<1>2. t.sent = <<>> /\ t.control_pcb = NULL /\ t.control_state = "CLOSED" /\ t.data_pcb = NULL
      /\ t.wild = s.wild /\ t.done # <<>>
  BY ShortSeqs DEF Ends
<1>3. s' = t /\ Lib!Good(s)' /\ up' = <<>>
  BY <1>1, <1>2, FinishFacts
<1>4. Basic'
  <2>1. <<>> \in Seq(Tags)
    BY EmptySeq
  <2>2. srv' \in [doing : TransferOps \cup {None}, id : 0..MaxOps] /\ (srv'.doing = None => srv' = NoTransfer)
    BY SessionAssumption DEF IInv, Basic, NoTransfer
  <2> QED BY <1>3, <2>1, <2>2 DEF IInv, Basic
<1>5. Conversation'
  <2>1. s' # FreshSession
    BY <1>2, <1>3, NotFresh
  <2> QED BY <1>2, <1>3, <2>1 DEF Conversation, NULL, TransferStates, CommandStates
<1>6. Links'
  BY <1>2, <1>3, ShortSeqs DEF IInv, Links, NULL, Out
<1>7. "reset" \notin faults' => InStep'
  BY <1>2, <1>3 DEF IInv, InStep, CommandStates
<1> QED BY <1>4, <1>5, <1>6, <1>7 DEF IInv

(* The caller connects.                                                     *)
LEMMA ConnectKeeps ==
  ASSUME IInv, Connect, UNCHANGED faults
  PROVE  IInv'
<1>1. PICK pcb \in BOOLEAN, ok \in BOOLEAN :
        LET t == lwftp_connect(Quiet(s), TRUE, pcb, ok)
        IN  Finish(t, n) /\ down' = IF t.control_pcb = NULL THEN <<>> ELSE <<220>>
  BY DEF Connect
<1> DEFINE t == lwftp_connect(Quiet(s), TRUE, pcb, ok)
<1>2. /\ Basic /\ n \in 0..MaxOps /\ Called(t) /\ s = FreshSession /\ up = <<>> /\ down = <<>>
      /\ srv = NoTransfer /\ link = NoLink
  <2>1. s.control_pcb # "ESTABLISHED" /\ s = FreshSession
    BY DEF Connect, FreshSession, NULL
  <2> QED BY <2>1 DEF IInv, Basic, Called, Conversation
<1>3. /\ Fresh(Quiet(s)) /\ Quiet(s).control_state = "CLOSED" /\ Quiet(s).control_pcb = NULL
      /\ Quiet(s).data_pcb = NULL /\ Quiet(s).op = None /\ Quiet(s).wild = FALSE
      /\ s.wild = FALSE
  BY <1>2, Begins DEF FreshSession
<1>4. \/ Ends(Quiet(s), t)
      \/ /\ t.control_state = "CLOSED" /\ t.control_pcb = "SYN_SENT" /\ t.data_pcb = NULL
         /\ t.sent = <<>> /\ ~t.wild
  BY <1>3, ConnectShape
<1> HIDE DEF t
<1>5. CASE Ends(Quiet(s), t)
  <2>1. Ends(s, t) /\ t.control_pcb = NULL
    BY <1>2, <1>3, <1>5 DEF Ends
  <2>2. down' \in Seq(Replies \cup {0})
    BY <1>1, <2>1, EmptySeq DEF t
  <2> QED BY <1>1, <1>2, <2>1, <2>2, EndKeeps DEF Connect, t
<1>6. CASE /\ t.control_state = "CLOSED" /\ t.control_pcb = "SYN_SENT" /\ t.data_pcb = NULL
           /\ t.sent = <<>> /\ ~t.wild
  <2>1. s' = t /\ Lib!Good(s)' /\ up' = <<>> /\ down' = <<220>>
    <3>1. t.control_pcb # NULL
      BY <1>6 DEF NULL
    <3>2. Finish(t, n) /\ down' = <<220>>
      BY <1>1, <3>1 DEF t
    <3> QED BY <1>2, <1>6, <3>1, <3>2, FinishFacts
  <2>2. Basic'
    <3>1. down' \in Seq(Replies \cup {0}) /\ up' \in Seq(Tags)
      BY <2>1, EmptySeq DEF Replies
    <3> QED BY <2>1, <3>1 DEF IInv, Basic, Connect
  <2>3. Conversation'
    <3>1. s' # FreshSession
      BY <1>6, <2>1, NotFresh DEF NULL
    <3> QED BY <1>2, <1>6, <2>1, <3>1 DEF Connect, Conversation, Greeting, TransferStates, CommandStates
  <2>4. Links'
    BY <1>6, <2>1, ShortSeqs DEF IInv, Links, NULL, Out, Connect
  <2>5. "reset" \notin faults' => InStep'
    BY <1>6, <2>1 DEF InStep, CommandStates
  <2> QED BY <2>2, <2>3, <2>4, <2>5 DEF IInv
<1> QED BY <1>4, <1>5, <1>6

(* The control connection opens, or does not.                               *)
LEMMA ControlConnectedKeeps ==
  ASSUME IInv, ControlConnected, UNCHANGED faults
  PROVE  IInv'
<1>1. /\ Basic /\ n \in 0..MaxOps /\ s.control_pcb = "SYN_SENT" /\ s.control_state = "CLOSED"
      /\ Greeting /\ s.data_pcb = NULL
  BY Begins, GoodSession DEF IInv, Basic, ControlConnected, Conversation, TransferStates
<1>2. CASE Finish(lwftp_control_err(Quiet(s)), n) /\ down' = <<>>
  <2>1. Ends(s, lwftp_control_err(Quiet(s)))
    BY <1>1, Begins, ControlEnds DEF Ends
  <2>2. Handled(lwftp_control_err(Quiet(s)))
    BY <1>1 DEF Handled, NULL
  <2>3. down' \in Seq(Replies \cup {0})
    BY <1>2, EmptySeq
  <2> QED BY <1>2, <2>1, <2>2, <2>3, EndKeeps DEF ControlConnected
<1>3. CASE Finish(lwftp_control_connected(Quiet(s)), n) /\ UNCHANGED down
  <2> DEFINE t == lwftp_control_connected(Quiet(s))
  <2>1. Handled(t)
    BY <1>1 DEF Handled
  <2>2. /\ t.control_state = "CONNECTED" /\ t.control_pcb = "ESTABLISHED" /\ t.sent = <<>>
        /\ t.data_pcb = s.data_pcb /\ t.wild = s.wild
    BY <1>1, Begins DEF lwftp_control_connected, Fresh, Sessions
  <2> HIDE DEF t
  <2>3. s' = t /\ Lib!Good(s)' /\ up' = up
    BY <1>1, <1>3, <2>1, <2>2, FinishFacts DEF t, NULL
  <2>4. Basic'
    BY <1>3, <2>3 DEF IInv, Basic, ControlConnected
  <2>5. Conversation'
    <3>1. s' # FreshSession
      BY <2>2, <2>3, NotFresh
    <3>2. Greeting'
      BY <1>1, <1>3, <2>3 DEF Greeting, ControlConnected
    <3> QED BY <2>2, <2>3, <3>1, <3>2 DEF Conversation, TransferStates, CommandStates
  <2>6. Links'
    BY <1>1, <2>2, <2>3 DEF IInv, Links, NULL, Out, ControlConnected, Unused
  <2>7. "reset" \notin faults' => InStep'
    BY <2>2, <2>3 DEF IInv, InStep, CommandStates
  <2> QED BY <2>4, <2>5, <2>6, <2>7 DEF IInv
<1> QED BY <1>2, <1>3 DEF ControlConnected

(* The server closes it, or it fails.                                       *)
LEMMA ControlEndKeeps ==
  ASSUME IInv, ControlClosed \/ ControlReset, UNCHANGED faults
  PROVE  IInv'
<1>1. Basic /\ s.control_pcb = "ESTABLISHED"
  BY DEF IInv, ControlClosed, ControlReset
<1>2. \/ Finish(lwftp_control_recv_null(Quiet(s)), n) /\ srv' = srv
      \/ Finish(lwftp_control_err(Quiet(s)), n) /\ srv' = NoTransfer
  BY DEF ControlClosed, ControlReset
<1>3. down' = <<>> /\ UNCHANGED <<n, link, good, asked>>
  BY DEF ControlClosed, ControlReset
<1>4. Ends(s, lwftp_control_recv_null(Quiet(s))) /\ Ends(s, lwftp_control_err(Quiet(s)))
  BY <1>1, Begins, ControlEnds DEF Ends
<1>5. Handled(lwftp_control_recv_null(Quiet(s))) /\ Handled(lwftp_control_err(Quiet(s)))
  BY <1>1 DEF Handled, NULL
<1>6. down' \in Seq(Replies \cup {0})
  BY <1>3, EmptySeq
<1> QED BY <1>2, <1>3, <1>4, <1>5, <1>6, EndKeeps

(* The caller starts an operation: TYPE or the command itself is written, or *)
(* there is no memory for a pcb.                                            *)
LEMMA Starts ==
  ASSUME IInv, Start
  PROVE  \E t :
           /\ Called(t) /\ t.control_pcb # NULL /\ t.wild = s.wild
           /\ \/ /\ Finish(t, n) /\ n' = n /\ t.op = None /\ t.done = <<"ERR_MEMORY">>
                 /\ t.control_state = "LOGGED" /\ t.sent = <<>> /\ t.data_pcb = NULL
              \/ /\ Finish(t, n + 1) /\ n' = n + 1 /\ t.op # None /\ t.done = <<"INPROGRESS">>
                 /\ t.control_state \in CommandStates \cup {"TYPE_SENT"}
                 /\ t.sent = <<CommandOf[t.control_state]>>
                 /\ CommandOf[t.control_state] \in DOMAIN Accepted
<1>1. PICK op \in Ops, pcb \in BOOLEAN :
        LET t == IF op \in TransferOps THEN lwftp_transfer(Quiet(s), op, TRUE, pcb)
                                       ELSE lwftp_command(Quiet(s), op, TRUE)
            id == IF t.op = None THEN n ELSE n + 1
        IN  Finish(t, id) /\ n' = id
  BY DEF Start
<1> DEFINE t == IF op \in TransferOps THEN lwftp_transfer(Quiet(s), op, TRUE, pcb)
                                      ELSE lwftp_command(Quiet(s), op, TRUE)
           id == IF t.op = None THEN n ELSE n + 1
<1>2. /\ Basic /\ n \in 0..MaxOps /\ s.control_state = "LOGGED"
      /\ s.control_pcb = "ESTABLISHED" /\ s.data_pcb = NULL /\ s.op = None
  BY Begins, GoodSession DEF IInv, Basic, Start, TransferStates
<1>3. Called(t) /\ Finish(t, id) /\ n' = id
  BY <1>1 DEF Called, Ops
<1>4. \/ Turns(s, t, "LOGGED", <<>>, <<"ERR_MEMORY">>, NULL, None)
      \/ /\ op \in TransferOps
         /\ Turns([Quiet(s) EXCEPT !.target_state = SentState[op]], t, "TYPE_SENT", <<"TYPE">>,
                  <<"INPROGRESS">>, "CLOSED", op)
      \/ op \in CommandOps /\ Turns(s, t, SentState[op], <<op>>, <<"INPROGRESS">>, NULL, op)
  <2>1. /\ Fresh(Quiet(s)) /\ Quiet(s).control_state = "LOGGED" /\ Quiet(s).data_pcb = NULL
        /\ Quiet(s).op = None
    BY <1>2, Begins
  <2>2. ASSUME op \in TransferOps
        PROVE  \/ Turns(Quiet(s), t, "LOGGED", <<>>, <<"ERR_MEMORY">>, NULL, None)
               \/ Turns([Quiet(s) EXCEPT !.target_state = SentState[op]], t, "TYPE_SENT", <<"TYPE">>,
                        <<"INPROGRESS">>, "CLOSED", op)
    BY <2>1, <2>2, TransferShape
  <2>3. ASSUME op \notin TransferOps
        PROVE  /\ op \in CommandOps
               /\ Turns(Quiet(s), t, SentState[op], <<op>>, <<"INPROGRESS">>, NULL, op)
    BY <2>1, <2>3, CommandShape DEF Ops
  <2> HIDE DEF t
  <2> QED BY <1>2, <2>2, <2>3, Begins
<1> HIDE DEF t
<1>5. CASE Turns(s, t, "LOGGED", <<>>, <<"ERR_MEMORY">>, NULL, None)
  <2>1. /\ t.op = None /\ t.control_pcb # NULL /\ t.sent = <<>> /\ t.control_state = "LOGGED"
        /\ t.wild = s.wild /\ t.data_pcb = NULL /\ t.done = <<"ERR_MEMORY">>
    BY <1>2, <1>5 DEF Turns, NULL
  <2>2. id = n
    BY <2>1
  <2> QED BY <1>3, <2>1, <2>2
<1>6. ASSUME NEW cmd \in DOMAIN Accepted, t.sent = <<cmd>>, t.control_pcb # NULL, t.op # None,
             t.done = <<"INPROGRESS">>, t.control_state \in CommandStates \cup {"TYPE_SENT"},
             cmd = CommandOf[t.control_state], t.wild = s.wild
      PROVE  /\ Called(t) /\ t.control_pcb # NULL /\ t.wild = s.wild
             /\ Finish(t, n + 1) /\ n' = n + 1 /\ t.op # None /\ t.done = <<"INPROGRESS">>
             /\ t.control_state \in CommandStates \cup {"TYPE_SENT"}
             /\ t.sent = <<CommandOf[t.control_state]>>
             /\ CommandOf[t.control_state] \in DOMAIN Accepted
  <2>1. id = n + 1
    BY <1>6
  <2> QED BY <1>3, <1>6, <2>1
<1>7. CASE /\ op \in TransferOps
           /\ Turns([Quiet(s) EXCEPT !.target_state = SentState[op]], t, "TYPE_SENT", <<"TYPE">>,
                    <<"INPROGRESS">>, "CLOSED", op)
  <2>1. [Quiet(s) EXCEPT !.target_state = SentState[op]].control_pcb = s.control_pcb
        /\ [Quiet(s) EXCEPT !.target_state = SentState[op]].wild = s.wild
    BY <1>2, Begins DEF Fresh, Sessions
  <2>2. /\ t.sent = <<"TYPE">> /\ t.control_pcb # NULL /\ t.op # None
        /\ t.control_state = "TYPE_SENT" /\ t.wild = s.wild /\ t.done = <<"INPROGRESS">>
    BY <1>2, <1>7, <2>1 DEF Turns, NULL, None, TransferOps
  <2>3. "TYPE" = CommandOf["TYPE_SENT"] /\ "TYPE" \in DOMAIN Accepted
    BY CommandsAre DEF CommandOf
  <2> QED BY <1>6, <2>2, <2>3
<1>8. CASE op \in CommandOps /\ Turns(s, t, SentState[op], <<op>>, <<"INPROGRESS">>, NULL, op)
  <2>1. /\ t.sent = <<op>> /\ t.control_pcb # NULL /\ t.op # None
        /\ t.control_state = SentState[op] /\ t.wild = s.wild /\ t.done = <<"INPROGRESS">>
    BY <1>2, <1>8 DEF Turns, NULL, None, CommandOps
  <2>2. op = CommandOf[SentState[op]] /\ op \in DOMAIN Accepted /\ SentState[op] \in CommandStates
    BY <1>8, CommandsAre DEF CommandOf, SentState, CommandOps, CommandStates
  <2> QED BY <1>6, <2>1, <2>2
<1> QED BY <1>4, <1>5, <1>7, <1>8

(* Either way the conversation is in order.                                 *)
LEMMA StartKeeps ==
  ASSUME IInv, Start, UNCHANGED faults
  PROVE  IInv'
<1>1. PICK t :
        /\ Called(t) /\ t.control_pcb # NULL /\ t.wild = s.wild
        /\ \/ /\ Finish(t, n) /\ n' = n /\ t.op = None /\ t.done = <<"ERR_MEMORY">>
              /\ t.control_state = "LOGGED" /\ t.sent = <<>> /\ t.data_pcb = NULL
           \/ /\ Finish(t, n + 1) /\ n' = n + 1 /\ t.op # None /\ t.done = <<"INPROGRESS">>
              /\ t.control_state \in CommandStates \cup {"TYPE_SENT"}
              /\ t.sent = <<CommandOf[t.control_state]>>
              /\ CommandOf[t.control_state] \in DOMAIN Accepted
  BY Starts
<1>2. /\ Basic /\ n \in 0..MaxOps /\ n < MaxOps /\ s.control_state = "LOGGED"
      /\ s.control_pcb = "ESTABLISHED" /\ s.data_pcb = NULL /\ s.op = None /\ Backlog
  BY Begins, GoodSession DEF IInv, Basic, Start, Conversation, TransferStates
<1>5. CASE /\ Finish(t, n) /\ n' = n /\ t.control_state = "LOGGED" /\ t.sent = <<>>
           /\ t.data_pcb = NULL
  <2>1. t.control_state = "LOGGED" /\ t.wild = s.wild /\ t.data_pcb = NULL
    BY <1>1, <1>5
  <2>2. s' = t /\ Lib!Good(s)' /\ up' = up /\ n' = n
    BY <1>1, <1>2, <1>5, FinishFacts
  <2>3. Basic'
    BY <2>2 DEF IInv, Basic, Start
  <2>4. Conversation'
    <3>1. s' # FreshSession /\ s'.control_pcb = "ESTABLISHED"
      BY <2>1, <2>2, NotFresh, GoodSession
    <3>2. Backlog'
      BY <1>2, <2>1, <2>2 DEF Backlog, Start
    <3> QED BY <2>1, <2>2, <3>1, <3>2 DEF Conversation, TransferStates, CommandStates
  <2>5. Links'
    BY <2>1, <2>2 DEF IInv, Links, NULL, Start, Unused, Out
  <2>6. "reset" \notin faults' => InStep'
    BY <1>2, <2>1, <2>2 DEF IInv, InStep, Start, CommandStates
  <2> QED BY <2>3, <2>4, <2>5, <2>6 DEF IInv
<1>6. ASSUME NEW cmd \in DOMAIN Accepted, NEW st, t.sent = <<cmd>>, Finish(t, n + 1), n' = n + 1,
             t.control_state = st, st \in CommandStates \cup {"TYPE_SENT"}, cmd = CommandOf[st]
      PROVE  IInv'
  <2>1. s' = t /\ Lib!Good(s)' /\ up' \in Seq(Tags) /\ Puts(<<cmd, n + 1>>) /\ n' = n + 1
        /\ n + 1 \in 0..MaxOps
    <3>1. n + 1 \in 0..MaxOps
      BY <1>2, SessionAssumption
    <3> QED BY <1>1, <1>2, <1>6, <3>1, FinishFacts
  <2>2. Basic'
    BY <2>1 DEF IInv, Basic, Start
  <2>w. \A i \in DOMAIN up' : \/ i = Len(up') /\ up'[i] = <<cmd, n + 1>>
                              \/ i \in DOMAIN up /\ up'[i] = up[i]
    BY <2>1, Written DEF IInv, Basic
  <2>3. cmd \in LateCommands \/ (cmd = "TYPE" /\ st = "TYPE_SENT")
    BY <1>6 DEF CommandOf, CommandStates, LateCommands, CommandOps
  <2>4. Conversation'
    <3>1. s' # FreshSession /\ s'.control_pcb = "ESTABLISHED"
      BY <1>6, <2>1, NotFresh, GoodSession DEF CommandStates
    <3>2. Backlog'
      BY <1>2, <1>6, <2>1, <2>3, <2>w DEF Backlog, Start
    <3> QED BY <1>6, <2>1, <3>1, <3>2 DEF Conversation, TransferStates, CommandStates
  <2>5. Links'
    <3>1. \A i \in DOMAIN up' : up'[i][1] \notin TransferOps
      <4>1. \A c \in LateCommands \cup {"TYPE"} : c \notin TransferOps
        BY DEF LateCommands, CommandOps, TransferOps
      <4>2. \A i \in DOMAIN up' : up'[i][1] \in LateCommands \cup {"TYPE"}
        BY <1>2, <2>3, <2>w DEF Backlog
      <4> QED BY <4>1, <4>2
    <3>2. s'.data_pcb \notin {"SYN_SENT", "ESTABLISHED"}
      BY <1>6, <2>1, GoodSession DEF CommandStates, TransferStates, NULL
    <3> QED BY <3>1, <3>2 DEF IInv, Links, NULL, Start, Out
  <2>6. "reset" \notin faults' => InStep'
    <3> SUFFICES ASSUME "reset" \notin faults PROVE InStep'
      OBVIOUS
    <3>1. up = <<>> /\ down = <<>> /\ srv = NoTransfer /\ ~s.wild
      BY <1>2 DEF IInv, InStep
    <3>2. up' = <<<<cmd, n'>>>> \/ ("unsent" \in faults /\ up' = <<>>)
      BY <2>1, <3>1, Written DEF IInv, Basic
    <3>3. Exchange(cmd)'
      BY <3>1, <3>2 DEF Exchange, Lost, Start
    <3>4. Exchange(CommandOf[s.control_state])'
      BY <1>6, <2>1, <3>3
    <3> QED BY <1>1, <1>6, <2>1, <3>1, <3>4 DEF InStep, CommandStates
  <2> QED BY <2>2, <2>4, <2>5, <2>6 DEF IInv
<1> QED BY <1>1, <1>5, <1>6

(* The data connection opens, ends or fails and the conversation goes on as  *)
(* it was.                                                                  *)
LEMMA SameTalk ==
  ASSUME IInv, NEW data, NEW x \in {"none", "listen", "est", "broken"},
         Turns(s, s', s.control_state, <<>>, <<>>, data, s.op), s.control_state # "CLOSED",
         data \in {"SYN_SENT", "ESTABLISHED"} => s.data_pcb \in {"SYN_SENT", "ESTABLISHED"},
         Lib!Good(s)', link' = [link EXCEPT !.st = x],
         UNCHANGED <<n, up, down, srv, good, asked, faults>>
  PROVE  /\ Basic' /\ Conversation' /\ Links'
         /\ ("reset" \notin faults' /\ (s.control_state = "STOR_SENT" => data # NULL)) => InStep'
<1>1. /\ link'.left = link.left /\ link'.fly = link.fly /\ link'.fin = link.fin /\ link'.got = link.got
      /\ link'.src = link.src /\ link'.out = link.out /\ link'.eof = link.eof
      /\ link'.stored = link.stored
  BY DEF IInv, Basic
<1>2. Basic'
  <2>1. link' \in Connections
    BY DEF IInv, Basic, Connections
  <2> QED BY <2>1 DEF IInv, Basic
<1>3. /\ s'.control_state = s.control_state /\ s'.control_pcb = s.control_pcb /\ s'.op = s.op
      /\ s'.target_state = s.target_state /\ s'.wild = s.wild /\ s'.data_pcb = data
      /\ s' # FreshSession
  BY NotFresh DEF Turns
<1>4. /\ Unused(link)' <=> Unused(link)
      /\ \A y : Blockwise(y, link)' <=> Blockwise(y, link)
  BY <1>1 DEF Unused, Blockwise, Coming, Going, Out
<1>5. /\ Greeting' <=> Greeting
      /\ \A c : Exchange(c)' <=> Exchange(c)
      /\ Backlog' <=> Backlog
      /\ \A y : Announced(y)' <=> Announced(y)
      /\ \A y : Moving(y)' <=> Moving(y)
  <2>1. Greeting' <=> Greeting
    BY DEF Greeting
  <2>2. \A c : Exchange(c)' <=> Exchange(c)
    BY DEF Exchange, Lost, Rejects
  <2>3. Backlog' <=> Backlog
    BY <1>3 DEF Backlog
  <2>4. \A y : Announced(y)' <=> Announced(y)
    BY <1>1, <1>4 DEF Announced, Lost, Rejects
  <2>5. \A y : Moving(y)' <=> Moving(y)
    BY <1>1, <1>4 DEF Moving
  <2> QED BY <2>1, <2>2, <2>3, <2>4, <2>5
<1>6. Conversation'
  BY <1>3, <1>4, <1>5 DEF IInv, Conversation
<1>7. Links'
  BY <1>1, <1>3, <1>4 DEF IInv, Links, Out
<1>8. ASSUME "reset" \notin faults', s.control_state = "STOR_SENT" => data # NULL
      PROVE  InStep'
  BY <1>3, <1>5, <1>8 DEF IInv, InStep
<1> QED BY <1>2, <1>6, <1>7, <1>8

(* The data connection opens.                                               *)
LEMMA DataConnectedKeeps ==
  ASSUME IInv, DataConnected, UNCHANGED faults
  PROVE  IInv'
<1> DEFINE t == lwftp_data_connected(Quiet(s))
<1>1. /\ Basic /\ n \in 0..MaxOps /\ s.data_pcb = "SYN_SENT" /\ Finish(t, n) /\ Handled(t)
      /\ s.data_pcb # NULL
  BY DEF IInv, Basic, DataConnected, Handled, NULL
<1>2. s.control_state # "CLOSED" /\ s.control_pcb = "ESTABLISHED"
  BY <1>1, Begins, GoodSession DEF TransferStates
<1>3. Turns(s, t, s.control_state, <<>>, <<>>, "ESTABLISHED", s.op)
  BY <1>1, Begins, DataShapes
<1> HIDE DEF t
<1>4. s' = t /\ Lib!Good(s)' /\ up' = up
  BY <1>1, <1>2, <1>3, FinishFacts DEF Turns, NULL
<1>5. /\ Basic' /\ Conversation' /\ Links' /\ ("reset" \notin faults' => InStep')
  BY <1>1, <1>2, <1>3, <1>4, SameTalk DEF DataConnected, NULL
<1> QED BY <1>5 DEF IInv

(* The server closes it.                                                    *)
LEMMA DataClosedKeeps ==
  ASSUME IInv, DataClosed, UNCHANGED faults
  PROVE  IInv'
<1> DEFINE t == lwftp_data_recv_null(Quiet(s))
<1>1. /\ Basic /\ n \in 0..MaxOps /\ s.data_pcb = "ESTABLISHED" /\ Finish(t, n) /\ Handled(t)
      /\ s.data_pcb # NULL /\ link.fin /\ UNCHANGED link
  BY DEF IInv, Basic, DataClosed, Handled, NULL
<1>2. s.control_state # "CLOSED" /\ s.control_pcb = "ESTABLISHED"
  BY <1>1, Begins, GoodSession DEF TransferStates
<1>3. Turns(s, t, s.control_state, <<>>, <<>>, NULL, s.op)
  BY <1>1, Begins, DataShapes
<1> HIDE DEF t
<1>4. s' = t /\ Lib!Good(s)' /\ up' = up
  BY <1>1, <1>2, <1>3, FinishFacts DEF Turns, NULL
<1>5. s.control_state # "STOR_SENT"
  BY <1>1 DEF IInv, Conversation, TransferStates, CommandOf, Announced, Lost, Unused
<1>6. link' = [link EXCEPT !.st = link.st] /\ link.st \in {"none", "listen", "est", "broken"}
  BY <1>1 DEF Basic, Connections
<1>7. /\ Basic' /\ Conversation' /\ Links' /\ ("reset" \notin faults' => InStep')
  BY <1>1, <1>2, <1>3, <1>4, <1>5, <1>6, SameTalk DEF DataClosed, NULL
<1> QED BY <1>7 DEF IInv

(* It fails: a transfer that has begun ends, and what is left of it on the   *)
(* control connection stays there.                                          *)
LEMMA DataErrKeeps ==
  ASSUME IInv, DataErr, UNCHANGED faults
  PROVE  IInv'
<1> DEFINE t == lwftp_data_err(Quiet(s))
<1>1. /\ Basic /\ n \in 0..MaxOps /\ s.data_pcb \in {"SYN_SENT", "ESTABLISHED"} /\ Finish(t, n)
      /\ Handled(t) /\ s.data_pcb # NULL /\ "reset" \in faults
  BY DEF IInv, Basic, DataErr, Handled, NULL
<1>2. s.control_state # "CLOSED" /\ s.control_pcb = "ESTABLISHED"
  BY <1>1, Begins, GoodSession DEF TransferStates
<1>3. CASE s.control_state # "XFERING"
  <2>1. Turns(s, t, s.control_state, <<>>, <<>>, NULL, s.op)
    BY <1>1, <1>3, Begins, DataErrShape
  <2> HIDE DEF t
  <2>2. s' = t /\ Lib!Good(s)' /\ up' = up
    BY <1>1, <1>2, <2>1, FinishFacts DEF Turns, NULL
  <2>3. Basic' /\ Conversation' /\ Links'
    BY <1>1, <1>2, <2>1, <2>2, SameTalk DEF DataErr, NULL
  <2> QED BY <1>1, <2>3 DEF IInv
<1>4. CASE s.control_state = "XFERING"
  <2>1. Turns(s, t, "LOGGED", <<>>, <<"ERR_SRVR_RESP">>, NULL, None)
    BY <1>1, <1>4, Begins, DataErrShape
  <2> HIDE DEF t
  <2>2. s' = t /\ Lib!Good(s)' /\ up' = up
    BY <1>1, <1>2, <2>1, FinishFacts DEF Turns, NULL
  <2>3. Moving(s.op)
    BY <1>4 DEF IInv, Conversation
  <2>4. Basic'
    <3>1. link' \in Connections
      BY DEF IInv, Basic, DataErr, Connections
    <3> QED BY <2>2, <3>1 DEF IInv, Basic, DataErr
  <2>5. /\ s'.control_state = "LOGGED" /\ s'.control_pcb = "ESTABLISHED" /\ s'.data_pcb = NULL
        /\ s' # FreshSession
    BY <1>2, <2>1, <2>2, NotFresh DEF Turns
  <2>6. Backlog'
    <3>1. up' = <<>> /\ (down' = <<>> \/ down' = <<426>> \/ down' = <<226>>)
      BY <2>2, <2>3 DEF Moving, DataErr
    <3>2. \A i \in DOMAIN down' : down'[i] \in LateReplies
      BY <3>1, ShortSeqs DEF LateReplies
    <3> QED BY <3>1, <3>2 DEF Backlog
  <2>7. Conversation'
    BY <2>5, <2>6 DEF Conversation, TransferStates, CommandStates
  <2>8. Links'
    <3>1. up' = <<>>
      BY <2>2, <2>3 DEF Moving
    <3> QED BY <2>5, <3>1 DEF IInv, Basic, Links, DataErr, NULL, Out
  <2> QED BY <1>1, <2>4, <2>7, <2>8 DEF IInv
<1> QED BY <1>3, <1>4

(* A block arrives, or the server sends one: blocks of a download move on.   *)
LEMMA BlockKeeps ==
  ASSUME IInv, DataBlock \/ ServerBlock, UNCHANGED faults
  PROVE  IInv'
<1>1. /\ UNCHANGED <<s, n, up, down, srv, good, asked, faults>> /\ Basic
  BY DEF IInv, DataBlock, ServerBlock
<1>l. link \in Connections /\ Blocks \in Nat
  BY <1>1, SessionAssumption DEF Basic
<1>2. /\ link'.fin = link.fin /\ link'.src = link.src /\ link'.out = link.out
      /\ link'.eof = link.eof /\ link'.stored = link.stored /\ link'.st = link.st
      /\ link'.left + link'.fly + link'.got = link.left + link.fly + link.got
      /\ link'.left \in Nat /\ link'.fly \in Nat /\ link'.got \in Nat
      /\ link' \in [st : {"none", "listen", "est", "broken"}, left : Nat, fly : Nat,
                    fin : BOOLEAN, got : Nat, src : 0..Blocks, out : BOOLEAN,
                    eof : BOOLEAN, stored : 0..Blocks]
      /\ link.left = 0 => link'.left = 0
  <2>1. CASE DataBlock
    <3>1. /\ link.left \in Nat /\ link.fly \in Nat /\ link.got \in Nat
          /\ link.fly - 1 \in Nat /\ link.got + 1 \in Nat
      BY <1>l, <2>1 DEF DataBlock, Connections
    <3>2. link' = [link EXCEPT !.fly = link.fly - 1, !.got = link.got + 1]
      BY <2>1 DEF DataBlock
    <3>3. /\ link'.fin = link.fin /\ link'.src = link.src /\ link'.out = link.out
          /\ link'.eof = link.eof /\ link'.stored = link.stored /\ link'.st = link.st
          /\ link'.left = link.left /\ link'.fly = link.fly - 1 /\ link'.got = link.got + 1
          /\ link' \in [st : {"none", "listen", "est", "broken"}, left : Nat, fly : Nat,
                        fin : BOOLEAN, got : Nat, src : 0..Blocks, out : BOOLEAN,
                        eof : BOOLEAN, stored : 0..Blocks]
      BY <1>l, <3>1, <3>2 DEF Connections
    <3> QED BY <3>1, <3>3
  <2>2. CASE ServerBlock
    <3>1. /\ link.left \in Nat /\ link.fly \in Nat /\ link.got \in Nat
          /\ link.left - 1 \in Nat /\ link.fly + 1 \in Nat /\ link.left # 0
      BY <1>l, <2>2 DEF ServerBlock, Connections
    <3>2. link' = [link EXCEPT !.left = link.left - 1, !.fly = link.fly + 1]
      BY <2>2 DEF ServerBlock
    <3>3. /\ link'.fin = link.fin /\ link'.src = link.src /\ link'.out = link.out
          /\ link'.eof = link.eof /\ link'.stored = link.stored /\ link'.st = link.st
          /\ link'.left = link.left - 1 /\ link'.fly = link.fly + 1 /\ link'.got = link.got
          /\ link' \in [st : {"none", "listen", "est", "broken"}, left : Nat, fly : Nat,
                        fin : BOOLEAN, got : Nat, src : 0..Blocks, out : BOOLEAN,
                        eof : BOOLEAN, stored : 0..Blocks]
      BY <1>l, <3>1, <3>2 DEF Connections
    <3> QED BY <3>1, <3>3
  <2> QED BY <2>1, <2>2
<1>3. link.left + link.fly + link.got <= Blocks /\ Blocks \in Nat
  BY SessionAssumption DEF IInv, Links
<1>4. Basic'
  <2>1. link'.left \in 0..Blocks /\ link'.fly \in 0..Blocks /\ link'.got \in 0..Blocks
    BY <1>2, <1>3
  <2>2. link' \in Connections
    BY <1>l, <1>2, <2>1 DEF Connections
  <2> QED BY <1>1, <2>2 DEF Basic
<1>5. ~Unused(link)
  <2>1. link.fly > 0 \/ link.left > 0
    BY DEF DataBlock, ServerBlock
  <2> QED BY <2>1 DEF Unused
<1>6. \A x : Blockwise(x, link) => x # "STOR" /\ Blockwise(x, link)'
  <2>1. ~Going(link)
    <3>1. link.fly > 0 \/ link.left > 0
      BY DEF DataBlock, ServerBlock
    <3> QED BY <3>1 DEF Going
  <2>2. Coming(link) => Coming(link)'
    BY <1>2 DEF Coming
  <2> QED BY <2>1, <2>2 DEF Blockwise
<1>8. /\ Greeting' <=> Greeting
      /\ \A c : Exchange(c)' <=> Exchange(c)
      /\ Backlog' <=> Backlog
      /\ \A y : Announced(y) => Announced(y)'
      /\ \A y : Moving(y) => Moving(y)'
  <2>1. Greeting' <=> Greeting
    BY <1>1 DEF Greeting
  <2>2. \A c : Exchange(c)' <=> Exchange(c)
    BY <1>1 DEF Exchange, Lost, Rejects
  <2>3. Backlog' <=> Backlog
    BY <1>1 DEF Backlog
  <2>4. ASSUME NEW y, Announced(y) PROVE Announced(y)'
    BY <1>1, <1>2, <1>5, <1>6, <2>4 DEF Announced, Lost
  <2>5. ASSUME NEW y, Moving(y) PROVE Moving(y)'
    BY <1>1, <1>2, <1>6, <2>5 DEF Moving
  <2> QED BY <2>1, <2>2, <2>3, <2>4, <2>5
<1>9. s # FreshSession
  <2>1. link # NoLink
    BY <1>5, SessionAssumption DEF Unused, NoLink
  <2> QED BY <2>1 DEF IInv, Conversation
<1>10. Conversation'
  BY <1>1, <1>5, <1>8, <1>9 DEF IInv, Conversation
<1>11. Links'
  <2>1. \A i \in DOMAIN up : up[i][1] \notin TransferOps
    BY <1>5 DEF IInv, Links
  <2> QED BY <1>1, <1>2, <2>1 DEF IInv, Links, Out
<1>12. "reset" \notin faults' => InStep'
  BY <1>1, <1>8 DEF IInv, InStep
<1> QED BY <1>4, <1>10, <1>11, <1>12 DEF IInv

(* The next block of an upload: its fields.                                 *)
LEMMA NextBlockFields ==
  ASSUME NEW l, l \in Connections
  PROVE  LET k == NextBlock(l) IN
         /\ k \in Connections
         /\ k.left = l.left /\ k.fly = l.fly /\ k.got = l.got /\ k.stored = l.stored
         /\ k.fin = l.fin /\ k.st = l.st
         /\ l.src > 0 => k.src = l.src - 1 /\ k.out /\ k.eof = l.eof
         /\ l.src = 0 => k.src = 0 /\ ~k.out /\ k.eof
         /\ k.src + Out(k) = l.src
<1>1. Blocks \in Nat
  BY SessionAssumption
<1>2. CASE l.src > 0
  <2> DEFINE k == [l EXCEPT !.src = @ - 1, !.out = TRUE]
  <2>1. NextBlock(l) = k
    BY <1>2 DEF NextBlock
  <2>2. /\ k \in Connections
        /\ k.left = l.left /\ k.fly = l.fly /\ k.got = l.got /\ k.stored = l.stored
        /\ k.fin = l.fin /\ k.st = l.st /\ k.src = l.src - 1 /\ k.out = TRUE /\ k.eof = l.eof
    <3>1. l.src - 1 \in 0..Blocks
      BY <1>1, <1>2 DEF Connections
    <3> QED BY <3>1 DEF Connections
  <2>3. k.src + Out(k) = l.src
    BY <1>1, <2>2 DEF Out, Connections
  <2> HIDE DEF k
  <2> QED BY <1>1, <1>2, <2>1, <2>2, <2>3
<1>3. CASE l.src = 0
  <2> DEFINE k == [l EXCEPT !.out = FALSE, !.eof = TRUE]
  <2>1. NextBlock(l) = k
    BY <1>3 DEF NextBlock
  <2>2. /\ k \in Connections
        /\ k.left = l.left /\ k.fly = l.fly /\ k.got = l.got /\ k.stored = l.stored
        /\ k.fin = l.fin /\ k.st = l.st /\ k.src = 0 /\ ~k.out /\ k.eof
    BY <1>1, <1>3 DEF Connections
  <2>3. k.src + Out(k) = l.src
    BY <1>1, <1>3, <2>2 DEF Out
  <2> HIDE DEF k
  <2> QED BY <1>1, <1>3, <2>1, <2>2, <2>3
<1> QED BY <1>1, <1>2, <1>3 DEF Connections

(* The server acknowledges a block: only a STOR has one, so the next block   *)
(* of data_source goes out, or the end of the file.                         *)
LEMMA DataSentKeeps ==
  ASSUME IInv, DataSent, UNCHANGED faults
  PROVE  IInv'
<1> DEFINE t == lwftp_data_sent(Quiet(s), link.src > 0)
           l == [link EXCEPT !.stored = @ + 1]
<1>1. /\ Basic /\ n \in 0..MaxOps /\ s.data_pcb = "ESTABLISHED" /\ link.out /\ srv.doing = "STOR"
      /\ Finish(t, n) /\ s.data_pcb # NULL /\ link' = NextBlock(l)
      /\ UNCHANGED <<n, down, srv, good, asked, faults>>
  BY DEF IInv, Basic, DataSent, NULL
<1>2. s.control_state \in {"XFERING", "QUIT_SENT"} /\ s.target_state = "STOR_SENT"
  BY <1>1 DEF IInv, Links
<1>3. s.control_pcb = "ESTABLISHED" /\ Handled(t)
  <2>1. (link.src > 0) \in BOOLEAN
    OBVIOUS
  <2> QED BY <1>1, <1>2, <2>1, Begins, GoodSession DEF Handled
<1>4. Turns(s, t, s.control_state, <<>>, <<>>, IF link.src > 0 THEN s.data_pcb ELSE NULL, s.op)
  BY <1>1, Begins, DataShapes
<1> HIDE DEF t
<1>5. s' = t /\ Lib!Good(s)' /\ up' = up
  BY <1>1, <1>3, <1>4, FinishFacts DEF Turns, NULL
<1>6. /\ s'.control_state = s.control_state /\ s'.control_pcb = "ESTABLISHED" /\ s'.op = s.op
      /\ s'.target_state = s.target_state /\ s'.wild = s.wild /\ s' # FreshSession
  BY <1>2, <1>3, <1>4, <1>5, NotFresh DEF Turns
<1>b. Blocks \in Nat
  BY SessionAssumption
<1>7. /\ l \in Connections
      /\ l.left = link.left /\ l.fly = link.fly /\ l.got = link.got /\ l.stored = link.stored + 1
      /\ l.fin = link.fin /\ l.src = link.src /\ l.eof = link.eof
  <2>1. link.stored + 1 \in 0..Blocks
    BY <1>1, <1>b DEF IInv, Basic, Links, Out, Connections
  <2> QED BY <1>1, <2>1 DEF Basic, Connections
<1> HIDE DEF l
<1>8. /\ link' \in Connections
      /\ link'.left = link.left /\ link'.fly = link.fly /\ link'.got = link.got
      /\ link'.stored = link.stored + 1 /\ link'.src + Out(link') = link.src
      /\ link.src > 0 => link'.eof = link.eof
      /\ link.src = 0 => link'.src = 0 /\ ~link'.out
  BY <1>1, <1>7, NextBlockFields
<1>9. Basic'
  BY <1>1, <1>5, <1>8 DEF IInv, Basic
<1>10. link.src \in Nat /\ link.stored \in Nat /\ link'.src \in Nat /\ link'.out \in BOOLEAN
  BY <1>1, <1>8, <1>b DEF Basic, Connections
<1>11. link.src + Out(link) = link.src + 1
  BY <1>1, <1>10 DEF Out
<1>12. Conversation'
  <2>1. CASE s.control_state = "QUIT_SENT"
    BY <1>5, <1>6, <2>1, Quitting
  <2>2. CASE s.control_state = "XFERING"
    <3>1. Moving(s.op) /\ srv # NoTransfer
      BY <1>1, <2>2 DEF IInv, Conversation, NoTransfer, None
    <3>2. /\ up = <<>> /\ Blockwise(s.op, link) /\ down = <<>> /\ srv = [doing |-> s.op, id |-> n]
      BY <3>1 DEF Moving
    <3>3. s.op = "STOR" /\ Going(link)
      BY <1>1, <3>2 DEF Blockwise
    <3>4. Going(link')
      BY <1>8, <1>10, <1>11, <3>3, <1>b DEF Going, Out
    <3>5. Moving(s.op)'
      BY <1>1, <1>5, <1>6, <3>2, <3>3, <3>4 DEF Moving, Blockwise
    <3> QED BY <1>6, <2>2, <3>5 DEF Conversation, TransferStates, CommandStates
  <2> QED BY <1>2, <2>1, <2>2
<1>13. Links'
  <2>1. \A i \in DOMAIN up : up[i][1] \notin TransferOps
    BY <1>1 DEF IInv, Links, Unused
  <2>2. link.src + Out(link) + link.stored <= Blocks
    BY DEF IInv, Links
  <2>3. link'.src + Out(link') + link'.stored <= Blocks
    BY <1>8, <1>10, <1>11, <2>2, <1>b
  <2> QED BY <1>1, <1>2, <1>5, <1>6, <1>8, <2>1, <2>3 DEF IInv, Links
<1>14. "reset" \notin faults' => InStep'
  BY <1>1, <1>2, <1>6 DEF IInv, InStep, CommandStates
<1> QED BY <1>9, <1>12, <1>13, <1>14 DEF IInv

(* A server that refuses the session greets with 421.                       *)
LEMMA ServerRefuseKeeps ==
  ASSUME IInv, ServerRefuse, UNCHANGED faults
  PROVE  IInv'
<1>1. /\ Basic /\ UNCHANGED <<s, n, up, srv, link, good, asked, faults>> /\ "refuse" \in faults
      /\ s.control_pcb = "SYN_SENT" /\ down' = <<421, 0>>
  BY DEF IInv, ServerRefuse
<1>2. s.control_state = "CLOSED" /\ s # FreshSession /\ up = <<>> /\ srv = NoTransfer
  BY <1>1, Begins, GoodSession, NotFresh DEF IInv, Conversation, Greeting, NULL
<1>3. Basic'
  <2>1. down' \in Seq(Replies \cup {0})
    BY <1>1 DEF Replies
  <2> QED BY <1>1, <2>1 DEF Basic
<1>4. Greeting'
  BY <1>1, <1>2 DEF Greeting
<1>5. Conversation'
  BY <1>1, <1>2, <1>4 DEF Conversation, TransferStates, CommandStates
<1>6. Links'
  BY <1>1 DEF IInv, Links, Unused, Out
<1>7. "reset" \notin faults' => InStep'
  BY <1>1, <1>2 DEF IInv, InStep, CommandStates
<1> QED BY <1>3, <1>5, <1>6, <1>7 DEF IInv

(* A reply takes its place behind those under way.                          *)
LEMMA Answers ==
  ASSUME down \in Seq(Replies \cup {0}), NEW r \in Replies \cup {0}, down' = Append(down, r)
  PROVE  /\ down' \in Seq(Replies \cup {0})
         /\ \A i \in DOMAIN down' : \/ i = Len(down') /\ down'[i] = r
                                    \/ i \in DOMAIN down /\ down'[i] = down[i]
BY DEF Replies

(* The server ends a transfer: with 226 once it has sent or seen all of it,  *)
(* with 426 if it cannot.                                                   *)
LEMMA ServerEndKeeps ==
  ASSUME IInv, ServerDone \/ ServerAbort, UNCHANGED faults
  PROVE  IInv'
<1> DEFINE r == IF ServerDone THEN 226 ELSE 426
<1>1. /\ Basic /\ UNCHANGED <<s, n, up, asked, faults>> /\ srv' = NoTransfer /\ srv.doing # None
      /\ down' = Append(down, r) /\ r \in {226, 426}
  BY DEF IInv, ServerDone, ServerAbort, None
<1>2. srv # NoTransfer /\ s # FreshSession /\ link \in Connections /\ Blocks \in Nat
  BY <1>1, SessionAssumption DEF NoTransfer, IInv, Conversation, Basic
<1>3. /\ link' \in Connections
      /\ link'.left = link.left /\ link'.fly = link.fly /\ link'.got = link.got /\ link'.src = link.src
      /\ link'.out = link.out /\ link'.eof = link.eof /\ link'.stored = link.stored
      /\ r = 426 => link'.fin = link.fin
  <2>1. link' = link \/ (r = 226 /\ link' = [link EXCEPT !.fin = TRUE])
    BY DEF ServerDone, ServerAbort
  <2> HIDE DEF r
  <2>2. CASE link' = link
    BY <1>2, <2>2
  <2>3. CASE r = 226 /\ link' = [link EXCEPT !.fin = TRUE]
    <3> DEFINE l == [link EXCEPT !.fin = TRUE]
    <3>1. /\ l \in Connections
          /\ l.left = link.left /\ l.fly = link.fly /\ l.got = link.got /\ l.src = link.src
          /\ l.out = link.out /\ l.eof = link.eof /\ l.stored = link.stored
      BY <1>2 DEF Connections
    <3> HIDE DEF l
    <3>2. link' = l /\ r # 426
      BY <2>3 DEF l
    <3> QED BY <3>1, <3>2
  <2> QED BY <2>1, <2>2, <2>3
<1>4. ASSUME r = 226
      PROVE  \/ srv.doing \in {"RETR", "MLSD"} /\ link.left = 0
             \/ srv.doing = "STOR" /\ link.eof /\ ~link.out
  BY <1>4 DEF ServerDone
<1> HIDE DEF r
<1>5. Basic'
  <2>1. down' \in Seq(Replies \cup {0})
    BY <1>1, Answers DEF Basic, Replies
  <2>2. srv' \in [doing : TransferOps \cup {None}, id : 0..MaxOps]
    BY <1>1, SessionAssumption DEF NoTransfer
  <2>3. good' \subseteq 0..MaxOps
    BY <1>1 DEF Basic, ServerDone, ServerAbort
  <2> QED BY <1>1, <1>3, <2>1, <2>2, <2>3 DEF Basic
<1>6. \A x : Blockwise(x, link)' <=> Blockwise(x, link)
  BY <1>3 DEF Blockwise, Coming, Going, Out
<1>7. ~Greeting /\ \A c : ~Exchange(c)
  BY <1>2 DEF Greeting, Exchange, Lost
<1>8. ASSUME Backlog PROVE Backlog'
  <2>1. \A i \in DOMAIN down' : \/ i = Len(down') /\ down'[i] = r
                                \/ i \in DOMAIN down /\ down'[i] = down[i]
    BY <1>1, Answers DEF Basic, Replies
  <2>2. \A i \in DOMAIN down : down[i] \in LateReplies
    BY <1>2, <1>8 DEF Backlog
  <2>3. r \in LateReplies
    BY <1>1 DEF LateReplies
  <2>4. \A i \in DOMAIN down' : down'[i] \in LateReplies
    BY <2>1, <2>2, <2>3
  <2> QED BY <1>1, <1>8, <2>4 DEF Backlog
<1>9. ASSUME NEW x \in TransferOps, Announced(x) PROVE Announced(x)'
  <2>1. /\ up = <<>> /\ Blockwise(x, link) /\ (x = "STOR" => Unused(link))
        /\ down = <<150>> /\ srv = [doing |-> x, id |-> n] /\ ~link.fin
    BY <1>2, <1>9 DEF Announced, Lost
  <2>2. down' = <<150, r>>
    BY <1>1, <2>1, ShortSeqs
  <2>3. r = 226 => x # "STOR" /\ link.left = 0
    BY <1>4, <2>1 DEF Unused
  <2>4. r = 426 => ~link'.fin /\ (x = "STOR" => Unused(link)')
    BY <1>3, <2>1 DEF Unused
  <2> QED BY <1>1, <1>3, <1>6, <2>1, <2>2, <2>3, <2>4 DEF Announced, Lost
<1>10. ASSUME NEW x \in TransferOps, Moving(x) PROVE Moving(x)'
  <2>1. up = <<>> /\ Blockwise(x, link) /\ down = <<>> /\ srv = [doing |-> x, id |-> n]
    BY <1>2, <1>10 DEF Moving
  <2>2. down' = <<r>>
    BY <1>1, <2>1, ShortSeqs
  <2>3. r = 226 /\ x # "STOR" => link.left = 0
    BY <1>4, <2>1
  <2>4. r = 226 /\ x = "STOR" => link.left = 0 /\ link.stored = Blocks
    BY <1>2, <1>4, <2>1 DEF Blockwise, Going, Out, Connections
  <2> QED BY <1>1, <1>3, <1>6, <2>1, <2>2, <2>3, <2>4 DEF Moving
<1>11. Conversation'
  <2>1. s.control_state = "XFERING" => s.op \in TransferOps
    BY <1>1, Begins, GoodSession
  <2>2. s.control_state \in TransferStates => CommandOf[s.control_state] \in TransferOps
    BY DEF TransferStates, CommandOf, TransferOps
  <2> QED BY <1>1, <1>2, <1>7, <1>8, <1>9, <1>10, <2>1, <2>2 DEF IInv, Conversation
<1>12. Links'
  <2>1. \A i \in DOMAIN up : up[i][1] \notin TransferOps
    BY <1>2 DEF IInv, Links
  <2>2. srv'.doing # "STOR"
    BY <1>1 DEF NoTransfer, None
  <2> QED BY <1>1, <1>3, <2>1, <2>2 DEF IInv, Links, Out
<1>13. "reset" \notin faults' => InStep'
  BY <1>1, <1>2, <1>7 DEF IInv, InStep
<1> QED BY <1>5, <1>11, <1>12, <1>13 DEF IInv

(* The server takes a command and answers it.                               *)
LEMMA ServerCommandKeeps ==
  ASSUME IInv, ServerCommand, UNCHANGED faults
  PROVE  IInv'
<1> DEFINE cmd == Head(up)[1]
           id == Head(up)[2]
           Yes == /\ down' = down \o <<Accepted[cmd]>> \o (IF cmd = "QUIT" THEN <<0>> ELSE <<>>)
                  /\ srv' = IF cmd \in TransferOps THEN [doing |-> cmd, id |-> id] ELSE srv
                  /\ link' = CASE cmd = "PASV" -> [NoLink EXCEPT !.st = "listen"]
                               [] cmd \in {"RETR", "MLSD"} -> [link EXCEPT !.left = Blocks]
                               [] OTHER -> link
                  /\ good' = IF cmd \in {"DELE", "RMD", "CWD", "PWD", "RNTO"}
                             THEN good \cup {id} ELSE good
           No == Rejects(cmd) /\ down' = Append(down, 550) /\ UNCHANGED <<srv, link, good>>
<1>1. /\ Basic /\ up # <<>> /\ s.control_pcb = "ESTABLISHED" /\ srv = NoTransfer /\ (Yes \/ No)
      /\ up' = Tail(up) /\ UNCHANGED <<s, n, asked, faults>>
  BY DEF IInv, Basic, ServerCommand
<1>2. /\ cmd \in DOMAIN Accepted /\ id \in 0..MaxOps /\ up' \in Seq(Tags) /\ 1 \in DOMAIN up
      /\ up[1] = Head(up) /\ \A i \in DOMAIN up' : i + 1 \in DOMAIN up /\ up'[i] = up[i + 1] /\ i + 1 # 1
  <2>1. up \in Seq(Tags)
    BY <1>1 DEF Basic
  <2>2. Head(up) \in Tags /\ up' \in Seq(Tags) /\ 1 \in DOMAIN up /\ up[1] = Head(up)
    BY <1>1, <2>1
  <2>3. \A i \in DOMAIN up' : i + 1 \in DOMAIN up /\ up'[i] = up[i + 1] /\ i + 1 # 1
    BY <1>1, <2>1
  <2> QED BY <2>2, <2>3 DEF Tags
<1>3. s.control_state # "CLOSED" /\ s # FreshSession
  BY <1>1, Begins, GoodSession, NotFresh
<1>d. down \in Seq(Replies \cup {0}) /\ Accepted[cmd] \in Replies /\ 550 \in Replies /\ Blocks \in Nat
      /\ link \in Connections
  <2>1. Accepted[cmd] \in Replies
    BY <1>2, CommandsAre
  <2>2. 550 \in Replies
    BY DEF Replies
  <2> QED BY <1>1, <2>1, <2>2, SessionAssumption DEF Basic
<1> HIDE DEF cmd, id
<1>4. ASSUME Yes, cmd # "QUIT" PROVE down' = Append(down, Accepted[cmd])
  BY <1>4, <1>d
<1>5. /\ cmd \in TransferOps => Unused(link)
      /\ \A i \in DOMAIN up' : up'[i][1] \notin TransferOps
  BY <1>2 DEF IInv, Links, cmd
<1>6. Yes \/ No => link' \in Connections
  <2>1. [link EXCEPT !.left = Blocks] \in Connections
    BY <1>d DEF Connections
  <2>2. [NoLink EXCEPT !.st = "listen"] \in Connections
    <3>1. NoLink \in Connections
      BY <1>d DEF NoLink, Connections
    <3> QED BY <3>1 DEF Connections
  <2> QED BY <1>d, <2>1, <2>2
<1>7. Basic'
  <2>1. CASE Yes
    <3>1. down' \in Seq(Replies \cup {0})
      <4>1. /\ <<Accepted[cmd]>> \in Seq(Replies \cup {0}) /\ <<0>> \in Seq(Replies \cup {0})
            /\ <<>> \in Seq(Replies \cup {0})
        BY <1>d
      <4>2. (IF cmd = "QUIT" THEN <<0>> ELSE <<>>) \in Seq(Replies \cup {0})
        BY <4>1
      <4>3. down \o <<Accepted[cmd]>> \in Seq(Replies \cup {0})
        BY <1>d, <4>1, ConcatProperties
      <4> QED BY <2>1, <4>2, <4>3, ConcatProperties
    <3>2. /\ srv' \in [doing : TransferOps \cup {None}, id : 0..MaxOps]
          /\ srv'.doing = None => srv' = NoTransfer
      BY <1>1, <1>2, <2>1 DEF Basic, None, TransferOps
    <3>3. good' \subseteq 0..MaxOps
      BY <1>1, <1>2, <2>1 DEF Basic
    <3> QED BY <1>1, <1>2, <1>6, <3>1, <3>2, <3>3 DEF Basic
  <2>2. CASE No
    <3>1. down' \in Seq(Replies \cup {0})
      BY <2>2, <1>d
    <3> QED BY <1>1, <1>2, <2>2, <3>1 DEF Basic
  <2> QED BY <1>1, <2>1, <2>2
<1>8. ASSUME NEW c, c \notin TransferOps \cup {"QUIT"}, Exchange(c)
      PROVE  Exchange(c)' /\ (c = "PASV" => (down' = <<227>> => Unused(link)'))
  <2>1. up = <<<<c, n>>>> /\ down = <<>>
    BY <1>1, <1>8 DEF Exchange, Lost
  <2>2. cmd = c /\ up' = <<>>
    BY <1>1, <2>1, ShortSeqs DEF cmd
  <2>3. CASE Yes
    <3>1. down' = <<Accepted[c]>> /\ srv' = NoTransfer
      BY <1>1, <1>4, <1>8, <2>1, <2>2, <2>3, ShortSeqs
    <3>2. c = "PASV" => Unused(link)'
      BY <2>2, <2>3 DEF Unused, NoLink
    <3> QED BY <2>2, <3>1, <3>2 DEF Exchange, Lost
  <2>4. CASE No
    <3>1. down' = <<550>> /\ srv' = NoTransfer /\ Rejects(c)'
      BY <1>1, <2>1, <2>2, <2>4, ShortSeqs DEF Rejects
    <3>2. <<550>> # <<227>>
      OBVIOUS
    <3> QED BY <2>2, <3>1, <3>2 DEF Exchange, Lost
  <2> QED BY <1>1, <2>3, <2>4
<1>9. ASSUME Backlog PROVE Backlog'
  <2>1. cmd \in LateCommands \/ (s.control_state = "TYPE_SENT" /\ cmd = "TYPE" /\ Len(up) = 1)
    <3>1. up[1][1] = cmd
      BY <1>2 DEF cmd
    <3> QED BY <1>2, <1>9, <3>1 DEF Backlog
  <2>2. \A i \in DOMAIN down : down[i] \in LateReplies
    BY <1>1, <1>9 DEF Backlog
  <2>3. \A i \in DOMAIN up' :
          \/ up'[i][1] \in LateCommands
          \/ s.control_state = "TYPE_SENT" /\ up'[i][1] = "TYPE" /\ i = Len(up')
    <3>1. Len(up') = Len(up) - 1 /\ Len(up) \in Nat
      BY <1>1 DEF Basic
    <3>2. ASSUME NEW i \in DOMAIN up', i + 1 = Len(up) PROVE i = Len(up')
      <4>1. i \in Nat
        BY <1>2
      <4> QED BY <3>1, <3>2, <4>1
    <3> QED BY <1>2, <1>9, <3>2 DEF Backlog
  <2>4. CASE No
    <3>1. down' = Append(down, 550) /\ 550 \in LateReplies
      BY <2>4 DEF LateReplies
    <3>2. \A i \in DOMAIN down' : down'[i] \in LateReplies
      BY <1>d, <2>2, <3>1, Answers
    <3> QED BY <1>1, <2>3, <3>2 DEF Backlog
  <2>5. CASE Yes /\ cmd \in LateCommands
    <3>1. cmd # "QUIT" /\ Accepted[cmd] \in LateReplies
      BY <2>5 DEF LateCommands, LateReplies, CommandOps, Accepted
    <3>2. \A i \in DOMAIN down' : down'[i] \in LateReplies
      BY <1>4, <1>d, <2>2, <2>5, <3>1, Answers
    <3> QED BY <1>1, <2>3, <3>2 DEF Backlog
  <2>6. CASE Yes /\ s.control_state = "TYPE_SENT" /\ cmd = "TYPE" /\ Len(up) = 1
    <3>1. cmd # "QUIT" /\ Accepted[cmd] = 200
      BY <2>6 DEF Accepted
    <3>2. up' = <<>> /\ srv' = NoTransfer
      <4>1. up' = <<>>
        <5>1. up \in Seq(Tags)
          BY <1>1 DEF Basic
        <5> QED BY <1>1, <2>6, <5>1
      <4> QED BY <1>1, <2>6, <4>1 DEF TransferOps
    <3>3. \A i \in DOMAIN down' : down'[i] \in LateReplies \/ (i = Len(down') /\ down'[i] = 200)
      BY <1>4, <1>d, <2>2, <2>6, <3>1, Answers
    <3> QED BY <1>1, <2>3, <2>6, <3>2, <3>3 DEF Backlog
  <2> QED BY <1>1, <2>1, <2>4, <2>5, <2>6
<1>10. ASSUME NEW x \in TransferOps, Announced(x) PROVE Announced(x)'
  <2>1. up = <<<<x, n>>>> /\ down = <<>> /\ Unused(link)
    BY <1>1, <1>10 DEF Announced, Lost
  <2>2. cmd = x /\ id = n /\ up' = <<>>
    BY <1>1, <2>1, ShortSeqs DEF cmd, id
  <2>3. CASE Yes
    <3>1. down' = <<150>> /\ srv' = [doing |-> x, id |-> n]
      <4>1. Accepted[x] = 150 /\ x # "QUIT"
        BY DEF TransferOps, Accepted
      <4> QED BY <1>4, <2>1, <2>2, <2>3, <4>1, ShortSeqs
    <3>2. Blockwise(x, link)' /\ ~link'.fin /\ (x = "STOR" => Unused(link)')
      <4>1. CASE x = "STOR"
        <5>1. link' = link
          BY <2>2, <2>3, <4>1
        <5> QED BY <1>d, <2>1, <4>1, <5>1 DEF Unused, Blockwise, Going, Out, Connections
      <4>2. CASE x # "STOR"
        <5>1. link' = [link EXCEPT !.left = Blocks]
          BY <2>2, <2>3, <4>2 DEF TransferOps
        <5>2. link'.left = Blocks /\ link'.fly = link.fly /\ link'.got = link.got
              /\ link'.out = link.out /\ link'.eof = link.eof /\ link'.fin = link.fin
          BY <1>d, <5>1 DEF Connections
        <5> QED BY <1>d, <2>1, <4>2, <5>2 DEF Unused, Blockwise, Coming
      <4> QED BY <4>1, <4>2
    <3> QED BY <1>1, <2>2, <3>1, <3>2 DEF Announced, Lost
  <2>4. CASE No
    <3>1. down' = <<550>> /\ srv' = NoTransfer /\ Rejects(x)' /\ Unused(link)'
      BY <1>1, <2>1, <2>2, <2>4, ShortSeqs DEF Rejects
    <3> QED BY <2>2, <3>1 DEF Announced, Lost
  <2> QED BY <1>1, <2>3, <2>4
<1>11. /\ ~(s.control_state = "CONNECTED") /\ s.control_state # "XFERING"
       /\ s.control_pcb # "SYN_SENT"
  BY <1>1 DEF IInv, Conversation, Greeting, Moving
<1>12. Conversation'
  <2>1. s.control_state \in {"USER_SENT", "PASS_SENT", "PASV_SENT"} =>
          CommandOf[s.control_state] \notin TransferOps \cup {"QUIT"}
    BY DEF CommandOf, TransferOps
  <2>2. s.control_state \in TransferStates => CommandOf[s.control_state] \in TransferOps
    BY DEF TransferStates, CommandOf, TransferOps
  <2>3. s.control_state = "PASV_SENT" => CommandOf[s.control_state] = "PASV"
    BY DEF CommandOf
  <2> QED BY <1>1, <1>3, <1>8, <1>9, <1>10, <1>11, <2>1, <2>2, <2>3 DEF IInv, Conversation
<1>13. Links'
  <2>1. /\ link'.left + link'.fly + link'.got <= Blocks
        /\ link'.src + Out(link') + link'.stored <= Blocks
    <3>1. CASE link' = link
      BY <3>1 DEF IInv, Links
    <3>2. CASE link' = [NoLink EXCEPT !.st = "listen"]
      BY <1>d, <3>2 DEF NoLink, Out
    <3>3. CASE cmd \in TransferOps /\ link' = [link EXCEPT !.left = Blocks]
      BY <1>d, <1>5, <3>3 DEF Connections, Unused, Out
    <3> QED BY <1>1, <3>1, <3>2, <3>3 DEF TransferOps
  <2>2. link'.out => srv'.doing # "STOR"
    <3>1. CASE cmd \notin TransferOps \/ No
      BY <1>1, <3>1 DEF NoTransfer, None
    <3>2. CASE cmd \in TransferOps /\ Yes
      BY <1>d, <1>5, <3>2 DEF TransferOps, Unused, Connections
    <3> QED BY <1>1, <3>1, <3>2
  <2> QED BY <1>5, <2>1, <2>2 DEF Links
<1>14. "reset" \notin faults' => InStep'
  <2>1. s.control_state \in CommandStates \cup {"TYPE_SENT"} =>
          CommandOf[s.control_state] \notin TransferOps \cup {"QUIT"}
    BY DEF CommandOf, TransferOps, CommandStates
  <2> QED BY <1>1, <1>8, <2>1 DEF IInv, InStep
<1> QED BY <1>7, <1>12, <1>13, <1>14 DEF IInv

-----------------------------------------------------------------------------
(* A reply arrives, alone or with the next one in the same pbuf.            *)

Rest(k) == SubSeq(down, k + 1, Len(down))

(* The handler leaves t.                                                    *)
Receives(k, opened, t) ==
  /\ t = lwftp_control_process(Quiet(s), Head(down), opened, link.src > 0)
  /\ Finish(t, n) /\ Handled(t)
  /\ down' = IF t.control_pcb = NULL THEN <<>> ELSE Rest(k)
  /\ link' = IF s.control_state = "STOR_SENT" /\ t.control_state = "XFERING" /\ s.data_pcb # NULL
             THEN NextBlock(link) ELSE link
  /\ UNCHANGED <<n, srv, good, asked, faults>>
  /\ s.control_pcb = "ESTABLISHED" /\ down \in Seq(Replies \cup {0}) /\ Len(down) >= k
  /\ Head(down) \in Replies /\ Head(down) # 0 /\ Head(down) = down[1]
  /\ \A i \in 1..k : down[i] # 0
  /\ k = 2 => "coalesce" \in faults

(* Every delivery is one.                                                   *)
LEMMA Received ==
  ASSUME IInv, NEW k \in {1, 2}, Deliver(k), k = 2 => "coalesce" \in faults, UNCHANGED faults
  PROVE  \E opened \in BOOLEAN : \E t : Receives(k, opened, t)
<1>1. PICK opened \in BOOLEAN :
        LET t == lwftp_control_process(Quiet(s), Head(down), opened, link.src > 0)
        IN  /\ Finish(t, n)
            /\ down' = IF t.control_pcb = NULL THEN <<>> ELSE SubSeq(down, k + 1, Len(down))
            /\ link' = IF s.control_state = "STOR_SENT" /\ t.control_state = "XFERING"
                         /\ s.data_pcb # NULL
                       THEN NextBlock(link) ELSE link
  BY DEF Deliver
<1> DEFINE t == lwftp_control_process(Quiet(s), Head(down), opened, link.src > 0)
<1>2. down \in Seq(Replies \cup {0}) /\ Len(down) >= k /\ s.control_pcb = "ESTABLISHED"
      /\ \A i \in 1..k : down[i] # 0
  BY DEF IInv, Basic, Deliver
<1>3. Head(down) \in Replies /\ Head(down) # 0 /\ Head(down) = down[1]
  <2>1. down # <<>> /\ 1 \in 1..k
    BY <1>2
  <2>2. Head(down) = down[1] /\ down[1] \in Replies \cup {0} /\ down[1] # 0
    BY <1>2, <2>1
  <2> QED BY <2>2
<1>4. Handled(t)
  <2>1. (link.src > 0) \in BOOLEAN
    OBVIOUS
  <2> QED BY <1>2, <1>3, <2>1 DEF Handled
<1>5. Receives(k, opened, t)
  BY <1>1, <1>2, <1>3, <1>4 DEF Receives, Rest, Deliver
<1> QED BY <1>5

(* What is left of the replies.                                             *)
LEMMA RestFacts ==
  ASSUME down \in Seq(Replies \cup {0}), NEW k \in {1, 2}, Len(down) >= k
  PROVE  /\ Rest(k) \in Seq(Replies \cup {0})
         /\ \A i \in DOMAIN Rest(k) : /\ i + k \in DOMAIN down /\ Rest(k)[i] = down[i + k]
                                      /\ i + k = Len(down) => i = Len(Rest(k))
         /\ \A a : down = <<a>> => Head(down) = a /\ k = 1 /\ Rest(k) = <<>>
         /\ \A a, b : down = <<a, b>> =>
              Head(down) = a /\ (IF k = 1 THEN Rest(k) = <<b>> ELSE Rest(k) = <<>>)
         /\ Len(down) = 1 => k = 1 /\ Rest(k) = <<>>
<1>1. /\ Rest(k) \in Seq(Replies \cup {0}) /\ Len(Rest(k)) = Len(down) - k
      /\ \A i \in 1..(Len(down) - k) : Rest(k)[i] = down[i + k]
      /\ Len(down) \in Nat
  BY DEF Rest, Replies
<1>2. \A i \in DOMAIN Rest(k) : /\ i + k \in DOMAIN down /\ Rest(k)[i] = down[i + k]
                                /\ i + k = Len(down) => i = Len(Rest(k))
  BY <1>1
<1>3. ASSUME NEW a, down = <<a>> PROVE Head(down) = a /\ k = 1 /\ Rest(k) = <<>>
  BY <1>3, ShortSeqs DEF Rest
<1>4. ASSUME NEW a, NEW b, down = <<a, b>>
      PROVE  Head(down) = a /\ (IF k = 1 THEN Rest(k) = <<b>> ELSE Rest(k) = <<>>)
  BY <1>4, ShortSeqs DEF Rest
<1>5. ASSUME Len(down) = 1 PROVE k = 1 /\ Rest(k) = <<>>
  <2>1. Len(Rest(k)) = 0 /\ k = 1
    BY <1>1, <1>5
  <2> QED BY <1>1, <2>1
<1> QED BY <1>1, <1>2, <1>3, <1>4, <1>5

(* The step of a handler that leaves the data connection alone.             *)
LEMMA ReceiveTurn ==
  ASSUME IInv, NEW k \in {1, 2}, NEW opened, NEW t, Receives(k, opened, t), UNCHANGED link,
         NEW st, NEW cmds, NEW res, NEW data, NEW owed, Turns(s, t, st, cmds, res, data, owed),
         st # "CLOSED", cmds = <<>> \/ \E c \in DOMAIN Accepted : cmds = <<c>>
  PROVE  /\ Basic' /\ Lib!Good(s)' /\ s' = t /\ Turns(s, s', st, cmds, res, data, owed)
         /\ s'.control_pcb = "ESTABLISHED" /\ s' # FreshSession
         /\ down' = Rest(k)
         /\ cmds = <<>> => up' = up
         /\ \A c : cmds = <<c>> => Puts(<<c, n>>)
<1>1. Basic /\ n \in 0..MaxOps
  BY DEF IInv, Basic
<1>2. t.control_pcb = "ESTABLISHED" /\ t.control_pcb # NULL /\ t.control_state = st /\ t.sent = cmds
  BY DEF Turns, Receives, NULL
<1>3. Finish(t, n) /\ Handled(t)
  BY DEF Receives
<1>4. /\ s' = t /\ Lib!Good(s)' /\ up' \in Seq(Tags)
      /\ cmds = <<>> => up' = up
      /\ \A c : cmds = <<c>> => Puts(<<c, n>>)
  BY <1>1, <1>2, <1>3, FinishFacts
<1>5. down' = Rest(k) /\ down' \in Seq(Replies \cup {0})
  BY <1>2, RestFacts DEF Receives
<1>6. Basic'
  BY <1>1, <1>4, <1>5 DEF Basic, Receives
<1> QED BY <1>2, <1>4, <1>5, <1>6, NotFresh

(* In LOGGED it is ignored.                                                 *)
LEMMA ReceiveLogged ==
  ASSUME IInv, NEW k \in {1, 2}, NEW opened, NEW t, Receives(k, opened, t),
         s.control_state = "LOGGED"
  PROVE  IInv'
<1>1. Turns(s, t, "LOGGED", <<>>, <<>>, s.data_pcb, s.op) /\ Basic
  <2>1. Basic /\ Fresh(Quiet(s)) /\ Quiet(s).control_state = "LOGGED"
    BY Begins DEF IInv
  <2>2. t = Quiet(s)
    BY <2>1, ProcessLogged DEF Receives
  <2> QED BY <2>1, <2>2, Begins DEF Turns, Fresh
<1>2. UNCHANGED link
  BY DEF Receives
<1>3. /\ Basic' /\ Turns(s, s', "LOGGED", <<>>, <<>>, s.data_pcb, s.op) /\ down' = Rest(k)
      /\ up' = up /\ s'.control_pcb = "ESTABLISHED" /\ s' # FreshSession
  BY <1>1, <1>2, ReceiveTurn
<1>4. s'.control_state = "LOGGED" /\ s'.data_pcb = s.data_pcb /\ s'.wild = s.wild
      /\ UNCHANGED <<srv, faults>>
  BY <1>3 DEF Turns, Receives
<1>5. Backlog'
  <2>1. Backlog
    BY DEF IInv, Conversation
  <2>2. \A i \in DOMAIN Rest(k) : i + k \in DOMAIN down /\ Rest(k)[i] = down[i + k]
    BY RestFacts DEF Receives
  <2>3. \A i \in DOMAIN down' : down'[i] \in LateReplies
    BY <1>3, <2>1, <2>2 DEF Backlog
  <2> QED BY <1>3, <2>1, <2>3 DEF Backlog
<1>6. Conversation'
  BY <1>3, <1>4, <1>5 DEF Conversation, TransferStates, CommandStates
<1>7. Links'
  BY <1>2, <1>3, <1>4 DEF IInv, Links
<1>8. "reset" \notin faults' => InStep'
  <2> SUFFICES ASSUME "reset" \notin faults PROVE FALSE
    BY <1>4
  <2> QED BY ShortSeqs DEF IInv, InStep, Receives
<1> QED BY <1>3, <1>6, <1>7, <1>8 DEF IInv

(* A refusal makes the session quit.                                        *)
LEMMA ReceiveRefusal ==
  ASSUME IInv, NEW k \in {1, 2}, NEW opened, NEW t, Receives(k, opened, t),
         s.control_state \in LoginStates \cup {"TYPE_SENT", "PASV_SENT"},
         Head(down) # Expected[s.control_state]
  PROVE  IInv'
<1>1. Turns(s, t, "QUIT_SENT", <<"QUIT">>, <<>>, s.data_pcb, s.op) /\ Basic
  BY Begins, ProcessRefused DEF IInv, Receives
<1>2. UNCHANGED link /\ "QUIT" \in DOMAIN Accepted
  BY CommandsAre DEF Receives, LoginStates
<1>3. /\ Basic' /\ Turns(s, s', "QUIT_SENT", <<"QUIT">>, <<>>, s.data_pcb, s.op)
      /\ Puts(<<"QUIT", n>>)
  BY <1>1, <1>2, ReceiveTurn
<1>4. /\ s'.control_state = "QUIT_SENT" /\ s'.data_pcb = s.data_pcb /\ s'.wild = s.wild
      /\ UNCHANGED <<srv, faults>> /\ Lib!Good(s)'
  BY <1>3 DEF Turns, Receives, Basic
<1>5. Conversation'
  BY <1>4, Quitting
<1>6. Links'
  <2>1. \A i \in DOMAIN up' : \/ i = Len(up') /\ up'[i] = <<"QUIT", n>>
                              \/ i \in DOMAIN up /\ up'[i] = up[i]
    BY <1>1, <1>3, Written DEF Basic
  <2> QED BY <1>2, <1>4, <2>1 DEF IInv, Links, LoginStates, TransferOps
<1>7. "reset" \notin faults' => InStep'
  BY <1>4 DEF IInv, InStep, CommandStates
<1> QED BY <1>3, <1>5, <1>6, <1>7 DEF IInv

(* The reply it waits for, and the session is alone with its server: only    *)
(* the next command is under way.                                           *)
LEMMA ReceiveNext ==
  ASSUME IInv, NEW k \in {1, 2}, NEW opened, NEW t, Receives(k, opened, t),
         NEW st, NEW cmd, Follows(s.control_state, cmd, st), s.control_state # "RNFR_SENT",
         Head(down) = Expected[s.control_state]
  PROVE  IInv'
<1>1. Turns(s, t, st, <<cmd>>, <<>>, s.data_pcb, s.op) /\ Basic
  <2>1. /\ Basic /\ Fresh(Quiet(s)) /\ Quiet(s).control_state = s.control_state
        /\ Quiet(s).data_pcb = s.data_pcb /\ Quiet(s).op = s.op
    BY Begins DEF IInv
  <2>2. Turns(Quiet(s), t, st, <<cmd>>, <<>>, s.data_pcb, s.op)
    BY <2>1, ProcessNext DEF Receives
  <2> QED BY <2>1, <2>2, Begins
<1>2. UNCHANGED link /\ cmd \in DOMAIN Accepted /\ st # "CLOSED"
  BY CommandsAre DEF Receives, Follows
<1>3. /\ Basic' /\ Turns(s, s', st, <<cmd>>, <<>>, s.data_pcb, s.op)
      /\ Puts(<<cmd, n>>) /\ down' = Rest(k) /\ s'.control_pcb = "ESTABLISHED"
      /\ s' # FreshSession
  BY <1>1, <1>2, ReceiveTurn
<1>4. /\ s'.control_state = st /\ s'.data_pcb = s.data_pcb /\ s'.wild = s.wild
      /\ UNCHANGED <<n, srv, faults>>
  BY <1>3 DEF Turns, Receives
<1>5. up = <<>> /\ srv = NoTransfer /\ Len(down) = 1
  <2>1. CASE s.control_state = "CONNECTED"
    <3>1. Greeting /\ Head(down) = 220
      BY <2>1 DEF IInv, Conversation, Expected
    <3>2. down # <<421, 0>>
      BY <3>1, ShortSeqs
    <3> QED BY <3>1, <3>2, ShortSeqs DEF Greeting
  <2>2. CASE s.control_state = "USER_SENT"
    <3>1. Exchange("USER") /\ down # <<>>
      BY <2>2, ShortSeqs DEF IInv, Conversation, CommandOf, Receives
    <3> QED BY <3>1, ShortSeqs DEF Exchange, Lost
  <2>3. CASE s.control_state = "TYPE_SENT"
    <3>1. Backlog /\ down[1] = 200
      BY <2>3 DEF IInv, Conversation, Expected, Receives
    <3>2. 1 \in DOMAIN down /\ 200 \notin LateReplies
      BY DEF Receives, LateReplies
    <3> QED BY <3>1, <3>2 DEF Backlog
  <2> QED BY <2>1, <2>2, <2>3 DEF Follows
<1>6. /\ down' = <<>> /\ (up' = <<<<cmd, n'>>>> \/ ("unsent" \in faults /\ up' = <<>>))
      /\ \A i \in DOMAIN up' : i = 1 /\ up'[i] = <<cmd, n>>
  <2>1. up' = <<<<cmd, n>>>> \/ ("unsent" \in faults /\ up' = <<>>)
    BY <1>1, <1>3, <1>5, Written DEF IInv, Basic
  <2>2. down' = <<>>
    BY <1>3, <1>5, RestFacts DEF Receives
  <2> QED BY <1>4, <2>1, <2>2
<1>7. Exchange(cmd)' /\ cmd = CommandOf[st] /\ down' # <<227>>
  <2>1. cmd = CommandOf[st]
    BY DEF CommandOf, Follows
  <2> QED BY <1>4, <1>5, <1>6, <2>1 DEF Exchange, Lost
<1>8. Conversation'
  BY <1>3, <1>4, <1>7 DEF Conversation, TransferStates, CommandStates, Follows
<1>9. Links'
  <2>1. \A i \in DOMAIN up' : up'[i][1] \notin TransferOps
    BY <1>6, ShortSeqs DEF TransferOps, Follows
  <2>2. srv'.doing # "STOR"
    BY <1>4, <1>5 DEF NoTransfer, None
  <2> QED BY <1>2, <2>1, <2>2 DEF IInv, Links
<1>10. "reset" \notin faults' => InStep'
  BY <1>4 DEF IInv, InStep, CommandStates, Follows
<1> QED BY <1>3, <1>8, <1>9, <1>10 DEF IInv

(* The login succeeds.                                                      *)
LEMMA ReceiveLogin ==
  ASSUME IInv, NEW k \in {1, 2}, NEW opened, NEW t, Receives(k, opened, t),
         s.control_state = "PASS_SENT", Head(down) = 230
  PROVE  IInv'
<1>1. Turns(s, t, "LOGGED", <<>>, <<"LOGGED">>, s.data_pcb, None) /\ Basic
  BY Begins, ProcessLogin DEF IInv, Receives
<1>2. UNCHANGED link
  BY DEF Receives
<1>3. /\ Basic' /\ Turns(s, s', "LOGGED", <<>>, <<"LOGGED">>, s.data_pcb, None)
      /\ up' = up /\ down' = Rest(k) /\ s'.control_pcb = "ESTABLISHED" /\ s' # FreshSession
  BY <1>1, <1>2, ReceiveTurn
<1>4. /\ s'.control_state = "LOGGED" /\ s'.data_pcb = s.data_pcb /\ s'.wild = s.wild
      /\ UNCHANGED <<srv, faults>>
  BY <1>3 DEF Turns, Receives
<1>5. up = <<>> /\ srv = NoTransfer /\ Len(down) = 1
  <2>1. Exchange("PASS") /\ down # <<>>
    BY ShortSeqs DEF IInv, Conversation, CommandOf, Receives
  <2> QED BY <2>1, ShortSeqs DEF Exchange, Lost
<1>6. down' = <<>> /\ up' = <<>>
  BY <1>3, <1>5, RestFacts DEF Receives
<1>7. Backlog'
  BY <1>6 DEF Backlog
<1>8. Conversation'
  BY <1>3, <1>4, <1>7 DEF Conversation, TransferStates, CommandStates
<1>9. Links'
  <2>1. srv'.doing # "STOR"
    BY <1>4, <1>5 DEF NoTransfer, None
  <2> QED BY <1>2, <1>6, <2>1 DEF IInv, Links
<1>10. "reset" \notin faults' => InStep'
  BY <1>4, <1>5, <1>6 DEF IInv, InStep, CommandStates
<1> QED BY <1>3, <1>8, <1>9, <1>10 DEF IInv

(* 227: the transfer command is written.                                    *)
LEMMA ReceivePassive ==
  ASSUME IInv, NEW k \in {1, 2}, NEW opened, NEW t, Receives(k, opened, t),
         s.control_state = "PASV_SENT", Head(down) = 227
  PROVE  IInv'
<1> DEFINE data == IF opened THEN "SYN_SENT" ELSE s.data_pcb
<1>1. /\ Basic /\ s.op \in TransferOps /\ SentState[s.op] = s.target_state /\ s.data_pcb = "CLOSED"
      /\ Turns(s, t, s.target_state, <<s.op>>, <<>>, data, s.op)
  <2>1. Basic /\ s.op \in TransferOps /\ SentState[s.op] = s.target_state /\ s.data_pcb = "CLOSED"
    BY Begins, GoodSession DEF IInv
  <2>2. Turns(Quiet(s), t, s.target_state, <<s.op>>, <<>>, data, s.op)
    BY <2>1, Begins, ProcessPassive DEF Receives
  <2> QED BY <2>1, <2>2, Begins
<1> HIDE DEF data
<1>2. /\ UNCHANGED link /\ s.op \in DOMAIN Accepted /\ s.target_state \in TransferStates
      /\ CommandOf[s.target_state] = s.op /\ s.target_state # "CLOSED"
  BY <1>1, CommandsAre DEF Receives, TransferOps, SentState, TransferStates, CommandOf
<1>3. /\ Basic' /\ Turns(s, s', s.target_state, <<s.op>>, <<>>, data, s.op)
      /\ Puts(<<s.op, n>>) /\ down' = Rest(k) /\ s'.control_pcb = "ESTABLISHED"
      /\ s' # FreshSession
  BY <1>1, <1>2, ReceiveTurn
<1>4. /\ s'.control_state = s.target_state /\ s'.data_pcb = data /\ s'.wild = s.wild
      /\ UNCHANGED <<n, srv, faults>>
  BY <1>3 DEF Turns, Receives
<1>5. up = <<>> /\ srv = NoTransfer /\ down = <<227>> /\ Unused(link)
  <2>1. Exchange("PASV") /\ down # <<>>
    BY ShortSeqs DEF IInv, Conversation, CommandOf, Receives
  <2>2. down = <<Accepted["PASV"]>> \/ down = <<550>>
    BY <2>1 DEF Exchange, Lost
  <2>3. down = <<227>>
    BY <2>2, ShortSeqs DEF Accepted
  <2> QED BY <2>1, <2>3 DEF Exchange, Lost, IInv, Conversation
<1>6. /\ down' = <<>> /\ (up' = <<<<s.op, n'>>>> \/ ("unsent" \in faults /\ up' = <<>>))
      /\ \A i \in DOMAIN up' : i = 1 /\ up'[i] = <<s.op, n>>
  <2>1. up' = <<<<s.op, n>>>> \/ ("unsent" \in faults /\ up' = <<>>)
    BY <1>1, <1>3, <1>5, Written DEF IInv, Basic
  <2>2. down' = <<>>
    BY <1>3, <1>5, RestFacts, ShortSeqs DEF Receives
  <2> QED BY <1>4, <2>1, <2>2
<1>7. Announced(s.op)' /\ Unused(link)'
  <2>1. Unused(link)'
    BY <1>2, <1>5 DEF Unused
  <2>2. s'.op = s.op
    BY <1>3 DEF Turns
  <2> QED BY <1>4, <1>5, <1>6, <2>1, <2>2 DEF Announced, Lost
<1>8. Conversation'
  <2>1. s'.op = s.op
    BY <1>3 DEF Turns
  <2>2. Announced(CommandOf[s.control_state])'
    BY <1>2, <1>4, <1>7, <2>1
  <2> QED BY <1>2, <1>3, <1>4, <2>2 DEF Conversation, TransferStates, CommandStates
<1>9. Links'
  <2>1. \A i \in DOMAIN up' : i = 1
    BY <1>6, ShortSeqs
  <2>2. srv'.doing # "STOR" /\ srv' = NoTransfer
    BY <1>4, <1>5 DEF NoTransfer, None
  <2> QED BY <1>2, <1>7, <2>1, <2>2 DEF IInv, Links
<1>10. "reset" \notin faults' => InStep'
  <2>1. data # NULL
    BY <1>1 DEF data, NULL
  <2> QED BY <1>2, <1>4, <2>1 DEF IInv, InStep, CommandStates, TransferStates
<1> QED BY <1>3, <1>8, <1>9, <1>10 DEF IInv

(* What is behind the 150 of a transfer that has not begun for the client.   *)
LEMMA Begun ==
  ASSUME IInv, NEW k \in {1, 2}, NEW opened, NEW t, Receives(k, opened, t),
         s.control_state \in TransferStates, Head(down) = 150
  PROVE  /\ s.op \in TransferOps /\ CommandOf[s.control_state] = s.op /\ up = <<>>
         /\ Blockwise(s.op, link) /\ (s.op = "STOR" => Unused(link))
         /\ \/ Rest(k) = <<>> /\ srv = [doing |-> s.op, id |-> n]
            \/ Rest(k) = <<426>> /\ srv = NoTransfer
            \/ Rest(k) = <<226>> /\ srv = NoTransfer /\ s.op # "STOR" /\ link.left = 0
            \/ Rest(k) = <<>> /\ srv = NoTransfer /\ "coalesce" \in faults
<1>1. s.op \in Ops /\ SentState[s.op] = s.control_state
  BY Begins, GoodSession DEF IInv, TransferStates
<1>2. s.op \in TransferOps /\ CommandOf[s.control_state] = s.op
  BY <1>1 DEF Ops, TransferOps, CommandOps, SentState, TransferStates, CommandOf
<1>3. Announced(s.op)
  BY <1>2 DEF IInv, Conversation
<1>4. down # <<>> /\ down # <<550>>
  BY ShortSeqs DEF Receives
<1>5. /\ up = <<>> /\ Blockwise(s.op, link) /\ (s.op = "STOR" => Unused(link))
      /\ \/ down = <<150>> /\ srv = [doing |-> s.op, id |-> n]
         \/ down = <<150, 426>> /\ srv = NoTransfer
         \/ s.op # "STOR" /\ down = <<150, 226>> /\ srv = NoTransfer /\ link.left = 0
  BY <1>3, <1>4 DEF Announced, Lost
<1>6. k = 2 => "coalesce" \in faults
  BY DEF Receives
<1>7. /\ \A a : down = <<a>> => Rest(k) = <<>>
      /\ \A a, b : down = <<a, b>> => (IF k = 1 THEN Rest(k) = <<b>> ELSE Rest(k) = <<>>)
  BY RestFacts DEF Receives
<1> QED BY <1>2, <1>5, <1>6, <1>7

(* 150: the transfer begins, a STOR with its first block.                   *)
LEMMA ReceiveStart ==
  ASSUME IInv, NEW k \in {1, 2}, NEW opened, NEW t, Receives(k, opened, t),
         s.control_state \in TransferStates, Head(down) = 150
  PROVE  IInv'
<1>b. /\ s.op \in TransferOps /\ CommandOf[s.control_state] = s.op /\ up = <<>>
      /\ Blockwise(s.op, link) /\ (s.op = "STOR" => Unused(link))
      /\ \/ Rest(k) = <<>> /\ srv = [doing |-> s.op, id |-> n]
         \/ Rest(k) = <<426>> /\ srv = NoTransfer
         \/ Rest(k) = <<226>> /\ srv = NoTransfer /\ s.op # "STOR" /\ link.left = 0
         \/ Rest(k) = <<>> /\ srv = NoTransfer /\ "coalesce" \in faults
  BY Begun
<1>s. /\ Basic /\ n \in 0..MaxOps /\ s.target_state = s.control_state /\ link \in Connections
      /\ Blocks \in Nat \ {0} /\ s.control_pcb = "ESTABLISHED"
      /\ (s.op = "STOR" <=> s.control_state = "STOR_SENT")
  <2>1. s.target_state = s.control_state
    BY Begins, GoodSession DEF IInv
  <2>2. s.op = "STOR" <=> s.control_state = "STOR_SENT"
    BY <1>b DEF TransferStates, CommandOf
  <2> QED BY <2>1, <2>2, SessionAssumption DEF IInv, Basic, Receives
<1>1. CASE s.control_state # "STOR_SENT"
  <2>1. Turns(s, t, "XFERING", <<>>, <<>>, s.data_pcb, s.op)
    BY <1>s, <1>1, Begins, ProcessStarted DEF Receives
  <2>2. UNCHANGED link
    BY <1>1 DEF Receives
  <2>3. /\ Basic' /\ Turns(s, s', "XFERING", <<>>, <<>>, s.data_pcb, s.op)
        /\ up' = up /\ down' = Rest(k) /\ s'.control_pcb = "ESTABLISHED" /\ s' # FreshSession
    BY <2>1, <2>2, ReceiveTurn
  <2>4. /\ s'.control_state = "XFERING" /\ s'.data_pcb = s.data_pcb /\ s'.wild = s.wild
        /\ s'.op = s.op /\ UNCHANGED <<n, srv, faults>>
    BY <2>3 DEF Turns, Receives
  <2>5. Moving(s.op)'
    <3>1. Blockwise(s.op, link)'
      BY <1>b, <2>2, <2>4 DEF Blockwise, Coming, Going, Out
    <3> QED BY <1>b, <2>2, <2>3, <2>4, <3>1, <1>s, <1>1 DEF Moving
  <2>6. Conversation'
    BY <2>3, <2>4, <2>5 DEF Conversation, TransferStates, CommandStates
  <2>7. Links'
    <3>1. s.control_state \notin {"XFERING", "QUIT_SENT"}
      BY DEF TransferStates
    <3> QED BY <1>b, <2>2, <2>3, <2>4, <3>1 DEF IInv, Links
  <2>8. "reset" \notin faults' => InStep'
    BY <2>4 DEF IInv, InStep, CommandStates
  <2> QED BY <2>3, <2>6, <2>7, <2>8 DEF IInv
<1>2. CASE s.control_state = "STOR_SENT"
  <2>u. Unused(link) /\ s.op = "STOR" /\ link.src = Blocks /\ link.src > 0
    BY <1>b, <1>s, <1>2 DEF Unused
  <2> DEFINE p == [Quiet(s) EXCEPT !.wild = Quiet(s).wild \/ Quiet(s).data_pcb = NULL]
  <2>1. Turns(p, t, "XFERING", <<>>, <<>>, s.data_pcb, s.op)
    <3>1. Turns(p, t, "XFERING", <<>>, <<>>, IF link.src > 0 THEN s.data_pcb ELSE NULL, s.op)
      <4>1. /\ Fresh(Quiet(s)) /\ Quiet(s).control_state = "STOR_SENT"
            /\ Quiet(s).data_pcb = s.data_pcb /\ Quiet(s).op = s.op
        BY <1>s, <1>2, Begins
      <4>2. "STOR_SENT" \in TransferStates
        BY DEF TransferStates
      <4>3. t = lwftp_control_process(Quiet(s), 150, opened, link.src > 0)
        BY DEF Receives
      <4>4. Turns(p, lwftp_control_process(Quiet(s), 150, opened, link.src > 0), "XFERING",
                  <<>>, <<>>, IF link.src > 0 THEN Quiet(s).data_pcb ELSE NULL, Quiet(s).op)
        BY <4>1, <4>2, ProcessStarted
      <4> HIDE DEF p
      <4> QED BY <4>1, <4>3, <4>4
    <3> QED BY <2>u, <3>1
  <2>2. /\ p.control_pcb = s.control_pcb /\ p.target_state = s.target_state
        /\ s.data_pcb # NULL /\ ~s.wild => ~p.wild
    BY <1>s, Begins DEF Fresh, Sessions
  <2> HIDE DEF p
  <2>3. /\ t.control_state = "XFERING" /\ t.control_pcb = "ESTABLISHED" /\ t.sent = <<>>
        /\ t.data_pcb = s.data_pcb /\ t.op = s.op /\ t.target_state = "STOR_SENT"
        /\ s.data_pcb # NULL /\ ~s.wild => ~t.wild
    BY <1>s, <1>2, <2>1, <2>2 DEF Turns
  <2>4. /\ s' = t /\ Lib!Good(s)' /\ up' = up /\ up' \in Seq(Tags) /\ down' = Rest(k)
        /\ UNCHANGED <<n, srv, good, asked, faults>>
    <3>1. t.control_pcb # NULL
      BY <2>3 DEF NULL
    <3>2. Finish(t, n) /\ Handled(t)
      BY DEF Receives
    <3> QED BY <1>s, <2>3, <3>1, <3>2, FinishFacts DEF Receives
  <2>5. /\ link' \in Connections /\ Going(link')
        /\ link'.src + Out(link') + link'.stored <= Blocks
        /\ link'.left + link'.fly + link'.got <= Blocks
    <3>1. CASE link' = link
      BY <1>s, <2>u, <3>1 DEF Unused, Going, Out, Connections
    <3>2. CASE link' = NextBlock(link)
      <4>1. /\ link' \in Connections
            /\ link'.left = link.left /\ link'.fly = link.fly /\ link'.got = link.got
            /\ link'.stored = link.stored /\ link'.eof = link.eof
            /\ link'.src + Out(link') = link.src
        BY <1>s, <2>u, <3>2, NextBlockFields
      <4> QED BY <1>s, <2>u, <4>1 DEF Unused, Going, Connections
    <3> QED BY <3>1, <3>2 DEF Receives
  <2>6. Basic'
    <3>1. down' \in Seq(Replies \cup {0})
      BY <2>4, RestFacts DEF Receives
    <3> QED BY <1>s, <2>4, <2>5, <3>1 DEF Basic
  <2>7. Moving(s.op)'
    <3>1. Blockwise(s.op, link)'
      BY <2>u, <2>3, <2>4, <2>5 DEF Blockwise
    <3>2. s'.op = s.op
      BY <2>3, <2>4
    <3> QED BY <1>b, <2>u, <2>4, <3>1, <3>2 DEF Moving
  <2>8. s' # FreshSession
    BY <2>3, <2>4, NotFresh
  <2>9. Conversation'
    <3>1. s'.op = s.op
      BY <2>3, <2>4
    <3> QED BY <2>3, <2>4, <2>7, <2>8, <3>1 DEF Conversation, TransferStates, CommandStates
  <2>10. Links'
    BY <1>b, <2>3, <2>4, <2>5 DEF Links
  <2>11. "reset" \notin faults' => InStep'
    BY <1>2, <2>3, <2>4 DEF IInv, InStep, CommandStates
  <2> QED BY <2>6, <2>9, <2>10, <2>11 DEF IInv
<1> QED BY <1>1, <1>2

(* The session returns to LOGGED: what is left under way is of a transfer    *)
(* that broke.                                                              *)
LEMMA ReceiveEnd ==
  ASSUME IInv, NEW k \in {1, 2}, NEW opened, NEW t, Receives(k, opened, t), UNCHANGED link,
         NEW r, NEW data, Turns(s, t, "LOGGED", <<>>, <<r>>, data, None),
         (Rest(k) = <<>> /\ up = <<>>) \/ s.control_state \in CommandStates,
         "reset" \notin faults => Rest(k) = <<>> /\ up = <<>> /\ srv = NoTransfer
  PROVE  IInv'
<1>1. /\ Basic' /\ Turns(s, s', "LOGGED", <<>>, <<r>>, data, None)
      /\ up' = up /\ down' = Rest(k) /\ s'.control_pcb = "ESTABLISHED" /\ s' # FreshSession
      /\ Lib!Good(s)'
  BY ReceiveTurn
<1>2. /\ s'.control_state = "LOGGED" /\ s'.wild = s.wild /\ UNCHANGED <<srv, faults>>
      /\ s'.data_pcb = NULL
  BY <1>1, GoodSession DEF Turns, Receives, TransferStates
<1>3. Backlog'
  <2>1. CASE Rest(k) = <<>> /\ up = <<>>
    BY <1>1, <2>1 DEF Backlog
  <2>2. CASE s.control_state \in CommandStates
    <3>1. Backlog /\ s.control_state # "TYPE_SENT"
      BY <2>2 DEF IInv, Conversation, CommandStates
    <3>2. \A i \in DOMAIN Rest(k) : i + k \in DOMAIN down /\ Rest(k)[i] = down[i + k]
      BY RestFacts DEF Receives
    <3>3. \A i \in DOMAIN down' : down'[i] \in LateReplies
      BY <1>1, <3>1, <3>2 DEF Backlog
    <3> QED BY <1>1, <3>1, <3>3 DEF Backlog
  <2> QED BY <2>1, <2>2
<1>4. Conversation'
  BY <1>1, <1>2, <1>3 DEF Conversation, TransferStates, CommandStates
<1>5. Links'
  BY <1>1, <1>2 DEF IInv, Links, NULL
<1>6. "reset" \notin faults' => InStep'
  BY <1>1, <1>2 DEF IInv, InStep, CommandStates
<1> QED BY <1>1, <1>4, <1>5, <1>6 DEF IInv

(* A reply that ends a transfer.                                            *)
LEMMA ReceiveTransferEnd ==
  ASSUME IInv, NEW k \in {1, 2}, NEW opened, NEW t, Receives(k, opened, t),
         s.control_state \in TransferStates \cup {"XFERING"},
         s.control_state \in TransferStates => Head(down) # 150
  PROVE  IInv'
<1>1. Basic /\ Turns(s, t, "LOGGED", <<>>, <<ResultOf(s.control_state, Head(down))>>, NULL, None)
  BY Begins, ProcessTransferEnd DEF IInv, Receives
<1>2. UNCHANGED link
  BY <1>1 DEF Receives, Turns
<1>3. up = <<>> /\ srv = NoTransfer /\ Len(down) = 1
  <2>1. CASE s.control_state = "XFERING"
    <3>1. Moving(s.op) /\ down # <<>>
      BY <2>1, ShortSeqs DEF IInv, Conversation, Receives
    <3> QED BY <3>1, ShortSeqs DEF Moving
  <2>2. CASE s.control_state \in TransferStates
    <3>1. Announced(CommandOf[s.control_state]) /\ down # <<>> /\ Head(down) # 150
      BY <2>2, ShortSeqs DEF IInv, Conversation, Receives
    <3>2. /\ down # <<150>> /\ down # <<150, 426>> /\ down # <<150, 226>>
      BY <3>1, ShortSeqs
    <3> QED BY <3>1, <3>2, ShortSeqs DEF Announced, Lost
  <2> QED BY <2>1, <2>2
<1>4. Rest(k) = <<>>
  BY <1>3, RestFacts DEF Receives
<1> QED BY <1>1, <1>2, <1>3, <1>4, ReceiveEnd

(* A reply to an operation without a data connection.                       *)
LEMMA ReceiveCommandEnd ==
  ASSUME IInv, NEW k \in {1, 2}, NEW opened, NEW t, Receives(k, opened, t),
         s.control_state \in CommandStates,
         s.control_state = "RNFR_SENT" => Head(down) # 350
  PROVE  IInv'
<1>1. /\ Basic
      /\ Turns(s, t, "LOGGED", <<>>, <<ResultOf(s.control_state, Head(down))>>, s.data_pcb, None)
  BY Begins, ProcessCommandEnd DEF IInv, Receives
<1>2. UNCHANGED link
  BY <1>1 DEF Receives, Turns
<1>3. ASSUME "reset" \notin faults PROVE Rest(k) = <<>> /\ up = <<>> /\ srv = NoTransfer
  <2>1. Exchange(CommandOf[s.control_state]) /\ down # <<>>
    BY <1>3, ShortSeqs DEF IInv, InStep, Receives
  <2>2. up = <<>> /\ srv = NoTransfer /\ Len(down) = 1
    BY <2>1, ShortSeqs DEF Exchange, Lost
  <2> QED BY <2>2, RestFacts DEF Receives
<1> QED BY <1>1, <1>2, <1>3, ReceiveEnd

(* 350: the second half of a rename is written.                             *)
LEMMA ReceiveRename ==
  ASSUME IInv, NEW k \in {1, 2}, NEW opened, NEW t, Receives(k, opened, t),
         s.control_state = "RNFR_SENT", Head(down) = 350
  PROVE  IInv'
<1>1. Basic /\ Turns(s, t, "RNTO_SENT", <<"RNTO">>, <<>>, s.data_pcb, s.op)
  <2>1. /\ Basic /\ Fresh(Quiet(s)) /\ Quiet(s).control_state = s.control_state
        /\ Quiet(s).data_pcb = s.data_pcb /\ Quiet(s).op = s.op
    BY Begins DEF IInv
  <2>2. Turns(Quiet(s), t, "RNTO_SENT", <<"RNTO">>, <<>>, s.data_pcb, s.op)
    <3>1. Follows(s.control_state, "RNTO", "RNTO_SENT") /\ Expected[s.control_state] = 350
      BY DEF Follows, Expected
    <3>2. Follows(Quiet(s).control_state, "RNTO", "RNTO_SENT")
      BY <2>1, <3>1
    <3>3. Head(down) # 0 /\ Head(down) = Expected[Quiet(s).control_state]
      BY <2>1, <3>1
    <3>4. t = lwftp_control_process(Quiet(s), Head(down), opened, link.src > 0)
      BY DEF Receives
    <3>5. Turns(Quiet(s), t, "RNTO_SENT", <<"RNTO">>, <<>>, Quiet(s).data_pcb, Quiet(s).op)
      BY <2>1, <3>2, <3>3, <3>4, ProcessNext
    <3> QED BY <2>1, <3>5
  <2> QED BY <2>1, <2>2, Begins
<1>2. UNCHANGED link /\ "RNTO" \in DOMAIN Accepted
  BY CommandsAre DEF Receives
<1>3. /\ Basic' /\ Turns(s, s', "RNTO_SENT", <<"RNTO">>, <<>>, s.data_pcb, s.op)
      /\ Puts(<<"RNTO", n>>) /\ down' = Rest(k) /\ s'.control_pcb = "ESTABLISHED"
      /\ s' # FreshSession
  BY <1>1, <1>2, ReceiveTurn
<1>4. /\ s'.control_state = "RNTO_SENT" /\ s'.data_pcb = s.data_pcb /\ s'.wild = s.wild
      /\ UNCHANGED <<n, srv, faults>>
  BY <1>3 DEF Turns, Receives
<1>5. \A i \in DOMAIN up' : \/ i = Len(up') /\ up'[i] = <<"RNTO", n>>
                            \/ i \in DOMAIN up /\ up'[i] = up[i]
  BY <1>1, <1>3, Written DEF Basic
<1>6. Backlog'
  <2>1. Backlog /\ s.control_state # "TYPE_SENT"
    BY DEF IInv, Conversation, CommandStates
  <2>2. \A i \in DOMAIN Rest(k) : i + k \in DOMAIN down /\ Rest(k)[i] = down[i + k]
    BY RestFacts DEF Receives
  <2>3. \A i \in DOMAIN down' : down'[i] \in LateReplies
    BY <1>3, <2>1, <2>2 DEF Backlog
  <2>4. \A i \in DOMAIN up' : up'[i][1] \in LateCommands
    BY <1>5, <2>1 DEF Backlog, LateCommands
  <2> QED BY <2>3, <2>4 DEF Backlog
<1>7. Conversation'
  BY <1>3, <1>4, <1>6 DEF Conversation, TransferStates, CommandStates
<1>8. Links'
  BY <1>2, <1>4, <1>5 DEF IInv, Links, TransferOps
<1>9. "reset" \notin faults' => InStep'
  <2> SUFFICES ASSUME "reset" \notin faults PROVE InStep'
    BY <1>4
  <2>1. Exchange("RNFR") /\ down # <<>> /\ ~s.wild
    BY ShortSeqs DEF IInv, InStep, CommandStates, CommandOf, Receives
  <2>2. up = <<>> /\ srv = NoTransfer /\ Len(down) = 1
    BY <2>1, ShortSeqs DEF Exchange, Lost
  <2>3. (up' = <<<<"RNTO", n'>>>> \/ ("unsent" \in faults /\ up' = <<>>)) /\ down' = <<>>
    <3>1. up' = <<<<"RNTO", n>>>> \/ ("unsent" \in faults /\ up' = <<>>)
      BY <1>1, <1>3, <2>2, Written DEF IInv, Basic
    <3> QED BY <1>3, <1>4, <2>2, <3>1, RestFacts DEF Receives
  <2>4. Exchange("RNTO")'
    BY <1>4, <2>2, <2>3 DEF Exchange, Lost
  <2>5. CommandOf["RNTO_SENT"] = "RNTO"
    BY DEF CommandOf
  <2>6. Exchange(CommandOf[s.control_state])'
    BY <1>4, <2>4, <2>5
  <2> QED BY <1>4, <2>1, <2>6 DEF InStep, CommandStates
<1> QED BY <1>3, <1>7, <1>8, <1>9 DEF IInv

(* Any reply ends a session that is quitting.                               *)
LEMMA ReceiveQuit ==
  ASSUME IInv, NEW k \in {1, 2}, NEW opened, NEW t, Receives(k, opened, t),
         s.control_state = "QUIT_SENT"
  PROVE  IInv'
<1>1. Ends(s, t)
  <2>1. Basic
    BY DEF IInv
  <2>2. Ends(Quiet(s), lwftp_control_process(Quiet(s), Head(down), opened, link.src > 0))
    <3>1. Fresh(Quiet(s)) /\ Quiet(s).control_state = "QUIT_SENT" /\ Head(down) # 0
      BY <2>1, Begins DEF Receives
    <3> QED BY <3>1, ProcessQuit
  <2>3. t = lwftp_control_process(Quiet(s), Head(down), opened, link.src > 0)
    BY DEF Receives
  <2>4. Quiet(s).wild = s.wild /\ Quiet(s).op = s.op
    BY <2>1, Begins
  <2> QED BY <2>2, <2>3, <2>4 DEF Ends
<1>2. down' \in Seq(Replies \cup {0})
  BY <1>1, EmptySeq DEF Receives, Ends
<1> QED BY <1>1, <1>2, EndKeeps DEF Receives

(* A delivery, in every state.                                              *)
LEMMA DeliverKeeps ==
  ASSUME IInv, NEW k \in {1, 2}, Deliver(k), k = 2 => "coalesce" \in faults, UNCHANGED faults
  PROVE  IInv'
<1>0. PICK opened \in BOOLEAN : \E t : Receives(k, opened, t)
  BY Received
<1>1. PICK t : Receives(k, opened, t)
  BY <1>0
<1>2. s.control_state \in ControlStates \ (PassingStates \cup {"CLOSED"})
  BY <1>1, Begins, GoodSession DEF IInv, Receives, Sessions
<1>3. CASE s.control_state = "LOGGED"
  BY <1>1, <1>3, ReceiveLogged
<1>4. CASE /\ s.control_state \in LoginStates \cup {"TYPE_SENT", "PASV_SENT"}
           /\ Head(down) # Expected[s.control_state]
  BY <1>1, <1>4, ReceiveRefusal
<1>5. CASE /\ s.control_state \in {"CONNECTED", "USER_SENT", "TYPE_SENT"}
           /\ Head(down) = Expected[s.control_state]
  <2>1. \E st, cmd : Follows(s.control_state, cmd, st)
    BY <1>5 DEF Follows
  <2> QED BY <1>1, <1>5, <2>1, ReceiveNext
<1>6. CASE s.control_state = "PASS_SENT" /\ Head(down) = Expected[s.control_state]
  BY <1>1, <1>6, ReceiveLogin DEF Expected
<1>7. CASE s.control_state = "PASV_SENT" /\ Head(down) = Expected[s.control_state]
  BY <1>1, <1>7, ReceivePassive DEF Expected
<1>8. CASE s.control_state \in TransferStates \cup {"XFERING"}
  BY <1>1, <1>8, ReceiveStart, ReceiveTransferEnd
<1>9. CASE s.control_state \in CommandStates
  BY <1>1, <1>9, ReceiveCommandEnd, ReceiveRename
<1>10. CASE s.control_state = "QUIT_SENT"
  BY <1>1, <1>10, ReceiveQuit
<1> QED BY <1>2, <1>3, <1>4, <1>5, <1>6, <1>7, <1>8, <1>9, <1>10
        DEF ControlStates, PassingStates, LoginStates, TransferStates, CommandStates

(* Nothing has begun.                                                       *)
LEMMA InitKeeps ==
  ASSUME Init
  PROVE  IInv
<1>1. Lib!Good(s)
  <2>1. Lib!Init
    BY SameLib DEF Init, Lib!Init
  <2> QED BY <2>1, RepliesNat, Lib!InitGood
<1>2. link \in Connections
  BY SessionAssumption DEF Init, NoLink, Connections
<1>3. srv \in [doing : TransferOps \cup {None}, id : 0..MaxOps]
  BY SessionAssumption DEF Init, NoTransfer
<1>4. up \in Seq(Tags) /\ down \in Seq(Replies \cup {0})
  BY EmptySeq DEF Init
<1>5. Basic
  <2>1. n \in 0..MaxOps /\ good \subseteq 0..MaxOps
    BY SessionAssumption DEF Init
  <2>2. faults \in Worlds /\ srv = NoTransfer /\ asked \in BOOLEAN
    BY Zenon DEF Init
  <2> QED BY <1>1, <1>2, <1>3, <1>4, <2>1, <2>2, Zenon DEF Basic
<1>6. s.control_state = "CLOSED" /\ s.control_pcb = NULL /\ s.data_pcb = NULL /\ ~s.wild
  BY DEF Init, FreshSession
<1>7. Conversation
  BY <1>6 DEF Init, Conversation, NULL, TransferStates, CommandStates
<1>8. Links
  <2>1. DOMAIN up = {}
    BY DEF Init
  <2> QED BY <1>6, <2>1, SessionAssumption DEF Init, Links, NoLink, Out, NULL
<1>9. InStep
  BY <1>6 DEF InStep, CommandStates
<1> QED BY <1>5, <1>7, <1>8, <1>9 DEF IInv

(* Every step of the client, of TCP and of the server.                      *)
LEMMA StepKeeps ==
  ASSUME IInv, [Next]_vars
  PROVE  IInv'
<1>1. CASE UNCHANGED vars
  BY <1>1 DEF vars, state, IInv, Basic, Conversation, Links, InStep, Greeting, Exchange, Lost,
              Announced, Moving, Backlog, Rejects
<1>2. CASE Next
  <2>1. UNCHANGED faults
    BY <1>2 DEF Next
  <2>2. CASE Client
    BY <2>1, <2>2, ConnectKeeps, StartKeeps, CloseKeeps DEF Client
  <2>3. CASE Network
    <3>1. CASE ControlReply \/ ControlReplies
      BY <2>1, <3>1, DeliverKeeps DEF ControlReply, ControlReplies
    <3>2. CASE ControlConnected \/ ControlClosed \/ ControlReset
      BY <2>1, <3>2, ControlConnectedKeeps, ControlEndKeeps
    <3>3. CASE DataConnected \/ DataBlock \/ DataClosed \/ DataSent \/ DataErr
      BY <2>1, <3>3, DataConnectedKeeps, BlockKeeps, DataClosedKeeps, DataSentKeeps, DataErrKeeps
    <3> QED BY <2>3, <3>1, <3>2, <3>3 DEF Network
  <2>4. CASE Server
    BY <2>1, <2>4, ServerCommandKeeps, ServerRefuseKeeps, BlockKeeps, ServerEndKeeps DEF Server
  <2> QED BY <1>2, <2>2, <2>3, <2>4 DEF Next
<1> QED BY <1>1, <1>2

(* The conversation is always as the invariant says.                        *)
THEOREM InvAlways == Spec => []IInv
<1>1. Init => IInv
  BY InitKeeps
<1>2. IInv /\ [Next]_vars => IInv'
  BY StepKeeps
<1> QED BY <1>1, <1>2, PTL DEF Spec

(* The invariant gives the types.                                           *)
LEMMA Typed ==
  ASSUME Basic
  PROVE  TypeOK
<1>1. s \in Sessions
  BY Begins, GoodSession
<1>2. Tags \subseteq Commands \X (0..MaxOps)
  BY CommandsAre DEF Tags
<1>3. up \in Seq(Commands \X (0..MaxOps))
  BY <1>2, SeqMonotonic DEF Basic
<1>4. Replies \cup {0} \subseteq Nat
  BY RepliesNat
<1>5. down \in Seq(Nat)
  BY <1>4, SeqMonotonic DEF Basic
<1> QED BY <1>1, <1>3, <1>5 DEF Basic, TypeOK, Connections

(* Whatever the server and TCP do, the variables keep their types, and as   *)
(* long as the data connection does not fail lwftp_send_next_data is never   *)
(* called without one.                                                      *)
THEOREM NullPcbNever == Spec => []NoNullPcb
<1>1. IInv => NoNullPcb
  BY Typed DEF IInv, InStep, NoNullPcb
<1> QED BY <1>1, InvAlways, PTL

(* While connections hold and every reply has a pbuf of its own, a session  *)
(* that is LOGGED has nothing under way that the next operation would take  *)
(* for its own.                                                             *)
THEOREM RepliesInStep == Spec => []ReplyInStep
<1>1. IInv => ReplyInStep
  <2>1. Steady => "reset" \notin faults
    BY DEF Steady
  <2> QED BY <2>1 DEF IInv, InStep, ReplyInStep, NoTransfer
<1> QED BY <1>1, InvAlways, PTL

(* A step is one of a client or leaves the session alone.                   *)
LEMMA StepIsClient ==
  ASSUME IInv, [Next]_vars
  PROVE  Lib!Next \/ UNCHANGED s
<1>1. CASE UNCHANGED vars
  BY <1>1 DEF vars, state
<1>2. ASSUME NEW t, NEW id, Finish(t, id), Called(t) \/ Handled(t) PROVE Lib!Next
  BY <1>2, CallStep, HandlerStep DEF Finish
<1>3. CASE Client
  <2>1. CASE Connect
    BY <2>1, <1>2 DEF Connect, Called
  <2>2. CASE Start
    <3>1. PICK op \in Ops, pcb \in BOOLEAN :
            LET t == IF op \in TransferOps THEN lwftp_transfer(Quiet(s), op, TRUE, pcb)
                                           ELSE lwftp_command(Quiet(s), op, TRUE)
                id == IF t.op = None THEN n ELSE n + 1
            IN  Finish(t, id) /\ n' = id
      BY <2>2 DEF Start
    <3> DEFINE t == IF op \in TransferOps THEN lwftp_transfer(Quiet(s), op, TRUE, pcb)
                                          ELSE lwftp_command(Quiet(s), op, TRUE)
    <3>2. Called(t)
      BY DEF Called, Ops
    <3> QED BY <3>1, <3>2, <1>2
  <2>3. CASE Close
    BY <2>3, <1>2 DEF Close, Called
  <2> QED BY <1>3, <2>1, <2>2, <2>3 DEF Client
<1>4. CASE Network
  <2>1. ASSUME NEW k \in {1, 2}, Deliver(k), k = 2 => "coalesce" \in faults, UNCHANGED faults
        PROVE  Lib!Next
    <3>1. PICK opened \in BOOLEAN : \E t : Receives(k, opened, t)
      BY <2>1, Received
    <3> QED BY <3>1, <1>2 DEF Receives
  <2>2. CASE ControlReply \/ ControlReplies
    <3>1. UNCHANGED faults \/ UNCHANGED vars
      BY DEF Next
    <3> QED BY <1>1, <2>1, <2>2, <3>1 DEF ControlReply, ControlReplies
  <2>3. CASE ControlConnected
    BY <2>3, <1>2 DEF ControlConnected, Handled, NULL
  <2>4. CASE ControlClosed \/ ControlReset
    BY <2>4, <1>2 DEF ControlClosed, ControlReset, Handled, NULL
  <2>5. CASE DataConnected \/ DataClosed \/ DataErr
    BY <2>5, <1>2 DEF DataConnected, DataClosed, DataErr, Handled
  <2>6. CASE DataBlock
    BY <2>6 DEF DataBlock
  <2>7. CASE DataSent
    <3>1. s.control_state \in {"XFERING", "QUIT_SENT"} /\ s.target_state = "STOR_SENT"
      BY <2>7 DEF IInv, Links, DataSent
    <3>2. (link.src > 0) \in BOOLEAN
      OBVIOUS
    <3>3. Handled(lwftp_data_sent(Quiet(s), link.src > 0))
      BY <2>7, <3>1, <3>2 DEF DataSent, Handled
    <3> QED BY <2>7, <3>3, <1>2 DEF DataSent
  <2> QED BY <1>4, <2>2, <2>3, <2>4, <2>5, <2>6, <2>7 DEF Network
<1>5. CASE Server
  BY <1>5 DEF Server, ServerCommand, ServerRefuse, ServerBlock, ServerDone, ServerAbort
<1> QED BY <1>1, <1>3, <1>4, <1>5 DEF Next

(* The session of FtpSession is the session of one of the clients of        *)
(* LwFtpClient, so all that is proved there of lwftp.c holds here.          *)
THEOREM ClientRefined == Spec => IsClient
<1>1. Init => Library!Init
  BY SameLibrary DEF Init, Library!Init
<1>2. IInv /\ [Next]_vars => [Library!Next]_s
  BY StepIsClient, SameNext
<1> QED BY <1>1, <1>2, InvAlways, PTL DEF Spec, IsClient, Library!Spec

-----------------------------------------------------------------------------
(* The truth of what is reported, in worlds with no fault but rejections.   *)

(* Nothing of the other worlds happens.                                     *)
LEMMA PlainWorld ==
  ASSUME Plain
  PROVE  /\ faults \cap {"refuse", "reset", "drop", "coalesce", "unsent"} = {} /\ ~Lost
         /\ \A cmd : Rejects(cmd) => cmd \in Ops \cup {"RNTO"}
BY DEF Plain, Rejects, Lost

(* What is under way in the states of a plain world.                        *)
LEMMA UnderWay ==
  ASSUME IInv, Plain
  PROVE  /\ s.control_pcb # "ESTABLISHED" => up = <<>>
         /\ s.control_state = "LOGGED" => up = <<>> /\ down = <<>> /\ srv = NoTransfer
         /\ s.control_pcb = "SYN_SENT" \/ s.control_state = "CONNECTED" =>
              up = <<>> /\ srv = NoTransfer /\ down = <<220>>
         /\ s.control_state \in {"USER_SENT", "PASS_SENT", "TYPE_SENT", "PASV_SENT"} \cup CommandStates =>
              Exchange(CommandOf[s.control_state])
         /\ s.control_state \in TransferStates => Announced(CommandOf[s.control_state])
         /\ s.control_state = "XFERING" => Moving(s.op)
         /\ ~Lost /\ "unsent" \notin faults
<1>1. "reset" \notin faults /\ "refuse" \notin faults /\ "unsent" \notin faults /\ ~Lost
  BY PlainWorld
<1> QED BY <1>1 DEF IInv, Conversation, InStep, Greeting

(* What a handler leaves on record.                                         *)
LEMMA Recorded ==
  ASSUME NEW t, NEW id, Finish(t, id)
  PROVE  /\ t.done = <<>> \/ t.done = <<"INPROGRESS">> => last' = last
         /\ \A r : t.done = <<r>> /\ r # "INPROGRESS" =>
              /\ last'.id = n /\ last'.op = s.op /\ last'.result = r /\ last'.asked = asked
              /\ last'.got = link.got /\ last'.stored = link.stored /\ last'.fly = link.fly
<1>1. last' = IF t.done = <<>> \/ t.done[Len(t.done)] = "INPROGRESS" THEN last
              ELSE [id |-> n, op |-> s.op, result |-> t.done[Len(t.done)],
                    asked |-> asked, got |-> link.got, stored |-> link.stored,
                    fly |-> link.fly]
  BY DEF Finish
<1>2. \A r : t.done = <<r>> => t.done # <<>> /\ t.done[Len(t.done)] = r
  BY ShortSeqs
<1> QED BY <1>1, <1>2

(* While a result is not on record, one on record stays true.               *)
LEMMA SameRecord ==
  ASSUME Truth, n \in 0..MaxOps, last' = last, n' = n \/ n' = n + 1,
         good' = good \/ (good' = good \cup {n} /\ ~(Judged /\ last.id = n))
  PROVE  /\ last'.id \in 0..n' /\ Honest' /\ Whole' /\ (Judged' <=> Judged)
         /\ n' = n + 1 => ~(last'.id = n')
<1>1. last.id \in 0..n /\ Honest /\ Whole
  BY DEF Truth, Numbered
<1>2. Judged' <=> Judged
  BY DEF Judged
<1>3. Whole'
  BY <1>1 DEF Whole
<1>4. Honest'
  BY <1>1, <1>2 DEF Honest
<1> QED BY <1>1, <1>2, <1>3, <1>4

(* A step of the data connection, or none.                                  *)
LEMMA SameTruth ==
  ASSUME Truth, n \in 0..MaxOps, UNCHANGED <<n, up, down, srv, good, last, asked>>,
         s'.control_state = s.control_state, s'.op = s.op, s'.control_pcb = s.control_pcb,
         s' = FreshSession => s = FreshSession
  PROVE  Truth'
<1>1. last'.id \in 0..n' /\ Honest' /\ Whole' /\ (Judged' <=> Judged)
  BY SameRecord
<1>2. Numbered'
  BY <1>1 DEF Truth, Numbered
<1>3. InHand'
  BY DEF Truth, InHand, Carried
<1>4. Early' /\ Over'
  BY <1>1 DEF Truth, Early, Over
<1> QED BY <1>1, <1>2, <1>3, <1>4 DEF Truth

(* The data connection changes nothing of it.                               *)
LEMMA DataTruth ==
  ASSUME IInv, Truth,
         DataConnected \/ DataBlock \/ DataClosed \/ DataSent \/ ServerBlock
  PROVE  Truth'
<1>2. CASE DataBlock \/ ServerBlock
  BY <1>2, SameTruth DEF DataBlock, ServerBlock, IInv, Basic
<1>3. CASE DataConnected \/ DataClosed \/ DataSent
  <2>1. PICK t, data : /\ Finish(t, n) /\ Handled(t)
                       /\ Turns(s, t, s.control_state, <<>>, <<>>, data, s.op)
    <3>1. CASE DataConnected
      BY <3>1, Begins, DataShapes DEF IInv, DataConnected, Handled
    <3>2. CASE DataClosed
      BY <3>2, Begins, DataShapes DEF IInv, DataClosed, Handled
    <3>3. CASE DataSent
      <4>1. s.control_state \in {"XFERING", "QUIT_SENT"} /\ s.target_state = "STOR_SENT"
        BY <3>3 DEF IInv, Links, DataSent
      <4>2. (link.src > 0) \in BOOLEAN
        OBVIOUS
      <4>3. Handled(lwftp_data_sent(Quiet(s), link.src > 0))
        BY <3>3, <4>1, <4>2 DEF DataSent, Handled
      <4>4. /\ Fresh(Quiet(s)) /\ Quiet(s).data_pcb = s.data_pcb /\ s.data_pcb # NULL
            /\ Quiet(s).control_state = s.control_state /\ Quiet(s).op = s.op
        BY <3>3, Begins DEF IInv, DataSent, NULL
      <4>5. Turns(Quiet(s), lwftp_data_sent(Quiet(s), link.src > 0), s.control_state, <<>>, <<>>,
                  IF link.src > 0 THEN s.data_pcb ELSE NULL, s.op)
        BY <4>4, DataShapes
      <4>6. Turns(s, lwftp_data_sent(Quiet(s), link.src > 0), s.control_state, <<>>, <<>>,
                  IF link.src > 0 THEN s.data_pcb ELSE NULL, s.op)
        BY <4>5, Begins DEF IInv
      <4> QED BY <3>3, <4>3, <4>6 DEF DataSent
    <3> QED BY <1>3, <3>1, <3>2, <3>3
  <2>2. /\ t.control_state = s.control_state /\ t.op = s.op /\ t.control_pcb = s.control_pcb
        /\ t.sent = <<>> /\ t.done = <<>>
    BY <2>1 DEF Turns
  <2>3. last' = last /\ s' = t
    BY <2>1, <2>2, Recorded DEF Finish
  <2>4. s.control_pcb = "ESTABLISHED" /\ s.control_state # "CLOSED"
    BY <1>3, Begins, GoodSession DEF IInv, DataConnected, DataClosed, DataSent, TransferStates, NULL
  <2>5. up' = up
    BY <2>1, <2>2, <2>4, FinishFacts DEF IInv, Basic, NULL
  <2>6. s' # FreshSession
    BY <2>2, <2>3, <2>4, NotFresh
  <2> QED BY <1>3, <2>2, <2>3, <2>5, <2>6, SameTruth DEF DataConnected, DataClosed, DataSent, IInv, Basic
<1> QED BY <1>2, <1>3

(* The server ends a transfer: it is the one under way.                     *)
LEMMA ServerEndTruth ==
  ASSUME IInv, Plain, Truth, UNCHANGED faults, ServerDone \/ ServerAbort
  PROVE  Truth'
<1>1. n \in 0..MaxOps /\ srv.doing # None /\ srv # NoTransfer
  BY DEF IInv, Basic, ServerDone, ServerAbort, None, NoTransfer
<1>2. srv.id = n /\ n > 0 /\ ~(Judged /\ last.id = n)
  BY <1>1 DEF Truth, Numbered, Over
<1>3. /\ srv' = NoTransfer /\ UNCHANGED <<s, n, up, last, asked>>
      /\ \/ good' = good \cup {n} /\ down' = Append(down, 226)
         \/ good' = good /\ down' = Append(down, 426)
  BY <1>2 DEF ServerDone, ServerAbort
<1>4. last'.id \in 0..n' /\ Honest' /\ Whole' /\ (Judged' <=> Judged)
  BY <1>1, <1>2, <1>3, SameRecord
<1>5. Numbered'
  <2>1. n \in 1..n /\ good \subseteq 1..n
    BY <1>1, <1>2 DEF Truth, Numbered
  <2>2. good' \subseteq 1..n'
    BY <1>3, <2>1
  <2> QED BY <1>3, <1>4, <2>2 DEF Truth, Numbered
<1>6. InHand'
  <2> SUFFICES ASSUME s.control_state \in WorkingStates
               PROVE  n \in good' <=> Carried'
    BY <1>2, <1>3 DEF InHand
  <2>1. s.control_state \in TransferStates \cup {"XFERING"}
    BY <1>1, UnderWay DEF WorkingStates, Exchange
  <2>2. n \in good <=> Carried
    BY DEF Truth, InHand
  <2>3. CASE s.control_state = "XFERING"
    <3>1. down = <<>>
      BY <1>1, <2>3, UnderWay DEF Moving
    <3>2. down' = <<226>> \/ down' = <<426>>
      BY <1>3, <3>1, ShortSeqs
    <3>3. <<226>> # <<426>> /\ down # <<226>>
      BY <3>1, ShortSeqs
    <3>4. ~Carried
      BY <2>3, <3>3 DEF Carried, TransferStates, CommandStates
    <3>5. Carried' <=> down' = <<226>>
      BY <1>3, <2>3 DEF Carried, TransferStates, CommandStates
    <3>6. down' = <<226>> <=> good' = good \cup {n}
      BY <1>3, <2>2, <3>1, <3>3, <3>4, ShortSeqs
    <3> QED BY <1>3, <2>2, <3>4, <3>5, <3>6
  <2>4. CASE s.control_state \in TransferStates
    <3>1. down = <<150>>
      BY <1>1, <2>4, UnderWay DEF Announced
    <3>2. <<150, 226>> # <<150, 426>> /\ down # <<150, 226>>
      BY <3>1, ShortSeqs
    <3>3. ~Carried
      BY <2>4, <3>2 DEF Carried, TransferStates, CommandStates
    <3>4. Carried' <=> down' = <<150, 226>>
      BY <1>3, <2>4 DEF Carried, TransferStates, CommandStates
    <3>5. down' = <<150, 226>> <=> good' = good \cup {n}
      BY <1>3, <2>2, <3>1, <3>2, <3>3, ShortSeqs
    <3> QED BY <1>3, <2>2, <3>3, <3>4, <3>5
  <2> QED BY <2>1, <2>3, <2>4
<1>7. Early' /\ Over'
  BY <1>2, <1>3, <1>4 DEF Truth, Early, Over
<1> QED BY <1>3, <1>4, <1>5, <1>6, <1>7 DEF Truth

(* The server takes a command: it is of the operation under way.            *)
LEMMA ServerCommandTruth ==
  ASSUME IInv, Plain, Truth, UNCHANGED faults, ServerCommand
  PROVE  Truth'
<1> DEFINE cmd == Head(up)[1]
           id == Head(up)[2]
<1>1. /\ n \in 0..MaxOps /\ up \in Seq(Tags) /\ up # <<>> /\ srv = NoTransfer
      /\ s.control_pcb = "ESTABLISHED"
  BY DEF IInv, Basic, ServerCommand
<1>2. 1 \in DOMAIN up /\ Head(up) = up[1] /\ cmd \in DOMAIN Accepted
  BY <1>1 DEF Tags
<1>3. id = n /\ (cmd \in Ops \cup {"RNTO"} => n > 0)
  BY <1>2 DEF Truth, Numbered
<1>4. Judged /\ last.id = n => cmd = "QUIT"
  BY <1>2 DEF Truth, Over
<1>5. /\ up' = Tail(up) /\ UNCHANGED <<s, n, last, asked>>
      /\ \/ /\ down' = down \o <<Accepted[cmd]>> \o (IF cmd = "QUIT" THEN <<0>> ELSE <<>>)
            /\ srv' = IF cmd \in TransferOps THEN [doing |-> cmd, id |-> id] ELSE srv
            /\ good' = IF cmd \in {"DELE", "RMD", "CWD", "PWD", "RNTO"}
                       THEN good \cup {id} ELSE good
         \/ Rejects(cmd) /\ down' = Append(down, 550) /\ UNCHANGED <<srv, good>>
  BY DEF ServerCommand
<1> HIDE DEF cmd, id
<1>6. /\ good' = good \/ (good' = good \cup {n} /\ n > 0 /\ ~(Judged /\ last.id = n))
      /\ srv' = NoTransfer \/ (srv'.id = n /\ n > 0 /\ ~(Judged /\ last.id = n))
  <2>1. {"DELE", "RMD", "CWD", "PWD"} \cup TransferOps \subseteq Ops /\ "QUIT" \notin TransferOps
    BY DEF Ops, CommandOps, TransferOps
  <2> QED BY <1>1, <1>3, <1>4, <1>5, <2>1
<1>7. last'.id \in 0..n' /\ Honest' /\ Whole' /\ (Judged' <=> Judged)
  BY <1>1, <1>5, <1>6, SameRecord
<1>8. \A i \in DOMAIN up' : i + 1 \in DOMAIN up /\ up'[i] = up[i + 1]
  BY <1>1, <1>5
<1>9. Numbered'
  <2>1. good' \subseteq 1..n'
    <3>1. good \subseteq 1..n /\ (n > 0 => n \in 1..n)
      BY <1>1 DEF Truth, Numbered
    <3> QED BY <1>5, <1>6, <3>1
  <2>2. \A i \in DOMAIN up' : up'[i][2] = n' /\ (up'[i][1] \in Ops \cup {"RNTO"} => n' > 0)
    BY <1>5, <1>8 DEF Truth, Numbered
  <2> QED BY <1>5, <1>6, <1>7, <2>1, <2>2 DEF Numbered
<1>10. Early' /\ Over'
  <2>1. Early'
    BY <1>5 DEF Truth, Early
  <2>2. Over'
    BY <1>5, <1>6, <1>7, <1>8 DEF Truth, Over
  <2> QED BY <2>1, <2>2
<1>11. InHand'
  <2> SUFFICES ASSUME s.control_state \in WorkingStates
               PROVE  n > 0 /\ (n \in good' <=> Carried')
    BY <1>5 DEF InHand
  <2>1. n > 0 /\ (n \in good <=> Carried)
    BY DEF Truth, InHand
  <2>2. /\ up = <<<<CommandOf[s.control_state], n>>>> /\ down = <<>>
        /\ s.control_state # "XFERING"
    BY <1>1, UnderWay DEF WorkingStates, Exchange, Announced, Moving
  <2>3. cmd = CommandOf[s.control_state] /\ up' = <<>>
    BY <1>5, <2>2, ShortSeqs DEF cmd
  <2>4. ~Carried
    <3>1. down # <<150, 226>> /\ down # <<226>> /\ up # <<>>
      BY <1>1, <2>2, ShortSeqs
    <3> QED BY <3>1 DEF Carried
  <2>5. cmd # "QUIT" /\ Accepted[cmd] # 550
    BY <2>2, <2>3 DEF WorkingStates, TransferStates, CommandStates, CommandOf, Accepted
  <2>6. /\ <<>> \o <<Accepted[cmd]>> \o <<>> = <<Accepted[cmd]>>
        /\ <<>> \o <<Accepted[cmd]>> = <<Accepted[cmd]>>
    OBVIOUS
  <2>7. CASE down' = <<550>> /\ good' = good
    <3>1. down' # <<150, 226>> /\ down' # <<226>>
      BY <2>7, ShortSeqs
    <3>2. ~Carried'
      BY <2>7, <3>1 DEF Carried
    <3> QED BY <2>1, <2>4, <2>7, <3>2
  <2>8. CASE /\ down' = <<Accepted[cmd]>>
             /\ good' = IF cmd \in {"DELE", "RMD", "CWD", "PWD", "RNTO"} THEN good \cup {n} ELSE good
    <3>1. down' # <<150, 226>> /\ (down' = <<226>> => Accepted[cmd] = 226) /\ down' # <<550>>
      BY <2>5, <2>8, ShortSeqs
    <3>2. Accepted[cmd] # 226
      BY <2>2, <2>3 DEF WorkingStates, TransferStates, CommandStates, CommandOf, Accepted
    <3>3. Carried' <=> s.control_state \in CommandStates \ {"RNFR_SENT"}
      BY <1>5, <2>3, <3>1, <3>2 DEF Carried
    <3>4. s.control_state \in CommandStates \ {"RNFR_SENT"} <=>
            cmd \in {"DELE", "RMD", "CWD", "PWD", "RNTO"}
      BY <2>2, <2>3 DEF WorkingStates, TransferStates, CommandStates, CommandOf
    <3> QED BY <2>1, <2>4, <2>8, <3>3, <3>4
  <2>9. Append(down, 550) = <<550>>
    BY <2>2, ShortSeqs
  <2> QED BY <1>3, <1>5, <2>2, <2>5, <2>6, <2>7, <2>8, <2>9
<1> QED BY <1>5, <1>7, <1>9, <1>10, <1>11 DEF Truth

(* A result that says nothing of an operation, or comes after the caller    *)
(* has closed, or before there was an operation.                            *)
LEMMA NoJudgement ==
  ASSUME Truth, n \in 0..MaxOps, n' = n, good' = good, last'.id = n,
         \/ last'.op = None
         \/ last'.asked
         \/ last'.result = "LOGGED"
         \/ n = 0 /\ last'.op = "CONNECT" /\ last'.result # "OK"
  PROVE  /\ last'.id \in 0..n' /\ Honest' /\ Whole'
         /\ Judged' => n = 0
<1>1. good \subseteq 1..n
  BY DEF Truth, Numbered
<1>2. Judged' => n = 0 /\ last'.result # "OK"
  BY DEF Judged
<1>3. n = 0 => n \notin good
  BY <1>1
<1>4. Honest'
  BY <1>2, <1>3 DEF Honest
<1>5. Whole'
  BY DEF Whole, None
<1> QED BY <1>2, <1>4, <1>5

(* The session ends without a word about an operation.                      *)
LEMMA EndTruth ==
  ASSUME IInv, Truth, NEW t, Finish(t, n), Ends(s, t), srv = NoTransfer \/ asked,
         UNCHANGED <<n, srv, good, asked>>,
         \/ s.op = None
         \/ asked
         \/ n = 0 /\ s.op = "CONNECT" /\ t.done \in {<<"ERR_CONNECT">>, <<"ERR_CLOSED">>}
  PROVE  Truth'
<1>1. n \in 0..MaxOps /\ Basic
  BY DEF IInv, Basic
<1>2. /\ s' = t /\ up' = <<>> /\ t.control_state = "CLOSED" /\ t.control_pcb = NULL /\ t.op = None
      /\ t.done # <<>>
  BY ShortSeqs DEF Finish, Ends
<1>3. PICK r \in Results : t.done = <<r>>
  BY DEF Ends
<1>4. \A x : t.done = <<x>> => r = x
  BY <1>3, ShortSeqs
<1>5. CASE r # "INPROGRESS"
  <2>1. last'.id = n /\ last'.op = s.op /\ last'.result = r /\ last'.asked = asked
    BY <1>3, <1>5, Recorded
  <2>2. s.op = None \/ asked \/ (n = 0 /\ s.op = "CONNECT" /\ r # "OK")
    BY <1>4
  <2>3. last'.id \in 0..n' /\ Honest' /\ Whole'
    BY <1>1, <2>1, <2>2, NoJudgement
  <2>4. Over'
    <3>1. Judged' => srv = NoTransfer
      BY <2>1, <2>2 DEF Judged
    <3> QED BY <1>2, <3>1, ShortSeqs DEF Over
  <2>5. Numbered'
    <3>1. DOMAIN up' = {}
      BY <1>2
    <3> QED BY <2>3, <3>1 DEF Truth, Numbered
  <2>6. InHand' /\ Early'
    <3>1. s' # FreshSession
      BY <1>2, NotFresh
    <3> QED BY <1>2, <3>1 DEF InHand, Early, WorkingStates, TransferStates, CommandStates, LoginStates, NULL
  <2> QED BY <1>2, <2>3, <2>4, <2>5, <2>6 DEF Truth
<1>6. CASE r = "INPROGRESS"
  <2>1. last' = last
    BY <1>3, <1>6, Recorded
  <2>2. last'.id \in 0..n' /\ Honest' /\ Whole' /\ (Judged' <=> Judged)
    BY <1>1, <2>1, SameRecord
  <2>3. DOMAIN up' = {}
    BY <1>2
  <2>4. Over'
    BY <1>2, <2>1, <2>2, <2>3 DEF Truth, Over
  <2>5. Numbered'
    BY <2>2, <2>3 DEF Truth, Numbered
  <2>6. InHand' /\ Early'
    <3>1. s' # FreshSession
      BY <1>2, NotFresh
    <3> QED BY <1>2, <3>1 DEF InHand, Early, WorkingStates, TransferStates, CommandStates, LoginStates, NULL
  <2> QED BY <1>2, <2>2, <2>4, <2>5, <2>6 DEF Truth
<1> QED BY <1>5, <1>6

(* The caller connects, or closes.                                          *)
LEMMA ConnectTruth ==
  ASSUME IInv, Truth, Connect
  PROVE  Truth'
<1>1. PICK pcb \in BOOLEAN, ok \in BOOLEAN : Finish(lwftp_connect(Quiet(s), TRUE, pcb, ok), n)
  BY DEF Connect
<1> DEFINE t == lwftp_connect(Quiet(s), TRUE, pcb, ok)
<1>2. /\ Basic /\ n \in 0..MaxOps /\ s = FreshSession /\ up = <<>> /\ srv = NoTransfer
      /\ n = 0 /\ last.result = "INPROGRESS" /\ s.op = None
      /\ UNCHANGED <<n, srv, good, asked>> /\ Called(t)
  <2>1. s.control_pcb # "ESTABLISHED" /\ s = FreshSession /\ s.op = None
    BY DEF Connect, FreshSession, NULL
  <2> QED BY <2>1 DEF IInv, Basic, Conversation, Truth, Early, Connect, Called
<1>3. /\ Fresh(Quiet(s)) /\ Quiet(s).control_state = "CLOSED" /\ Quiet(s).control_pcb = NULL
      /\ Quiet(s).data_pcb = NULL /\ Quiet(s).op = None /\ Quiet(s).wild = FALSE
      /\ s.wild = FALSE
  BY <1>2, Begins DEF FreshSession
<1>4. \/ Ends(Quiet(s), t)
      \/ /\ t.control_state = "CLOSED" /\ t.control_pcb = "SYN_SENT"
         /\ t.sent = <<>> /\ t.done = <<"INPROGRESS">>
  BY <1>3, ConnectShape
<1> HIDE DEF t
<1>5. CASE Ends(Quiet(s), t)
  <2>1. Ends(s, t)
    BY <1>3, <1>5 DEF Ends
  <2> QED BY <1>1, <1>2, <2>1, EndTruth DEF t
<1>6. CASE /\ t.control_state = "CLOSED" /\ t.control_pcb = "SYN_SENT"
           /\ t.sent = <<>> /\ t.done = <<"INPROGRESS">>
  <2>1. Finish(t, n) /\ last' = last
    BY <1>1, <1>6, Recorded DEF t
  <2>2. s' = t /\ up' = <<>>
    BY <1>2, <1>6, <2>1, FinishFacts DEF NULL
  <2>3. last'.id \in 0..n' /\ Honest' /\ Whole' /\ ~Judged'
    BY <1>2, <2>1, SameRecord DEF Judged
  <2>4. DOMAIN up' = {}
    BY <2>2
  <2>5. Numbered' /\ Over' /\ Early'
    BY <1>2, <2>1, <2>3, <2>4 DEF Truth, Numbered, Over, Early
  <2>6. InHand'
    BY <1>6, <2>2 DEF InHand, WorkingStates, TransferStates, CommandStates
  <2> QED BY <1>6, <2>2, <2>3, <2>5, <2>6 DEF Truth
<1> QED BY <1>4, <1>5, <1>6

(* Once it has closed, no result is held against the session.               *)
LEMMA CloseTruth ==
  ASSUME IInv, Truth, Close
  PROVE  Truth'
<1> DEFINE t == lwftp_close(Quiet(s))
<1>1. /\ Basic /\ n \in 0..MaxOps /\ s.control_state # "CLOSED" /\ Finish(t, n) /\ Called(t)
      /\ asked' = TRUE /\ UNCHANGED <<n, down, srv, good>>
  BY DEF IInv, Basic, Close, Called
<1>2. s.control_pcb = "ESTABLISHED"
  BY <1>1, Begins, GoodSession
<1>3. Turns(s, t, "QUIT_SENT", <<"QUIT">>, <<>>, s.data_pcb, s.op)
  BY <1>1, <1>2, Begins, QuitShape DEF NULL
<1> HIDE DEF t
<1>4. "QUIT" \in DOMAIN Accepted
  BY CommandsAre
<1>5. t.control_pcb # NULL /\ t.sent = <<"QUIT">> /\ t.done = <<>> /\ t.control_state = "QUIT_SENT"
      /\ t.op = s.op /\ t.control_pcb = "ESTABLISHED"
  BY <1>2, <1>3 DEF Turns, NULL
<1>6. s' = t /\ Puts(<<"QUIT", n>>) /\ last' = last
  BY <1>1, <1>4, <1>5, FinishFacts, Recorded
<1>7. \A i \in DOMAIN up' : up'[i] = <<"QUIT", n>> \/ (i \in DOMAIN up /\ up'[i] = up[i])
  BY <1>6, Written DEF IInv, Basic
<1>8. last'.id \in 0..n' /\ Honest' /\ Whole' /\ (Judged' <=> Judged)
  BY <1>1, <1>6, SameRecord
<1>9. Numbered'
  <2>1. "QUIT" \notin Ops \cup {"RNTO"}
    BY DEF Ops, TransferOps, CommandOps
  <2> QED BY <1>1, <1>7, <1>8, <2>1 DEF Truth, Numbered
<1>10. Over'
  BY <1>1, <1>5, <1>6, <1>7, <1>8 DEF Truth, Over
<1>11. InHand' /\ Early'
  <2>1. s' # FreshSession
    BY <1>5, <1>6, NotFresh
  <2> QED BY <1>5, <1>6, <2>1 DEF InHand, Early, WorkingStates, TransferStates, CommandStates, LoginStates
<1> QED BY <1>1, <1>8, <1>9, <1>10, <1>11 DEF Truth

(* It starts an operation, which nobody has carried out yet.                *)
LEMMA StartTruth ==
  ASSUME IInv, Plain, Truth, Start
  PROVE  Truth'
<1>1. PICK t :
        /\ Called(t) /\ t.control_pcb # NULL /\ t.wild = s.wild
        /\ \/ /\ Finish(t, n) /\ n' = n /\ t.op = None /\ t.done = <<"ERR_MEMORY">>
              /\ t.control_state = "LOGGED" /\ t.sent = <<>> /\ t.data_pcb = NULL
           \/ /\ Finish(t, n + 1) /\ n' = n + 1 /\ t.op # None /\ t.done = <<"INPROGRESS">>
              /\ t.control_state \in CommandStates \cup {"TYPE_SENT"}
              /\ t.sent = <<CommandOf[t.control_state]>>
              /\ CommandOf[t.control_state] \in DOMAIN Accepted
  BY Starts
<1>2. /\ Basic /\ n \in 0..MaxOps /\ n + 1 \in 0..MaxOps /\ s.op = None
      /\ up = <<>> /\ down = <<>> /\ srv = NoTransfer /\ UNCHANGED <<down, srv, good, asked>>
  BY Begins, GoodSession, UnderWay, SessionAssumption DEF IInv, Basic, Start
<1>3. good \subseteq 1..n /\ good \subseteq 1..(n + 1) /\ n + 1 \notin good /\ n + 1 > 0
  BY <1>2 DEF Truth, Numbered
<1>4. CASE /\ Finish(t, n) /\ n' = n /\ t.op = None /\ t.done = <<"ERR_MEMORY">>
           /\ t.control_state = "LOGGED" /\ t.sent = <<>>
  <2>1. last'.id = n /\ last'.op = None
    BY <1>2, <1>4, Recorded
  <2>2. last'.id \in 0..n' /\ Honest' /\ Whole' /\ ~Judged'
    BY <1>2, <1>4, <2>1, NoJudgement DEF Judged
  <2>3. s' = t /\ up' = up
    BY <1>1, <1>2, <1>4, FinishFacts
  <2>4. Numbered' /\ Over'
    <3>1. DOMAIN up' = {}
      BY <1>2, <2>3
    <3> QED BY <1>2, <1>3, <1>4, <2>2, <3>1 DEF Numbered, Over
  <2>5. Lib!Good(s)'
    BY <1>1, <1>2, <1>4, FinishFacts
  <2>6. InHand' /\ Early'
    <3>1. s' # FreshSession /\ s'.control_pcb = "ESTABLISHED"
      BY <1>4, <2>3, <2>5, NotFresh, GoodSession
    <3> QED BY <1>4, <2>3, <3>1 DEF InHand, Early, WorkingStates, TransferStates, CommandStates, LoginStates
  <2> QED BY <1>4, <2>2, <2>3, <2>4, <2>6 DEF Truth
<1>5. ASSUME NEW cmd \in DOMAIN Accepted, t.sent = <<cmd>>, Finish(t, n + 1), n' = n + 1,
             t.control_state \in CommandStates \cup {"TYPE_SENT"}, t.done = <<"INPROGRESS">>
      PROVE  Truth'
  <2>1. s' = t /\ up' = <<<<cmd, n + 1>>>> /\ Lib!Good(s)' /\ last' = last
    <3>1. s' = t /\ Puts(<<cmd, n + 1>>) /\ Lib!Good(s)' /\ last' = last
      BY <1>1, <1>2, <1>5, FinishFacts, Recorded
    <3> QED BY <1>2, <3>1, Written, UnderWay DEF Basic
  <2>2. last'.id \in 0..n' /\ Honest' /\ Whole' /\ last'.id # n'
    BY <1>2, <1>5, <2>1, SameRecord
  <2>3. Numbered' /\ Over'
    <3>1. \A i \in DOMAIN up' : up'[i] = <<cmd, n + 1>>
      BY <2>1
    <3>2. \A i \in DOMAIN up' : up'[i][2] = n' /\ n' > 0
      BY <1>3, <1>5, <3>1
    <3> QED BY <1>2, <1>3, <1>5, <2>2, <3>2 DEF Numbered, Over
  <2>4. s' # FreshSession /\ s'.control_pcb = "ESTABLISHED" /\ s'.control_state # "QUIT_SENT"
    BY <1>5, <2>1, NotFresh, GoodSession DEF CommandStates
  <2>5. Early'
    BY <1>5, <2>1, <2>4 DEF Early, CommandStates, LoginStates
  <2>6. ~Carried'
    <3>1. up' # <<>> /\ down' # <<150, 226>> /\ down' # <<226>>
      BY <1>2, <2>1, ShortSeqs
    <3> QED BY <3>1 DEF Carried
  <2>7. InHand'
    BY <1>2, <1>3, <1>5, <2>6 DEF InHand
  <2> QED BY <2>2, <2>3, <2>4, <2>5, <2>7 DEF Truth
<1> QED BY <1>1, <1>4, <1>5

(* A session whose control connection opens owes the result of that.        *)
LEMMA Connecting ==
  ASSUME NEW t, Lib!Good(t), t.control_pcb = "SYN_SENT"
  PROVE  t.op = "CONNECT"
<1>1. Lib!Owes(t) /\ t.control_state = "CLOSED"
  BY GoodSession DEF Lib!Good
<1> QED BY <1>1 DEF Lib!Owes, Lib!NULL

(* What the callbacks of an error of the control connection report.         *)
LEMMA ErrResults ==
  ASSUME NEW q, Fresh(q)
  PROVE  lwftp_control_err(q).done \in {<<"ERR_CONNECT">>, <<"ERR_CLOSED">>}
<1>1. q \in Sessions /\ \A r : Append(q.done, r) = <<r>>
  BY WritesOne DEF Fresh
<1>2. ASSUME NEW r, r # None
      PROVE  lwftp_control_close([q EXCEPT !.control_pcb = NULL], r).done = Append(q.done, r)
  BY <1>1, <1>2 DEF lwftp_control_close, Report, Sessions
<1>3. "ERR_CONNECT" # None /\ "ERR_CLOSED" # None
  BY DEF None
<1> QED BY <1>1, <1>2, <1>3 DEF lwftp_control_err

(* The control connection opens, or does not.                               *)
LEMMA ControlConnectedTruth ==
  ASSUME IInv, Plain, Truth, ControlConnected
  PROVE  Truth'
<1>1. /\ Basic /\ n \in 0..MaxOps /\ s.control_pcb = "SYN_SENT" /\ up = <<>> /\ srv = NoTransfer
      /\ n = 0 /\ last.result = "INPROGRESS" /\ UNCHANGED <<n, srv, good, asked>>
  BY UnderWay DEF IInv, Basic, ControlConnected, Truth, Early
<1>2. s.op = "CONNECT"
  BY <1>1, Begins, Connecting
<1>3. CASE Finish(lwftp_control_err(Quiet(s)), n)
  <2>1. Ends(s, lwftp_control_err(Quiet(s)))
    BY <1>1, Begins, ControlEnds DEF Ends
  <2>2. lwftp_control_err(Quiet(s)).done \in {<<"ERR_CONNECT">>, <<"ERR_CLOSED">>}
    BY <1>1, Begins, ErrResults
  <2> QED BY <1>1, <1>2, <1>3, <2>1, <2>2, EndTruth
<1>4. CASE Finish(lwftp_control_connected(Quiet(s)), n)
  <2> DEFINE t == lwftp_control_connected(Quiet(s))
  <2>1. Handled(t)
    BY <1>1 DEF Handled
  <2>2. /\ t.control_state = "CONNECTED" /\ t.control_pcb = "ESTABLISHED" /\ t.sent = <<>>
        /\ t.done = <<>>
    BY <1>1, Begins DEF lwftp_control_connected, Fresh, Sessions
  <2> HIDE DEF t
  <2>3. s' = t /\ up' = up /\ last' = last
    BY <1>1, <1>4, <2>1, <2>2, FinishFacts, Recorded DEF t, NULL
  <2>4. last'.id \in 0..n' /\ Honest' /\ Whole' /\ ~Judged'
    BY <1>1, <2>3, SameRecord DEF Judged
  <2>5. Numbered' /\ Over' /\ Early'
    BY <1>1, <2>3, <2>4 DEF Truth, Numbered, Over, Early
  <2>6. InHand'
    BY <2>2, <2>3 DEF InHand, WorkingStates, TransferStates, CommandStates
  <2> QED BY <2>2, <2>3, <2>4, <2>5, <2>6 DEF Truth
<1> QED BY <1>3, <1>4 DEF ControlConnected

(* The server closes it only after a QUIT.                                  *)
LEMMA ControlClosedTruth ==
  ASSUME IInv, Plain, Truth, ControlClosed
  PROVE  Truth'
<1>1. /\ Basic /\ s.control_pcb = "ESTABLISHED" /\ down # <<>> /\ Head(down) = 0
      /\ Finish(lwftp_control_recv_null(Quiet(s)), n) /\ UNCHANGED <<n, srv, good, asked>>
  BY DEF IInv, ControlClosed
<1>2. s.control_state \in ControlStates \ (PassingStates \cup {"CLOSED"})
  BY <1>1, Begins, GoodSession DEF Sessions
<1>3. s.control_state \notin {"LOGGED", "CONNECTED", "XFERING"} \cup TransferStates
  <2>1. down # <<220>> /\ down # <<150>> /\ down # <<550>> /\ down # <<226>> /\ down # <<426>>
        /\ down # <<150, 226>> /\ down # <<150, 426>>
    BY <1>1, ShortSeqs
  <2> QED BY <1>1, <2>1, UnderWay DEF Moving, Announced
<1>4. s.control_state \notin {"USER_SENT", "PASS_SENT", "TYPE_SENT", "PASV_SENT"} \cup CommandStates
  <2>1. down # <<550>> /\ \A r : down = <<r>> => r = 0
    BY <1>1, ShortSeqs
  <2>2. \A st \in {"USER_SENT", "PASS_SENT", "TYPE_SENT", "PASV_SENT"} \cup CommandStates :
          Accepted[CommandOf[st]] # 0
    BY DEF CommandStates, CommandOf, Accepted
  <2>3. ASSUME s.control_state \in {"USER_SENT", "PASS_SENT", "TYPE_SENT", "PASV_SENT"} \cup CommandStates
        PROVE  FALSE
    <3>1. Exchange(CommandOf[s.control_state])
      BY <2>3, UnderWay
    <3>2. down = <<Accepted[CommandOf[s.control_state]]>>
      BY <1>1, <2>1, <3>1, UnderWay DEF Exchange
    <3>3. Accepted[CommandOf[s.control_state]] # 0
      BY <2>2, <2>3
    <3> QED BY <2>1, <3>2, <3>3
  <2> QED BY <2>3
<1>5. asked
  BY <1>2, <1>3, <1>4 DEF Truth, ControlStates, PassingStates, LoginStates, TransferStates, CommandStates
<1>6. Ends(s, lwftp_control_recv_null(Quiet(s)))
  BY <1>1, Begins, ControlEnds DEF Ends
<1> QED BY <1>1, <1>5, <1>6, EndTruth

(* A reply moves the session on; nothing is reported.                       *)
LEMMA GoesOn ==
  ASSUME IInv, Truth, NEW opened, NEW t, Receives(1, opened, t),
         t.control_pcb = "ESTABLISHED", t.control_state \notin {"CLOSED", "QUIT_SENT"},
         t.done = <<>>, t.op = s.op, s.op # None, up = <<>>,
         \/ t.sent = <<>>
         \/ \E c \in DOMAIN Accepted : t.sent = <<c>> /\ (c \in {"USER", "PASS"} \/ n > 0),
         t.control_state \in LoginStates => n = 0 /\ last.result = "INPROGRESS",
         InHand'
  PROVE  Truth'
<1>1. /\ Basic /\ n \in 0..MaxOps /\ Finish(t, n) /\ Handled(t) /\ UNCHANGED <<n, srv, good, asked>>
      /\ t.control_pcb # NULL
  BY DEF IInv, Basic, Receives, NULL
<1>2. ~(Judged /\ last.id = n)
  BY DEF Truth, Over
<1>3. s' = t /\ last' = last
  BY <1>1, FinishFacts, Recorded
<1>4. last'.id \in 0..n' /\ Honest' /\ Whole' /\ (Judged' <=> Judged)
  BY <1>1, <1>3, SameRecord
<1>5. \A i \in DOMAIN up' : up'[i][2] = n' /\ (up'[i][1] \in Ops \cup {"RNTO"} => n' > 0)
  <2>1. CASE t.sent = <<>>
    <3>1. up' = up
      BY <1>1, <2>1, FinishFacts
    <3> QED BY <3>1
  <2>2. ASSUME NEW c \in DOMAIN Accepted, t.sent = <<c>>, c \in {"USER", "PASS"} \/ n > 0
        PROVE  \A i \in DOMAIN up' : up'[i][2] = n' /\ (up'[i][1] \in Ops \cup {"RNTO"} => n' > 0)
    <3>1. Puts(<<c, n>>)
      BY <1>1, <2>2, FinishFacts
    <3>2. \A i \in DOMAIN up' : up'[i] = <<c, n>>
      BY <1>1, <3>1, Written DEF Basic
    <3>3. {"USER", "PASS"} \cap (Ops \cup {"RNTO"}) = {}
      BY DEF Ops, TransferOps, CommandOps
    <3> QED BY <1>1, <2>2, <3>2, <3>3
  <2> QED BY <2>1, <2>2
<1>6. Numbered' /\ Over'
  BY <1>1, <1>2, <1>3, <1>4, <1>5 DEF Truth, Numbered, Over
<1>7. Early'
  <2>1. s' # FreshSession
    BY <1>3, NotFresh
  <2> QED BY <1>1, <1>3, <2>1 DEF Early
<1> QED BY <1>3, <1>4, <1>6, <1>7 DEF Truth

(* A reply ends what was under way, and the result is true.                 *)
LEMMA Reported ==
  ASSUME IInv, Truth, NEW opened, NEW t, Receives(1, opened, t), NEW r, NEW data,
         Turns(s, t, "LOGGED", <<>>, <<r>>, data, None), r # "INPROGRESS",
         up = <<>>, srv = NoTransfer,
         r = "LOGGED" \/ (r = "OK" <=> n \in good),
         r = "OK" => /\ s.op = "STOR" => link.stored = Blocks
                     /\ s.op \in {"RETR", "MLSD"} => link.got + link.fly = Blocks
  PROVE  Truth'
<1>1. /\ Basic /\ n \in 0..MaxOps /\ Finish(t, n) /\ Handled(t) /\ UNCHANGED <<n, srv, good, asked>>
  BY DEF IInv, Basic, Receives
<1>2. /\ t.control_pcb = "ESTABLISHED" /\ t.control_pcb # NULL /\ t.control_state = "LOGGED"
      /\ t.sent = <<>> /\ t.done = <<r>> /\ t.op = None
  BY DEF Turns, Receives, NULL
<1>3. s' = t /\ up' = up
  BY <1>1, <1>2, FinishFacts
<1>4. /\ last'.id = n /\ last'.op = s.op /\ last'.result = r /\ last'.asked = asked
      /\ last'.got = link.got /\ last'.stored = link.stored /\ last'.fly = link.fly
  BY <1>1, <1>2, Recorded
<1>5. Honest' /\ Whole'
  BY <1>1, <1>4 DEF Honest, Whole, Judged
<1>6. Numbered' /\ Over'
  <2>1. DOMAIN up' = {}
    BY <1>3
  <2>2. last'.id \in 0..n'
    BY <1>1, <1>4
  <2> QED BY <1>1, <1>2, <1>3, <2>1, <2>2 DEF Truth, Numbered, Over
<1>7. InHand' /\ Early'
  <2>1. s' # FreshSession
    BY <1>2, <1>3, NotFresh
  <2> QED BY <1>2, <1>3, <2>1 DEF InHand, Early, WorkingStates, TransferStates, CommandStates, LoginStates
<1> QED BY <1>2, <1>3, <1>5, <1>6, <1>7 DEF Truth

(* The login goes on, a transfer asks for its connection, a rename for its  *)
(* second half.                                                             *)
LEMMA NextTruth ==
  ASSUME IInv, Plain, Truth, NEW opened, NEW t, Receives(1, opened, t),
         NEW st, NEW cmd, Follows(s.control_state, cmd, st),
         Head(down) = Expected[s.control_state]
  PROVE  Truth'
<1>1. /\ Basic /\ Fresh(Quiet(s)) /\ Quiet(s).control_state = s.control_state
      /\ Quiet(s).data_pcb = s.data_pcb /\ Quiet(s).op = s.op
  BY Begins DEF IInv
<1>2. Turns(Quiet(s), t, st, <<cmd>>, <<>>, s.data_pcb, s.op)
  BY <1>1, ProcessNext DEF Receives
<1>3. Turns(s, t, st, <<cmd>>, <<>>, s.data_pcb, s.op)
  BY <1>1, <1>2, Begins
<1>4. /\ t.control_pcb = "ESTABLISHED" /\ t.control_state = st /\ t.done = <<>> /\ t.op = s.op
      /\ t.sent = <<cmd>> /\ cmd \in DOMAIN Accepted /\ st \notin {"CLOSED", "QUIT_SENT"}
  BY <1>3, CommandsAre DEF Turns, Receives, Follows
<1>5. s.op # None
  BY <1>1, Begins, GoodSession DEF Follows, None, LoginStates, TransferOps, CommandStates, Ops, CommandOps
<1>6. up = <<>> /\ down # <<>>
  <2>1. down # <<>>
    BY ShortSeqs DEF Receives
  <2> QED BY <2>1, UnderWay DEF Follows, CommandStates, Exchange
<1>7. s.control_state \in LoginStates => n = 0 /\ last.result = "INPROGRESS"
  BY DEF Truth, Early
<1>8. /\ st \in LoginStates => s.control_state \in LoginStates
      /\ cmd \in {"USER", "PASS"} \/ s.control_state \in WorkingStates
      /\ s.control_state \in WorkingStates => st \in {"PASV_SENT", "RNTO_SENT"}
      /\ st \in WorkingStates => s.control_state \in WorkingStates
  BY DEF Follows, LoginStates, WorkingStates, TransferStates, CommandStates
<1>9. s.control_state \in WorkingStates => n > 0 /\ n \notin good
  <2>1. s.control_state \in WorkingStates => ~Carried
    BY DEF Follows, Carried, WorkingStates, TransferStates, CommandStates
  <2> QED BY <2>1 DEF Truth, InHand
<1>10. InHand'
  <2> SUFFICES ASSUME s'.control_state \in WorkingStates
               PROVE  n' > 0 /\ (n' \in good' <=> Carried')
    BY DEF InHand
  <2>1. /\ s' = t /\ up' = <<<<cmd, n>>>> /\ up' # <<>> /\ UNCHANGED <<n, good>>
    <3>1. /\ n \in 0..MaxOps /\ Finish(t, n) /\ Handled(t) /\ t.control_pcb # NULL
          /\ UNCHANGED <<n, good>>
      BY <1>1, <1>4 DEF Receives, Basic, NULL
    <3>2. s' = t /\ Puts(<<cmd, n>>)
      BY <1>1, <1>4, <3>1, FinishFacts
    <3>3. up' = <<<<cmd, n>>>>
      BY <1>1, <1>6, <3>2, Written, UnderWay DEF Basic
    <3> QED BY <3>1, <3>2, <3>3, ShortSeqs
  <2>2. s'.control_state \in {"PASV_SENT", "RNTO_SENT"} /\ n > 0 /\ n \notin good
    BY <1>4, <1>8, <1>9, <2>1
  <2>3. ~Carried'
    BY <2>1, <2>2 DEF Carried, TransferStates, CommandStates
  <2> QED BY <2>1, <2>2, <2>3
<1> QED BY <1>4, <1>5, <1>6, <1>7, <1>8, <1>9, <1>10, GoesOn

(* The login ends.                                                          *)
LEMMA LoginTruth ==
  ASSUME IInv, Plain, Truth, NEW opened, NEW t, Receives(1, opened, t),
         s.control_state = "PASS_SENT", Head(down) = 230
  PROVE  Truth'
<1>1. Turns(s, t, "LOGGED", <<>>, <<"LOGGED">>, s.data_pcb, None)
  BY Begins, ProcessLogin DEF IInv, Receives
<1>2. down # <<>>
  BY ShortSeqs DEF Receives
<1>3. up = <<>> /\ srv = NoTransfer
  BY <1>2, UnderWay DEF Exchange
<1> QED BY <1>1, <1>3, Reported

(* The transfer command is written.                                         *)
LEMMA PassiveTruth ==
  ASSUME IInv, Plain, Truth, NEW opened, NEW t, Receives(1, opened, t),
         s.control_state = "PASV_SENT", Head(down) = 227
  PROVE  Truth'
<1>1. Basic /\ s.op \in TransferOps /\ SentState[s.op] = s.target_state
  BY Begins, GoodSession DEF IInv
<1>2. /\ Turns(Quiet(s), t, s.target_state, <<s.op>>, <<>>,
               IF opened THEN "SYN_SENT" ELSE s.data_pcb, s.op)
      /\ Quiet(s).control_pcb = s.control_pcb
  BY <1>1, Begins, ProcessPassive DEF Receives
<1>3. /\ t.control_pcb = "ESTABLISHED" /\ t.control_state \in TransferStates /\ t.done = <<>>
      /\ t.op = s.op /\ t.sent = <<s.op>> /\ s.op \in DOMAIN Accepted /\ s.op # None
  BY <1>1, <1>2, CommandsAre DEF Turns, Receives, TransferOps, SentState, TransferStates, None
<1>4. up = <<>> /\ Len(down) = 1
  <2>1. down # <<>> /\ Exchange(CommandOf[s.control_state]) /\ ~Lost
    BY UnderWay, ShortSeqs DEF Receives
  <2> QED BY <2>1, ShortSeqs DEF Exchange
<1>5. n > 0 /\ n \notin good
  BY DEF Truth, InHand, WorkingStates, Carried, TransferStates, CommandStates
<1>6. InHand'
  <2>1. /\ s' = t /\ UNCHANGED <<n, good>> /\ down' = <<>>
    BY <1>3, <1>4, RestFacts DEF Receives, Finish, NULL
  <2>2. ~Carried'
    <3>1. down' # <<150, 226>>
      BY <2>1, ShortSeqs
    <3> QED BY <1>3, <2>1, <3>1 DEF Carried, TransferStates, CommandStates
  <2> QED BY <1>5, <2>1, <2>2 DEF InHand
<1> QED BY <1>3, <1>4, <1>5, <1>6, GoesOn DEF TransferStates, LoginStates

(* 150: the transfer begins for the client, however far it has gone.        *)
LEMMA BeginTruth ==
  ASSUME IInv, Plain, Truth, NEW opened, NEW t, Receives(1, opened, t),
         s.control_state \in TransferStates, Head(down) = 150
  PROVE  Truth'
<1>1. /\ Basic /\ Fresh(Quiet(s)) /\ Quiet(s).control_state = s.control_state
      /\ Quiet(s).control_pcb = s.control_pcb /\ Quiet(s).op = s.op
  BY Begins DEF IInv
<1>2. t = lwftp_control_process(Quiet(s), 150, opened, link.src > 0)
  BY DEF Receives
<1>3. /\ t.control_pcb = "ESTABLISHED" /\ t.control_state = "XFERING" /\ t.done = <<>>
      /\ t.op = s.op /\ t.sent = <<>>
  <2>1. CASE s.control_state # "STOR_SENT"
    <3>1. Turns(Quiet(s), t, "XFERING", <<>>, <<>>, Quiet(s).data_pcb, Quiet(s).op)
      BY <1>1, <1>2, <2>1, ProcessStarted
    <3> QED BY <1>1, <3>1 DEF Turns, Receives
  <2>2. CASE s.control_state = "STOR_SENT"
    <3> DEFINE p == [Quiet(s) EXCEPT !.wild = Quiet(s).wild \/ Quiet(s).data_pcb = NULL]
    <3>1. Turns(p, lwftp_control_process(Quiet(s), 150, opened, link.src > 0), "XFERING",
                <<>>, <<>>, IF link.src > 0 THEN Quiet(s).data_pcb ELSE NULL, Quiet(s).op)
      BY <1>1, <2>2, ProcessStarted
    <3>2. p.control_pcb = s.control_pcb
      BY <1>1 DEF Fresh, Sessions
    <3> HIDE DEF p
    <3>3. s.control_pcb = "ESTABLISHED"
      BY DEF Receives
    <3> QED BY <1>1, <1>2, <3>1, <3>2, <3>3 DEF Turns
  <2> QED BY <2>1, <2>2
<1>4. s.op # None
  BY <1>1, Begins, GoodSession DEF None, TransferStates, Ops, TransferOps, CommandOps, CommandStates
<1>5. up = <<>> /\ (down = <<150>> \/ down = <<150, 426>> \/ down = <<150, 226>>)
  <2>1. Announced(CommandOf[s.control_state]) /\ ~Lost /\ down # <<>> /\ down # <<550>>
    BY UnderWay, ShortSeqs DEF Receives
  <2> QED BY <2>1 DEF Announced
<1>6. InHand'
  <2>1. s' = t /\ UNCHANGED <<n, good>> /\ down' = Rest(1)
    BY <1>3 DEF Receives, Finish, NULL
  <2>2. (down' = <<>> /\ down = <<150>>) \/ (down' = <<426>> /\ down = <<150, 426>>)
          \/ (down' = <<226>> /\ down = <<150, 226>>)
    BY <1>5, <2>1, RestFacts DEF Receives
  <2>3. down' = <<226>> <=> down = <<150, 226>>
    BY <2>2, ShortSeqs
  <2>4. Carried' <=> down' = <<226>>
    BY <1>3, <2>1 DEF Carried, TransferStates, CommandStates
  <2>5. Carried <=> down = <<150, 226>>
    BY DEF Carried, TransferStates, CommandStates
  <2> QED BY <2>1, <2>3, <2>4, <2>5 DEF Truth, InHand, WorkingStates
<1> QED BY <1>3, <1>4, <1>5, <1>6, GoesOn DEF LoginStates

(* A transfer ends: with OK just if the server said 226, after all of it.    *)
LEMMA TransferEndTruth ==
  ASSUME IInv, Plain, Truth, NEW opened, NEW t, Receives(1, opened, t),
         s.control_state \in TransferStates \cup {"XFERING"},
         s.control_state \in TransferStates => Head(down) # 150
  PROVE  Truth'
<1> DEFINE r == ResultOf(s.control_state, Head(down))
<1>1. /\ Basic /\ Turns(s, t, "LOGGED", <<>>, <<r>>, NULL, None)
      /\ r \notin {"INPROGRESS", "LOGGED"}
      /\ r = "OK" <=> s.control_state = "XFERING" /\ Head(down) = 226
  <2>1. /\ Basic /\ Fresh(Quiet(s)) /\ Quiet(s).control_state = s.control_state
    BY Begins DEF IInv
  <2>2. Head(down) # 0 /\ t = lwftp_control_process(Quiet(s), Head(down), opened, link.src > 0)
    BY DEF Receives
  <2>3. /\ Turns(Quiet(s), t, "LOGGED", <<>>, <<r>>, NULL, None)
        /\ r \notin {"INPROGRESS", "LOGGED"}
        /\ r = "OK" <=> s.control_state = "XFERING" /\ Head(down) = 226
    BY <2>1, <2>2, ProcessTransferEnd
  <2> HIDE DEF r
  <2> QED BY <2>1, <2>3, Begins
<1> HIDE DEF r
<1>2. down # <<>>
  BY ShortSeqs DEF Receives
<1>3. CASE s.control_state = "XFERING"
  <2>1. /\ up = <<>> /\ srv = NoTransfer /\ Blockwise(s.op, link) /\ s.op \in TransferOps
        /\ \/ down = <<426>>
           \/ down = <<226>> /\ link.left = 0 /\ (s.op = "STOR" => link.stored = Blocks)
    <3>1. Moving(s.op) /\ "coalesce" \notin faults
      BY <1>3, UnderWay, PlainWorld
    <3>2. s.op \in TransferOps
      BY <1>1, <1>3, Begins, GoodSession
    <3> QED BY <1>2, <3>1, <3>2 DEF Moving
  <2>2. down = <<226>> <=> Head(down) = 226
    BY <2>1, ShortSeqs
  <2>3. n \in good <=> down = <<226>>
    BY <1>3 DEF Truth, InHand, WorkingStates, Carried, TransferStates, CommandStates
  <2>4. r = "OK" <=> n \in good
    BY <1>1, <1>3, <2>2, <2>3
  <2>5. r = "OK" => /\ s.op = "STOR" => link.stored = Blocks
                    /\ s.op \in {"RETR", "MLSD"} => link.got + link.fly = Blocks
    <3> SUFFICES ASSUME r = "OK"
                 PROVE  /\ s.op = "STOR" => link.stored = Blocks
                        /\ s.op \in {"RETR", "MLSD"} => link.got + link.fly = Blocks
      OBVIOUS
    <3>1. link.left = 0 /\ (s.op = "STOR" => link.stored = Blocks)
      BY <2>1, <2>3, <2>4, ShortSeqs
    <3>2. ASSUME s.op \in {"RETR", "MLSD"} PROVE link.got + link.fly = Blocks
      <4>1. link.left + link.fly + link.got = Blocks /\ link \in Connections
        BY <1>1, <2>1, <3>2 DEF Blockwise, Coming, Basic
      <4> QED BY <3>1, <4>1 DEF Connections
    <3> QED BY <3>1, <3>2
  <2> QED BY <1>1, <2>1, <2>4, <2>5, Reported
<1>4. CASE s.control_state \in TransferStates
  <2>1. up = <<>> /\ srv = NoTransfer /\ down = <<550>>
    <3>1. Announced(CommandOf[s.control_state]) /\ ~Lost /\ Head(down) # 150
      BY <1>4, UnderWay
    <3>2. /\ down # <<150>> /\ down # <<150, 426>> /\ down # <<150, 226>>
      BY <3>1, ShortSeqs
    <3> QED BY <1>2, <3>1, <3>2 DEF Announced
  <2>2. down # <<150, 226>>
    BY <2>1, ShortSeqs
  <2>3. n \notin good
    BY <1>4, <2>2 DEF Truth, InHand, WorkingStates, Carried, TransferStates, CommandStates
  <2>4. r # "OK"
    BY <1>1, <1>4 DEF TransferStates
  <2> QED BY <1>1, <2>1, <2>3, <2>4, Reported
<1> QED BY <1>3, <1>4

(* Any other operation ends: with OK just if the server carried it out.     *)
LEMMA CommandEndTruth ==
  ASSUME IInv, Plain, Truth, NEW opened, NEW t, Receives(1, opened, t),
         s.control_state \in CommandStates,
         s.control_state = "RNFR_SENT" => Head(down) # 350
  PROVE  Truth'
<1> DEFINE r == ResultOf(s.control_state, Head(down))
<1>1. /\ Basic /\ Turns(s, t, "LOGGED", <<>>, <<r>>, s.data_pcb, None)
      /\ r \notin {"INPROGRESS", "LOGGED"}
      /\ r = "OK" <=>
           s.control_state \in CommandStates \ {"RNFR_SENT"} /\ Head(down) = Completes[s.control_state]
  <2>1. /\ Basic /\ Fresh(Quiet(s)) /\ Quiet(s).control_state = s.control_state
        /\ Quiet(s).data_pcb = s.data_pcb
    BY Begins DEF IInv
  <2>2. Head(down) # 0 /\ t = lwftp_control_process(Quiet(s), Head(down), opened, link.src > 0)
    BY DEF Receives
  <2>3. /\ Turns(Quiet(s), t, "LOGGED", <<>>, <<r>>, s.data_pcb, None)
        /\ r \notin {"INPROGRESS", "LOGGED"}
        /\ r = "OK" <=>
             s.control_state \in CommandStates \ {"RNFR_SENT"} /\ Head(down) = Completes[s.control_state]
    BY <2>1, <2>2, ProcessCommandEnd
  <2> HIDE DEF r
  <2> QED BY <2>1, <2>3, Begins
<1> HIDE DEF r
<1>2. /\ up = <<>> /\ srv = NoTransfer
      /\ down = <<Accepted[CommandOf[s.control_state]]>> \/ down = <<550>>
  <2>1. down # <<>> /\ Exchange(CommandOf[s.control_state]) /\ ~Lost
    BY UnderWay, ShortSeqs DEF Receives
  <2> QED BY <2>1 DEF Exchange
<1>3. s.control_state # "RNFR_SENT" =>
        Accepted[CommandOf[s.control_state]] = Completes[s.control_state]
        /\ Completes[s.control_state] # 550
  BY DEF CommandStates, CommandOf, Accepted, Completes
<1>4. \A x : down = <<x>> => Head(down) = x
  BY ShortSeqs
<1>5. s.control_state # "RNFR_SENT" => (Head(down) = Completes[s.control_state] <=> down # <<550>>)
  BY <1>2, <1>3, <1>4
<1>6. n \in good <=> s.control_state # "RNFR_SENT" /\ down # <<550>>
  BY <1>2 DEF Truth, InHand, WorkingStates, Carried, TransferStates, CommandStates
<1>7. r = "OK" <=> n \in good
  BY <1>1, <1>5, <1>6
<1>8. s.op \notin TransferOps
  BY <1>1, Begins, GoodSession DEF CommandStates, SentState, TransferOps, Ops, CommandOps
<1> QED BY <1>1, <1>2, <1>7, <1>8, Reported DEF TransferOps

(* A delivery, in every state.                                              *)
LEMMA DeliverTruth ==
  ASSUME IInv, Plain, Truth, Deliver(1), UNCHANGED faults
  PROVE  Truth'
<1>0. PICK opened \in BOOLEAN : \E t : Receives(1, opened, t)
  BY Received
<1>1. PICK t : Receives(1, opened, t)
  BY <1>0
<1>2. /\ Basic /\ s.control_state \in ControlStates \ (PassingStates \cup {"CLOSED"}) /\ down # <<>>
  BY <1>1, Begins, GoodSession, ShortSeqs DEF IInv, Receives, Sessions
<1>3. s.control_state # "LOGGED"
  BY <1>2, UnderWay
<1>4. s.control_state \in LoginStates \cup {"TYPE_SENT", "PASV_SENT"} =>
        Head(down) = Expected[s.control_state]
  <2>1. CASE s.control_state = "CONNECTED"
    <3>1. down = <<220>>
      BY <2>1, UnderWay
    <3> QED BY <2>1, <3>1, ShortSeqs DEF Expected
  <2>2. CASE s.control_state \in {"USER_SENT", "PASS_SENT", "TYPE_SENT", "PASV_SENT"}
    <3>1. Exchange(CommandOf[s.control_state])
      BY <2>2, UnderWay
    <3>2. ~Rejects(CommandOf[s.control_state])
      <4>1. CommandOf[s.control_state] \notin Ops \cup {"RNTO"}
        BY <2>2 DEF CommandOf, Ops, TransferOps, CommandOps
      <4> QED BY <4>1, PlainWorld
    <3>3. down = <<Accepted[CommandOf[s.control_state]]>>
      BY <1>2, <3>1, <3>2, UnderWay DEF Exchange
    <3>4. Accepted[CommandOf[s.control_state]] = Expected[s.control_state]
      BY <2>2 DEF CommandOf, Accepted, Expected
    <3> QED BY <3>3, <3>4, ShortSeqs
  <2> QED BY <2>1, <2>2 DEF LoginStates
<1>5. CASE s.control_state \in {"CONNECTED", "USER_SENT", "TYPE_SENT"}
  <2>1. \E st, cmd : Follows(s.control_state, cmd, st)
    BY <1>5 DEF Follows
  <2>2. Head(down) = Expected[s.control_state]
    BY <1>4, <1>5 DEF LoginStates
  <2> QED BY <1>1, <2>1, <2>2, NextTruth
<1>6. CASE s.control_state = "PASS_SENT"
  BY <1>1, <1>4, <1>6, LoginTruth DEF Expected, LoginStates
<1>7. CASE s.control_state = "PASV_SENT"
  BY <1>1, <1>4, <1>7, PassiveTruth DEF Expected
<1>8. CASE s.control_state \in TransferStates \cup {"XFERING"}
  BY <1>1, <1>8, BeginTruth, TransferEndTruth
<1>9. CASE s.control_state \in CommandStates
  <2>1. CASE s.control_state = "RNFR_SENT" /\ Head(down) = 350
    <3>1. Follows(s.control_state, "RNTO", "RNTO_SENT") /\ Head(down) = Expected[s.control_state]
      BY <2>1 DEF Follows, Expected
    <3> QED BY <1>1, <3>1, NextTruth
  <2> QED BY <1>1, <1>9, <2>1, CommandEndTruth
<1>10. CASE s.control_state = "QUIT_SENT"
  <2>1. Ends(s, t)
    BY <1>1, <1>2, <1>10, Begins, ProcessQuit DEF Receives, Ends
  <2>2. asked
    BY <1>10 DEF Truth
  <2> QED BY <1>1, <2>1, <2>2, EndTruth DEF Receives
<1> QED BY <1>2, <1>3, <1>5, <1>6, <1>7, <1>8, <1>9, <1>10
        DEF ControlStates, PassingStates, LoginStates, TransferStates, CommandStates

(* Every step of a plain world.                                             *)
LEMMA StepTruth ==
  ASSUME IInv, Plain, Truth, [Next]_vars
  PROVE  Truth' /\ Plain'
<1>1. CASE UNCHANGED vars
  <2>1. Plain' /\ UNCHANGED <<s, n, up, down, srv, good, last, asked>> /\ n \in 0..MaxOps
    BY <1>1 DEF vars, state, Plain, IInv, Basic
  <2> QED BY <2>1, SameTruth
<1>2. CASE Next
  <2>1. UNCHANGED faults /\ Plain'
    BY <1>2 DEF Next, Plain
  <2>2. CASE Client
    BY <2>1, <2>2, ConnectTruth, StartTruth, CloseTruth DEF Client
  <2>3. CASE Network
    <3>1. ~ControlReplies /\ ~ControlReset /\ ~DataErr
      BY PlainWorld DEF ControlReplies, ControlReset, DataErr
    <3>2. CASE ControlReply
      BY <2>1, <3>2, DeliverTruth DEF ControlReply
    <3>3. CASE ControlConnected \/ ControlClosed
      BY <2>1, <3>3, ControlConnectedTruth, ControlClosedTruth
    <3>4. CASE DataConnected \/ DataBlock \/ DataClosed \/ DataSent
      BY <2>1, <3>4, DataTruth
    <3> QED BY <2>3, <3>1, <3>2, <3>3, <3>4 DEF Network
  <2>4. CASE Server
    <3>1. ~ServerRefuse
      BY PlainWorld DEF ServerRefuse
    <3> QED BY <2>1, <2>4, <3>1, ServerCommandTruth, DataTruth, ServerEndTruth DEF Server
  <2> QED BY <1>2, <2>2, <2>3, <2>4 DEF Next
<1> QED BY <1>1, <1>2

(* Before the first step nothing has been told.                             *)
LEMMA InitTruth ==
  ASSUME Init
  PROVE  Truth
<1>1. /\ s.control_state = "CLOSED" /\ n = 0 /\ DOMAIN up = {} /\ srv = NoTransfer /\ good = {}
      /\ last.result = "INPROGRESS" /\ last.id = 0
  BY DEF Init, FreshSession
<1>2. Numbered /\ InHand
  BY <1>1 DEF Numbered, InHand, WorkingStates, TransferStates, CommandStates
<1>3. Early /\ Over /\ Honest /\ Whole
  BY <1>1 DEF Early, Over, Honest, Whole, Judged
<1> QED BY <1>1, <1>2, <1>3 DEF Truth

(* What the caller is told is true in every plain world.                    *)
THEOREM TruthAlways == Spec => [](Plain => Truth)
<1>1. Init => (Plain => Truth)
  BY InitTruth
<1>2. IInv /\ (Plain => Truth) /\ [Next]_vars => (Plain => Truth)'
  <2>1. [Next]_vars => (Plain' => Plain)
    BY DEF Next, vars, Plain
  <2> QED BY <2>1, StepTruth
<1> QED BY <1>1, <1>2, InvAlways, PTL DEF Spec

(* Connections hold and nothing is refused: the world is plain.             *)
LEMMA SteadyPlain ==
  ASSUME IInv, Steady, "refuse" \notin faults
  PROVE  Plain
BY SessionAssumption DEF IInv, Basic, Steady, Plain

(* An operation is reported OK exactly if the server carried it out, for     *)
(* any number of operations and blocks, in every world but those in which   *)
(* the server refuses USER, PASS, TYPE or PASV: there lwftp_control_process  *)
(* reports the reply to its own QUIT.                                       *)
THEOREM ResultsHonest == Spec => []("refuse" \notin faults => HonestResult)
<1>1. IInv /\ (Plain => Truth) => ("refuse" \notin faults => HonestResult)
  BY SteadyPlain DEF Truth, Honest, Judged, HonestResult
<1> QED BY <1>1, InvAlways, TruthAlways, PTL

(* In the same worlds a file reported as stored is whole at the server, and *)
(* one reported as received lacks only the blocks the 226 has overtaken.    *)
THEOREM TransfersAreWhole == Spec => []("refuse" \notin faults => TransfersWhole)
<1>1. IInv /\ (Plain => Truth) => ("refuse" \notin faults => TransfersWhole)
  BY SteadyPlain DEF Truth, Whole, TransfersWhole
<1> QED BY <1>1, InvAlways, TruthAlways, PTL
=============================================================================
