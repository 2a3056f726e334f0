----------------------------- MODULE FtpSession -----------------------------
(***************************************************************************)
(* lwftp.c talking to an FTP server over two TCP connections.               *)
(*                                                                         *)
(* The session and its handlers are those of LwFtp.  The server and the two *)
(* connections are external: the server takes commands in order, answers    *)
(* each with the replies lwftp.c waits for or, where it may, with an error; *)
(* replies and data travel on different connections, so a reply can         *)
(* overtake the data it speaks of.  A behaviour belongs to a world: faults  *)
(* says what servers and TCP do in it beyond that:                          *)
(*   reject    operations may be answered with an error                     *)
(*   refuse    so may the connection, USER, PASS, TYPE and PASV             *)
(*   reset     the data connection may fail at any time                     *)
(*   drop      so may the control connection                                *)
(*   coalesce  two replies may arrive in one pbuf                           *)
(*   unsent    tcp_write may refuse a command                               *)
(* Blocks is the length of every file in segments, MaxOps a bound on the    *)
(* operations the caller starts.                                            *)
(***************************************************************************)
EXTENDS LwFtp, Functions

CONSTANTS Worlds, Blocks, MaxOps

ASSUME SessionAssumption ==
  /\ Worlds \subseteq SUBSET {"reject", "refuse", "reset", "drop", "coalesce", "unsent"}
  /\ Blocks \in Nat \ {0} /\ MaxOps \in Nat

VARIABLES
  faults,   \* the world, which does not change
  s,        \* the session
  n,        \* number of operations accepted so far; the last one has this number
  up,       \* commands on their way to the server: <<command, operation number>>
  down,     \* replies on their way to the client
  srv,      \* the server: [doing, id] of the transfer it has announced with 150
  link,     \* the data connection, see NoLink
  good,     \* history: numbers of the operations the server carried out
  last,     \* history: the last result reported, and the state it was about
  asked     \* history: the caller has called lwftp_close

state == <<s, n, up, down, srv, link, good, last, asked>>
vars == <<faults, state>>

NoTransfer == [doing |-> None, id |-> 0]

(* st: none, listen (after PASV), est, broken; left: blocks the server still *)
(* has to send; fly: blocks sent and not received; fin: the server closed;   *)
(* got: blocks in data_sink; src: blocks left in data_source; out: a block   *)
(* written and not acknowledged; eof: the client closed after its last       *)
(* block; stored: blocks the server received.                                *)
NoLink == [st |-> "none", left |-> 0, fly |-> 0, fin |-> FALSE, got |-> 0,
           src |-> Blocks, out |-> FALSE, eof |-> FALSE, stored |-> 0]

Init == /\ faults \in Worlds
        /\ s = FreshSession
        /\ n = 0 /\ up = <<>> /\ down = <<>>
        /\ srv = NoTransfer /\ link = NoLink
        /\ good = {} /\ asked = FALSE
        /\ last = [id |-> 0, op |-> None, result |-> "INPROGRESS", asked |-> FALSE,
                   got |-> 0, stored |-> 0, fly |-> 0]

-----------------------------------------------------------------------------
(* What every handler leaves behind: the commands it wrote are under way, or *)
(* lost, since no caller of lwftp_send_msg looks at the result of tcp_write, *)
(* and the last result it reported, if any, is on record.                    *)
Tag(cmds, id) == [i \in 1..Len(cmds) |-> <<cmds[i], id>>]

Finish(t, id) ==
  /\ s' = t
  /\ IF t.control_pcb = NULL THEN up' = <<>>
     ELSE \/ up' = up \o Tag(t.sent, id)
          \/ "unsent" \in faults /\ up' = up
  /\ last' = IF t.done = <<>> \/ t.done[Len(t.done)] = "INPROGRESS" THEN last
             ELSE [id |-> n, op |-> s.op, result |-> t.done[Len(t.done)],
                   asked |-> asked, got |-> link.got, stored |-> link.stored,
                   fly |-> link.fly]

(* lwftp_send_next_data as the data connection sees it: one more block is    *)
(* written, or the client closes because data_source has no more.            *)
NextBlock(l) == IF l.src > 0 THEN [l EXCEPT !.src = @ - 1, !.out = TRUE]
                             ELSE [l EXCEPT !.out = FALSE, !.eof = TRUE]

-----------------------------------------------------------------------------
(* The caller: main() connects once, starts one operation at a time, and     *)
(* closes at any time.                                                       *)
Connect ==
  /\ s = FreshSession
  /\ \E pcb, ok \in BOOLEAN :
       LET t == lwftp_connect(Quiet(s), TRUE, pcb, ok)
       IN  Finish(t, n) /\ down' = IF t.control_pcb = NULL THEN <<>> ELSE <<220>>
  /\ UNCHANGED <<n, srv, link, good, asked>>

Start ==
  /\ n < MaxOps
  /\ s.control_state = "LOGGED"
  /\ \E op \in Ops, pcb \in BOOLEAN :
       LET t == IF op \in TransferOps THEN lwftp_transfer(Quiet(s), op, TRUE, pcb)
                                      ELSE lwftp_command(Quiet(s), op, TRUE)
           id == IF t.op = None THEN n ELSE n + 1
       IN  Finish(t, id) /\ n' = id
  /\ UNCHANGED <<down, srv, link, good, asked>>

Close ==
  /\ s.control_state \notin {"CLOSED", "QUIT_SENT"}
  /\ Finish(lwftp_close(Quiet(s)), n)
  /\ asked' = TRUE
  /\ UNCHANGED <<n, down, srv, link, good>>

-----------------------------------------------------------------------------
(* TCP: callbacks on the control pcb.                                        *)
ControlConnected ==
  /\ s.control_pcb = "SYN_SENT"
  /\ \/ Finish(lwftp_control_connected(Quiet(s)), n) /\ UNCHANGED down
     \/ Finish(lwftp_control_err(Quiet(s)), n) /\ down' = <<>>
  /\ UNCHANGED <<n, srv, link, good, asked>>

(* k replies arrive in one pbuf; strtoul reads the number of the first.      *)
Deliver(k) ==
  /\ s.control_pcb = "ESTABLISHED" /\ Len(down) >= k
  /\ \A i \in 1..k : down[i] # 0
  /\ \E opened \in BOOLEAN :
       LET t == lwftp_control_process(Quiet(s), Head(down), opened, link.src > 0)
       IN  /\ Finish(t, n)
           /\ down' = IF t.control_pcb = NULL THEN <<>> ELSE SubSeq(down, k + 1, Len(down))
           /\ link' = IF s.control_state = "STOR_SENT" /\ t.control_state = "XFERING"
                         /\ s.data_pcb # NULL
                      THEN NextBlock(link) ELSE link
  /\ UNCHANGED <<n, srv, good, asked>>

ControlReply == Deliver(1)
ControlReplies == "coalesce" \in faults /\ Deliver(2)

(* The server has closed the connection (0 stands for its FIN).              *)
ControlClosed ==
  /\ s.control_pcb = "ESTABLISHED" /\ down # <<>> /\ Head(down) = 0
  /\ Finish(lwftp_control_recv_null(Quiet(s)), n)
  /\ down' = <<>>
  /\ UNCHANGED <<n, srv, link, good, asked>>

ControlReset ==
  /\ "drop" \in faults /\ s.control_pcb = "ESTABLISHED"
  /\ Finish(lwftp_control_err(Quiet(s)), n)
  /\ down' = <<>> /\ srv' = NoTransfer
  /\ UNCHANGED <<n, link, good, asked>>

-----------------------------------------------------------------------------
(* TCP: callbacks on the data pcb.                                           *)
DataConnected ==
  /\ s.data_pcb = "SYN_SENT" /\ link.st = "listen"
  /\ Finish(lwftp_data_connected(Quiet(s)), n)
  /\ link' = [link EXCEPT !.st = "est"]
  /\ UNCHANGED <<n, down, srv, good, asked>>

DataBlock ==
  /\ s.data_pcb = "ESTABLISHED" /\ link.fly > 0
  /\ link' = [link EXCEPT !.fly = @ - 1, !.got = @ + 1]
  /\ UNCHANGED <<s, n, up, down, srv, good, last, asked>>

DataClosed ==
  /\ s.data_pcb = "ESTABLISHED" /\ link.fin /\ link.fly = 0
  /\ Finish(lwftp_data_recv_null(Quiet(s)), n)
  /\ UNCHANGED <<n, down, srv, link, good, asked>>

(* The server has a block; its acknowledgement asks for the next one.        *)
DataSent ==
  /\ s.data_pcb = "ESTABLISHED" /\ link.out /\ srv.doing = "STOR"
  /\ Finish(lwftp_data_sent(Quiet(s), link.src > 0), n)
  /\ link' = NextBlock([link EXCEPT !.stored = @ + 1])
  /\ UNCHANGED <<n, down, srv, good, asked>>

(* Mutant of DataErr: the error callback is set on a pcb not yet connecting. *)
DataErrEarly ==
  /\ "reset" \in faults
  /\ s.data_pcb # NULL
  /\ Finish(lwftp_data_err(Quiet(s)), n)
  /\ link' = [link EXCEPT !.st = "broken"]
  /\ UNCHANGED <<n, down, srv, good, asked>>

DataErr ==
  /\ "reset" \in faults
  /\ s.data_pcb \in {"SYN_SENT", "ESTABLISHED"}
  /\ Finish(lwftp_data_err(Quiet(s)), n)
  /\ link' = [link EXCEPT !.st = "broken"]
  /\ UNCHANGED <<n, down, srv, good, asked>>

-----------------------------------------------------------------------------
(* The server.                                                               *)
Accepted == [USER |-> 331, PASS |-> 230, TYPE |-> 200, PASV |-> 227, RETR |-> 150,
             STOR |-> 150, MLSD |-> 150, DELE |-> 250, RMD |-> 250, CWD |-> 250,
             PWD |-> 257, RNFR |-> 350, RNTO |-> 250, QUIT |-> 221]

(* All it says; a 0 stands for the end of its connection.                    *)
Replies == {Accepted[c] : c \in DOMAIN Accepted} \cup {220, 226, 421, 426, 550}

(* What it may answer with an error: QUIT never, operations and what comes   *)
(* before them each in their worlds.                                         *)
Rejects(cmd) == \/ cmd \in Ops \cup {"RNTO"} /\ "reject" \in faults
                \/ cmd \in {"USER", "PASS", "TYPE", "PASV"} /\ "refuse" \in faults

(* It takes a command once the previous transfer is over, and answers.       *)
ServerCommand ==
  /\ up # <<>> /\ s.control_pcb = "ESTABLISHED" /\ srv.doing = None
  /\ 0 \notin Range(down)
  /\ LET cmd == Head(up)[1]
         id  == Head(up)[2]
     IN  \/ /\ down' = down \o <<Accepted[cmd]>> \o (IF cmd = "QUIT" THEN <<0>> ELSE <<>>)
            /\ srv' = IF cmd \in TransferOps THEN [doing |-> cmd, id |-> id] ELSE srv
            /\ link' = CASE cmd = "PASV" -> [NoLink EXCEPT !.st = "listen"]
                         [] cmd \in {"RETR", "MLSD"} -> [link EXCEPT !.left = Blocks]
                         [] OTHER -> link
            /\ good' = IF cmd \in {"DELE", "RMD", "CWD", "PWD", "RNTO"}
                       THEN good \cup {id} ELSE good
         \/ /\ Rejects(cmd)
            /\ down' = Append(down, 550)
            /\ UNCHANGED <<srv, link, good>>
  /\ up' = Tail(up)
  /\ UNCHANGED <<s, n, last, asked>>

(* A server that refuses the session says so instead of 220, and closes.     *)
ServerRefuse ==
  /\ "refuse" \in faults /\ down = <<220>>
  /\ s.control_pcb = "SYN_SENT"
  /\ down' = <<421, 0>>
  /\ UNCHANGED <<s, n, up, srv, link, good, last, asked>>

ServerBlock ==
  /\ srv.doing \in {"RETR", "MLSD"} /\ link.st = "est" /\ link.left > 0
  /\ link' = [link EXCEPT !.left = @ - 1, !.fly = @ + 1]
  /\ UNCHANGED <<s, n, up, down, srv, good, last, asked>>

(* All sent and closed, or the client's end of file seen: the transfer is    *)
(* complete as far as the server can tell.                                   *)
ServerDone ==
  /\ \/ srv.doing \in {"RETR", "MLSD"} /\ link.st = "est" /\ link.left = 0
     \/ srv.doing = "STOR" /\ link.st = "est" /\ link.eof /\ ~link.out
  /\ down' = Append(down, 226)
  /\ srv' = NoTransfer
  /\ link' = [link EXCEPT !.fin = TRUE]
  /\ good' = good \cup {srv.id}
  /\ UNCHANGED <<s, n, up, last, asked>>

(* The data connection broke, or the client is not going to make it: 426.    *)
ServerAbort ==
  /\ srv.doing # None
  /\ \/ link.st = "broken"
     \/ s.data_pcb \notin {"SYN_SENT", "ESTABLISHED"} /\ ~link.eof
  /\ down' = Append(down, 426)
  /\ srv' = NoTransfer
  /\ UNCHANGED <<s, n, up, link, good, last, asked>>

-----------------------------------------------------------------------------
Client == \/ Connect \/ Start \/ Close
Network == \/ ControlConnected \/ ControlReply \/ ControlReplies \/ ControlClosed \/ ControlReset
           \/ DataConnected \/ DataBlock \/ DataClosed \/ DataSent \/ DataErr
Server == \/ ServerCommand \/ ServerRefuse \/ ServerBlock \/ ServerDone \/ ServerAbort

Next == (Client \/ Network \/ Server) /\ UNCHANGED faults

(* TCP delivers and the server answers; nobody has to start or close.        *)
Fairness == /\ WF_state(ControlConnected) /\ WF_state(ControlReply) /\ WF_state(ControlClosed)
            /\ WF_state(DataConnected) /\ WF_state(DataBlock) /\ WF_state(DataClosed)
            /\ WF_state(DataSent) /\ WF_state(ServerCommand) /\ WF_state(ServerBlock)
            /\ WF_state(ServerDone) /\ WF_state(ServerAbort)

Spec == Init /\ [][Next]_vars /\ Fairness
-----------------------------------------------------------------------------
(* Properties.                                                               *)

(* Types of the variables.                                                   *)
TypeOK ==
  /\ s \in Sessions /\ n \in 0..MaxOps
  /\ up \in Seq(Commands \X (0..MaxOps)) /\ down \in Seq(Nat)
  /\ srv \in [doing : TransferOps \cup {None}, id : 0..MaxOps]
  /\ link \in [st : {"none", "listen", "est", "broken"}, left : 0..Blocks, fly : 0..Blocks,
               fin : BOOLEAN, got : 0..Blocks, src : 0..Blocks, out : BOOLEAN,
               eof : BOOLEAN, stored : 0..Blocks]
  /\ good \subseteq 0..MaxOps /\ asked \in BOOLEAN

(* Connections that do not fail, every command sent, a reply in every pbuf.  *)
Steady == faults \cap {"reset", "drop", "coalesce", "unsent"} = {}

(* The caller can believe what done_fn is told: an operation of a session    *)
(* that the caller has not closed is reported OK exactly if the server has   *)
(* carried it out (second switch of lwftp_control_process).                  *)
HonestResult ==
  Steady /\ last.op # None /\ ~last.asked /\ last.result \notin {"INPROGRESS", "LOGGED"} =>
     (last.result = "OK" <=> last.id \in good)

(* Replies stay in step with commands: a session that is LOGGED, and so free *)
(* to send the next command, has no command or reply under way that the next *)
(* operation would take for its own.                                         *)
ReplyInStep ==
  Steady /\ s.control_state = "LOGGED" => up = <<>> /\ down = <<>> /\ srv.doing = None

(* A file reported as stored has arrived whole at the server: data_source    *)
(* is drained before lwftp_send_next_data closes the connection.  A file or   *)
(* listing reported as received is whole but for the blocks the 226 has       *)
(* overtaken: lwftp_data_close, called on 226, drops what is under way and    *)
(* nothing else.                                                             *)
TransfersWhole ==
  Steady /\ last.result = "OK" /\ ~last.asked =>
    /\ last.op = "STOR" => last.stored = Blocks
    /\ last.op \in {"RETR", "MLSD"} => last.got + last.fly = Blocks

(* With all its types, a session never gives tcp_write, or the read of mss    *)
(* before it, a pcb that is not there, as long as the data connection does    *)
(* not fail before the reply to STOR.                                        *)
NoNullPcb == TypeOK /\ ("reset" \notin faults => ~s.wild)

(* Every accepted call gets its final result, whatever the server refuses    *)
(* and whichever connection fails, unless a reply shares its pbuf with       *)
(* another or tcp_write refuses a command.  Nothing times out, so then a     *)
(* call may wait for ever; it does so only with nothing under way in either  *)
(* direction and, if commands are sent, only in XFERING: the last reply of a *)
(* transfer is the one that can be lost.                                     *)
Silent == up = <<>> /\ down = <<>> /\ srv.doing = None
Answered ==
  /\ faults \cap {"coalesce", "unsent"} = {} => (s.op # None ~> s.op = None)
  /\ <>[](s.op # None) =>
       <>[](Silent /\ (s.control_state = "XFERING" \/ "unsent" \in faults))

(* This client and server are one of the clients and networks LwFtpClient    *)
(* allows, so what is proved there holds here.                               *)
Library == INSTANCE LwFtpClient WITH Responses <- Replies
IsClient == Library!Spec
=============================================================================
