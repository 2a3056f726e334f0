------------------------------- MODULE FtpApp -------------------------------
(***************************************************************************)
(* The program around lwftp.c: the callbacks of src/src/ftp.c, the          *)
(* operations of src/src/utility.c and the main loop of src/src/main.c,     *)
(* with an FTP server that has a working directory and files.               *)
(*                                                                         *)
(* app.path is a C string that is only ever extended by '/' and a name, cut *)
(* at its last '/', cleared, or set to what PWD returned.  Here it is the   *)
(* sequence of what follows each '/':  "" is <<>>,  "/" is <<"">>,  "/a/b"  *)
(* is <<"a", "b">> and "//d" is <<"", "d">>.  remote_path points to it, so a*)
(* command carries the value the path has when the command is written.      *)
(*                                                                         *)
(* The server and the connections are external.  faults says what may go    *)
(* wrong in a behaviour:                                                    *)
(*   reject   the server refuses an operation's command                     *)
(*   refuse   ... or a command of the login or of a transfer's preparation  *)
(*   drop     the control connection fails                                  *)
(*   data     a data connection fails                                       *)
(*   nomem    tcp_new finds no memory                                       *)
(*   coalesce two replies arrive in one pbuf                                *)
(*   unsent   tcp_write refuses a command                                   *)
(*   long     the server has a file whose name the listing cuts             *)
(*   clear    the user presses Clear while a file is transferred            *)
(*   cancel   the user leaves the input of a new name empty                 *)
(***************************************************************************)
EXTENDS LwFtp, SequencesExt

CONSTANTS Home,      \* the server's working directory after login
          Worlds,    \* the fault sets behaviours are drawn from, see above
          MaxOps     \* bound on the operations the user starts

FaultKinds == {"reject", "refuse", "drop", "data", "nomem", "coalesce", "unsent", "long",
               "clear", "cancel"}

ASSUME AppAssumption ==
  Home \in Seq(STRING) /\ Worlds \subseteq SUBSET FaultKinds /\ MaxOps \in Nat

VARIABLES
  faults,   \* what may go wrong in this behaviour; it does not change
  s,        \* the session
  a,        \* struct app_t, and s->done_fn
  where,    \* where main() is
  n,        \* operations the user has started
  up,       \* commands on their way to the server: <<command, path>>
  down,     \* replies on their way back: <<number, directory>>
  srv,      \* the server: [cwd, files, doing, path, moved]
  want      \* history: the file the user's last operation was about

state == <<s, a, where, n, up, down, srv, want>>
vars == <<faults, state>>

(* The server's directories: the login directory and one below it.          *)
Dirs == {<<>>, Home, Append(Home, "d")}

(* What ftp_AddRemoteFile keeps of a file's name: at most 8 characters, none *)
(* after the first '.'.  The operations put ".8xp" or ".8xv" after them      *)
(* again, so a name stands here for the characters and the extension: "f" is *)
(* one that comes back whole, "f1" a longer one, or one with another '.',    *)
(* that begins with it.                                                      *)
Kept(name) == IF name = "f1" THEN "f" ELSE name

(* The lines of a listing; of is the name on the server, which the program   *)
(* does not remember.                                                        *)
Entries(dir, files) ==
  {[type |-> "file", name |-> Kept(Last(f)), of |-> Last(f)] :
     f \in {g \in files : Front(g) = dir}} \cup
  {[type |-> "dir", name |-> Last(d), of |-> Last(d)] :
     d \in {e \in Dirs \ {<<>>} : Front(e) = dir}}

(* How a server reads a path: empty names, as in "//d", count for nothing.  *)
(* An empty path is the working directory.                                  *)
Resolve(path) ==
  IF \E i \in 1..Len(path) : path[i] = "" THEN SelectSeq(path, LAMBDA c : c # "") ELSE path
Target(path) == IF path = <<>> THEN srv.cwd ELSE Resolve(path)

FreshApp == [busy |-> FALSE, ftpStarted |-> FALSE, ftpResult |-> "INPROGRESS",
             done_fn |-> "Connect", path |-> <<>>, dir |-> 0,
             list |-> {}, shown |-> <<>>, wild |-> FALSE]

Init == /\ faults \in Worlds
        /\ s = FreshSession /\ a = FreshApp /\ where = "start" /\ n = 0
        /\ up = <<>> /\ down = <<>>
        /\ srv = [cwd |-> Home,
                  files |-> {Append(Home, "f"), Home \o <<"d", "f">>} \cup
                            (IF "long" \in faults THEN {Append(Home, "f1")} ELSE {}),
                  doing |-> None, path |-> <<>>, moved |-> FALSE]
        /\ want = <<>>

-----------------------------------------------------------------------------
(* Callbacks and operations, on a world w = [s |-> session, a |-> app].      *)

Push(b, name) == [b EXCEPT !.path = Append(@, name)]
(* *strrchr(app.path, '/') = '\0', which writes through NULL if no '/' is    *)
(* left.                                                                     *)
Pop(b) == IF b.path = <<>> THEN [b EXCEPT !.wild = TRUE]
                           ELSE [b EXCEPT !.path = Front(@)]

(* Mutant of Fail: forgets to clear busy.                                    *)
FailsBusy(w, result) ==
  [s |-> w.s, a |-> [w.a EXCEPT !.ftpResult = result]]

(* The branch of every callback for a result that is not its success.        *)
Fail(w, result) ==
  LET b == IF w.a.done_fn = "Stor" THEN Pop(w.a) ELSE w.a
  IN  [s |-> IF w.a.done_fn = "Connect" THEN lwftp_close(w.s) ELSE w.s,
       a |-> [b EXCEPT !.ftpResult = result, !.busy = FALSE]]

(* An API function left the session t and passes its return value to done_fn.*)
Issue(w, t) ==
  LET v == [w EXCEPT !.s = t]
      retval == Last(t.done)
  IN  IF retval = "INPROGRESS" THEN v ELSE Fail(v, retval)

(* Mutant of util_GetDir: the callback of the listing stays installed.       *)
KeepsListCallback(w) ==
  Issue([w EXCEPT !.a.busy = TRUE, !.a.path = <<>>], lwftp_command(w.s, "PWD", TRUE))

util_GetRemoteFiles(w, pcb) ==
  Issue([w EXCEPT !.a = [@ EXCEPT !.busy = TRUE, !.done_fn = "List", !.list = {}]],
        lwftp_transfer(w.s, "MLSD", TRUE, pcb))

util_GetDir(w) ==
  Issue([w EXCEPT !.a = [@ EXCEPT !.busy = TRUE, !.done_fn = "Pwd", !.path = <<>>]],
        lwftp_command(w.s, "PWD", TRUE))

ftp_ConnectCallback(w, result, pcb) ==
  IF result # "LOGGED" THEN Fail(w, result)
  ELSE util_GetRemoteFiles([w EXCEPT !.a.ftpStarted = TRUE], pcb)

ftp_ListCallback(w, result) ==
  IF result # "OK" THEN Fail(w, result) ELSE util_GetDir(w)

(* Mutant of ftp_PwdCallback: clears busy only on failure.                   *)
StaysBusy(w, result) == IF result # "OK" THEN Fail(w, result) ELSE w

ftp_PwdCallback(w, result) ==
  IF result # "OK" THEN Fail(w, result) ELSE [w EXCEPT !.a.busy = FALSE]

ftp_CwdCallback(w, result, pcb) ==
  IF result # "OK" THEN Fail(w, result) ELSE util_GetRemoteFiles(w, pcb)

(* Mutant of ftp_DelCallback: does not take the file's name off the path.    *)
KeepsDeletedName(w, result, pcb) ==
  IF result # "OK" THEN Fail(w, result) ELSE util_GetRemoteFiles(w, pcb)

(* Also ftp_MoveCallback, whose changes to the cursor are in Browser.        *)
ftp_DelCallback(w, result, pcb) ==
  IF result # "OK" THEN Fail(w, result)
  ELSE util_GetRemoteFiles([w EXCEPT !.a = Pop(w.a)], pcb)

ftp_StorCallback(w, result, pcb) ==
  IF result # "OK" THEN Fail(w, result)
  ELSE util_GetRemoteFiles([w EXCEPT !.a = Pop(w.a)], pcb)

(* What a completed download leaves on the calculator is in VarFile.         *)
ftp_RetrCallback(w, result) ==
  IF result # "OK" THEN Fail(w, result) ELSE [w EXCEPT !.a.busy = FALSE]

Callback(w, result, pcb) ==
  LET fn == w.a.done_fn
  IN  CASE fn = NULL \/ result = "INPROGRESS" -> w
        [] fn = "Connect"           -> ftp_ConnectCallback(w, result, pcb)
        [] fn = "List"              -> ftp_ListCallback(w, result)
        [] fn = "Pwd"               -> ftp_PwdCallback(w, result)
        [] fn = "Cwd"               -> ftp_CwdCallback(w, result, pcb)
        [] fn \in {"Del", "Move"}   -> ftp_DelCallback(w, result, pcb)
        [] fn = "Stor"              -> ftp_StorCallback(w, result, pcb)
        [] fn = "Retr"              -> ftp_RetrCallback(w, result)

(* Commands that carry remote_path (RNTO: remote_new_path).                  *)
PathCommands == {"RETR", "STOR", "MLSD", "DELE", "CWD", "RNFR"}
NewName == <<"m">>
Written(w) ==
  [i \in 1..Len(w.s.sent) |->
     <<w.s.sent[i], IF w.s.sent[i] \in PathCommands THEN w.a.path
                    ELSE IF w.s.sent[i] = "RNTO" THEN NewName ELSE <<>> >>]

(* The program goes on with the world w: what it wrote is under way, unless  *)
(* tcp_write refused it.                                                     *)
Go(w) ==
  /\ s' = w.s /\ a' = w.a
  /\ IF w.s.control_pcb = NULL THEN up' = <<>>
     ELSE \/ up' = up \o Written(w)
          \/ "unsent" \in faults /\ up' = up

Memory == IF "nomem" \in faults THEN BOOLEAN ELSE {TRUE}

(* A handler of lwftp.c left the session t, the sink the app b; then done_fn *)
(* is called with what the handler reported.                                 *)
Handler(t, b) ==
  LET w == [s |-> t, a |-> b]
  IN  \E pcb \in Memory :
        Go(IF t.done = <<>> THEN w ELSE Callback(w, Last(t.done), pcb))

-----------------------------------------------------------------------------
(* main(): connecting, and the loop that waits for the login.                *)
Connect ==
  /\ where = "start"
  /\ \E pcb, link \in Memory :
       LET t == lwftp_connect(Quiet(s), TRUE, pcb, link)
           w == Issue([s |-> s, a |-> a], t)
       IN  /\ Go(w)
           /\ where' = IF Last(t.done) = "INPROGRESS" THEN "login" ELSE "exit"
           /\ down' = IF w.s.control_pcb = NULL THEN <<>> ELSE <<<<220, <<>>>>>>
  /\ UNCHANGED <<n, srv, want>>

LoginOver ==
  /\ where = "login"
  /\ a.ftpStarted \/ a.ftpResult # "INPROGRESS"
  /\ where' = IF a.ftpStarted THEN "main" ELSE "exit"
  /\ UNCHANGED <<s, a, n, up, down, srv, want>>

(* main(): the keys that start an operation.                                 *)
Idle == where = "main" /\ a.ftpStarted /\ ~a.busy

(* util_ChangeDir, called with the new path in place; dir is changed after.  *)
util_ChangeDir(b, dir) ==
  LET w == Issue([s |-> s, a |-> [b EXCEPT !.busy = TRUE, !.done_fn = "Cwd"]],
                 lwftp_command(Quiet(s), "CWD", TRUE))
  IN  /\ Go([w EXCEPT !.a.dir = dir])
      /\ n < MaxOps /\ n' = n + 1
      /\ UNCHANGED <<where, down, srv, want>>

Key2nd ==
  /\ Idle
  /\ \E e \in a.list : e.type = "dir" /\ util_ChangeDir(Push(a, e.name), a.dir + 1)

(* Mutant of KeyYequ: goes back above the directory of the login.            *)
BackAnywhere == Idle /\ util_ChangeDir(Pop(a), a.dir - 1)

KeyYequ == Idle /\ a.dir > 0 /\ util_ChangeDir(Pop(a), a.dir - 1)

(* An operation on the file called of, in the list called name; t is what    *)
(* the key's function makes of the session.                                  *)
Operate(name, of, fn, t, next) ==
  /\ Idle /\ n < MaxOps /\ n' = n + 1
  /\ Go(Issue([s |-> s, a |-> [Push(a, name) EXCEPT !.busy = TRUE, !.done_fn = fn]], t))
  /\ where' = next
  /\ want' = Append(a.shown, of)
  /\ UNCHANGED <<down, srv>>

Selected == {e \in a.list : e.type = "file"}

util_UploadFile ==
  \E pcb \in Memory :
    Operate("u", "u", "Stor", lwftp_transfer(Quiet(s), "STOR", TRUE, pcb), "upload")

util_DeleteFile ==
  \E e \in Selected : Operate(e.name, e.of, "Del", lwftp_command(Quiet(s), "DELE", TRUE), "main")

(* A directory is not excluded: its name, with ".8xp" added, is no file's.   *)
Extended(e, name) == IF e.type = "file" THEN name ELSE "d.8xp"
util_DownloadFile ==
  \E e \in a.list, pcb \in Memory :
    Operate(Extended(e, e.name), Extended(e, e.of), "Retr",
            lwftp_transfer(Quiet(s), "RETR", TRUE, pcb), "download")

(* util_MoveFile, up to the input of the new name ...                        *)
util_MoveFile ==
  /\ Idle /\ n < MaxOps /\ n' = n + 1
  /\ \E e \in Selected : a' = Push(a, e.name) /\ want' = Append(a.shown, e.of)
  /\ where' = "input"
  /\ UNCHANGED <<s, up, down, srv>>

(* ... and after it.  The network is served in between.  The return value of *)
(* menu_StringInput is ignored: with Clear too the text typed so far counts. *)
InputDone ==
  /\ where = "input" /\ where' = "main"
  /\ Go(Issue([s |-> s, a |-> [a EXCEPT !.busy = TRUE, !.done_fn = "Move"]],
              lwftp_command(Quiet(s), "RNFR", TRUE)))
  /\ UNCHANGED <<n, down, srv, want>>

InputEmpty ==
  /\ "cancel" \in faults
  /\ where = "input" /\ where' = "main"
  /\ UNCHANGED <<s, a, n, up, down, srv, want>>

(* The loops at the end of util_UploadFile and util_DownloadFile.            *)
UploadOver ==
  /\ where = "upload" /\ (~a.busy \/ "clear" \in faults)
  /\ where' = "main"
  /\ UNCHANGED <<s, a, n, up, down, srv, want>>

(* Mutant of DownloadOver: leaves the file's name on the path.               *)
KeepsLoadedName ==
  /\ where = "download" /\ (~a.busy \/ "clear" \in faults)
  /\ where' = "main"
  /\ a' = [a EXCEPT !.done_fn = NULL]
  /\ UNCHANGED <<s, n, up, down, srv, want>>

DownloadOver ==
  /\ where = "download" /\ (~a.busy \/ "clear" \in faults)
  /\ where' = "main"
  /\ a' = [Pop(a) EXCEPT !.done_fn = NULL]
  /\ UNCHANGED <<s, n, up, down, srv, want>>

(* Mutant of KeyClear: throws the session away instead of closing it.        *)
Forgets ==
  /\ where = "main" /\ where' = "quit"
  /\ Go([s |-> FreshSession, a |-> a])
  /\ UNCHANGED <<n, down, srv, want>>

(* Clear in the main loop, and the second main() waits for the session.      *)
KeyClear ==
  /\ where = "main" /\ where' = "quit"
  /\ Go([s |-> lwftp_close(Quiet(s)), a |-> a])
  /\ UNCHANGED <<n, down, srv, want>>

Exit ==
  /\ where = "quit" /\ where' = "exit"
  /\ UNCHANGED <<s, a, n, up, down, srv, want>>

-----------------------------------------------------------------------------
(* util_ServiceNetwork: callbacks of the two connections.                    *)
Served == where \notin {"start", "exit"}

ControlConnected ==
  /\ Served /\ s.control_pcb = "SYN_SENT"
  /\ \/ Handler(lwftp_control_connected(Quiet(s)), a) /\ UNCHANGED down
     \/ "drop" \in faults /\ Handler(lwftp_control_err(Quiet(s)), a) /\ down' = <<>>
  /\ UNCHANGED <<where, n, srv, want>>

(* A pbuf with a reply, or with two: lwftp_control_process reads the number  *)
(* at its beginning and frees it.  257 goes through ftp_PwdDataSink first.   *)
(* The data pcb connects.                                                    *)
Pbuf == IF "coalesce" \in faults THEN {1, 2} ELSE {1}
ControlReply ==
  /\ Served /\ s.control_pcb = "ESTABLISHED" /\ down # <<>>
  /\ LET response == Head(down)[1]
         b == IF s.control_state = "PWD_SENT" /\ response = 257
              THEN [a EXCEPT !.path = Head(down)[2]] ELSE a
     IN  \E opened \in IF "data" \in faults THEN BOOLEAN ELSE {TRUE}, k \in Pbuf :
           LET t == lwftp_control_process(Quiet(s), response, opened, TRUE)
           IN  /\ k <= Len(down)
               /\ Handler(t, b)
               /\ down' = IF t.control_pcb = NULL THEN <<>>
                          ELSE IF k = 2 THEN Tail(Tail(down)) ELSE Tail(down)
  /\ UNCHANGED <<where, n, srv, want>>

ControlDrop ==
  /\ "drop" \in faults
  /\ Served /\ s.control_pcb = "ESTABLISHED"
  /\ Handler(lwftp_control_err(Quiet(s)), a)
  /\ down' = <<>> /\ srv' = [srv EXCEPT !.doing = None]
  /\ UNCHANGED <<where, n, want>>

(* The data connection opens and all of the file or listing passes over it;  *)
(* a listing goes to ftp_ListDataSink.  What the server sends may also come   *)
(* before its 150, which then meets the 226.                                 *)
DataTransfer ==
  /\ Served /\ s.data_pcb = "SYN_SENT"
  /\ s.control_state = "XFERING" \/ ("coalesce" \in faults /\ srv.doing # "STOR")
  /\ srv.doing # None /\ ~srv.moved
  /\ Handler(lwftp_data_connected(Quiet(s)),
             IF srv.doing = "MLSD"
             THEN [a EXCEPT !.list = Entries(srv.path, srv.files), !.shown = srv.path]
             ELSE a)
  /\ srv' = [srv EXCEPT !.moved = TRUE]
  /\ UNCHANGED <<where, n, down, want>>

DataErr ==
  /\ "data" \in faults
  /\ Served /\ s.data_pcb \in {"SYN_SENT", "ESTABLISHED"}
  /\ Handler(lwftp_data_err(Quiet(s)), a)
  /\ UNCHANGED <<where, n, down, srv, want>>

-----------------------------------------------------------------------------
(* The server, and the codes of its replies.                                 *)
Codes == {150, 200, 220, 221, 226, 227, 230, 250, 257, 331, 350, 426, 550}
Reply(code, dir) == down' = Append(down, <<code, dir>>)

Simple == [USER |-> 331, PASS |-> 230, TYPE |-> 200, PASV |-> 227, QUIT |-> 221]

(* Carrying out a command whose path is fine, or one without a path; the     *)
(* server knows no command but the ones this program uses.                   *)
Possible(cmd, path) ==
  CASE cmd \in {"RETR", "DELE", "RNFR"} -> Resolve(path) \in srv.files
    [] cmd = "STOR"                     -> Front(Resolve(path)) \in Dirs
    [] cmd = "MLSD"                     -> Target(path) \in Dirs
    [] cmd = "CWD"                      -> path # <<>> /\ Resolve(path) \in Dirs
    [] OTHER                            -> cmd \notin {"RMD", "PATH"}

Perform(cmd, path) ==
  CASE cmd \in DOMAIN Simple -> Reply(Simple[cmd], <<>>) /\ UNCHANGED srv
    [] cmd \in TransferOps -> /\ Reply(150, <<>>)
                              /\ srv' = [srv EXCEPT !.doing = cmd, !.path = Target(path),
                                                    !.moved = FALSE]
    [] cmd = "DELE" -> /\ Reply(250, <<>>)
                       /\ srv' = [srv EXCEPT !.files = @ \ {Resolve(path)}]
    [] cmd = "CWD"  -> Reply(250, <<>>) /\ srv' = [srv EXCEPT !.cwd = Resolve(path)]
    [] cmd = "PWD"  -> /\ Reply(257, IF srv.cwd = <<>> THEN <<"">> ELSE srv.cwd)
                       /\ UNCHANGED srv
    [] cmd = "RNFR" -> Reply(350, <<>>) /\ srv' = [srv EXCEPT !.path = Resolve(path)]
    [] cmd = "RNTO" -> /\ Reply(250, <<>>)
                       /\ srv' = [srv EXCEPT !.files = (@ \ {srv.path}) \cup {srv.cwd \o path}]

Refusable(cmd) == \/ cmd \in Ops \cup {"RNTO"} /\ "reject" \in faults
                  \/ cmd \in DOMAIN Simple \ {"QUIT"} /\ "refuse" \in faults

ServerCommand ==
  /\ up # <<>> /\ srv.doing = None /\ s.control_pcb = "ESTABLISHED"
  /\ LET cmd == Head(up)[1]
         path == Head(up)[2]
     IN  \/ Possible(cmd, path) /\ Perform(cmd, path)
         \/ (Refusable(cmd) \/ ~Possible(cmd, path)) /\ Reply(550, <<>>) /\ UNCHANGED srv
  /\ up' = Tail(up)
  /\ UNCHANGED <<s, a, where, n, want>>

ServerDone ==
  /\ srv.doing # None /\ s.control_pcb # NULL
  /\ \/ srv.moved /\ Reply(226, <<>>)
        /\ srv' = [srv EXCEPT !.doing = None,
                              !.files = IF srv.doing = "STOR" THEN @ \cup {srv.path} ELSE @]
     \/ s.data_pcb = NULL /\ ~srv.moved /\ Reply(426, <<>>)
        /\ srv' = [srv EXCEPT !.doing = None]
  /\ UNCHANGED <<s, a, where, n, up, want>>

-----------------------------------------------------------------------------
User == \/ Key2nd \/ KeyYequ \/ util_UploadFile \/ util_DeleteFile \/ util_DownloadFile
        \/ util_MoveFile \/ InputDone \/ InputEmpty \/ KeyClear
Main == Connect \/ LoginOver \/ UploadOver \/ DownloadOver \/ Exit
Network == \/ ControlConnected \/ ControlReply \/ ControlDrop \/ DataTransfer \/ DataErr
Server == ServerCommand \/ ServerDone

Next == (User \/ Main \/ Network \/ Server) /\ UNCHANGED faults

(* The loops of main() go on, TCP delivers and the server answers; the user  *)
(* need not press a key, except to end the input of a name.                  *)
Fairness == /\ WF_state(Connect) /\ WF_state(LoginOver) /\ WF_state(InputDone \/ InputEmpty)
            /\ WF_state(UploadOver) /\ WF_state(DownloadOver)
            /\ WF_state(ControlConnected) /\ WF_state(ControlReply) /\ WF_state(DataTransfer)
            /\ WF_state(Server)

Spec == Init /\ [][Next]_vars /\ Fairness

-----------------------------------------------------------------------------
(* Properties.                                                               *)

DoneFns == {NULL, "Connect", "List", "Pwd", "Cwd", "Del", "Move", "Stor", "Retr"}

(* Types of the program's state.                                             *)
TypeOK ==
  /\ s \in Sessions
  /\ a.busy \in BOOLEAN /\ a.ftpStarted \in BOOLEAN /\ a.ftpResult \in Results
  /\ a.done_fn \in DoneFns /\ a.dir \in Nat /\ a.wild \in BOOLEAN
  /\ where \in {"start", "login", "main", "upload", "download", "input", "quit", "exit"}
  /\ n \in 0..MaxOps

(* busy tells the main loop the truth: once logged in, when it lets a key    *)
(* start an operation, the session owes no result for an earlier one.  And   *)
(* nothing is busy for nothing: as long as a callback is installed, busy     *)
(* means that lwftp.c still owes a result, whose callback clears busy or     *)
(* starts the next step.                                                     *)
BusyIsOwed ==
  /\ a.ftpStarted /\ ~a.busy => s.op = None
  /\ a.busy /\ a.done_fn # NULL => s.op # None

(* A result reaches the callback of the operation it is about: while an      *)
(* operation is owed, done_fn is the callback util_* installed for it.       *)
CallbackOf == [CONNECT |-> "Connect", MLSD |-> "List", PWD |-> "Pwd", CWD |-> "Cwd",
               DELE |-> "Del", RNFR |-> "Move", STOR |-> "Stor", RETR |-> "Retr"]
CallbackMatches ==
  s.op # None /\ a.done_fn # NULL => a.done_fn = CallbackOf[s.op]

(* When the main loop accepts keys, app.path names the server's working      *)
(* directory, the listing shown is of that directory, and app.dir, which says *)
(* how often "back" is possible, counts the directories below the one of the  *)
(* login: unless one of the operations before failed on the way and left its  *)
(* name on the path.                                                         *)
PathKept == faults \subseteq {"refuse", "drop"}
Ready == Idle /\ s.control_state = "LOGGED"
PathInSync ==
  PathKept /\ Ready =>
    /\ a.path # <<>> /\ Resolve(a.path) = srv.cwd
    /\ a.shown = srv.cwd
    /\ a.dir = Len(srv.cwd) - Len(Home)

(* A file command names the file the user selected in the listing shown ...  *)
SelectedFile ==
  \A i \in 1..Len(up) :
    up[i][1] \in {"RETR", "STOR", "DELE", "RNFR"} => Resolve(up[i][2]) = want

(* ... as long as no operation before failed and left its name on the path,  *)
(* and the listing keeps every name whole.                                   *)
TargetsSelected == PathKept => SelectedFile

(* An operation that made the program busy ends, and keys work again, unless *)
(* the user leaves the program first: as long as commands are written and    *)
(* replies come one by one.  Otherwise the program may stay busy, as nothing *)
(* times out, but only in a session with nothing under way: one that waits   *)
(* for the end of a transfer, whose 226 was lost, or for the answer to a     *)
(* command that was not sent.                                                *)
Leaving == where \in {"quit", "exit"}
Stuck == /\ up = <<>> /\ down = <<>> /\ srv.doing = None
         /\ \/ "coalesce" \in faults /\ s.control_state = "XFERING"
            \/ "unsent" \in faults /\ s.control_state # "XFERING"
BusyEnds == faults \cap {"clear", "data"} = {} =>
              (<>[](a.busy /\ ~Leaving) => <>[]Stuck)

(* All variables have their types, and strrchr finds the '/' that every cut   *)
(* of app.path relies on.                                                    *)
NoNullStrip == TypeOK /\ (faults \subseteq {"clear", "cancel"} => ~a.wild)

(* The program is one of the callers that LwFtpClient allows, so what is     *)
(* proved there of lwftp.c holds in the program.                             *)
Library == INSTANCE LwFtpClient WITH Responses <- Codes
IsClient == Library!Spec
=============================================================================
