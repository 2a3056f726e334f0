------------------------------ MODULE Browser ------------------------------
(***************************************************************************)
(* The two columns of files and their cursors: the arrow keys of            *)
(* src/src/main.c and every change the operations of src/src/utility.c and  *)
(* the callbacks of src/src/ftp.c make to selected, start and total.        *)
(*                                                                         *)
(* Column 0 holds the local files, column 1 the remote ones.  Only numbers  *)
(* of files matter here.  unsigned int has Word values (2^24 on the eZ80).  *)
(* Keys come at any time the main loop runs, columns may be empty, listings *)
(* may break off and be shorter than the one before: others use the server  *)
(* too.                                                                     *)
(***************************************************************************)
EXTENDS Integers

CONSTANTS Shown,        \* MAX_SHOWN_FILES
          Listed,       \* MAX_REMOTE_FILES
          Word,
          MaxLocal,     \* bound on the files of the calculator
          MaxRemote     \* bound on the files of a directory of the server

Operations == {"chdir", "upload", "download", "delete", "move"}

ASSUME BrowserAssumption ==
  /\ Shown \in Nat \ {0} /\ Listed \in Nat \ {0} /\ MaxLocal \in Nat /\ MaxRemote \in Nat
  /\ Word \in Nat \ {0, 1} /\ MaxLocal < Word /\ Listed < Word

VARIABLES
  app,      \* [remoteColumn, start, selected, total, busy]
  held,     \* entries that LOCAL_FILES and REMOTE_FILES hold
  doing,    \* the operation under way, "list" while a listing arrives
  left,     \* files of the listing still to arrive
  loop,     \* in the loop at the end of util_UploadFile or util_DownloadFile
  astray,   \* history: columns in which something below led the cursor astray
  removed   \* history: columns a file was taken off, since the last time at the top

vars == <<app, held, doing, left, loop, astray, removed>>

Columns == {0, 1}
Least(k) == IF k < Listed THEN k ELSE Listed

Init ==
  /\ \E k \in 0..MaxLocal : held = [c \in Columns |-> IF c = 0 THEN k ELSE 0]
  /\ app = [remoteColumn |-> 0, start |-> [c \in Columns |-> 0],
            selected |-> [c \in Columns |-> 0], total |-> held, busy |-> TRUE]
  /\ doing = "list" /\ left \in 0..MaxRemote /\ loop = FALSE
  /\ astray = {} /\ removed = {}

-----------------------------------------------------------------------------
(* The arrow keys, on the column c with the cursor.                          *)

(* Mutant of Up: the wrap forgets to scroll.                                 *)
WrapsUnscrolled(b, c) ==
  IF b.selected[c] # 0
  THEN LET sel == b.selected[c] - 1
       IN  [b EXCEPT !.selected[c] = sel, !.start[c] = IF sel < @ THEN @ - 1 ELSE @]
  ELSE [b EXCEPT !.selected[c] = (b.total[c] - 1) % Word]

Up(b, c) ==
  IF b.selected[c] # 0
  THEN LET sel == b.selected[c] - 1
       IN  [b EXCEPT !.selected[c] = sel,
                     !.start[c] = IF sel < @ THEN @ - 1 ELSE @]
  ELSE [b EXCEPT !.selected[c] = (b.total[c] - 1) % Word,
                 !.start[c] = IF b.total[c] > Shown THEN b.total[c] - Shown ELSE @]

Down(b, c) ==
  IF b.selected[c] # (b.total[c] - 1) % Word
  THEN LET sel == (b.selected[c] + 1) % Word
       IN  [b EXCEPT !.selected[c] = sel,
                     !.start[c] = IF sel > @ + Shown - 1 THEN @ + 1 ELSE @]
  ELSE [b EXCEPT !.selected[c] = 0, !.start[c] = 0]

(* A key of the main loop, which is not reached from the two wait loops.     *)
Key(b, lost) ==
  /\ ~loop
  /\ app' = b /\ astray' = astray \cup lost
  /\ UNCHANGED <<held, doing, left, loop, removed>>

(* total of the column with the cursor is not that of a list: it is empty,   *)
(* or still arrives.  The keys do not ask.                                   *)
Unlisted == LET c == app.remoteColumn
            IN  IF app.total[c] = 0 \/ (c = 1 /\ doing = "list") THEN {c} ELSE {}

KeyLeftRight == Key([app EXCEPT !.remoteColumn = 1 - @], {})
KeyUp == Key(Up(app, app.remoteColumn), Unlisted)
KeyDown == Key(Down(app, app.remoteColumn), Unlisted)

-----------------------------------------------------------------------------
(* The operations.                                                           *)

(* util_GetLocalFiles, when there are k files.                               *)
util_GetLocalFiles(b, k) == [b EXCEPT !.total[0] = k]

(* Mutant of OneLess: the cursor stays on a last file that is gone.          *)
CursorStays(b, c) == [b EXCEPT !.total[c] = (@ - 1) % Word]

(* One file less in column c: end of util_DeleteFile, and ftp_MoveCallback.  *)
OneLess(b, c) ==
  LET t == (b.total[c] - 1) % Word
  IN  [b EXCEPT !.total[c] = t,
                !.selected[c] = IF t # 0 /\ @ = t THEN @ - 1 ELSE @]

Start(op, b) ==
  /\ ~app.busy
  /\ app' = [b EXCEPT !.busy = TRUE]
  /\ doing' = op
  /\ loop' = (op \in {"upload", "download"})
  /\ UNCHANGED <<held, left>>

util_ChangeDir ==
  /\ Start("chdir", [app EXCEPT !.selected[1] = 0, !.start[1] = 0])
  /\ UNCHANGED <<astray, removed>>
util_UploadFile == app.remoteColumn = 0 /\ Start("upload", app) /\ UNCHANGED <<astray, removed>>
util_DownloadFile == app.remoteColumn = 1 /\ Start("download", app) /\ UNCHANGED <<astray, removed>>
util_MoveFile == app.remoteColumn = 1 /\ Start("move", app) /\ UNCHANGED <<astray, removed>>

(* Nothing keeps an empty list from being counted down, to Word - 1.         *)
util_DeleteRemote ==
  /\ app.remoteColumn = 1 /\ Start("delete", OneLess(app, 1))
  /\ astray' = IF app.total[1] = 0 THEN astray \cup {1} ELSE astray
  /\ removed' = removed \cup {1}

(* A blank entry, past the last file, deletes nothing.  The scan has counted *)
(* the file off when total is decremented once more.                         *)
util_DeleteLocal ==
  /\ ~app.busy /\ app.remoteColumn = 0
  /\ LET k == IF app.selected[0] < held[0] THEN held[0] - 1 ELSE held[0]
     IN  /\ held' = [held EXCEPT ![0] = k]
         /\ app' = OneLess(util_GetLocalFiles(app, k), 0)
  /\ astray' = astray \cup {0} /\ removed' = removed \cup {0}
  /\ UNCHANGED <<doing, left, loop>>

-----------------------------------------------------------------------------
(* The results.                                                              *)

(* The callback reports a failure; a listing may have arrived in part.       *)
Failed ==
  /\ app.busy
  /\ app' = [app EXCEPT !.busy = FALSE]
  /\ doing' = "none" /\ left' = 0 /\ loop' = FALSE
  /\ astray' = IF doing = "list" /\ left > 0 /\ app.selected[1] # 0
               THEN astray \cup {1} ELSE astray
  /\ UNCHANGED <<held, removed>>

(* util_GetRemoteFiles, with the cursors of b, when the server has k files:  *)
(* fewer than the list had in which the cursor was moved lead it astray, and *)
(* a cursor at the top is right again.                                       *)
AtTop(b) == b.selected[1] = 0 /\ b.start[1] = 0
Short(b, k) == b.selected[1] # 0 /\ Least(k) < b.total[1]
util_GetRemoteFiles(b, k, lost, gone) ==
  /\ app' = [b EXCEPT !.total[1] = 0]
  /\ held' = [held EXCEPT ![1] = 0]
  /\ doing' = "list" /\ left' = k
  /\ astray' = IF AtTop(b) THEN (astray \cup lost) \ {1}
               ELSE IF Short(b, k) THEN astray \cup lost \cup {1} ELSE astray \cup lost
  /\ removed' = IF AtTop(b) THEN (removed \cup gone) \ {1} ELSE removed \cup gone
  /\ UNCHANGED loop

(* ftp_CwdCallback, ftp_DelCallback and ftp_StorCallback.                    *)
Relist ==
  /\ doing \in {"chdir", "delete", "upload"}
  /\ \E k \in 0..MaxRemote : util_GetRemoteFiles(app, k, {}, {})

(* The column of the cursor need not be the one the file was moved in.       *)
ftp_MoveCallback ==
  /\ doing = "move"
  /\ \E k \in 0..MaxRemote :
       util_GetRemoteFiles(OneLess(app, app.remoteColumn), k,
                           {app.remoteColumn} \ {1}, {app.remoteColumn})

(* The file is new or replaces one; a wrong checksum counts as Failed.       *)
ftp_RetrCallback ==
  /\ doing = "download"
  /\ \E k \in {held[0], held[0] + 1} \cap 0..MaxLocal :
       /\ held' = [held EXCEPT ![0] = k]
       /\ app' = [util_GetLocalFiles(app, k) EXCEPT !.busy = FALSE]
  /\ doing' = "none" /\ loop' = FALSE
  /\ UNCHANGED <<left, astray, removed>>

ftp_AddRemoteFile ==
  /\ doing = "list" /\ left > 0
  /\ app' = IF app.total[1] < Listed THEN [app EXCEPT !.total[1] = @ + 1] ELSE app
  /\ held' = [held EXCEPT ![1] = Least(@ + 1)]
  /\ left' = left - 1
  /\ UNCHANGED <<doing, loop, astray, removed>>

(* ftp_ListCallback and, after the reply to PWD, ftp_PwdCallback.            *)
ListOver ==
  /\ doing = "list" /\ left = 0
  /\ app' = [app EXCEPT !.busy = FALSE]
  /\ doing' = "none" /\ loop' = FALSE
  /\ UNCHANGED <<held, left, astray, removed>>

Keys == KeyLeftRight \/ KeyUp \/ KeyDown
Starts == \/ util_ChangeDir \/ util_UploadFile \/ util_DownloadFile \/ util_MoveFile
          \/ util_DeleteRemote \/ util_DeleteLocal
Results == \/ Failed \/ Relist \/ ftp_MoveCallback \/ ftp_RetrCallback
           \/ ftp_AddRemoteFile \/ ListOver

Next == Keys \/ Starts \/ Results

Spec == Init /\ [][Next]_vars

-----------------------------------------------------------------------------
(* Properties.                                                               *)

(* Types; the cursor's numbers stay below Word.                              *)
Apps == [remoteColumn : Columns, start : [Columns -> Nat],
         selected : [Columns -> 0..(Word - 1)], total : [Columns -> 0..(Word - 1)],
         busy : BOOLEAN]
TypeOK ==
  /\ app \in Apps
  /\ held \in [Columns -> Nat] /\ held[0] <= MaxLocal /\ held[1] <= Listed
  /\ doing \in Operations \cup {"list", "none"} /\ left \in 0..MaxRemote /\ loop \in BOOLEAN
  /\ astray \subseteq Columns /\ removed \subseteq Columns

(* What can lead a cursor off its files is on this list and nothing else     *)
(* does: Up or Down in an empty column or one whose list still arrives, a    *)
(* listing that breaks off or is shorter than the last one, a deletion in an *)
(* empty remote column, a local deletion (counted twice), the reply to a     *)
(* move counted in the local column.  In every other column the cursor is,   *)
(* whenever an operation can be started, on an entry that the list holds, or *)
(* at the top of an empty one, and total counts no entry that is not held.   *)
(* (And all variables have their types.)                                     *)
OnList(c) == /\ app.total[c] <= held[c]
             /\ app.selected[c] < app.total[c] \/ app.selected[c] = 0
SelectionInRange == TypeOK /\ (~app.busy => \A c \in Columns \ astray : OnList(c))

(* The cursor of such a column is among the files that menu_DrawFiles draws, *)
(* start to start + MAX_SHOWN_FILES - 1, at any time, unless a file has been *)
(* taken off the column: then selected moves up and start stays, until the   *)
(* cursor is at the top again.                                               *)
Visible(b, c) == b.start[c] <= b.selected[c] /\ b.selected[c] < b.start[c] + Shown
CursorVisible == \A c \in Columns \ (astray \cup removed) : Visible(app, c)

(* The inductive invariant behind both: what is known of the lists           *)
(* while an operation is under way, and of the cursor of a column that was   *)
(* not led astray.                                                           *)
Listing ==
  /\ app.busy <=> doing # "none"
  /\ doing = "list" => app.total[1] = held[1]
  /\ 0 \notin astray => OnList(0)
  /\ 1 \notin astray => IF doing = "list"
                        THEN app.selected[1] = 0 \/ app.selected[1] < Least(app.total[1] + left)
                        ELSE OnList(1)
=============================================================================
