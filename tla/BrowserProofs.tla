--------------------------- MODULE BrowserProofs ---------------------------
(* Proofs about Browser, for every length of the lists and of the screen.    *)
EXTENDS Browser, TLAPS

(* The inductive invariant: types, what is known of the lists, and the       *)
(* cursors on the screen.                                                    *)
IInv == TypeOK /\ Listing /\ CursorVisible

(* What a key does to column c: no other column changes, a cursor on the     *)
(* list stays on it and, if it is on the screen, stays there too.            *)
KeyStays(b, u, c) ==
  /\ u \in Apps /\ u.total = b.total /\ u.busy = b.busy /\ u.remoteColumn = b.remoteColumn
  /\ \A d \in Columns \ {c} : u.selected[d] = b.selected[d] /\ u.start[d] = b.start[d]
  /\ b.selected[c] < b.total[c] => u.selected[c] < u.total[c]
  /\ b.selected[c] < b.total[c] /\ Visible(b, c) => Visible(u, c)

(* The numbers of a column, and what the constants are.                      *)
LEMMA Numbers ==
  ASSUME NEW b \in Apps, NEW c \in Columns
  PROVE  /\ b.selected[c] \in 0..(Word - 1) /\ b.total[c] \in 0..(Word - 1)
         /\ b.start[c] \in Nat /\ Word \in Nat \ {0, 1} /\ Shown \in Nat \ {0}
         /\ Listed \in Nat \ {0} /\ Listed < Word
  BY BrowserAssumption DEF Apps

(* A record with a new cursor in column c.                                   *)
LEMMA CursorPut ==
  ASSUME NEW b \in Apps, NEW c \in Columns, NEW sel \in 0..(Word - 1), NEW st \in Nat,
         b.selected[c] < b.total[c] => sel < b.total[c],
         b.selected[c] < b.total[c] /\ Visible(b, c) => st <= sel /\ sel < st + Shown
  PROVE  KeyStays(b, [b EXCEPT !.selected[c] = sel, !.start[c] = st], c)
  <1> DEFINE u == [b EXCEPT !.selected[c] = sel, !.start[c] = st]
  <1>1. /\ u.selected = [b.selected EXCEPT ![c] = sel] /\ u.start = [b.start EXCEPT ![c] = st]
        /\ u.total = b.total /\ u.busy = b.busy /\ u.remoteColumn = b.remoteColumn
    BY DEF Apps
  <1>2. u.selected \in [Columns -> 0..(Word - 1)] /\ u.start \in [Columns -> Nat]
    BY <1>1 DEF Apps
  <1>3. u \in Apps
    BY <1>1, <1>2 DEF Apps
  <1>4. /\ u.selected[c] = sel /\ u.start[c] = st
        /\ \A d \in Columns \ {c} : u.selected[d] = b.selected[d] /\ u.start[d] = b.start[d]
    BY <1>1 DEF Apps
  <1> HIDE DEF u
  <1>5. KeyStays(b, u, c)
    BY <1>1, <1>3, <1>4 DEF KeyStays, Visible
  <1> QED BY <1>5 DEF u

(* The key Up (main.c), wherever the cursor and the screen are.              *)
LEMMA UpStays ==
  ASSUME NEW b \in Apps, NEW c \in Columns PROVE KeyStays(b, Up(b, c), c)
  <1>1. /\ b.selected[c] \in 0..(Word - 1) /\ b.total[c] \in 0..(Word - 1)
        /\ b.start[c] \in Nat /\ Word \in Nat \ {0} /\ Shown \in Nat \ {0}
    BY Numbers
  <1>2. CASE b.selected[c] # 0
    <2> DEFINE sel == b.selected[c] - 1
               st == IF sel < b.start[c] THEN b.start[c] - 1 ELSE b.start[c]
    <2>1. /\ sel \in 0..(Word - 1) /\ st \in Nat
          /\ b.selected[c] < b.total[c] => sel < b.total[c]
          /\ Visible(b, c) => st <= sel /\ sel < st + Shown
      BY <1>1, <1>2 DEF Visible
    <2>2. Up(b, c) = [b EXCEPT !.selected[c] = sel, !.start[c] = st]
      BY <1>2 DEF Up, Apps
    <2>3. KeyStays(b, [b EXCEPT !.selected[c] = sel, !.start[c] = st], c)
      <3> HIDE DEF sel, st
      <3> QED BY <2>1, CursorPut
    <2> QED BY <2>2, <2>3
  <1>3. CASE b.selected[c] = 0
    <2> DEFINE sel == (b.total[c] - 1) % Word
               st == IF b.total[c] > Shown THEN b.total[c] - Shown ELSE b.start[c]
    <2>1. sel \in 0..(Word - 1) /\ (b.total[c] # 0 => sel = b.total[c] - 1)
      BY <1>1
    <2>2. /\ st \in Nat /\ (b.selected[c] < b.total[c] => sel < b.total[c])
          /\ b.selected[c] < b.total[c] /\ Visible(b, c) => st <= sel /\ sel < st + Shown
      <3> HIDE DEF sel
      <3> QED BY <1>1, <1>3, <2>1 DEF Visible
    <2>3. Up(b, c) = [b EXCEPT !.selected[c] = sel, !.start[c] = st]
      BY <1>3 DEF Up, Apps
    <2>4. KeyStays(b, [b EXCEPT !.selected[c] = sel, !.start[c] = st], c)
      <3> HIDE DEF sel, st
      <3> QED BY <2>1, <2>2, CursorPut
    <2> QED BY <2>3, <2>4
  <1> QED BY <1>2, <1>3

(* The key Down (main.c), wherever the cursor and the screen are.            *)
LEMMA DownStays ==
  ASSUME NEW b \in Apps, NEW c \in Columns PROVE KeyStays(b, Down(b, c), c)
  <1>1. /\ b.selected[c] \in 0..(Word - 1) /\ b.total[c] \in 0..(Word - 1)
        /\ b.start[c] \in Nat /\ Word \in Nat \ {0} /\ Shown \in Nat \ {0}
    BY Numbers
  <1>2. b.total[c] # 0 => (b.total[c] - 1) % Word = b.total[c] - 1
    BY <1>1
  <1>3. CASE b.selected[c] # (b.total[c] - 1) % Word
    <2> DEFINE sel == (b.selected[c] + 1) % Word
               st == IF sel > b.start[c] + Shown - 1 THEN b.start[c] + 1 ELSE b.start[c]
    <2>1. sel \in 0..(Word - 1) /\ (b.selected[c] + 1 < Word => sel = b.selected[c] + 1)
      BY <1>1
    <2>2. st \in Nat
      BY <1>1
    <2>3. b.selected[c] < b.total[c] => sel = b.selected[c] + 1 /\ sel < b.total[c]
      <3> HIDE DEF sel
      <3> QED BY <1>1, <1>2, <1>3, <2>1
    <2>4. b.selected[c] < b.total[c] /\ Visible(b, c) => st <= sel /\ sel < st + Shown
      <3> HIDE DEF sel
      <3> QED BY <1>1, <2>1, <2>3 DEF Visible
    <2>5. Down(b, c) = [b EXCEPT !.selected[c] = sel, !.start[c] = st]
      BY <1>3 DEF Down, Apps
    <2>6. KeyStays(b, [b EXCEPT !.selected[c] = sel, !.start[c] = st], c)
      <3> HIDE DEF sel, st
      <3> QED BY <2>1, <2>2, <2>3, <2>4, CursorPut
    <2> QED BY <2>5, <2>6
  <1>4. CASE b.selected[c] = (b.total[c] - 1) % Word
    <2>1. Down(b, c) = [b EXCEPT !.selected[c] = 0, !.start[c] = 0]
      BY <1>4 DEF Down
    <2>2. /\ 0 \in 0..(Word - 1) /\ 0 \in Nat /\ (b.selected[c] < b.total[c] => 0 < b.total[c])
          /\ 0 <= 0 /\ 0 < 0 + Shown
      BY <1>1
    <2>3. KeyStays(b, [b EXCEPT !.selected[c] = 0, !.start[c] = 0], c)
      BY <2>2, CursorPut
    <2> QED BY <2>1, <2>3
  <1> QED BY <1>3, <1>4

(* One file less: the numbers of the column, and that no other changes.  A   *)
(* cursor on a list that has files stays on it, or the list is empty now.    *)
LEMMA OneLessNumbers ==
  ASSUME NEW b \in Apps, NEW c \in Columns
  PROVE  LET u == OneLess(b, c)
         IN  /\ u \in Apps /\ u.busy = b.busy /\ u.remoteColumn = b.remoteColumn
             /\ u.start = b.start
             /\ \A d \in Columns \ {c} :
                  u.selected[d] = b.selected[d] /\ u.total[d] = b.total[d]
             /\ b.total[c] # 0 => u.total[c] = b.total[c] - 1
             /\ b.selected[c] = 0 => u.selected[c] = 0
             /\ b.selected[c] < b.total[c] => u.selected[c] < u.total[c] \/ u.selected[c] = 0
  <1> DEFINE u == OneLess(b, c)
             t == (b.total[c] - 1) % Word
             sel == IF t # 0 /\ b.selected[c] = t THEN b.selected[c] - 1 ELSE b.selected[c]
  <1>1. /\ b.selected[c] \in 0..(Word - 1) /\ b.total[c] \in 0..(Word - 1)
        /\ Word \in Nat \ {0, 1}
    BY Numbers
  <1>2. t \in 0..(Word - 1) /\ (b.total[c] # 0 => t = b.total[c] - 1)
    BY <1>1
  <1>3. u = [b EXCEPT !.total[c] = t, !.selected[c] = sel]
    BY DEF OneLess, Apps
  <1> HIDE DEF t
  <1>4. /\ sel \in 0..(Word - 1) /\ (b.selected[c] = 0 => sel = 0)
        /\ b.selected[c] < b.total[c] => sel < t \/ sel = 0
    BY <1>1, <1>2
  <1> HIDE DEF sel, u
  <1>5. /\ u.selected = [b.selected EXCEPT ![c] = sel] /\ u.total = [b.total EXCEPT ![c] = t]
        /\ u.start = b.start /\ u.busy = b.busy /\ u.remoteColumn = b.remoteColumn
    BY <1>3 DEF Apps
  <1>6. u.selected \in [Columns -> 0..(Word - 1)] /\ u.total \in [Columns -> 0..(Word - 1)]
    BY <1>2, <1>4, <1>5 DEF Apps
  <1>7. u \in Apps
    <2>1. u = [b EXCEPT !.total = u.total, !.selected = u.selected]
      BY <1>3, <1>5 DEF Apps
    <2> QED BY <1>6, <2>1 DEF Apps
  <1>8. u.selected[c] = sel /\ u.total[c] = t
    BY <1>5 DEF Apps
  <1>9. \A d \in Columns \ {c} : u.selected[d] = b.selected[d] /\ u.total[d] = b.total[d]
    BY <1>5 DEF Apps
  <1> QED BY <1>2, <1>4, <1>5, <1>7, <1>8, <1>9 DEF u

-----------------------------------------------------------------------------
(* The steps.                                                                *)

(* At the start the listing is under way and both cursors are at the top.    *)
LEMMA InitListed == ASSUME Init PROVE IInv
  <1>1. PICK k \in 0..MaxLocal : held = [c \in Columns |-> IF c = 0 THEN k ELSE 0]
    BY DEF Init
  <1>2. /\ app.total = held /\ app.busy = TRUE /\ app.remoteColumn = 0
        /\ app.start = [c \in Columns |-> 0] /\ app.selected = [c \in Columns |-> 0]
    BY DEF Init
  <1>3. /\ doing = "list" /\ left \in 0..MaxRemote /\ loop = FALSE /\ astray = {}
        /\ removed = {}
    BY DEF Init
  <1>4. /\ MaxLocal \in Nat /\ MaxLocal < Word /\ Word \in Nat \ {0, 1} /\ Shown \in Nat \ {0}
        /\ Listed \in Nat \ {0}
    BY BrowserAssumption
  <1>5. held \in [Columns -> Nat] /\ held[0] = k /\ held[1] = 0 /\ k \in 0..(Word - 1)
    BY <1>1, <1>4 DEF Columns
  <1>6. app \in Apps
    <2>1. /\ app.total \in [Columns -> 0..(Word - 1)]
          /\ app.selected \in [Columns -> 0..(Word - 1)] /\ app.start \in [Columns -> Nat]
      BY <1>1, <1>2, <1>4, <1>5 DEF Columns
    <2>2. app = [remoteColumn |-> app.remoteColumn, start |-> app.start,
                 selected |-> app.selected, total |-> app.total, busy |-> app.busy]
      BY DEF Init
    <2> HIDE DEF Init
    <2> QED BY <1>2, <2>1, <2>2 DEF Apps, Columns
  <1> HIDE DEF Init
  <1>7. TypeOK
    <2>1. held[0] <= MaxLocal /\ held[1] <= Listed
      BY <1>1, <1>4, <1>5
    <2>2. /\ doing \in Operations \cup {"list", "none"} /\ loop \in BOOLEAN
          /\ astray \subseteq Columns /\ removed \subseteq Columns
      BY <1>3
    <2> QED BY <1>3, <1>5, <1>6, <2>1, <2>2 DEF TypeOK
  <1>8. CursorVisible
    BY <1>2, <1>4 DEF CursorVisible, Visible
  <1>9. Listing
    BY <1>2, <1>3, <1>4, <1>5 DEF Listing, OnList, Columns
  <1> QED BY <1>7, <1>8, <1>9 DEF IInv

(* A key that moves the cursor of its column as Up and Down do.              *)
LEMMA KeyKeeps ==
  ASSUME IInv, NEW b, Key(b, Unlisted), KeyStays(app, b, app.remoteColumn)
  PROVE  IInv'
  <1> DEFINE c == app.remoteColumn
  <1>1. /\ app' = b /\ astray' = astray \cup Unlisted /\ UNCHANGED <<held, doing, left, loop, removed>>
    BY DEF Key
  <1>2. app \in Apps /\ c \in Columns /\ b \in Apps
    BY DEF IInv, TypeOK, Apps, KeyStays
  <1>3. Unlisted \subseteq {c} /\ (c \notin Unlisted => app.total[c] # 0 /\ (c = 1 => doing # "list"))
    BY DEF Unlisted
  <1>4. TypeOK'
    BY <1>1, <1>2, <1>3 DEF IInv, TypeOK
  <1>5. c \notin astray' => app.selected[c] < app.total[c]
    <2>1. app.total[c] \in Nat /\ app.selected[c] \in Nat
      BY <1>2 DEF Apps
    <2> QED BY <1>1, <1>2, <1>3, <2>1 DEF IInv, Listing, OnList, Columns
  <1>6. /\ b.total = app.total /\ b.busy = app.busy
        /\ \A d \in Columns \ {c} : b.selected[d] = app.selected[d] /\ b.start[d] = app.start[d]
        /\ c \notin astray' => b.selected[c] < b.total[c]
        /\ c \notin astray' /\ Visible(app, c) => Visible(b, c)
    BY <1>5 DEF KeyStays
  <1>7. Listing'
    <2>1. c \notin astray' => c \notin astray /\ (c = 1 => doing # "list")
      BY <1>1, <1>3
    <2>2. \A d \in Columns : d \notin astray' => d \notin astray
      BY <1>1
    <2> QED BY <1>1, <1>2, <1>6, <2>1, <2>2 DEF IInv, Listing, OnList, Columns
  <1>8. CursorVisible'
    <2>1. \A d \in Columns \ (astray' \cup removed') : Visible(app, d)
      BY <1>1 DEF IInv, CursorVisible
    <2>2. \A d \in Columns \ (astray' \cup removed') : Visible(b, d)
      BY <1>2, <1>6, <2>1 DEF Visible
    <2> QED BY <1>1, <2>2 DEF CursorVisible
  <1> QED BY <1>4, <1>7, <1>8 DEF IInv

(* An operation begins with the cursors of b.                                *)
LEMMA StartKeeps ==
  ASSUME IInv, NEW op \in Operations, NEW b \in Apps, Start(op, b),
         astray \subseteq astray', astray' \subseteq Columns,
         removed \subseteq removed', removed' \subseteq Columns,
         b.total[0] = app.total[0], b.selected[0] = app.selected[0], b.start[0] = app.start[0],
         1 \notin astray' => b.total[1] <= held[1] /\ (b.selected[1] < b.total[1] \/ b.selected[1] = 0),
         1 \notin astray' \cup removed' => Visible(b, 1)
  PROVE  IInv'
  <1> DEFINE u == [b EXCEPT !.busy = TRUE]
  <1>1. /\ app' = u /\ doing' = op /\ ~app.busy /\ loop' \in BOOLEAN
        /\ held' = held /\ left' = left
    BY DEF Start
  <1>2. /\ u \in Apps /\ u.total = b.total /\ u.selected = b.selected /\ u.start = b.start
        /\ u.busy = TRUE
    BY DEF Apps
  <1> HIDE DEF u
  <1>3. op # "list" /\ op # "none"
    BY DEF Operations
  <1>4. TypeOK'
    BY <1>1, <1>2 DEF IInv, TypeOK
  <1>5. Listing'
    BY <1>1, <1>2, <1>3 DEF IInv, Listing, OnList
  <1>6. CursorVisible'
    BY <1>1, <1>2 DEF IInv, CursorVisible, Visible, Columns
  <1> QED BY <1>4, <1>5, <1>6 DEF IInv

(* An operation ends: with busy cleared and what is listed left as it is.    *)
LEMMA EndKeeps ==
  ASSUME IInv, app' = [app EXCEPT !.busy = FALSE], doing' = "none", left' = 0, loop' = FALSE,
         held' = held, removed' = removed, astray \subseteq astray', astray' \subseteq Columns,
         doing = "list" /\ 1 \notin astray' => left = 0 \/ app.selected[1] = 0
  PROVE  IInv'
  <1> DEFINE u == [app EXCEPT !.busy = FALSE]
  <1>1. /\ u \in Apps /\ u.total = app.total /\ u.selected = app.selected /\ u.start = app.start
        /\ u.busy = FALSE
    BY DEF Apps, IInv, TypeOK
  <1>2. app' = u
    OBVIOUS
  <1> HIDE DEF u
  <1>3. TypeOK'
    <2>1. 0 \in 0..MaxRemote
      BY BrowserAssumption
    <2>2. doing' \in Operations \cup {"list", "none"} /\ loop' \in BOOLEAN /\ left' \in 0..MaxRemote
      BY <2>1
    <2> QED BY <1>1, <1>2, <2>2 DEF IInv, TypeOK
  <1>4. 1 \notin astray' => OnList(1)
    <2>1. held[1] \in Nat /\ app.selected[1] \in Nat /\ app.total[1] \in Nat /\ Listed \in Nat
      BY BrowserAssumption DEF IInv, TypeOK, Apps, Columns
    <2> QED BY <2>1 DEF IInv, Listing, OnList, Least, TypeOK
  <1>5. Listing'
    BY <1>1, <1>2, <1>4 DEF IInv, Listing, OnList
  <1>6. CursorVisible'
    BY <1>1, <1>2 DEF IInv, CursorVisible, Visible
  <1> QED BY <1>3, <1>5, <1>6 DEF IInv

(* util_GetRemoteFiles called by a callback, with b the cursors it leaves.   *)
LEMMA FetchKeeps ==
  ASSUME IInv, NEW b \in Apps, NEW k \in 0..MaxRemote,
         NEW lost \in SUBSET Columns, NEW gone \in SUBSET Columns,
         util_GetRemoteFiles(b, k, lost, gone), app.busy, b.busy = app.busy, b.start = app.start,
         0 \notin astray \cup lost =>
            b.total[0] = app.total[0] /\ b.selected[0] = app.selected[0],
         1 \notin astray => b.selected[1] = 0 \/ b.selected[1] < b.total[1],
         1 \notin gone => b.selected[1] = app.selected[1],
         lost \subseteq gone
  PROVE  IInv'
  <1> DEFINE u == [b EXCEPT !.total[1] = 0]
  <1>1. /\ app' = u /\ held' = [held EXCEPT ![1] = 0] /\ doing' = "list" /\ left' = k
        /\ loop' = loop
    BY DEF util_GetRemoteFiles
  <1>2. Word \in Nat \ {0} /\ Listed \in Nat \ {0} /\ Shown \in Nat \ {0}
    BY BrowserAssumption
  <1>3. /\ u \in Apps /\ u.selected = b.selected /\ u.busy = b.busy /\ u.start = b.start
        /\ u.total = [b.total EXCEPT ![1] = 0]
    <2>1. /\ u.selected = b.selected /\ u.busy = b.busy /\ u.start = b.start
          /\ u.total = [b.total EXCEPT ![1] = 0]
      BY DEF Apps
    <2>2. u = [b EXCEPT !.total = u.total]
      BY <2>1 DEF Apps
    <2>3. u.total \in [Columns -> 0..(Word - 1)]
      BY <1>2, <2>1 DEF Apps, Columns
    <2> HIDE DEF u
    <2>4. u \in Apps
      BY <2>2, <2>3 DEF Apps
    <2> QED BY <2>1, <2>4
  <1>4. u.total[1] = 0 /\ u.total[0] = b.total[0]
    BY <1>3 DEF Apps, Columns
  <1> HIDE DEF u
  <1>5. held' \in [Columns -> Nat] /\ held'[1] = 0 /\ held'[0] = held[0]
    BY <1>1 DEF IInv, TypeOK, Columns
  <1>6. /\ astray' \subseteq Columns /\ removed' \subseteq Columns
        /\ 0 \in astray \cup lost => 0 \in astray'
        /\ 0 \in removed \cup gone => 0 \in removed'
        /\ ~AtTop(b) => astray \cup lost \subseteq astray' /\ removed \cup gone \subseteq removed'
        /\ ~AtTop(b) /\ Short(b, k) => 1 \in astray'
    <2>1. astray \subseteq Columns /\ removed \subseteq Columns /\ 1 \in Columns
      BY DEF IInv, TypeOK, Columns
    <2>2. CASE AtTop(b)
      <3>1. astray' = (astray \cup lost) \ {1} /\ removed' = (removed \cup gone) \ {1}
        BY <2>2 DEF util_GetRemoteFiles
      <3>2. 0 # 1
        OBVIOUS
      <3> QED BY <2>1, <2>2, <3>1, <3>2
    <2>3. CASE ~AtTop(b)
      <3>1. /\ astray' = IF Short(b, k) THEN astray \cup lost \cup {1} ELSE astray \cup lost
            /\ removed' = removed \cup gone
        BY <2>3 DEF util_GetRemoteFiles
      <3> QED BY <2>1, <2>3, <3>1
    <2> QED BY <2>2, <2>3
  <1>7. TypeOK'
    BY <1>1, <1>2, <1>3, <1>5, <1>6 DEF IInv, TypeOK
  <1>8. Listing'
    <2>1. 0 \notin astray' => OnList(0)'
      BY <1>1, <1>3, <1>4, <1>5, <1>6 DEF IInv, Listing, OnList
    <2>2. 1 \notin astray' => app'.selected[1] = 0 \/ app'.selected[1] < Least(app'.total[1] + left')
      <3>1. b.selected[1] \in Nat /\ b.total[1] \in Nat /\ k \in Nat
        BY BrowserAssumption DEF Apps, Columns
      <3>2. app'.selected[1] = b.selected[1] /\ app'.total[1] + left' = k
        BY <1>1, <1>3, <1>4, <3>1
      <3>3. CASE AtTop(b)
        BY <3>2, <3>3 DEF AtTop
      <3>4. CASE ~AtTop(b)
        BY <1>2, <1>6, <3>1, <3>2, <3>4 DEF Short, Least
      <3> QED BY <3>3, <3>4
    <2> QED BY <1>1, <1>3, <1>4, <1>5, <2>1, <2>2 DEF IInv, Listing
  <1>9. CursorVisible'
    <2>1. 0 \notin astray' \cup removed' => Visible(app', 0)
      <3>1. 0 \notin astray' \cup removed' =>
              b.selected[0] = app.selected[0] /\ b.start[0] = app.start[0] /\ Visible(app, 0)
        BY <1>6 DEF IInv, CursorVisible, Columns
      <3> QED BY <1>1, <1>3, <3>1 DEF Visible
    <2>2. 1 \notin astray' \cup removed' => Visible(app', 1)
      <3>1. CASE AtTop(b)
        BY <1>1, <1>2, <1>3, <3>1 DEF AtTop, Visible
      <3>2. CASE ~AtTop(b)
        <4>1. 1 \notin astray' \cup removed' => b.selected[1] = app.selected[1] /\ Visible(app, 1)
          BY <1>6, <3>2 DEF IInv, CursorVisible, Columns
        <4> QED BY <1>1, <1>3, <4>1 DEF Visible
      <3> QED BY <3>1, <3>2
    <2> QED BY <2>1, <2>2 DEF CursorVisible, Columns
  <1> QED BY <1>7, <1>8, <1>9 DEF IInv

(* One more file of the listing.                                             *)
LEMMA AddKeeps == ASSUME IInv, ftp_AddRemoteFile PROVE IInv'
  <1> DEFINE u == [app EXCEPT !.total[1] = @ + 1]
  <1>1. /\ doing = "list" /\ left > 0 /\ left' = left - 1 /\ doing' = doing
        /\ UNCHANGED <<loop, astray, removed>> /\ held' = [held EXCEPT ![1] = Least(@ + 1)]
        /\ app' = IF app.total[1] < Listed THEN u ELSE app
    BY DEF ftp_AddRemoteFile
  <1>2. /\ app \in Apps /\ held \in [Columns -> Nat] /\ left \in 1..MaxRemote
        /\ app.total[1] = held[1] /\ held[1] \in 0..Listed /\ Listed \in Nat \ {0} /\ Listed < Word
        /\ app.selected[1] \in Nat /\ Word \in Nat
    BY <1>1, BrowserAssumption DEF IInv, TypeOK, Listing, Columns, Apps
  <1>3. /\ held' \in [Columns -> Nat] /\ held'[0] = held[0] /\ held'[1] = Least(held[1] + 1)
        /\ held'[1] <= Listed
    BY <1>1, <1>2 DEF Columns, Least
  <1>4. /\ app' \in Apps /\ app'.selected = app.selected /\ app'.start = app.start
        /\ app'.busy = app.busy /\ app'.total[0] = app.total[0]
        /\ app'.total[1] = Least(held[1] + 1)
    <2>1. CASE app.total[1] < Listed
      <3>1. app.total[1] + 1 \in 0..(Word - 1) /\ Least(held[1] + 1) = app.total[1] + 1
        BY <1>2, <2>1 DEF Least
      <3>2. /\ u \in Apps /\ u.selected = app.selected /\ u.start = app.start /\ u.busy = app.busy
            /\ u.total = [app.total EXCEPT ![1] = app.total[1] + 1]
        BY <1>2, <3>1 DEF Apps
      <3>3. u.total[1] = app.total[1] + 1 /\ u.total[0] = app.total[0]
        BY <1>2, <3>2 DEF Apps, Columns
      <3> QED BY <1>1, <2>1, <3>1, <3>2, <3>3
    <2>2. CASE ~(app.total[1] < Listed)
      BY <1>1, <1>2, <2>2 DEF Least
    <2> QED BY <2>1, <2>2
  <1>5. Least(app'.total[1] + left') = Least(app.total[1] + left)
    BY <1>1, <1>2, <1>4 DEF Least
  <1>6. TypeOK'
    <2>1. left' \in 0..MaxRemote
      BY <1>1, <1>2, BrowserAssumption
    <2>2. held'[0] <= MaxLocal
      BY <1>3 DEF IInv, TypeOK
    <2> QED BY <1>1, <1>3, <1>4, <2>1, <2>2 DEF IInv, TypeOK
  <1>7. Listing'
    BY <1>1, <1>3, <1>4, <1>5 DEF IInv, Listing, OnList
  <1>8. CursorVisible'
    BY <1>1, <1>4 DEF IInv, CursorVisible, Visible
  <1> QED BY <1>6, <1>7, <1>8 DEF IInv

(* A download that is kept.                                                  *)
LEMMA RetrKeeps == ASSUME IInv, ftp_RetrCallback PROVE IInv'
  <1>1. PICK k \in {held[0], held[0] + 1} \cap 0..MaxLocal :
           /\ held' = [held EXCEPT ![0] = k]
           /\ app' = [util_GetLocalFiles(app, k) EXCEPT !.busy = FALSE]
    BY DEF ftp_RetrCallback
  <1>2. /\ doing = "download" /\ doing' = "none" /\ loop' = FALSE
        /\ UNCHANGED <<left, astray, removed>>
    BY DEF ftp_RetrCallback
  <1>3. /\ app \in Apps /\ held \in [Columns -> Nat] /\ held[0] \in Nat /\ app.total[0] \in Nat
        /\ app.selected[0] \in Nat
    BY DEF IInv, TypeOK, Apps, Columns
  <1>4. k \in 0..(Word - 1) /\ k >= held[0] /\ k <= MaxLocal
    BY <1>3, BrowserAssumption
  <1> DEFINE b == [app EXCEPT !.total[0] = k]
             u == [b EXCEPT !.busy = FALSE]
  <1>5. b.total = [app.total EXCEPT ![0] = k] /\ b \in Apps
        /\ b.selected = app.selected /\ b.start = app.start
    BY <1>3, <1>4 DEF Apps
  <1>6. b.total[0] = k /\ b.total[1] = app.total[1]
    BY <1>3, <1>5 DEF Apps, Columns
  <1>7. app' = u
    BY <1>1 DEF util_GetLocalFiles
  <1> HIDE DEF b
  <1>8. /\ u \in Apps /\ u.selected = b.selected /\ u.start = b.start /\ u.total = b.total
        /\ u.busy = FALSE
    BY <1>5 DEF Apps
  <1> HIDE DEF u
  <1>9. held' \in [Columns -> Nat] /\ held'[0] = k /\ held'[1] = held[1]
    BY <1>1, <1>3, <1>4 DEF Columns
  <1>10. TypeOK'
    BY <1>2, <1>4, <1>7, <1>8, <1>9 DEF IInv, TypeOK
  <1>11. Listing'
    <2>1. 0 \notin astray => app.selected[0] < k \/ app.selected[0] = 0
      BY <1>3, <1>4 DEF IInv, Listing, OnList
    <2>2. 0 \notin astray' => OnList(0)'
      BY <1>2, <1>4, <1>5, <1>6, <1>7, <1>8, <1>9, <2>1 DEF OnList
    <2>3. 1 \notin astray' => OnList(1)'
      BY <1>2, <1>5, <1>6, <1>7, <1>8, <1>9 DEF IInv, Listing, OnList
    <2> QED BY <1>2, <1>7, <1>8, <2>2, <2>3 DEF Listing
  <1>12. CursorVisible'
    BY <1>2, <1>5, <1>7, <1>8 DEF IInv, CursorVisible, Visible
  <1> QED BY <1>10, <1>11, <1>12 DEF IInv

(* A local deletion takes no account of column 1.                            *)
LEMMA DeleteLocalKeeps == ASSUME IInv, util_DeleteLocal PROVE IInv'
  <1> DEFINE k == IF app.selected[0] < held[0] THEN held[0] - 1 ELSE held[0]
             b == util_GetLocalFiles(app, k)
             u == OneLess(b, 0)
  <1>1. /\ ~app.busy /\ held' = [held EXCEPT ![0] = k] /\ app' = u
        /\ astray' = astray \cup {0} /\ removed' = removed \cup {0}
        /\ UNCHANGED <<doing, left, loop>>
    BY DEF util_DeleteLocal
  <1>2. /\ app \in Apps /\ held \in [Columns -> Nat] /\ held[0] \in 0..MaxLocal
        /\ app.selected[0] \in Nat
    BY BrowserAssumption DEF IInv, TypeOK, Apps, Columns
  <1>3. k \in 0..(Word - 1) /\ k \in 0..MaxLocal
    BY <1>2, BrowserAssumption
  <1>4. /\ b \in Apps /\ b.selected = app.selected /\ b.start = app.start /\ b.busy = app.busy
        /\ b.total = [app.total EXCEPT ![0] = k]
    <2> HIDE DEF k
    <2> QED BY <1>2, <1>3 DEF util_GetLocalFiles, Apps, Columns
  <1>5. b.total[1] = app.total[1]
    BY <1>2, <1>4 DEF Apps, Columns
  <1> HIDE DEF k, b
  <1>6. /\ u \in Apps /\ u.busy = b.busy /\ u.start = b.start
        /\ u.selected[1] = b.selected[1] /\ u.total[1] = b.total[1]
    <2>1. 0 \in Columns /\ 1 \in Columns \ {0}
      BY DEF Columns
    <2> QED BY <1>4, <2>1, OneLessNumbers
  <1> HIDE DEF u
  <1>7. held' \in [Columns -> Nat] /\ held'[1] = held[1] /\ held'[0] = k
    BY <1>1, <1>2, <1>3 DEF Columns
  <1>8. TypeOK'
    BY <1>1, <1>3, <1>6, <1>7 DEF IInv, TypeOK, Columns
  <1>9. Listing'
    BY <1>1, <1>4, <1>5, <1>6, <1>7 DEF IInv, Listing, OnList
  <1>10. CursorVisible'
    BY <1>1, <1>4, <1>6 DEF IInv, CursorVisible, Visible, Columns
  <1> QED BY <1>8, <1>9, <1>10 DEF IInv

(* Every step keeps the invariant.                                           *)
LEMMA StepListed == ASSUME IInv, [Next]_vars PROVE IInv'
  <1>1. /\ app \in Apps /\ app.remoteColumn \in Columns /\ astray \subseteq Columns
        /\ removed \subseteq Columns
    BY DEF IInv, TypeOK, Apps
  <1>2. /\ 0 \in Columns /\ 1 \in Columns \ {0} /\ Columns = {0, 1}
        /\ "chdir" \in Operations /\ "upload" \in Operations /\ "download" \in Operations
        /\ "delete" \in Operations /\ "move" \in Operations
    BY DEF Columns, Operations
  <1>3. ~app.busy => doing = "none"
    BY DEF IInv, Listing
  <1>4. /\ doing # "list" /\ 1 \notin astray => OnList(1)
        /\ 1 \notin astray \cup removed => Visible(app, 1)
    BY <1>2 DEF IInv, Listing, CursorVisible
  <1>5. CASE KeyLeftRight
    <2> DEFINE b == [app EXCEPT !.remoteColumn = 1 - @]
    <2>1. /\ b.start = app.start /\ b.selected = app.selected
          /\ b.total = app.total /\ b.busy = app.busy /\ b \in Apps
      BY <1>1 DEF Apps, Columns
    <2>2. app' = b /\ UNCHANGED <<held, doing, left, loop, removed>> /\ astray' = astray
      BY <1>5 DEF KeyLeftRight, Key
    <2> HIDE DEF b
    <2>3. TypeOK'
      BY <2>1, <2>2 DEF IInv, TypeOK
    <2> QED BY <2>1, <2>2, <2>3 DEF IInv, CursorVisible, Visible, Listing, OnList
  <1>6. CASE KeyUp
    BY <1>1, <1>6, UpStays, KeyKeeps DEF KeyUp
  <1>7. CASE KeyDown
    BY <1>1, <1>7, DownStays, KeyKeeps DEF KeyDown
  <1>8. CASE util_ChangeDir
    <2> DEFINE b == [app EXCEPT !.selected[1] = 0, !.start[1] = 0]
    <2>1. Start("chdir", b) /\ ~app.busy /\ astray' = astray /\ removed' = removed
      BY <1>8 DEF util_ChangeDir, Start
    <2>2. /\ b.selected = [app.selected EXCEPT ![1] = 0] /\ b.start = [app.start EXCEPT ![1] = 0]
          /\ b.total = app.total
      BY <1>1 DEF Apps
    <2>3. /\ b.selected[1] = 0 /\ b.start[1] = 0 /\ b.total = app.total
          /\ b.selected[0] = app.selected[0] /\ b.start[0] = app.start[0]
      BY <1>1, <1>2, <2>2 DEF Apps
    <2>4. b \in Apps
      <3>1. /\ b.selected \in [Columns -> 0..(Word - 1)] /\ b.start \in [Columns -> Nat]
        BY <1>1, <1>2, <2>2, BrowserAssumption DEF Apps
      <3>2. b = [app EXCEPT !.selected = b.selected, !.start = b.start]
        BY <1>1, <2>2 DEF Apps
      <3> HIDE DEF b
      <3> QED BY <1>1, <3>1, <3>2 DEF Apps
    <2>5. Visible(b, 1)
      BY <2>3, BrowserAssumption DEF Visible
    <2> HIDE DEF b
    <2> QED BY <1>1, <1>2, <1>3, <1>4, <2>1, <2>3, <2>4, <2>5, StartKeeps DEF OnList
  <1>9. CASE util_UploadFile \/ util_DownloadFile \/ util_MoveFile
    <2>1. PICK op \in {"upload", "download", "move"} :
            Start(op, app) /\ astray' = astray /\ removed' = removed
      BY <1>9 DEF util_UploadFile, util_DownloadFile, util_MoveFile
    <2>2. op \in Operations /\ ~app.busy
      BY <1>2, <2>1 DEF Start
    <2> QED BY <1>1, <1>3, <1>4, <2>1, <2>2, StartKeeps DEF OnList
  <1>10. CASE util_DeleteRemote
    <2> DEFINE b == OneLess(app, 1)
    <2>1. /\ Start("delete", b) /\ ~app.busy /\ removed' = removed \cup {1}
          /\ astray' = IF app.total[1] = 0 THEN astray \cup {1} ELSE astray
      BY <1>10 DEF util_DeleteRemote, Start
    <2>2. /\ b \in Apps /\ b.start = app.start
          /\ b.selected[0] = app.selected[0] /\ b.total[0] = app.total[0]
          /\ app.total[1] # 0 => b.total[1] = app.total[1] - 1
          /\ app.selected[1] = 0 => b.selected[1] = 0
          /\ app.selected[1] < app.total[1] => b.selected[1] < b.total[1] \/ b.selected[1] = 0
      BY <1>1, <1>2, OneLessNumbers
    <2> HIDE DEF b
    <2>3. app.total[1] \in Nat /\ held[1] \in Nat
      BY <1>1, <1>2 DEF Apps, IInv, TypeOK
    <2>4. 1 \notin astray' => b.total[1] <= held[1] /\ (b.selected[1] < b.total[1] \/ b.selected[1] = 0)
      BY <1>3, <1>4, <2>1, <2>2, <2>3 DEF OnList
    <2> QED BY <1>1, <1>2, <2>1, <2>2, <2>4, StartKeeps
  <1>11. CASE util_DeleteLocal
    BY <1>11, DeleteLocalKeeps
  <1>12. CASE Failed
    <2>1. /\ app' = [app EXCEPT !.busy = FALSE] /\ doing' = "none" /\ left' = 0 /\ loop' = FALSE
          /\ held' = held /\ removed' = removed
          /\ astray' = IF doing = "list" /\ left > 0 /\ app.selected[1] # 0
                       THEN astray \cup {1} ELSE astray
      BY <1>12 DEF Failed
    <2>2. left \in Nat
      BY BrowserAssumption DEF IInv, TypeOK
    <2>3. astray \subseteq astray' /\ astray' \subseteq Columns
      BY <1>1, <1>2, <2>1
    <2>4. doing = "list" /\ 1 \notin astray' => left = 0 \/ app.selected[1] = 0
      BY <2>1, <2>2
    <2> QED BY <2>1, <2>3, <2>4, EndKeeps
  <1>13. CASE ListOver
    BY <1>1, <1>13, EndKeeps DEF ListOver
  <1>14. CASE Relist
    <2>1. PICK k \in 0..MaxRemote : util_GetRemoteFiles(app, k, {}, {})
      BY <1>14 DEF Relist
    <2>2. app.busy /\ doing # "list"
      BY <1>14 DEF Relist, IInv, Listing
    <2>3. 1 \notin astray => app.selected[1] = 0 \/ app.selected[1] < app.total[1]
      BY <1>4, <2>2 DEF OnList
    <2>4. {} \in SUBSET Columns /\ {} \subseteq {}
      OBVIOUS
    <2> QED BY <1>1, <2>1, <2>2, <2>3, <2>4, FetchKeeps
  <1>15. CASE ftp_MoveCallback
    <2> DEFINE c == app.remoteColumn
               b == OneLess(app, c)
    <2>1. PICK k \in 0..MaxRemote : util_GetRemoteFiles(b, k, {c} \ {1}, {c})
      BY <1>15 DEF ftp_MoveCallback
    <2>2. app.busy /\ doing # "list"
      BY <1>15 DEF ftp_MoveCallback, IInv, Listing
    <2>3. /\ b \in Apps /\ b.start = app.start /\ b.busy = app.busy
          /\ \A d \in Columns \ {c} : b.selected[d] = app.selected[d] /\ b.total[d] = app.total[d]
          /\ app.selected[c] = 0 => b.selected[c] = 0
          /\ app.selected[c] < app.total[c] => b.selected[c] < b.total[c] \/ b.selected[c] = 0
      BY <1>1, OneLessNumbers
    <2> HIDE DEF b
    <2>4. 1 \notin astray => b.selected[1] = 0 \/ b.selected[1] < b.total[1]
      BY <1>1, <1>2, <1>4, <2>2, <2>3 DEF OnList
    <2>5. 0 \notin astray \cup ({c} \ {1}) =>
            b.total[0] = app.total[0] /\ b.selected[0] = app.selected[0]
      BY <1>1, <1>2, <2>3
    <2>6. 1 \notin {c} => b.selected[1] = app.selected[1]
      BY <1>1, <1>2, <2>3
    <2>7. {c} \ {1} \in SUBSET Columns /\ {c} \in SUBSET Columns /\ {c} \ {1} \subseteq {c}
      BY <1>1
    <2> QED BY <2>1, <2>2, <2>3, <2>4, <2>5, <2>6, <2>7, FetchKeeps
  <1>16. CASE ftp_RetrCallback
    BY <1>16, RetrKeeps
  <1>17. CASE ftp_AddRemoteFile
    BY <1>17, AddKeeps
  <1>18. CASE UNCHANGED vars
    BY <1>18 DEF vars, IInv, TypeOK, CursorVisible, Listing, OnList
  <1> QED BY <1>5, <1>6, <1>7, <1>8, <1>9, <1>10, <1>11, <1>12, <1>13, <1>14, <1>15, <1>16,
             <1>17, <1>18
          DEF Next, Keys, Starts, Results

(* The invariant holds always: neither half of it is inductive alone, since  *)
(* the keys compare with total, which the callbacks change.                  *)
LEMMA ListedAlways == Spec => []IInv
  <1>1. Init => IInv
    BY InitListed
  <1>2. IInv /\ [Next]_vars => IInv'
    BY StepListed
  <1> QED BY <1>1, <1>2, PTL DEF Spec

(* Whatever keys the user presses, whenever, and whatever the server lists,  *)
(* a cursor comes off the files of its column in the ways astray records and *)
(* in no other, for every number of files, length of the list                *)
(* (MAX_REMOTE_FILES) and width of unsigned int; every variable keeps its    *)
(* type.                                                                     *)
THEOREM SelectionSafe == Spec => []SelectionInRange
  <1>1. IInv => SelectionInRange
    BY DEF IInv, Listing, SelectionInRange, Columns
  <1> QED BY <1>1, ListedAlways, PTL

(* And the cursor of a column that was not led astray and lost no file is    *)
(* always on the screen that menu_DrawFiles draws, whatever its height.      *)
THEOREM ScrollSafe == Spec => []CursorVisible
  <1>1. IInv => CursorVisible
    BY DEF IInv
  <1> QED BY <1>1, ListedAlways, PTL
=============================================================================
