------------------------------ MODULE Transfers ------------------------------
(***************************************************************************)
(* The data callbacks of src/src/ftp.c one after the other: an upload        *)
(* (Upload), the listing that ftp_StorCallback asks for after it, and a      *)
(* download.  TCP, external, cuts what the server sends into segments as it   *)
(* likes, and lwftp_data_recv hands each to the sink.                        *)
(*                                                                         *)
(* A character of a listing is CR, LF or the j-th of line i, <<i, j>>.        *)
(* What a line says, its kind and whether it is a file for the calculator,    *)
(* is an attribute of the line.                                              *)
(***************************************************************************)
EXTENDS Upload, VarFile, Integers, SequencesExt

CONSTANTS Lines,        \* the lines a server may send: [len, kind]
          Listings,     \* the listings, sequences of lines
          LineEnd,      \* what ends a line
          RX_BUF_SIZE,
          MAX_REMOTE_FILES,
          Vars,         \* the variables that are downloaded
          Uploaded,     \* whether this program made their files, or another
          FileMax,      \* the bytes FILE_BUFFER takes
          Cuts          \* lengths of a download's segments

ASSUME TransfersAssumption ==
  /\ Lines \subseteq [len : Nat \ {0}, kind : {"dir", "prog", "appvar", "unknown"}]
  /\ Listings \subseteq Seq(Lines) /\ Cuts \subseteq Nat \ {0}
  /\ RX_BUF_SIZE \in Nat \ {0} /\ MAX_REMOTE_FILES \in Nat /\ Uploaded \in BOOLEAN
  /\ Vars \subseteq [type : Byte, name : [1..8 -> Byte], archived : BOOLEAN, data : Seq(Byte)]
  /\ FileMax \in Nat /\ FileMax < 65536

VARIABLES phase,    \* "stor", "list", "retr", then "done"
          listing,  \* the lines of the listing
          sent,     \* what of it, or of the file, has been received
          rxBuf,    \* the line received so far, app.rxBuf up to app.rxOffset
          remote,   \* REMOTE_FILES up to app.total[1]: indexes into listing
          buffer,   \* FILE_BUFFER up to app.rxOffset
          var,      \* the variable in the file, chosen when it is asked for
          written   \* the variable written to the calculator, as ReadVar has it

svars == <<phase, listing, sent, rxBuf, remote, buffer, var, written>>

TInit ==
  /\ Init
  /\ phase = "stor" /\ listing = <<>> /\ sent = 0 /\ rxBuf = <<>> /\ remote = <<>>
  /\ buffer = <<>> /\ var = [name |-> <<>>] /\ written = [ok |-> FALSE]

------------------------------------------------------------------------------
(* The listing.                                                             *)

CR == <<0, 13>>
LF == <<0, 10>>

Text(i) == [j \in 1..listing[i].len |-> <<i, j>>]
Chars == FlattenSeq([i \in 1..Len(listing) |-> Text(i) \o LineEnd])

(* ftp_AddRemoteFile: the line is added if it is a file for the calculator or *)
(* a directory and there is room.  A line that was not received as it was     *)
(* sent is 0 here, whatever is made of it.                                   *)
ftp_AddRemoteFile(list, text) ==
  LET whole == {i \in 1..Len(listing) : text = Text(i)}
      i == IF whole = {} THEN 0 ELSE CHOOSE k \in whole : TRUE
  IN IF \/ Len(list) >= MAX_REMOTE_FILES
        \/ i # 0 /\ listing[i].kind = "unknown"
     THEN list ELSE Append(list, i)

WithoutCR(text) ==
  IF text # <<>> /\ text[Len(text)] = CR THEN SubSeq(text, 1, Len(text) - 1) ELSE text

(* Mutants of ListStep: the CR stays; nothing stops at the end of rxBuf.      *)
ListKeepsCR(s, c) ==
  IF s.broken THEN s
  ELSE IF c = LF
  THEN [s EXCEPT !.remote = ftp_AddRemoteFile(@, s.rxBuf), !.rxBuf = <<>>]
  ELSE IF Len(s.rxBuf) < RX_BUF_SIZE THEN [s EXCEPT !.rxBuf = Append(@, c)]
  ELSE [s EXCEPT !.broken = TRUE]
ListNoLimit(s, c) ==
  IF c = LF
  THEN [s EXCEPT !.remote = ftp_AddRemoteFile(@, WithoutCR(s.rxBuf)), !.rxBuf = <<>>]
  ELSE [s EXCEPT !.rxBuf = Append(@, c)]

(* One character in ftp_ListDataSink; one that finds rxBuf full breaks the    *)
(* loop, and the rest of the segment is lost.                                *)
ListStep(s, c) ==
  IF s.broken THEN s
  ELSE IF c = LF
  THEN [s EXCEPT !.remote = ftp_AddRemoteFile(@, WithoutCR(s.rxBuf)), !.rxBuf = <<>>]
  ELSE IF Len(s.rxBuf) < RX_BUF_SIZE THEN [s EXCEPT !.rxBuf = Append(@, c)]
  ELSE [s EXCEPT !.broken = TRUE]

(* util_GetRemoteFiles: ftp_StorCallback, at the end of the upload, asks for  *)
(* a listing.                                                                *)
BeginList(lines) ==
  /\ phase = "stor" /\ state = "closed"
  /\ phase' = "list" /\ listing' = lines /\ sent' = 0 /\ rxBuf' = <<>> /\ remote' = <<>>
  /\ UNCHANGED <<vars, buffer, var, written>>

(* ftp_ListDataSink with the next n characters.                              *)
ftp_ListDataSink(n) ==
  /\ phase = "list" /\ sent + n <= Len(Chars)
  /\ LET end == FoldLeft(ListStep, [rxBuf |-> rxBuf, remote |-> remote, broken |-> FALSE],
                         SubSeq(Chars, sent + 1, sent + n))
     IN rxBuf' = end.rxBuf /\ remote' = end.remote
  /\ sent' = sent + n
  /\ UNCHANGED <<vars, phase, listing, buffer, var, written>>

------------------------------------------------------------------------------
(* The download.                                                            *)

File == IF Uploaded THEN UploadedFile(var) ELSE WellFormedFile(var)

(* util_DownloadFile, once the listing is there.  REMOTE_FILES stays in the   *)
(* program and leaves the model.                                             *)
BeginRetr(v) ==
  /\ phase = "list" /\ sent = Len(Chars)
  /\ phase' = "retr" /\ sent' = 0 /\ buffer' = <<>> /\ var' = v
  /\ listing' = <<>> /\ rxBuf' = <<>> /\ remote' = <<>>
  /\ UNCHANGED <<vars, written>>

(* Mutant of Taken: each segment overwrites the one before.                  *)
TakenOver(segment) == segment

(* FILE_BUFFER with a segment more, up to its end.                           *)
Taken(segment) ==
  buffer \o SubSeq(segment, 1, IF Len(buffer) + Len(segment) > FileMax
                               THEN FileMax - Len(buffer) ELSE Len(segment))

(* ftp_RetrDataSink with the next segment.                                   *)
ftp_RetrDataSink(n) ==
  /\ phase = "retr" /\ sent < Len(File)
  /\ sent' = IF sent + n > Len(File) THEN Len(File) ELSE sent + n
  /\ buffer' = Taken(SubSeq(File, sent + 1, sent'))
  /\ UNCHANGED <<vars, phase, listing, rxBuf, remote, var, written>>

(* ftp_RetrCallback with the result OK.                                      *)
ftp_RetrCallback ==
  /\ phase = "retr" /\ sent = Len(File)
  /\ phase' = "done" /\ written' = ReadVar(buffer)
  /\ UNCHANGED <<vars, listing, sent, rxBuf, remote, buffer, var>>

------------------------------------------------------------------------------
TNext ==
  \/ Next /\ UNCHANGED svars
  \/ \E lines \in Listings : BeginList(lines)
  \/ \E n \in 1..Len(Chars) : ftp_ListDataSink(n)
  \/ \E v \in Vars : BeginRetr(v)
  \/ \E n \in Cuts : ftp_RetrDataSink(n)
  \/ ftp_RetrCallback

tvars == <<vars, svars>>

(* The server answers and acknowledges (Upload).                             *)
TSpec == TInit /\ [][TNext]_tvars
           /\ WF_tvars(Begin /\ UNCHANGED svars) /\ WF_tvars(lwftp_data_sent /\ UNCHANGED svars)

------------------------------------------------------------------------------
(* A line that rxBuf can hold, with the CR before its LF.                     *)
Fits(line) == line.len + Len(LineEnd) - 1 <= RX_BUF_SIZE

(* The lines up to n that are listed, as ftp_AddRemoteFile would have them.   *)
Listed(n) ==
  LET known == SelectSeq([i \in 1..n |-> i], LAMBDA i : listing[i].kind # "unknown")
  IN SubSeq(known, 1, IF Len(known) > MAX_REMOTE_FILES THEN MAX_REMOTE_FILES ELSE Len(known))

(* However TCP cuts it, a listing becomes the list of its files and           *)
(* directories, in order, up to the limit: once all of it is received, if     *)
(* every line fits.                                                          *)
ListingExact ==
  phase = "list" /\ sent = Len(Chars) /\ (\A i \in 1..Len(listing) : Fits(listing[i])) =>
    remote = Listed(Len(listing))

(* A line that is too long spoils nothing that was complete before it, and    *)
(* rxBuf is never overrun.                                                   *)
LongLineLocal ==
  /\ Len(rxBuf) <= RX_BUF_SIZE
  /\ LET good == {n \in 0..Len(listing) : \A i \in 1..n : Fits(listing[i])}
         n == CHOOSE k \in good : \A j \in good : j <= k
     IN IsPrefix(Listed(n), remote) \/ IsPrefix(remote, Listed(n))

(* However TCP cuts it, a file that fits into FILE_BUFFER becomes the         *)
(* variable it was made of.                                                  *)
DownloadExact ==
  phase = "done" /\ Len(File) <= FileMax => written = [ok |-> TRUE, var |-> var]
==============================================================================
