------------------------------- MODULE Upload -------------------------------
(***************************************************************************)
(* The bytes of an upload: ftp_StorDataSource of src/src/ftp.c behind       *)
(* lwftp_send_next_data and lwftp_data_sent of src/src/lwftp.c.             *)
(*                                                                         *)
(* txOffset moves only when TCP reports bytes as acknowledged, and the next *)
(* block is read from it.  TCP, external, is the sequence of the bytes      *)
(* written so far and how many of them are acknowledged; a byte of the file *)
(* is its position, 1 to txSize.                                            *)
(* With WholeAcks everything written is acknowledged at once.  TCP does not *)
(* guarantee it: a receive window smaller than a block makes lwIP split the *)
(* segment (tcp_split_unsent_seg), and each part has its acknowledgement.   *)
(* tcp_write fails when no segment can be allocated, and the block is lost. *)
(***************************************************************************)
EXTENDS Naturals, Sequences

CONSTANTS Sizes,        \* lengths a file can have
          Segments,     \* values the connection's mss can have
          WholeAcks

ASSUME UploadAssumption ==
  /\ Sizes \subseteq Nat /\ Segments \subseteq Nat \ {0}
  /\ WholeAcks \in BOOLEAN

VARIABLES
  txSize,     \* app.txSize
  mss,        \* data_pcb->mss
  txOffset,   \* app.txOffset
  stream,     \* bytes written to the data connection
  acked,      \* how many of them are acknowledged
  state,      \* "waiting" for 150, "open", "closed" by the client
  failed      \* whether the last tcp_write failed

vars == <<txSize, mss, txOffset, stream, acked, state, failed>>

Init == /\ txSize \in Sizes /\ mss \in Segments
        /\ txOffset = 0 /\ stream = <<>> /\ acked = 0 /\ state = "waiting"
        /\ failed = FALSE

(* Mutant of Advanced: the acknowledgement does not move the offset.        *)
Unmoved(len) == txOffset

(* ftp_StorDataSource(NULL, len): len bytes more are acknowledged.          *)
Advanced(len) == IF txOffset + len > txSize THEN txSize ELSE txOffset + len

(* ftp_StorDataSource(&data, mss): how many bytes it offers at off.         *)
Offer(off) == IF txSize - off > mss THEN mss ELSE txSize - off

(* stream with the len bytes of the file that follow off.                   *)
Write(off, len) ==
  [i \in 1..(Len(stream) + len) |->
     IF i <= Len(stream) THEN stream[i] ELSE off + i - Len(stream)]

(* Mutant of lwftp_send_next_data: does not close after the last block.     *)
NeverCloses(off) ==
  /\ txOffset' = off
  /\ UNCHANGED <<txSize, mss>>
  /\ stream' = Write(off, Offer(off))
  /\ state' = "open" /\ failed' = FALSE

(* lwftp_send_next_data, with the offset at off.                            *)
lwftp_send_next_data(off) ==
  /\ txOffset' = off
  /\ UNCHANGED <<txSize, mss>>
  /\ \/ /\ Offer(off) > 0
        /\ \/ stream' = Write(off, Offer(off)) /\ failed' = FALSE
           \/ stream' = stream /\ failed' = TRUE
        /\ state' = "open"
     \/ Offer(off) = 0 /\ state' = "closed" /\ stream' = stream /\ failed' = FALSE

(* 150: lwftp_data_sent with a length of 0.                                 *)
Begin ==
  /\ state = "waiting"
  /\ lwftp_send_next_data(Advanced(0))
  /\ UNCHANGED acked

(* lwftp_data_sent: the callback of the data pcb.                           *)
lwftp_data_sent ==
  /\ state = "open" /\ acked < Len(stream)
  /\ \E len \in 1..(Len(stream) - acked) :
       /\ WholeAcks => len = Len(stream) - acked
       /\ acked' = acked + len
       /\ lwftp_send_next_data(Advanced(len))

Next == Begin \/ lwftp_data_sent

(* The server answers and acknowledges.                                     *)
Spec == Init /\ [][Next]_vars /\ WF_vars(Begin) /\ WF_vars(lwftp_data_sent)

-----------------------------------------------------------------------------
(* Properties.                                                              *)

(* Types.                                                                   *)
TypeOK ==
  /\ txSize \in Sizes /\ mss \in Segments
  /\ txOffset \in 0..txSize /\ stream \in Seq(1..txSize)
  /\ acked \in 0..Len(stream) /\ state \in {"waiting", "open", "closed"}
  /\ failed \in BOOLEAN

(* What the server receives is the file from its first byte on, each byte   *)
(* once and in its place.                                                   *)
StreamIsPrefix ==
  /\ Len(stream) <= txSize
  /\ \A i \in 1..Len(stream) : stream[i] = i

(* When the client closes the data connection, which the server takes for   *)
(* the end of the file, all of the file has been written and acknowledged.  *)
ClosedWhole == state = "closed" => Len(stream) = txSize /\ acked = txSize

(* The inductive invariant: between callbacks at most one block is under    *)
(* way, none if tcp_write failed, and it starts at txOffset.                *)
OneBlock ==
  /\ acked = txOffset
  /\ state = "waiting" => stream = <<>> /\ txOffset = 0
  /\ state = "open" => /\ Offer(txOffset) > 0
                       /\ Len(stream) = txOffset + (IF failed THEN 0 ELSE Offer(txOffset))
  /\ state = "closed" => txOffset = txSize /\ Len(stream) = txSize
IInv == TypeOK /\ StreamIsPrefix /\ OneBlock

(* The upload comes to its end unless a tcp_write fails.  One that fails is *)
(* the end of all progress: nothing is under way whose acknowledgement      *)
(* would make lwftp_data_sent try again.                                    *)
UploadEnds == <>(state = "closed" \/ failed)
=============================================================================
