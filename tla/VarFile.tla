------------------------------- MODULE VarFile -------------------------------
(***************************************************************************)
(* The files variables travel in (.8xp, .8xv): how util_UploadFile of        *)
(* src/src/utility.c lays a variable out in FILE_BUFFER, and how             *)
(* ftp_RetrCallback of src/src/ftp.c takes one apart.                        *)
(*                                                                         *)
(* A file is a sequence of bytes; the signature and the comment, the first   *)
(* 53, are never read and are zeros here.  A variable is its type, its name  *)
(* of eight bytes, whether it is archived, and its bytes.                    *)
(***************************************************************************)
EXTENDS Integers, Sequences

Byte == 0..255
uint16_t(n) == n % 65536

(* The two bytes of a word, the low one first, and a run of zeros.           *)
Word(n) == <<n % 256, (n \div 256) % 256>>
Zeros(n) == [i \in 1..n |-> 0]

(* The byte at an offset of FILE_BUFFER, which is zero behind the file.      *)
ByteAt(f, i) == IF i < Len(f) THEN f[i + 1] ELSE 0
WordAt(f, i) == ByteAt(f, i) + 256 * ByteAt(f, i + 1)

(* util_ComputeChecksum of size bytes from an offset on.                     *)
util_ComputeChecksum(f, from, size) ==
  LET sum[i \in 0..size] ==
        IF i = 0 THEN 0 ELSE uint16_t(sum[i - 1] + ByteAt(f, from + i - 1))
  IN sum[size]

Preamble == Zeros(11 + 42)

(* The file of v with the archive byte flag and its checksum left out.       *)
Laid(v, flag) ==
  LET size == Len(v.data)
  IN Preamble \o Word(size + 19) \o Word(13) \o Word(size + 2) \o <<v.type>>
       \o v.name \o <<0>> \o flag \o Word(size + 2) \o Word(size) \o v.data

(* util_UploadFile: the archive byte is written for archived variables only,  *)
(* the checksum covers 17 + size bytes, and txSize counts from the start.     *)
UploadedFile(v) ==
  LET size == Len(v.data)
      f == Laid(v, IF v.archived THEN <<128>> ELSE <<>>)
      g == f \o Word(util_ComputeChecksum(f, 55, 17 + size))
  IN g \o Zeros(76 + size - Len(g))

(* What ftp_RetrCallback makes of the file: whether the checksum is right,    *)
(* and the variable it writes if so.                                         *)
ReadVar(f) ==
  LET size == WordAt(f, 70)
  IN [ok |-> util_ComputeChecksum(f, 55, WordAt(f, 53)) = WordAt(f, 72 + size),
      var |-> [type |-> ByteAt(f, 59),
               name |-> [i \in 1..8 |-> ByteAt(f, 59 + i)],
               archived |-> ByteAt(f, 69) = 128,
               data |-> [i \in 1..(size - 2) |-> ByteAt(f, 73 + i)]]]

------------------------------------------------------------------------------
(* A file as linking programs write it: the archive byte is always there and  *)
(* the checksum covers all of the section.                                   *)
WellFormedFile(v) ==
  LET f == Laid(v, <<IF v.archived THEN 128 ELSE 0>>)
  IN f \o Word(util_ComputeChecksum(f, 55, Len(v.data) + 19))
==============================================================================
