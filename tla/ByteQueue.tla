------------------------------ MODULE ByteQueue ------------------------------
(***************************************************************************)
(* What a ring of src/src/drivers/mem.h promises its caller: a queue of      *)
(* bytes.  A push adds all its bytes at the end or none, pop and peek give   *)
(* the oldest bytes in the order they were pushed, and destroying the ring   *)
(* throws its bytes away.  How many bytes it holds is its own affair: any    *)
(* push may be refused.                                                      *)
(***************************************************************************)
EXTENDS Naturals, Sequences

VARIABLES queue,   \* the bytes pushed and not popped
          given,   \* the bytes the last operation was called with, if a push
          got      \* the bytes the last operation gave, if a pop or a peek

Init == queue = <<>> /\ given = <<>> /\ got = <<>>

(* mem_buffer_push that returns true, and one that returns false             *)
Put == queue' = queue \o given' /\ got' = <<>>
Refuse == UNCHANGED queue /\ got' = <<>>

(* mem_buffer_pop                                                            *)
Get == \E n \in 1..Len(queue) :
         /\ got' = SubSeq(queue, 1, n)
         /\ queue' = SubSeq(queue, n + 1, Len(queue))
         /\ given' = <<>>

(* mem_buffer_peek                                                           *)
Look == \E offset \in 0..Len(queue) : \E n \in 1..(Len(queue) - offset) :
          /\ got' = SubSeq(queue, offset + 1, offset + n)
          /\ UNCHANGED queue /\ given' = <<>>

(* mem_buffer_destroy                                                        *)
Drop == queue' = <<>> /\ given' = <<>> /\ got' = <<>>

Next == Put \/ Refuse \/ Get \/ Look \/ Drop

Spec == Init /\ [][Next]_<<queue, given, got>>
==============================================================================
