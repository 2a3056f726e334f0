------------------------------- MODULE EthRxMC -------------------------------
(* TLC instances of EthRx.                                                   *)
EXTENDS EthRx

(* A small frame and one that makes the ring grow.                           *)
TwoFrames == {<<7>>, <<8, 9, 8, 9>>}

(* Each fault that takes the receiver's next step away, and unplugging.      *)
SomeWorlds == {{"early"}, {"unplug"}, {"empty", "busy"}, {"oom"}}
Replugged == {{"unplug"}}
==============================================================================
