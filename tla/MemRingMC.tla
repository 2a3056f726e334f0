------------------------------ MODULE MemRingMC ------------------------------
(* TLC instance of MemRing.                                                  *)
EXTENDS MemRing

Make(initial, max, lock_size, lock, secure, owner) ==
  [initial |-> initial, max |-> max, lock_size |-> lock_size, lock |-> lock,
   secure |-> secure, owner |-> owner]

(* The driver's ring in small, a ring that scrubs, one locked up and one     *)
(* locked down.                                                              *)
SomeMakes == {Make(2, 6, 0, FALSE, FALSE, "ETH_RX"),
              Make(3, 0, 0, FALSE, TRUE, "UNKNOWN"),
              Make(2, 3, 3, TRUE, FALSE, "ETH_RX"),
              Make(4, SIZE_MAX, 2, TRUE, FALSE, "UNKNOWN")}

(* The thresholds and step of the driver.                                    *)
OneGrow == {[pct |-> 85, step |-> 2]}
OneShrink == {[pct |-> 30, step |-> 2]}

SomePushes == {<<1>>, <<2, 1, 1>>}
ThreeWorlds == {{"oom"}, {"lockdown"}, {"oom", "lockdown"}}
==============================================================================
