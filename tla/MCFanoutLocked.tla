---------------------------- MODULE MCFanoutLocked ----------------------------
(* The pty loop and two handler tasks contending for the ring's mutex.        *)
EXTENDS FanoutLocked, TLC

CONSTANTS c1, c2

ClientsAlike == Permutations({c1, c2})
===============================================================================
