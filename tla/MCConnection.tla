----------------------------- MODULE MCConnection -----------------------------
(* A viewer and a `hytch push` on one session; the ring, the channel and the  *)
(* socket buffers are a unit or two, so each of them fills.                   *)
EXTENDS Connection

CONSTANTS v, p
===============================================================================
