------------------------------- MODULE MCDaemon -------------------------------
(* One session: the child, a job it may start, one `hytch kill` and one       *)
(* client that streams pushes or resizes.                                     *)
EXTENDS Daemon

CONSTANTS child, job, k, s
===============================================================================
