---------------------------- MODULE MCAttachClient ----------------------------
(* Queues of one or two, four bytes of input in reads of up to three, and a  *)
(* terminal that changes its size three times.                                *)
EXTENDS AttachClient
===============================================================================
