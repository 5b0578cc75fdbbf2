------------------------------- MODULE MCCodec -------------------------------
(* Messages of every kind, with lengths of one digit and of two, and what    *)
(* the decoder has to refuse: an unknown tag, a payload of the wrong length,  *)
(* an unknown redraw method, a frame that is too long with its payload, a     *)
(* length in the highest byte; and a frame nobody here would send that means  *)
(* something.                                                                 *)
EXTENDS Codec

MCMessages ==
  {[type |-> "push", data |-> <<>>], [type |-> "push", data |-> <<2, 0, 0, 0, 0, 5, 0, 1>>]}
    \cup [type : {"attach"}, skip_ring : BOOLEAN]
    \cup {[type |-> "detach"], [type |-> "kill", signal |-> 6],
          [type |-> "winch", rows |-> 8, cols |-> 48]}
    \cup {[type |-> "redraw", method |-> r, rows |-> 8, cols |-> 1] :
           r \in {"unspecified", "winch"}}

MCForeign ==
  {<<6, 0, 0, 0, 0>>, <<2, 0, 0, 0, 1, 0>>, <<4, 0, 0, 0, 5, 4, 0, 1, 0, 1>>,
   <<0, 0, 0, 2, 0, 0, 0, 0, 0, 0, 0, 0, 0, 0, 0, 0, 0, 0, 0>>, <<0, 1, 0, 0, 0>>,
   <<5, 0, 0, 0, 1, 3>>}
===============================================================================
