----------------------------- MODULE MCSessionLog -----------------------------
(* Every output of exactly six bytes made of letters, characters of two and  *)
(* three bytes, and escape sequences of two and four, and every one of four  *)
(* bytes; a second daemon beside the shorter ones, with the cap of the first *)
(* or a smaller one.                                                         *)
EXTENDS SessionLog

Pieces ==
  {<<"letter">>, <<"lead", "cont">>, <<"lead", "cont", "cont">>,
   <<"esc", "final">>, <<"esc", "bracket", "digit", "final">>}

OutputsOf[n \in 0 .. 6] ==
  IF n = 0 THEN {<<>>}
  ELSE UNION {{s \o x : s \in OutputsOf[n - Len(x)]} : x \in {y \in Pieces : Len(y) <= n}}

Outputs == {s \in UNION {OutputsOf[n] : n \in 0 .. 6} : Len(s) \in {4, 6}}

\* Outputs by another name: the value of a constant that a configuration takes
\* from an expression would be computed again in every state.
MCStreams      == Outputs
MCRivalCaps(s) == IF Len(s) = 4 THEN 1 .. MaxSize ELSE {}

ASSUME OutputsAreWellFormed == \A s \in Outputs : WellFormed(s)
===============================================================================
