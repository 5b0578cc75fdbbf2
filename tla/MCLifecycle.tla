------------------------------ MODULE MCLifecycle ------------------------------
(* Three commands: the first starts a session at "a"; the others are aimed at *)
(* it, the second may also start another session, in the first or outside,   *)
(* whose name has a colon.  "./a" is a second spelling of the first path, and *)
(* ".." leads to a directory and is refused.                                  *)
EXTENDS Lifecycle

MCPath == {"a", "./a", "b:c", ".."}
MCFile == {"A", "B", "dir"}
MCFileOf == [p \in MCPath |-> CASE p = "b:c" -> "B" [] p = ".." -> "dir" [] OTHER -> "A"]
MCCreatable == MCPath \ {".."}
MCSegments == [p \in MCPath |-> IF p = "b:c" THEN <<"b", "c">> ELSE <<p>>]
MCMenu == << {<<"start", "a">>},
             ({"default", "rm", "kill"} \X {"a"}) \cup {<<"start", "b:c">>},
             ({"start", "rm", "kill", "attach"} \X {"a"})
               \cup {<<"attach", "./a">>, <<"new", "..">>} >>
===============================================================================
