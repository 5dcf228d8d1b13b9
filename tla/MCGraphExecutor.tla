---------------------------- MODULE MCGraphExecutor ----------------------------
(***************************************************************************)
(* Three operators, the first with two outputs, and one variable that is   *)
(* fed.  The second operator has no input, a ready one or waits for both   *)
(* outputs of the first; the third waits for one or for two operators.     *)
(***************************************************************************)
EXTENDS GraphExecutor, TLC

MCOut == (1 :> {"a", "b"}) @@ (2 :> {"c"}) @@ (3 :> {"d"})

MCGraphs == {g \in [1..3 -> SUBSET {"x", "a", "b", "c"}] :
                /\ g[1] = {"x"}
                /\ g[2] \in {{}, {"x"}, {"a", "b"}}
                /\ g[3] \in {{"b"}, {"a", "c"}}}
=============================================================================
