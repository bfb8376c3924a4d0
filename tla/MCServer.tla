------------------------------ MODULE MCServer ------------------------------
(* An instance of Server for TLC. *)
EXTENDS Server, TLC

CONSTANTS a, b, form, rent, wage, c1, c2

MCForm == [x \in {form} |-> [account |-> a, amount |-> 1]]
MCPlan == [x \in {rent, wage} |-> [account |-> b, amount |-> 2]]
MCDue == {<<rent, 0>>, <<rent, 1>>, <<wage, 1>>}
MCNever == -1
Symmetry == Permutations({c1, c2})
=============================================================================
