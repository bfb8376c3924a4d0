--------------------------- MODULE ImportRegister ---------------------------
(***************************************************************************)
(* What the ingest pipeline promises about each line of the statements,    *)
(* whoever plans, applies, undoes and fails: a line enters the books once, *)
(* the operator's deletion of its transaction is a decision that stands    *)
(* until he asks for the line again, and only an undo makes a line new.    *)
(***************************************************************************)

CONSTANT Line     \* the import ids

VARIABLES
    standing,     \* [Line -> "absent" | "present" | "deleted"]
    asked         \* the lines whose re-import the operator asked for

\* a plan with reimport_deleted names deleted lines
Ask(L) ==
    /\ \A l \in L : standing[l] = "deleted"
    /\ asked' = asked \cup L
    /\ UNCHANGED standing

\* a run registers lines; a row may have been deleted before its line is registered
Register(L) ==
    /\ \A l \in L : standing[l] = "absent" \/ l \in asked
    /\ standing' \in [Line -> {"absent", "present", "deleted"}]
    /\ \A l \in Line : IF l \in L THEN standing'[l] # "absent" ELSE standing'[l] = standing[l]
    /\ UNCHANGED asked

\* transactions are deleted
Delete(L) ==
    /\ \A l \in L : standing[l] = "present"
    /\ standing' = [l \in Line |-> IF l \in L THEN "deleted" ELSE standing[l]]
    /\ UNCHANGED asked

\* an undo takes lines back
Withdraw(L) ==
    /\ standing' = [l \in Line |-> IF l \in L THEN "absent" ELSE standing[l]]
    /\ UNCHANGED asked

Init ==
    /\ standing = [l \in Line |-> "absent"]
    /\ asked = {}

Next == \E L \in SUBSET Line : Ask(L) \/ Register(L) \/ Delete(L) \/ Withdraw(L)

Spec == Init /\ [][Next]_<<standing, asked>>
=============================================================================
