------------------------------- MODULE Mutex -------------------------------
(***************************************************************************)
(* What the review code expects of the per-pull-request locks of           *)
(* src/bot/mod.rs: for every pull request at most one task is between the  *)
(* acquisition and the release, and a task is inside for at most one pull  *)
(* request at a time.  Which task enters next is left open.                *)
(***************************************************************************)
CONSTANTS Task,     \* the tasks of one process that run reviews
          Pr        \* the pull requests they run them on

VARIABLE inside     \* inside[p] : the tasks inside for p

Init == inside = [p \in Pr |-> {}]

Enter(t, p) ==
    /\ \A q \in Pr : t \notin inside[q]
    /\ inside[p] = {}
    /\ inside' = [inside EXCEPT ![p] = {t}]

Exit(t, p) ==
    /\ t \in inside[p]
    /\ inside' = [inside EXCEPT ![p] = {}]

Next == \E t \in Task, p \in Pr : Enter(t, p) \/ Exit(t, p)

Spec == Init /\ [][Next]_inside
=============================================================================
