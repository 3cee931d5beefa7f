----------------------------- MODULE MCWebhooks -----------------------------
(***************************************************************************)
(* Instances of Intake and SymbolIndex for TLC: two repositories of one    *)
(* installation; a file that gains and loses a method, and another with a  *)
(* function of the same name.  The task that re-indexes files writes       *)
(* nothing that the other tasks read, so one run checks the two beside     *)
(* each other, never mixed.                                                *)
(***************************************************************************)
EXTENDS Intake, SymbolIndex

CONSTANTS t1, t2, a, b

VARIABLE part

Def(kind, name, in, line) ==
    [kind |-> kind, name |-> name, in |-> in, line |-> line, bases |-> {}]

\* x defines T with a method that calls, and then another; y has a function main, as x does.
MCTree == [v \in Version |-> [p \in Path |->
    CASE p = "x" /\ v = 1 -> <<[Def("class", "T", 0, 1) EXCEPT !.bases = {"B"}],
                               Def("method", "f", 1, 2), Def("call", "g", 2, 3),
                               Def("function", "main", 0, 5), Def("call", "f", 4, 6)>>
      [] p = "x" /\ v = 2 -> <<Def("import", "m", 0, 1), Def("class", "T", 0, 2),
                               Def("method", "h", 2, 3), Def("call", "main", 0, 9)>>
      [] p = "y" /\ v = 1 -> <<Def("function", "main", 0, 1), Def("call", "f", 1, 2)>>
      [] OTHER -> Nothing]]
MCTouched == [v \in Version |-> {"x", "y"}]

Pull(d, r, i) == [id |-> d, kind |-> "pull_request", repo |-> r, inst |-> i]
Install(d, kind, i, rs) == [id |-> d, kind |-> kind, inst |-> i, repos |-> rs]

MCEvent == [d \in Delivery |->
    CASE d = "pull" -> Pull(d, "r1", 1)
      [] d = "created" -> Install(d, "created", 1, {"r1", "r2"})
      [] d = "added" -> Install(d, "added", 1, {"r1"})
      [] d = "deleted" -> Install(d, "deleted", 1, {})
      [] d \in {"comment", "push"} -> [id |-> d, kind |-> d]]
MCListing == [i \in {1} |-> {"r1", "r2"}]
MCHome == [t \in Task |-> IF t = t1 THEN a ELSE b]

MCInit == Init /\ IndexInit /\ part \in {"intake", "index"}

MCNext ==
    /\ UNCHANGED part
    /\ \/ part = "intake" /\ Next /\ UNCHANGED indexVars
       \/ part = "index" /\ IndexNext /\ UNCHANGED vars

MCSpec == MCInit /\ [][MCNext]_<<vars, indexVars, part>> /\ Fairness
=============================================================================
