--------------------------- MODULE MCFindingFlow ---------------------------
(***************************************************************************)
(* An instance of FindingFlow for TLC: two files and one that is too large *)
(* for a patch, two commits, findings on old and new lines, and settings   *)
(* that reach every preset and verdict.                                    *)
(* And of what the findings rest on, calls of the model and lookups at     *)
(* registries, with two callers each.  The three share no state: each      *)
(* behaviour is one of one of them, and the others rest.                   *)
(***************************************************************************)
EXTENDS FindingFlow, Registry, LlmClient

CONSTANTS c1, c2, r1, r2, r3

VARIABLE part

MCHeadOf == [r \in Run |-> IF r = r1 THEN c1 ELSE c2]

Mark(m) == [mark |-> m, start |-> 0]
Hunk(n) == [mark |-> "@@", start |-> n]
\* c1 adds a:2 and b:1, c2 adds a:2 and, after two old lines, b:3; both add c:1, not shown.
MCPatch ==
    [h \in Commit |->
        [f \in File |->
            IF f = "a" THEN <<Hunk(1), Mark(" "), Mark("-"), Mark("+"), Mark(" ")>>
            ELSE IF f = "c" THEN << >>
            ELSE IF h = c1 THEN <<Hunk(1), Mark("+"), Mark(" ")>>
            ELSE <<Hunk(2), Mark(" "), Mark("+")>>]]
MCAdded == [h \in Commit |-> {<<"a", 2>>, <<"c", 1>>, IF h = c1 THEN <<"b", 1>> ELSE <<"b", 3>>}]

Reported(detector, severity, file, line, about) ==
    [detector |-> detector, severity |-> severity, file |-> file, line |-> line,
     confidence |-> 0, about |-> about]
Token == Reported("secrets", "blocking", "a", 2, "token")
Cve1 == Reported("vulnerabilities", "blocking", "b", 1, "cve1")
Cve2 == Reported("vulnerabilities", "warning", "b", 1, "cve2")
Copy == Reported("boilerplate", "warning", "a", 1, "copy")
Large == Reported("secrets", "blocking", "c", 1, "large")
MCReports == {{}, {Token}, {Large}, {Cve1, Cve2}, {Cve2, Copy}, {Token, Cve1, Copy}}

Open == [minSeverity |-> Unset, maxBlocking |-> Unset, maxWarnings |-> Unset,
         forbidden |-> Unset, checkRun |-> Unset, strictness |-> Unset, gate |-> Unset]
Plain == [org |-> Open, repo |-> Open, file |-> Unset, strict |-> FALSE, agent |-> FALSE,
          preMerge |-> [maxBlocking |-> 0, maxWarnings |-> 20],
          described |-> TRUE, titled |-> TRUE, judge |-> FALSE, dropUngrounded |-> FALSE,
          gate |-> DefaultGate, blockOnFail |-> TRUE, autoApprove |-> TRUE,
          premergeError |-> FALSE,
          readiness |-> [blockOnBlockers |-> TRUE, requireApprovals |-> 0]]
\* A model that judges, an agent's pull request, no gate.
Judged == [Plain EXCEPT !.judge = TRUE, !.dropUngrounded = TRUE, !.agent = TRUE,
                        !.blockOnFail = FALSE]
\* Policies of all layers.
Policed == [Plain EXCEPT !.org.forbidden = {"b"}, !.repo.strictness = "lenient",
                         !.described = FALSE, !.titled = FALSE, !.strict = TRUE,
                         !.dropUngrounded = TRUE, !.preMerge.maxBlocking = 9,
                         !.premergeError = TRUE, !.blockOnFail = FALSE]
MCSettings == {Plain, Judged, Policed}
MCBase == [blocking |-> 2, warning |-> 1, info |-> 0]
Undisturbed == [conflict |-> FALSE, failingCi |-> FALSE, approvals |-> 0,
                changesRequested |-> FALSE, large |-> FALSE, stale |-> FALSE]
MCSeen == {Undisturbed}

\* At rest a part is in one of its initial states, always the same.
MCInit ==
    /\ part \in {"flow", "model", "registry"}
    /\ Init /\ LlmInit /\ RegistryInit
    /\ part # "registry" => kind = "exists" /\ truth = "yes"
    /\ part # "flow" => set = [r \in Run |-> Plain]

MCNext ==
    /\ UNCHANGED part
    /\ \/ part = "flow" /\ Next /\ UNCHANGED <<llmVars, registryVars>>
       \/ part = "model" /\ LlmNext /\ UNCHANGED <<vars, registryVars>>
       \/ part = "registry" /\ RegistryNext /\ UNCHANGED <<vars, llmVars>>

MCSpec == MCInit /\ [][MCNext]_<<part, vars, llmVars, registryVars>>
=============================================================================
