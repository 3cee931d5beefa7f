------------------------------ MODULE Findings ------------------------------
(***************************************************************************)
(* What the review pipeline does to the findings of a run, as operators:   *)
(* severity floor, policy caps, signal budget, baseline filter, confidence *)
(* and grounding, quality gate, and the verdicts drawn from what is left:  *)
(* the review event, the check run's conclusion, the readiness score.      *)
(*                                                                         *)
(* A finding is a record of the fields these steps read; its message and   *)
(* suggestion are not among them.  A confidence of 0 is None.  The lists   *)
(* of the code are sets here: the order matters to the budget alone, which *)
(* is stated for any order that its sort may leave.                        *)
(***************************************************************************)
EXTENDS Integers, FiniteSets, Sequences

CONSTANT Unset      \* an option that a layer of the settings leaves open

Severity == {"blocking", "warning", "info"}
Rank == [blocking |-> 3, warning |-> 2, info |-> 1]

SeverityAtLeast(sev, least) == Rank[sev] >= Rank[least]

IsFinding(f) ==
    /\ f = [detector |-> f.detector, severity |-> f.severity, file |-> f.file, line |-> f.line,
            confidence |-> f.confidence, about |-> f.about]
    /\ f.severity \in Severity /\ f.confidence \in 0..5

OfSeverity(S, sev) == {f \in S : f.severity = sev}
Count(S, sev) == Cardinality(OfSeverity(S, sev))

-----------------------------------------------------------------------------
\* Policy packs: dashboard settings under the repository's overlay, and the
\* review personality on top.

Overlay(base, option) == IF option = Unset THEN base ELSE option

\* The keys that forbid a severity outside of Severity, or a number that does not
\* parse, leave the option unset: they are never among the layers' values.
LoadPack(preMerge, org, repo) ==
    [minSeverity |-> Overlay(Overlay("info", org.minSeverity), repo.minSeverity),
     maxBlocking |-> Overlay(Overlay(preMerge.maxBlocking, org.maxBlocking), repo.maxBlocking),
     maxWarnings |-> Overlay(Overlay(preMerge.maxWarnings, org.maxWarnings), repo.maxWarnings),
     forbidden   |-> Overlay(Overlay({}, org.forbidden), repo.forbidden),
     checkRun    |-> Overlay(Overlay(TRUE, org.checkRun), repo.checkRun)]

Strictness == {"lenient", "balanced", "strict", "nitpick"}

\* The repository's choice, the dashboard's, the file's, the file's `strict` flag.
LoadStrictness(repo, org, file, strict) ==
    Overlay(Overlay(Overlay(IF strict THEN "strict" ELSE "balanced", file), org), repo)

Least(a, b) == IF a < b THEN a ELSE b
Most(a, b) == IF a < b THEN b ELSE a

ApplyToPack(strictness, pack) ==
    CASE strictness = "lenient" ->
            [pack EXCEPT !.minSeverity = IF @ = "info" THEN "warning" ELSE @,
                         !.maxWarnings = Least(@, 12)]
      [] strictness = "balanced" -> pack
      [] strictness = "strict" ->
            [pack EXCEPT !.minSeverity = IF @ = "blocking" THEN "warning" ELSE @,
                         !.maxWarnings = Most(@, 15)]
      [] strictness = "nitpick" ->
            [pack EXCEPT !.minSeverity = "info", !.maxWarnings = Most(@, 40)]

DefaultBudget == [blocking |-> 12, warning |-> 5, info |-> 0]

StrictnessBudget(strictness, base) ==
    CASE strictness = "lenient" -> [base EXCEPT !.warning = Least(@, 5), !.info = 0]
      [] strictness = "balanced" -> base
      [] strictness = "strict" ->
            [base EXCEPT !.warning = Most(@, 12), !.info = Least(Most(@, 2), 4)]
      [] strictness = "nitpick" ->
            [base EXCEPT !.warning = Most(@, 20), !.info = Most(@, 15)]

AgentBudget(base) ==
    [base EXCEPT !.blocking = @ + 5, !.warning = Least(@, 5), !.info = 1]

-----------------------------------------------------------------------------
\* The steps on the way, in the pipeline's order.

\* Findings of the policy itself are about a file named POLICY, line 0.
Policy(what) == [detector |-> "policy", severity |-> "blocking", file |-> "POLICY",
                 line |-> 0, confidence |-> 0, about |-> what]

\* A forbidden path is reported on its first line.
ForbiddenPath(file) == [detector |-> "policy", severity |-> "blocking", file |-> file,
                        line |-> 1, confidence |-> 0, about |-> "forbidden"]

ForbiddenPathFindings(changed, forbidden) == {ForbiddenPath(p) : p \in changed \cap forbidden}

SeverityFloor(S, least) == {f \in S : SeverityAtLeast(f.severity, least)}

\* described, titled: what require_description and require_title_convention ask of
\* the pull request, TRUE when they ask nothing.
EnforcePrMetadata(S, described, titled) ==
    S \cup {f \in {Policy("description")} : ~described} \cup {f \in {Policy("title")} : ~titled}

EnforceCountCaps(S, pack) ==
    S \cup {f \in {Policy("max_blocking")} : Count(S, "blocking") > pack.maxBlocking}
      \cup {f \in {Policy("max_warnings")} : Count(S, "warning") > pack.maxWarnings}

\* Before the budget cuts, findings are sorted by severity and detector.
DetectorRank(d) ==
    CASE d = "secrets" -> 0
      [] d = "policy" -> 1
      [] d = "hallucinated-imports" -> 2
      [] d = "phantom-deps" -> 3
      [] d = "vulnerabilities" -> 4
      [] d = "todo-leaks" -> 5
      [] d = "stale-api" -> 6
      [] d = "guidelines" -> 7
      [] d = "slop" -> 8
      [] d \in {"over-engineering", "boilerplate"} -> 9
      [] d = "graph" -> 10
      [] OTHER -> 11

\* K is what apply_signal_budget may keep of S: of each severity as many as the
\* budget lets through, and none that is outranked by one it drops.  File and line
\* break ties of the code; here any of the tied may stay.
WithinBudget(K, S, budget) ==
    /\ K \subseteq S
    /\ \A sev \in Severity :
          Count(K, sev) = Least(Count(S, sev), budget[sev])
    /\ \A f \in K, g \in S \ K :
          f.severity = g.severity => DetectorRank(f.detector) <= DetectorRank(g.detector)

OnChangedLines(S, changed) == {f \in S : <<f.file, f.line>> \in changed}

\* The line of the new file that each line of a patch is at, and those a patch
\* adds.  A patch is a sequence of marks: a hunk's start, "+", "-" or a space.
LineAt(patch) ==
    LET at[i \in 0..Len(patch)] ==
            IF i = 0 THEN 0
            ELSE CASE patch[i].mark = "@@" -> patch[i].start
                   [] patch[i].mark \in {"+", " "} -> at[i - 1] + 1
                   [] patch[i].mark = "-" -> at[i - 1]
    IN  at

ParsePatchChangedLines(patch) ==
    {LineAt(patch)[i - 1] : i \in {j \in DOMAIN patch : patch[j].mark = "+"}}

BaseConfidence(d) ==
    CASE d \in {"hallucinated-imports", "phantom-deps", "lockfile-drift", "license-drift",
                "secrets", "iac", "risky-patterns"} -> 5
      [] d \in {"vulnerabilities", "boilerplate", "over-engineering", "slop-detection",
                "stale-api", "graph", "guidelines", "todo-leaks", "policy"} -> 3
      [] OTHER -> 4

WithBase(f) == IF f.confidence = 0 THEN [f EXCEPT !.confidence = BaseConfidence(f.detector)]
                                   ELSE f
ApplyBase(S) == {WithBase(f) : f \in S}

Grounded(f) == f.confidence >= (IF f.severity = "blocking" THEN 3 ELSE 2)
RetainGrounded(S) == {f \in S : Grounded(f)}

\* Vulnerabilities on one line become one, as severe as the worst of them.
VulnerabilitiesAt(S, file, line) ==
    {f \in S : f.detector = "vulnerabilities" /\ f.file = file /\ f.line = line /\ line > 0}

MergeVulnerabilityFindings(S) ==
    LET group(f) == VulnerabilitiesAt(S, f.file, f.line)
        worst(G) == CHOOSE g \in G : \A h \in G : SeverityAtLeast(g.severity, h.severity)
        merged(G) == [worst(G) EXCEPT !.confidence = 0, !.about = "several"]
    IN  {IF Cardinality(group(f)) > 1 THEN merged(group(f)) ELSE f : f \in S}

-----------------------------------------------------------------------------
\* Verdicts.

Metric(S, metric) ==
    CASE metric = "new_issues" -> Cardinality(S)
      [] metric \in {"new_blocker_issues", "new_high_issues"} -> Count(S, "blocking")
      [] metric \in {"new_medium_issues", "new_warning_issues"} -> Count(S, "warning")
      [] metric = "new_info_issues" -> Count(S, "info")

Compares(operator, value, threshold) ==
    CASE operator = "gt" -> value > threshold
      [] operator = "gte" -> value >= threshold
      [] operator = "lt" -> value < threshold
      [] operator = "lte" -> value <= threshold
      [] operator = "eq" -> value = threshold
      [] operator = "ne" -> value # threshold

DefaultGate == {[metric |-> "new_blocker_issues", operator |-> "gt", threshold |-> 0],
                [metric |-> "new_medium_issues", operator |-> "gt", threshold |-> 5]}

\* One condition that holds fails the gate.
GatePasses(gate, S) ==
    \A c \in gate : ~Compares(c.operator, Metric(S, c.metric), c.threshold)

HasBlocking(S) == OfSeverity(S, "blocking") # {}

ReviewEvent(blocking, empty, autoApprove) ==
    IF blocking THEN "REQUEST_CHANGES"
    ELSE IF empty /\ autoApprove THEN "APPROVE" ELSE "COMMENT"

ConcernOf(d) ==
    IF d \in {"secrets", "vulnerabilities", "iac", "risky-patterns"} THEN "security"
    ELSE IF d = "guidelines" THEN "docs" ELSE "quality"

IsHardTier1(f) == \/ f.severity = "blocking"
                  \/ f.severity = "warning" /\ ConcernOf(f.detector) = "security"

IsSoft(f) == \/ f.severity = "info"
             \/ f.detector \in {"slop", "slop-detection", "guidelines", "boilerplate",
                                "over-engineering", "todo-leaks"}

IsAdvisoryDraft(S) ==
    /\ S # {} /\ ~HasBlocking(S)
    /\ \A f \in S : ~IsHardTier1(f) /\ IsSoft(f)

\* Mutant: the gate alone decides.
CheckConclusionByGate(S, gateFailed, blockOnFail) ==
    IF gateFailed /\ blockOnFail THEN "action_required"
    ELSE IF Count(S, "warning") > 0 THEN "neutral" ELSE "success"

\* The check run: gateFailed counts failed pre-merge checks, too.
CheckConclusion(S, gateFailed, blockOnFail) ==
    IF (gateFailed /\ blockOnFail) \/ HasBlocking(S) THEN "action_required"
    ELSE IF Count(S, "warning") > 0 THEN "neutral" ELSE "success"

\* What GitHub says of the pull request, as readiness::evaluate sees it.
ReadinessBlocked(cfg, seen, gatePassed, reachable) ==
    /\ cfg.blockOnBlockers
    /\ \/ ~gatePassed
       \/ seen.conflict
       \/ seen.failingCi
       \/ seen.approvals < cfg.requireApprovals
       \/ reachable

\* Weights in halves: threads 4, findings 5, size 3, staleness 2, approvals 2; the
\* score is five times the share earned, rounded half up.
ReadinessEarned(cfg, seen, S) ==
      (IF seen.changesRequested THEN 0 ELSE 4)
    + (IF Count(S, "warning") + Count(S, "blocking") <= 2 THEN 5 ELSE 0)
    + (IF seen.large THEN 0 ELSE 3)
    + (IF seen.stale THEN 0 ELSE 2)
    + (IF seen.approvals >= cfg.requireApprovals THEN 2 ELSE 0)

ReadinessScore(cfg, seen, S, gatePassed, reachable, premergeBlocked) ==
    IF ReadinessBlocked(cfg, seen, gatePassed, reachable) \/ premergeBlocked THEN 0
    ELSE (10 * ReadinessEarned(cfg, seen, S) + 16) \div 32
=============================================================================
