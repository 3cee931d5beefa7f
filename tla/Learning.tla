------------------------------ MODULE Learning ------------------------------
(***************************************************************************)
(* What the bot learns from dismissals (src/learning).  A dismissal is a   *)
(* row of dismissed_findings; writing one may, four statements later, add  *)
(* an ignore rule or retire one (learning/mine.rs).  A review asks for the *)
(* dismissed fingerprints, the rules and the dismissed prefixes in three   *)
(* statements and drops findings by them (learning/store.rs).              *)
(*                                                                         *)
(* Dismissals come from the dashboard, from the ignore command, from       *)
(* reactions and resolved threads on comments that name a fingerprint, and *)
(* from comments that every review run of a pull request mines again.  All *)
(* of them, and the reviews, run beside each other in any number of        *)
(* replicas.                                                               *)
(***************************************************************************)
EXTENDS Integers, FiniteSets

CONSTANTS
    None,               \* an absent value
    Scope, Global,      \* the instance, organisations and repositories
    Repo, Chain,        \* Chain[s] : what is in force in s : s and what contains it
    Pr, PrRepo,         \* pull requests, and the repository of each
    Pages,              \* what dashboards and scripts send of the review they show
    Fp,                 \* full fingerprints, prefixes of them, and mined marks
    Mined,              \* Mined[p][d] : the mark for detector d on pull request p
    Prefixes,           \* <<p, f>> : p has at least 12 characters and begins f
    Detector, Security, \* detectors, and those of them that guard security
    File, Pattern,      \* files and path patterns
    PatternOf, Under,   \* the pattern a file's dismissal gives; <<file, pattern>> matches
    Message, PhraseOf,  \* messages, and the words a rule takes from each
    Findings,           \* what a review may find
    Comments,           \* Comments[p] : what people wrote on pull request p
    Handwritten,        \* rules that are there from the beginning
    AutoApprove,        \* what auto_approve_rules may say: the file is read every time
    MinDismissals,
    Task, Review, RepoOf,
    MaxStarts           \* bound: requests that start

\* What a dismissal may name in place of a detector, and the files and the words of one.
Word == Detector \cup {"manual", "reaction", "resolve"}
Place == File \cup {"repo"}
Saying == Message \cup {"dashboard", "command", "reaction", "resolve", "mined"}

\* dismissed_findings and learned_rules.
Row == [detector : Word, pr : Pr \cup {None}, maintainer : BOOLEAN]
RuleRow == [id : Int, detector : Word, action : {"ignore", "always_warn", "downgrade"},
            under : Pattern \cup {None}, phrase : {PhraseOf[m] : m \in Saying} \cup {None},
            scope : Scope, status : {"suggested", "approved", "archived"}, count : Nat]

LearningAssumption ==
    /\ Global \in Scope /\ Repo \subseteq Scope
    /\ Chain \in [Scope -> SUBSET Scope]
    /\ \A s \in Scope : {Global, s} \subseteq Chain[s] /\ IsFiniteSet(Chain[s])
    /\ Security \subseteq Detector
    /\ MinDismissals \in Nat \ {0}
    /\ AutoApprove \subseteq BOOLEAN
    /\ \A p \in Pr : PrRepo[p] \in Repo
    /\ Pages \subseteq [on : Repo, scope : Scope, pr : Pr \cup {None}]
    /\ Findings \subseteq [fp : Fp, detector : Detector, file : File, message : Message,
                          severity : {"blocking", "warning", "info"}]
    /\ Prefixes \subseteq Fp \X Fp
    /\ \A f \in Place : PatternOf[f] \in Pattern
    /\ \A p \in Pr : \A c \in Comments[p] :
          /\ c.detector \in Detector
          /\ c.detector \notin Security => Mined[p][c.detector] \in Fp
    /\ Handwritten \subseteq {r \in RuleRow : r.id < 0}
    /\ IsFiniteSet(Fp) /\ IsFiniteSet(Scope)
    /\ RepoOf \in [Review -> Repo]
    /\ MaxStarts \in Nat

ASSUME Assumptions == LearningAssumption

\* None is neither a row nor a pull request.
ASSUME NoneIsNone == None \notin Row \cup Pr

VARIABLES
    rows,       \* dismissed_findings : a Row, or None, for each scope and fingerprint
    rules,      \* learned_rules
    minted,     \* rules there have been
    pc, job,    \* per task : its statement, and the dismissal it is about
    maint, prs, \* per task : the two counts
    doomed,     \* per task : the rule to archive
    todo,       \* per task : comments still to mine
    rpc, exact, active, fate, \* per review : its statement, what it has read, its outcome
    said,       \* as history : all dismissals
    standing,   \* as history : those that no unresolved thread has taken back
    seen,       \* per review, as history : those that stood at any time since it began
    approved,   \* as history : <<detector, scope>> of ignore rules ever approved
    left        \* what remains of MaxStarts

tables == <<rows, rules, minted>>
taskVars == <<pc, job, maint, prs, doomed, todo>>
reviewVars == <<rpc, exact, active, fate>>
history == <<said, standing, seen, approved>>
vars == <<rows, rules, minted, pc, job, maint, prs, doomed, todo,
          rpc, exact, active, fate, said, standing, seen, approved, left>>

-----------------------------------------------------------------------------
\* Rows and rules.

RowsOf(s) == {rows[s][fp] : fp \in {g \in Fp : rows[s][g] # None}}

\* Mutant: wherever they are.
CountMaintainerRowsAnywhere(d, s) ==
    Cardinality({q \in Scope \X Fp :
        LET row == rows[q[1]][q[2]]
        IN  row # None /\ row.detector = d /\ row.maintainer})

\* In all that is in force there.
CountMaintainerRows(d, s) ==
    Cardinality({q \in Chain[s] \X Fp :
        LET row == rows[q[1]][q[2]]
        IN  row # None /\ row.detector = d /\ row.maintainer})

\* Of the one repository.
CountDistinctPrs(d, s) ==
    Cardinality({row.pr : row \in {w \in RowsOf(s) : w.detector = d /\ w.pr # None}})

InForce(s) == {r \in rules : r.status = "approved" /\ r.scope \in Chain[s]}

AppliesTo(r, file) == r.under = None \/ <<file, r.under>> \in Under
Says(r, message) == r.phrase = None \/ r.phrase = PhraseOf[message]

\* ORDER BY length of the scope, evidence, id, each as good as the ids are random.
NotBefore(r, q) == \/ Cardinality(Chain[r.scope]) < Cardinality(Chain[q.scope])
                   \/ /\ Cardinality(Chain[r.scope]) = Cardinality(Chain[q.scope])
                      /\ r.count <= q.count
First(S) == {q \in S : \A r \in S : NotBefore(r, q)}

\* What find_approved_rule_for_detector may return: the message is not asked about.
Decaying(d, file, s) ==
    First({r \in InForce(s) : r.detector = d /\ AppliesTo(r, file)})

\* What a review does to finding f: the fate of f, given the rules it has read.
Matching(R, f) ==
    {r \in R : r.detector = f.detector /\ AppliesTo(r, f.file) /\ Says(r, f.message)}

Ignored(R, f) == \E r \in Matching(R, f) : r.action = "ignore"

Lowered == [blocking |-> "warning", warning |-> "info", info |-> "info"]

\* The severities that may be left of f.
Adjusted(R, f) ==
    LET M == Matching(R, f)
    IN  IF M = {} THEN {f.severity}
        ELSE {CASE r.action = "downgrade" -> Lowered[f.severity]
                [] r.action = "always_warn" /\ f.severity = "info" -> "warning"
                [] OTHER -> f.severity : r \in First(M)}

-----------------------------------------------------------------------------
Init ==
    /\ rows = [s \in Scope |-> [fp \in Fp |-> None]]
    /\ rules = Handwritten /\ minted = 0
    /\ pc = [t \in Task |-> "idle"]
    /\ job = [t \in Task |-> None]
    /\ maint = [t \in Task |-> 0]
    /\ prs = [t \in Task |-> 0]
    /\ doomed = [t \in Task |-> None]
    /\ todo = [t \in Task |-> {}]
    /\ rpc = [v \in Review |-> "idle"]
    /\ exact = [v \in Review |-> {}]
    /\ active = [v \in Review |-> {}]
    /\ fate = [v \in Review |-> None]
    /\ said = {} /\ standing = {}
    /\ seen = [v \in Review |-> {}]
    /\ approved = {}
    /\ left = MaxStarts

Spend == left > 0 /\ left' = left - 1

Goto(t, label) == pc' = [pc EXCEPT ![t] = label]

\* Back to the comments that are left to mine, or to the end.
Done(t) ==
    /\ Goto(t, IF todo[t] = {} THEN "idle" ELSE "mine")
    /\ job' = [job EXCEPT ![t] = None]
    /\ maint' = [maint EXCEPT ![t] = 0]
    /\ prs' = [prs EXCEPT ![t] = 0]
    /\ doomed' = [doomed EXCEPT ![t] = None]
    /\ UNCHANGED todo

-----------------------------------------------------------------------------
\* Dismissals.

Dismissal(fp, d, file, message, s, pr, maintainer) ==
    [fp |-> fp, detector |-> d, file |-> file, message |-> message, scope |-> s,
     pr |-> pr, maintainer |-> maintainer, on |-> s]

\* The upsert: what a row says of its detector is overwritten; a pull request is kept
\* when the new one has none, and a maintainer's word stays.
Upserted(row, d) ==
    [detector   |-> d.detector,
     pr         |-> IF d.pr = None /\ row # None THEN row.pr ELSE d.pr,
     maintainer |-> d.maintainer \/ (row # None /\ row.maintainer)]

Saids == [fp : Fp, detector : Word, file : Place \cup {None}, message : Saying, scope : Scope,
          pr : Pr \cup {None}, maintainer : BOOLEAN, on : Scope]

\* Words that no rule is made of; "resolve" is not among them.
Unpromoted == {"manual", "reaction"}

Dismiss(t, d) ==
    /\ rows' = [rows EXCEPT ![d.scope][d.fp] = Upserted(@, d)]
    /\ said' = said \cup {d}
    /\ standing' = standing \cup {d}
    /\ seen' = [v \in Review |-> IF rpc[v] = "idle" THEN seen[v] ELSE seen[v] \cup {d}]
    /\ IF d.detector \in Unpromoted
       THEN Goto(t, "end") ELSE Goto(t, "maintainers")
    /\ job' = [job EXCEPT ![t] = d]
    /\ UNCHANGED <<rules, minted, maint, prs, doomed, reviewVars, approved>>

\* api/reviews.rs: a maintainer, who names what the page shows, or nothing.
DismissOnDashboard(t) ==
    /\ pc[t] = "idle" /\ Spend
    /\ \E f \in Findings, page \in Pages :
          \E d \in {Dismissal(f.fp, f.detector, f.file, f.message, page.scope, page.pr, TRUE),
                    Dismissal(f.fp, "manual", None, "dashboard", page.scope, page.pr, TRUE)} :
             Dismiss(t, [d EXCEPT !.on = page.on])
    /\ UNCHANGED todo

\* bot/commands.rs: anyone who may give commands.
IgnoreCommand(t) ==
    /\ pc[t] = "idle" /\ Spend
    /\ \E fp \in Fp, p \in Pr :
          Dismiss(t, Dismissal(fp, "manual", "repo", "command", PrRepo[p], p, FALSE))
    /\ UNCHANGED todo

\* bot/reactions.rs: the fingerprint is what the comment says, whoever wrote it and
\* whatever it is of : a finding, part of one, or a mined mark.
React(t) ==
    /\ pc[t] = "idle" /\ Spend
    /\ \E fp \in Fp, s \in Repo :
          Dismiss(t, Dismissal(fp, "reaction", "repo", "reaction", s, None, TRUE))
    /\ UNCHANGED todo

\* bot/threads.rs: the same of the thread's comments.
Resolve(t) ==
    /\ pc[t] = "idle" /\ Spend
    /\ \E fp \in Fp, s \in Repo :
          Dismiss(t, Dismissal(fp, "resolve", "repo", "resolve", s, None, TRUE))
    /\ UNCHANGED todo

\* Anyone may: no permission is asked for.
Unresolve ==
    /\ Spend
    /\ \E fp \in Fp, s \in Repo :
          /\ rows' = [rows EXCEPT ![s][fp] = None]
          /\ standing' = {d \in standing : d.fp # fp \/ d.scope # s}
    /\ UNCHANGED <<rules, minted, taskVars, reviewVars, said, seen, approved>>

-----------------------------------------------------------------------------
\* learning/mine.rs: promotion.  Each of its statements may fail, and nobody minds.

GiveUp(t) ==
    /\ pc[t] \in {"maintainers", "prs", "decay", "archive", "add", "end"}
    /\ Done(t)
    /\ UNCHANGED <<tables, reviewVars, history, left>>

CountMaintainers(t) ==
    /\ pc[t] = "maintainers"
    /\ maint' = [maint EXCEPT ![t] = CountMaintainerRows(job[t].detector, job[t].scope)]
    /\ Goto(t, "prs")
    /\ UNCHANGED <<tables, job, prs, doomed, todo, reviewVars, history, left>>

CountPrs(t) ==
    /\ pc[t] = "prs"
    /\ prs' = [prs EXCEPT ![t] = CountDistinctPrs(job[t].detector, job[t].scope)]
    /\ Goto(t, "decay")
    /\ UNCHANGED <<tables, job, maint, doomed, todo, reviewVars, history, left>>

\* The poisoning guard.
Allowed(d, maintainers, pullRequests) ==
    \/ maintainers >= 1
    \/ d \notin Security /\ pullRequests >= MinDismissals

\* A rule in force that the dismissal agrees with is retired; otherwise there may be one.
Decay(t) ==
    /\ pc[t] = "decay"
    /\ LET d == job[t]
           candidates == Decaying(d.detector, d.file, d.scope)
       IN  \/ \E r \in candidates :
                 /\ doomed' = [doomed EXCEPT ![t] = r.id]
                 /\ Goto(t, "archive")
           \/ /\ candidates = {}
              /\ Goto(t, IF Allowed(d.detector, maint[t], prs[t]) THEN "add" ELSE "end")
              /\ UNCHANGED doomed
    /\ UNCHANGED <<tables, job, maint, prs, todo, reviewVars, history, left>>

WithStatus(id, from, to) ==
    {IF r.id = id /\ r.status \in from THEN [r EXCEPT !.status = to] ELSE r : r \in rules}

Archive(t) ==
    /\ pc[t] = "archive"
    /\ rules' = WithStatus(doomed[t], {"suggested", "approved"}, "archived")
    /\ Done(t)
    /\ UNCHANGED <<rows, minted, reviewVars, history, left>>

Rule(d, action, under, phrase, status, count) ==
    [id |-> minted + 1, detector |-> d.detector, action |-> action, under |-> under,
     phrase |-> phrase, scope |-> d.scope, status |-> status, count |-> count]

Evidence(a, b) == IF a >= b THEN (IF a >= 1 THEN a ELSE 1) ELSE b

Insert(r) ==
    /\ rules' = rules \cup {r}
    /\ minted' = minted + 1
    /\ approved' = IF r.status = "approved" /\ r.action = "ignore"
                   THEN approved \cup {<<r.detector, r.scope>>} ELSE approved

AddRule(t) ==
    /\ pc[t] = "add"
    /\ \E auto \in AutoApprove :
          LET d == job[t]
          IN  Insert(Rule(d, "ignore", IF d.file = None THEN None ELSE PatternOf[d.file],
                          PhraseOf[d.message],
                          IF auto THEN "approved" ELSE "suggested",
                          Evidence(maint[t], prs[t])))
    /\ Done(t)
    /\ UNCHANGED <<rows, reviewVars, said, standing, seen, left>>

-----------------------------------------------------------------------------
\* mine_pr_comment_feedback: every review run reads the comments again.

StartMining(t) ==
    /\ pc[t] = "idle" /\ Spend
    /\ \E p \in Pr : /\ Comments[p] # {}
                     /\ todo' = [todo EXCEPT ![t] = {<<p, c>> : c \in Comments[p]}]
    /\ Goto(t, "mine")
    /\ UNCHANGED <<tables, job, maint, prs, doomed, reviewVars, history>>

\* A comment calls a detector wrong, or asks for what it found to be fixed.
Mine(t) ==
    /\ pc[t] = "mine"
    /\ \E m \in todo[t] :
          LET p == m[1]
              c == m[2]
              d == Dismissal(Mined[p][c.detector], c.detector, None, "mined",
                             PrRepo[p], p, FALSE)
              rest == todo[t] \ {m}
          IN  /\ todo' = [todo EXCEPT ![t] = rest]
              /\ \/ /\ c.kind = "wrong" /\ c.detector \in Security
                    /\ Goto(t, IF rest = {} THEN "idle" ELSE "mine")
                    /\ UNCHANGED <<tables, job, maint, prs, doomed, reviewVars, history>>
                 \/ /\ c.kind = "wrong" /\ c.detector \notin Security
                    /\ Dismiss(t, d)
                 \/ /\ c.kind = "pushback"
                    /\ Insert(Rule(d, "always_warn", None, None, "approved", 1))
                    /\ Goto(t, IF rest = {} THEN "idle" ELSE "mine")
                    /\ UNCHANGED <<rows, job, maint, prs, doomed, reviewVars,
                                   said, standing, seen>>
    /\ UNCHANGED left

\* A statement of the mining itself fails: the rest of the comments is not read.
MiningFails(t) ==
    /\ pc[t] = "mine"
    /\ todo' = [todo EXCEPT ![t] = {}]
    /\ Goto(t, "idle")
    /\ UNCHANGED <<tables, job, maint, prs, doomed, reviewVars, history, left>>

-----------------------------------------------------------------------------
\* Maintainers, on the dashboard or by command.

ApproveRule ==
    /\ Spend
    /\ \E r \in rules :
          /\ r.status = "suggested"
          /\ rules' = WithStatus(r.id, {"suggested"}, "approved")
          /\ approved' = approved \cup {<<r.detector, r.scope>>}
    /\ UNCHANGED <<rows, minted, taskVars, reviewVars, said, standing, seen>>

ArchiveRule ==
    /\ Spend
    /\ \E r \in rules :
          /\ r.status \in {"suggested", "approved"}
          /\ rules' = WithStatus(r.id, {"suggested", "approved"}, "archived")
    /\ UNCHANGED <<rows, minted, taskVars, reviewVars, history>>

DeleteRule ==
    /\ Spend
    /\ \E r \in rules : rules' = rules \ {r}
    /\ UNCHANGED <<rows, minted, taskVars, reviewVars, history>>

\* db/repos.rs: what a repository taught goes with it.
DeleteRepo ==
    /\ Spend
    /\ \E s \in Repo :
          /\ rows' = [rows EXCEPT ![s] = [fp \in Fp |-> None]]
          /\ rules' = {r \in rules : r.scope # s}
          /\ standing' = {d \in standing : d.scope # s}
    /\ UNCHANGED <<minted, taskVars, reviewVars, said, seen, approved>>

-----------------------------------------------------------------------------
\* filter_findings_async, for all that a review may find.

RGoto(v, label) == rpc' = [rpc EXCEPT ![v] = label]

ReadExact(v) ==
    /\ rpc[v] = "idle" /\ Spend
    /\ exact' = [exact EXCEPT ![v] =
          {f \in Findings : \E s \in Chain[RepoOf[v]] : rows[s][f.fp] # None}]
    /\ fate' = [fate EXCEPT ![v] = None]
    /\ seen' = [seen EXCEPT ![v] = standing]
    /\ RGoto(v, "rules")
    /\ UNCHANGED <<tables, taskVars, active, said, standing, approved>>

\* Mutant: whatever their status.
ReadAllRules(v) ==
    /\ rpc[v] = "rules"
    /\ active' = [active EXCEPT ![v] = {r \in rules : r.scope \in Chain[RepoOf[v]]}]
    /\ RGoto(v, "prefixes")
    /\ UNCHANGED <<tables, taskVars, exact, fate, history, left>>

ReadRules(v) ==
    /\ rpc[v] = "rules"
    /\ active' = [active EXCEPT ![v] = InForce(RepoOf[v])]
    /\ RGoto(v, "prefixes")
    /\ UNCHANGED <<tables, taskVars, exact, fate, history, left>>

PrefixDismissed(v, f) ==
    \E s \in Chain[RepoOf[v]], p \in Fp : rows[s][p] # None /\ <<p, f.fp>> \in Prefixes

ReadPrefixes(v) ==
    /\ rpc[v] = "prefixes"
    /\ \E g \in [Findings -> {"blocking", "warning", "info", "dropped"}] :
          /\ \A f \in Findings :
                g[f] \in IF \/ f \in exact[v] \/ PrefixDismissed(v, f)
                           \/ Ignored(active[v], f)
                        THEN {"dropped"} ELSE Adjusted(active[v], f)
          /\ fate' = [fate EXCEPT ![v] = g]
    /\ exact' = [exact EXCEPT ![v] = {}]
    /\ active' = [active EXCEPT ![v] = {}]
    /\ RGoto(v, "idle")
    /\ UNCHANGED <<tables, taskVars, history, left>>

\* A statement fails: all findings stay.
FilterFails(v) ==
    /\ rpc[v] \in {"rules", "prefixes"}
    /\ exact' = [exact EXCEPT ![v] = {}]
    /\ active' = [active EXCEPT ![v] = {}]
    /\ RGoto(v, "idle")
    /\ UNCHANGED <<tables, taskVars, fate, history, left>>

TaskStep(t) ==
    \/ DismissOnDashboard(t) \/ IgnoreCommand(t) \/ React(t) \/ Resolve(t)
    \/ StartMining(t) \/ Mine(t) \/ MiningFails(t)
    \/ CountMaintainers(t) \/ CountPrs(t) \/ Decay(t) \/ Archive(t) \/ AddRule(t)
    \/ GiveUp(t)

ReviewStep(v) == ReadExact(v) \/ ReadRules(v) \/ ReadPrefixes(v) \/ FilterFails(v)

Maintainer == Unresolve \/ ApproveRule \/ ArchiveRule \/ DeleteRule \/ DeleteRepo

Next == \/ \E t \in Task : TaskStep(t)
        \/ \E v \in Review : ReviewStep(v)
        \/ Maintainer

Spec == Init /\ [][Next]_vars
-----------------------------------------------------------------------------
\* Properties.

PrsThatDismissed(d, s) ==
    {x.pr : x \in {y \in said : y.detector = d /\ y.scope = s /\ y.pr # None}}

ByMaintainer(d, s) == \E x \in said : x.maintainer /\ x.detector = d /\ x.scope \in Chain[s]

\* The upsert keeps a maintainer's word when another detector takes over the row.
Inherited(d, s) ==
    \E x, y \in said : /\ x.detector = d /\ x.scope \in Chain[s]
                       /\ y.maintainer /\ y.scope = x.scope /\ y.fp = x.fp

Earned(d, s) ==
    \/ ByMaintainer(d, s)
    \/ /\ d \notin Security
       /\ Inherited(d, s) \/ Cardinality(PrsThatDismissed(d, s)) >= MinDismissals

\* mine.rs 12-60: however dismissals, un-dismissals and mining runs interleave, the bot
\* makes an ignore rule only of what a maintainer dismissed where the rule is in force;
\* or, for a detector that guards no security, of dismissals on enough pull requests of
\* the one repository, or of one under a fingerprint that a maintainer dismissed, or
\* whose thread one resolved.  No comment, whatever it names, makes a rule against a
\* security detector.
RulesAreEarned ==
    \A r \in rules : r.id > 0 /\ r.action = "ignore" => Earned(r.detector, r.scope)

ByHand(f, s, action) ==
    \E r \in Handwritten : r.detector = f.detector /\ r.scope = s /\ r.action = action

\* store.rs 385-560, threads.rs 20-70: what a review does not show was dismissed, in the
\* repository or around it, and not taken back before the review began; or an earned
\* rule was approved.  What is recorded for one organisation hides nothing in another,
\* and an unresolved thread shows its finding again.  Nothing is lowered by two levels, and
\* comments make nothing worse than a warning.
FatesHaveCauses ==
    \A v \in Review : fate[v] # None =>
        \A f \in Findings :
            /\ fate[v][f] = "dropped" =>
                  \/ \E d \in seen[v] : /\ d.scope \in Chain[RepoOf[v]]
                                        /\ d.fp = f.fp \/ <<d.fp, f.fp>> \in Prefixes
                  \/ \E s \in Chain[RepoOf[v]] :
                        \/ <<f.detector, s>> \in approved /\ Earned(f.detector, s)
                        \/ ByHand(f, s, "ignore")
            /\ fate[v][f] \notin {"dropped", f.severity} =>
                  \/ f.severity = "info" /\ fate[v][f] = "warning"
                  \/ /\ fate[v][f] = Lowered[f.severity]
                     /\ \E s \in Chain[RepoOf[v]] : ByHand(f, s, "downgrade")

-----------------------------------------------------------------------------
\* The inductive invariant, see LearningProofs.

\* The dismissal that the row of fp in scope s rests on: of its detector, and by a
\* maintainer unless the row is of the pull request it names and of no security.
Backs(x, s, fp, row) ==
    /\ x.scope = s /\ x.fp = fp /\ x.detector = row.detector
    /\ x.maintainer \/ (x.pr # None /\ x.pr = row.pr /\ x.detector \notin Security)

RowsBacked ==
    \A s \in Scope, fp \in Fp : rows[s][fp] # None =>
        /\ \E d \in standing : d.scope = s /\ d.fp = fp
        /\ rows[s][fp].detector \notin Unpromoted =>
              \E x \in said : Backs(x, s, fp, rows[s][fp])
        /\ rows[s][fp].maintainer =>
              \E y \in said : y.maintainer /\ y.scope = s /\ y.fp = fp

\* What a promotion has counted, it may go by although rows have come and gone since.
Promoting == {"maintainers", "prs", "decay", "archive", "add"}

CountsBacked ==
    \A t \in Task :
        LET d == job[t]
        IN  /\ pc[t] \in Promoting => d \in said /\ d.detector \notin Unpromoted
            /\ pc[t] \in {"prs", "decay"} /\ maint[t] >= 1 => Earned(d.detector, d.scope)
            /\ pc[t] = "decay" /\ d.detector \notin Security /\ prs[t] >= MinDismissals
                  => Earned(d.detector, d.scope)
            /\ pc[t] = "add" => Earned(d.detector, d.scope)

\* Where a rule is from.
Caused(r) ==
    \/ /\ r.id \in 1..minted
       /\ r.action = "ignore"
       /\ Earned(r.detector, r.scope)
       /\ r.status = "approved" => <<r.detector, r.scope>> \in approved
    \/ r.id \in 1..minted /\ r.action = "always_warn"
    \/ r.id < 0 /\ ByHand(r, r.scope, r.action)

RulesCaused ==
    /\ \A r \in rules : Caused(r)
    /\ \A r, q \in rules : r.id = q.id /\ r.id > 0 => r = q

\* A review goes by dismissals that stood since it began, and by rules in force.
ReviewsBacked ==
    \A v \in Review :
        /\ rpc[v] # "idle" =>
              /\ standing \subseteq seen[v]
              /\ \A f \in exact[v] :
                    \E d \in seen[v] : d.scope \in Chain[RepoOf[v]] /\ d.fp = f.fp
        /\ rpc[v] = "prefixes" =>
              \A r \in active[v] :
                 Caused(r) /\ r.status = "approved" /\ r.scope \in Chain[RepoOf[v]]

Labels == {"idle", "maintainers", "prs", "decay", "archive", "add", "end", "mine"}

TypeOK ==
    /\ rows \in [Scope -> [Fp -> Row \cup {None}]]
    /\ rules \subseteq RuleRow /\ minted \in Nat
    /\ pc \in [Task -> Labels]
    /\ job \in [Task -> said \cup {None}]
    /\ maint \in [Task -> Nat] /\ prs \in [Task -> Nat]
    /\ doomed \in [Task -> Int \cup {None}]
    /\ todo \in [Task -> SUBSET UNION {{<<p, c>> : c \in Comments[p]} : p \in Pr}]
    /\ rpc \in [Review -> {"idle", "rules", "prefixes"}]
    /\ exact \in [Review -> SUBSET Findings]
    /\ active \in [Review -> SUBSET RuleRow]
    /\ fate \in [Review -> [Findings -> {"blocking", "warning", "info", "dropped"}] \cup {None}]
    /\ said \subseteq Saids /\ IsFiniteSet(said)
    /\ standing \subseteq said
    /\ seen \in [Review -> SUBSET said]
    /\ left \in Nat

IInv ==
    /\ TypeOK
    /\ RowsBacked /\ CountsBacked /\ RulesCaused /\ ReviewsBacked
    /\ FatesHaveCauses

\* CHANGELOG.md 46: "Dashboard dismiss now sends `repo_full_name` so suppressions are not
\* stored as global."  What nobody dismissed on a pull request of the same organisation is
\* not hidden there.
HiddenWhereDismissed ==
    \A v \in Review : fate[v] # None =>
        \A f \in Findings : fate[v][f] = "dropped" =>
            \E d \in said : Chain[d.on] \cap Chain[RepoOf[v]] # {Global}

\* mine.rs 16-17: "Other detectors require a maintainer dismissal, or dismissals across
\* `learning.min_dismissals_for_rule` distinct PRs within the same repo": of the detector,
\* not of a mark that a comment named.
DetectorsDismissed ==
    \A r \in rules : r.id > 0 /\ r.action = "ignore" =>
        \/ ByMaintainer(r.detector, r.scope)
        \/ Cardinality(PrsThatDismissed(r.detector, r.scope)) >= MinDismissals
=============================================================================
