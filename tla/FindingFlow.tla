---------------------------- MODULE FindingFlow ----------------------------
(***************************************************************************)
(* The findings of the review runs of one pull request, from the detectors *)
(* to what GitHub shows (src/bot/review/pipeline.rs).  The runs are in     *)
(* different replicas, or in one after the other; they share the table of  *)
(* the pull request's changed lines, which each run clears and fills anew, *)
(* file by file, before its baseline filter reads it (src/baseline.rs).    *)
(*                                                                         *)
(* What the filters and verdicts compute is in Findings.                   *)
(***************************************************************************)
EXTENDS Findings

CONSTANTS
    Run, Commit, HeadOf,    \* runs, commits, the commit that each run reviews
    File, Patch,            \* Patch[h][f] : what GitHub shows of what commit h does to f
    Added,                  \* Added[h] : the lines it adds, as <<file, line>>
    Reports,                \* what detectors may report: sets of findings
    Settings,               \* the settings a run may load
    Base,                   \* the signal budget before strictness
    MaxInline,              \* CODASAURUS_MAX_INLINE_COMMENTS
    Seen,                   \* what GitHub may say about the pull request
    Kinds, Budget           \* which calls may fail, and how often in all

ASSUME FlowAssumption ==
    /\ HeadOf \in [Run -> Commit]
    /\ IsFiniteSet(File)
    /\ \A S \in Reports : IsFiniteSet(S) /\ \A f \in S : IsFinding(f) /\ f.file \in File
    /\ Base \in [Severity -> Nat]
    /\ MaxInline \in Nat /\ Budget \in Nat

\* An option is left open or one of the values that its parser lets through.
ASSUME SettingsAssumption ==
    \A s \in Settings :
        /\ \A layer \in {s.org, s.repo} :
              /\ layer.minSeverity \in Severity \cup {Unset}
              /\ layer.strictness \in Strictness \cup {Unset}
        /\ s.file \in Strictness \cup {Unset}

Changed(h, f) == {<<f, n>> : n \in ParsePatchChangedLines(Patch[h][f])}

\* GitHub leaves out the patch of a large file.
Shown(h) == {line \in Added[h] : Patch[h][line[1]] # << >>}

\* A patch is read the way it was written.
ASSUME PatchAssumption ==
    \A h \in Commit :
        LET read == UNION {Changed(h, f) : f \in File}
        IN  read \subseteq Added[h] /\ Shown(h) \subseteq read

VARIABLES
    lines,      \* pr_diff_lines of the pull request
    reviews,    \* GitHub: reviews of the pull request, as <<commit, event>>
    inlined,    \* GitHub: fingerprints of inline comments
    pc, set, unsaved, fs, already, \* per run: settings, files to save, findings, comments seen
    found,      \* per run, as history: what the detectors reported
    draft,      \* per run: does its overview call the findings advisory
    event,      \* per run: the review it posted, or why not
    check,      \* per run: the conclusion of its check run
    score,      \* per run: readiness
    cut,        \* as history: runs whose changed lines may be incomplete when read
    stale,      \* as history: runs whose changed lines may hold others
    twice,      \* as history: fingerprints commented on again
    blind,      \* as history: has a run not seen another one's comments
    left        \* what remains of Budget

shared == <<lines, reviews, inlined>>
outcome == <<draft, event, check, score>>
history == <<cut, stale, twice, blind>>
vars == <<lines, reviews, inlined, pc, set, unsaved, fs, already, found,
          draft, event, check, score, cut, stale, twice, blind, left>>

-----------------------------------------------------------------------------
\* What a run makes of its settings.

StrictnessOf(s) == LoadStrictness(s.repo.strictness, s.org.strictness, s.file, s.strict)
PackOf(s) == ApplyToPack(StrictnessOf(s), LoadPack(s.preMerge, s.org, s.repo))
SignalOf(s) == LET signal == StrictnessBudget(StrictnessOf(s), Base)
               IN  IF s.agent THEN AgentBudget(signal) ELSE signal

\* All that competes for the budget.
Prepared(s, S) ==
    LET all == S \cup ForbiddenPathFindings(File, PackOf(s).forbidden)
        floored == SeverityFloor(all, PackOf(s).minSeverity)
    IN  EnforceCountCaps(EnforcePrMetadata(floored, s.described, s.titled), PackOf(s))

\* Detector, file, line and message: neither severity nor confidence.
Fingerprint(f) == [detector |-> f.detector, file |-> f.file, line |-> f.line, about |-> f.about]

\* C may be the inline comments of a run: of each file and detector the most severe
\* finding that has a line, unless GitHub shows it already; blocking ones first.
InlineComments(C, S, shown) ==
    LET anchored == {f \in MergeVulnerabilityFindings(S) : f.line # 0}
        worst == {f \in anchored : \A g \in anchored :
                    g.file = f.file /\ g.detector = f.detector =>
                        SeverityAtLeast(f.severity, g.severity)}
        pair(f) == <<f.file, f.detector>>
    IN  \E R \in SUBSET worst :
            /\ \A f, g \in R : pair(f) = pair(g) => f = g
            /\ {pair(f) : f \in R} = {pair(f) : f \in worst}
            /\ LET fresh == {f \in R : Fingerprint(f) \notin shown}
               IN  /\ C \subseteq fresh
                   /\ Cardinality(C) =
                        IF Cardinality(fresh) < MaxInline THEN Cardinality(fresh) ELSE MaxInline
                   /\ \A f \in C, g \in fresh \ C : SeverityAtLeast(f.severity, g.severity)

-----------------------------------------------------------------------------
Init ==
    /\ lines = {} /\ reviews = {} /\ inlined = {}
    /\ pc = [r \in Run |-> "clear"]
    /\ \E s \in Settings : set = [r \in Run |-> s]
    /\ unsaved = [r \in Run |-> {}]
    /\ fs = [r \in Run |-> {}]
    /\ already = [r \in Run |-> {}]
    /\ found = [r \in Run |-> {}]
    /\ draft = [r \in Run |-> FALSE]
    /\ event = [r \in Run |-> "none"]
    /\ check = [r \in Run |-> "none"]
    /\ score = [r \in Run |-> Unset]
    /\ cut = {} /\ stale = {} /\ twice = {} /\ blind = FALSE
    /\ left = Budget

Goto(r, label) == pc' = [pc EXCEPT ![r] = label]

Fails(kind) == kind \in Kinds /\ left > 0 /\ left' = left - 1

\* Runs that have begun to use the changed lines and not yet read them.
Gathering == {r \in Run : pc[r] = "save"}

-----------------------------------------------------------------------------
\* Mutant: what is there already stays.
ClearNothing(r) ==
    /\ pc[r] = "clear"
    /\ Goto(r, "save")
    /\ unsaved' = [unsaved EXCEPT ![r] = File]
    /\ UNCHANGED <<shared, set, fs, already, found, outcome, history, left>>

\* A DELETE, whose failure is only logged.
Clear(r) ==
    /\ pc[r] = "clear"
    /\ Goto(r, "save")
    /\ unsaved' = [unsaved EXCEPT ![r] = File]
    /\ \/ /\ lines' = {}
          /\ cut' = cut \cup (Gathering \ {r})
          /\ UNCHANGED <<stale, left>>
       \/ /\ Fails("clear")
          /\ stale' = stale \cup {r}
          /\ UNCHANGED <<lines, cut>>
    /\ UNCHANGED <<reviews, inlined, set, fs, already, found, outcome, twice, blind>>

\* Mutant: the loop ends with the first file that is saved.
SaveFirst(r) ==
    /\ pc[r] = "save" /\ unsaved[r] # {}
    /\ lines' = lines \cup Changed(HeadOf[r], CHOOSE g \in unsaved[r] : TRUE)
    /\ unsaved' = [unsaved EXCEPT ![r] = {}]
    /\ UNCHANGED <<reviews, inlined, pc, set, fs, already, found, outcome, history, left>>

\* One INSERT for each file that has changed lines, in the order of GitHub's list; the
\* first that fails ends the loop.
SaveLines(r) ==
    /\ pc[r] = "save" /\ unsaved[r] # {}
    /\ LET f == CHOOSE g \in unsaved[r] : TRUE
       IN  \/ /\ lines' = lines \cup Changed(HeadOf[r], f)
              /\ unsaved' = [unsaved EXCEPT ![r] = @ \ {f}]
              /\ stale' = stale \cup {q \in Gathering : HeadOf[q] # HeadOf[r]}
              /\ UNCHANGED <<cut, left>>
           \/ /\ Fails("save")
              /\ Changed(HeadOf[r], f) # {}
              /\ cut' = cut \cup {r}
              /\ unsaved' = [unsaved EXCEPT ![r] = {}]
              /\ UNCHANGED <<lines, stale>>
    /\ UNCHANGED <<reviews, inlined, pc, set, fs, already, found, outcome, twice, blind>>

\* Detectors, forbidden paths, severity floor, metadata, caps and budget; then
\* filter_new_code_findings: what lies elsewhere is suppressed (and recorded, which nothing
\* but the recording itself reads).  When one of its statements fails, all findings stay.
Detect(r) ==
    /\ pc[r] = "save" /\ unsaved[r] = {}
    /\ \E S \in Reports : \E K \in SUBSET Prepared(set[r], S) :
          /\ WithinBudget(K, Prepared(set[r], S), SignalOf(set[r]))
          /\ found' = [found EXCEPT ![r] = S]
          /\ \/ /\ fs' = [fs EXCEPT ![r] = OnChangedLines(K, lines)]
                /\ UNCHANGED <<stale, left>>
             \/ /\ Fails("filter")
                /\ fs' = [fs EXCEPT ![r] = K]
                /\ stale' = stale \cup {r}
    /\ Goto(r, "judge")
    /\ UNCHANGED <<lines, reviews, inlined, set, unsaved, already, outcome, cut, twice, blind>>

\* Mutant: GitHub is not asked for the comments it shows.
JudgeAlone(r) ==
    /\ pc[r] = "judge"
    /\ fs' = [fs EXCEPT ![r] = ApplyBase(@)]
    /\ Goto(r, "review")
    /\ UNCHANGED <<shared, set, unsaved, already, found, outcome, history, left>>

\* Base confidence, the model's verdicts, the grounding filter; then the comments that
\* GitHub shows, or none when it does not answer.
Judge(r) ==
    /\ pc[r] = "judge"
    /\ \E doubted \in SUBSET fs[r] :
          /\ set[r].judge \/ doubted = {}
          /\ LET based == ApplyBase(fs[r] \ doubted)
                            \cup {[f EXCEPT !.confidence = 1] : f \in doubted}
             IN  fs' = [fs EXCEPT ![r] = IF set[r].dropUngrounded THEN RetainGrounded(based)
                                         ELSE based]
    /\ \/ already' = [already EXCEPT ![r] = inlined] /\ UNCHANGED <<blind, left>>
       \/ Fails("list") /\ blind' = TRUE /\ already' = [already EXCEPT ![r] = {}]
    /\ Goto(r, "review")
    /\ UNCHANGED <<shared, set, unsaved, found, outcome, cut, stale, twice>>

\* A review of the commit, by whomever.
Reviewed(h) == \E v \in reviews : v[1] = h

Post(r, what) ==
    /\ reviews' = reviews \cup {<<HeadOf[r], what>>}
    /\ event' = [event EXCEPT ![r] = what]

\* review_exists_for_commit says no: there is none, or GitHub did not answer.
NoneSeen(r) ==
    \/ ~Reviewed(HeadOf[r]) /\ UNCHANGED left
    \/ Reviewed(HeadOf[r]) /\ Fails("lookup")

\* No findings: an approval if it is wanted, whose failure is only logged.
Approve(r) ==
    /\ pc[r] = "review" /\ fs[r] = {}
    /\ \/ ~set[r].autoApprove /\ UNCHANGED <<reviews, event, left>>
       \/ /\ set[r].autoApprove /\ Reviewed(HeadOf[r])
          /\ event' = [event EXCEPT ![r] = "exists"]
          /\ UNCHANGED <<reviews, left>>
       \/ /\ set[r].autoApprove /\ NoneSeen(r)
          /\ Post(r, ReviewEvent(FALSE, TRUE, TRUE))
       \/ set[r].autoApprove /\ Fails("post") /\ UNCHANGED <<reviews, event>>
    /\ Goto(r, "conclude")
    /\ already' = [already EXCEPT ![r] = {}]
    /\ UNCHANGED <<lines, inlined, set, unsaved, fs, found, draft, check, score, history>>

\* Findings: a review with the inline comments, unless there is one already.  When the
\* POST fails, so does the run.
Review(r) ==
    /\ pc[r] = "review" /\ fs[r] # {}
    /\ draft' = [draft EXCEPT ![r] = IsAdvisoryDraft(fs[r])]
    /\ \E C \in SUBSET MergeVulnerabilityFindings(fs[r]) :
          /\ InlineComments(C, fs[r], already[r])
          /\ \/ /\ C = {} /\ ~HasBlocking(fs[r])
                /\ Goto(r, "conclude")
                /\ UNCHANGED <<reviews, event, inlined, twice, blind, left>>
             \/ /\ C # {} \/ HasBlocking(fs[r])
                /\ Reviewed(HeadOf[r])
                /\ event' = [event EXCEPT ![r] = "exists"]
                /\ Goto(r, "conclude")
                /\ UNCHANGED <<reviews, inlined, twice, blind, left>>
             \/ /\ C # {} \/ HasBlocking(fs[r])
                /\ NoneSeen(r)
                /\ Post(r, ReviewEvent(HasBlocking(fs[r]), FALSE, FALSE))
                /\ inlined' = inlined \cup {Fingerprint(f) : f \in C}
                /\ twice' = twice \cup (inlined \cap {Fingerprint(f) : f \in C})
                /\ blind' = (blind \/ \E q \in Run \ {r} : pc[q] = "review")
                /\ Goto(r, "conclude")
             \/ /\ C # {} \/ HasBlocking(fs[r])
                /\ Fails("post")
                /\ Goto(r, "failed")
                /\ UNCHANGED <<reviews, event, inlined, twice, blind>>
    /\ already' = [already EXCEPT ![r] = {}]
    /\ UNCHANGED <<lines, set, unsaved, fs, found, check, score, cut, stale>>

\* A clean pull request gets its check run and nothing else; otherwise pre-merge checks
\* and readiness come first.
Conclude(r) ==
    /\ pc[r] = "conclude"
    /\ \E premergeFails \in BOOLEAN, seen \in Seen :
          LET s == set[r]
              gate == GatePasses(Overlay(s.gate, s.repo.gate), fs[r])
              blocked == fs[r] # {} /\ premergeFails
          IN  /\ premergeFails => s.premergeError
              /\ score' = [score EXCEPT ![r] =
                    IF fs[r] = {} THEN Unset
                    ELSE ReadinessScore(s.readiness, seen, fs[r], gate, FALSE, blocked)]
              /\ \/ /\ PackOf(s).checkRun
                    /\ check' = [check EXCEPT ![r] =
                            CheckConclusion(fs[r], ~gate \/ blocked, s.blockOnFail)]
                    /\ UNCHANGED left
                 \/ /\ PackOf(s).checkRun /\ Fails("check")
                    /\ UNCHANGED check
                 \/ ~PackOf(s).checkRun /\ UNCHANGED <<check, left>>
    /\ Goto(r, "done")
    /\ fs' = [fs EXCEPT ![r] = {}]
    /\ UNCHANGED <<shared, set, unsaved, already, found, draft, event, history>>

Next == \E r \in Run :
    \/ Clear(r) \/ SaveLines(r) \/ Detect(r) \/ Judge(r)
    \/ Approve(r) \/ Review(r) \/ Conclude(r)

Spec == Init /\ [][Next]_vars

-----------------------------------------------------------------------------
\* Properties.

\* The blocking findings of a run on lines L that are trusted and not among more than the
\* budget has room for; it has to block for those on the lines that GitHub shows as added.
BlockersOn(r, L) ==
    {f \in found[r] :
        /\ f.severity = "blocking"
        /\ <<f.file, f.line>> \in L
        /\ Grounded(WithBase(f))
        /\ Count(Prepared(set[r], found[r]), "blocking") <= SignalOf(set[r]).blocking}

Holds(r) == BlockersOn(r, Shown(HeadOf[r]))

Blocks(r) == /\ event[r] \in {"REQUEST_CHANGES", "exists"}
             /\ check[r] \in {"action_required", "none"}

\* pipeline.rs 277-292, 676-745: a blocking finding on new code is not lost between the
\* detectors and GitHub, whatever other runs do, unless the run's changed lines were cut
\* short (by a failed INSERT, or by another run's DELETE) or the model doubted it; new code
\* is what GitHub shows a patch of.
NoSilentPass ==
    \A r \in Run :
        /\ pc[r] = "done" /\ r \notin cut
        /\ ~(set[r].judge /\ set[r].dropUngrounded)
        => (Holds(r) # {} => Blocks(r))

\* baseline.rs 92-160: what a run reports lies on lines that its commit adds, unless the
\* filter failed or lines of another commit were still, or again, in the table.
OldCodeQuiet ==
    \A r \in Run :
        pc[r] \in {"judge", "review", "conclude"} /\ r \notin stale =>
            \A f \in fs[r] : <<f.file, f.line>> \in Added[HeadOf[r]]

\* pipeline.rs 830-1350: the review, the check run and the readiness score of a run are
\* computed apart, and agree: none of them passes what another holds back.
VerdictsAgree ==
    \A r \in Run :
        pc[r] = "done" =>
            /\ event[r] = "REQUEST_CHANGES" =>
                  /\ check[r] \in {"action_required", "none"}
                  /\ DefaultGate \subseteq Overlay(set[r].gate, set[r].repo.gate)
                        /\ set[r].readiness.blockOnBlockers => score[r] = 0
            /\ event[r] = "APPROVE" => check[r] \in {"success", "none"}
            /\ draft[r] => event[r] \in {"COMMENT", "exists", "none"}

\* github.rs 115-170: a finding that is still open after a push gets no second comment,
\* unless GitHub would not list the first or the runs overlapped.
InlineOnce == ~blind => twice = {}

\* docs/codasaurus-toml.md 44, CHANGELOG.md 56: a violated policy (a missing description,
\* an unconventional title, a forbidden path) blocks.
PolicyEnforced ==
    \A r \in Run :
        /\ pc[r] = "done" /\ r \notin cut
        /\ ~set[r].described \/ ~set[r].titled \/ File \cap PackOf(set[r]).forbidden # {}
        => check[r] \in {"action_required", "none"}

\* docs/codasaurus-toml.md 144: "Findings on pre-existing lines are baseline-suppressed
\* (recorded once, then hidden)", and no others.  Not checked by the run: a file on a critical
\* path is fetched and searched whole (pipeline.rs 331-360), and what is found in it is all
\* suppressed when GitHub leaves out its patch; flow_patch_omitted.cfg shows it.
OnlyOldCodeHidden ==
    \A r \in Run :
        /\ pc[r] = "done" /\ r \notin cut
        /\ ~(set[r].judge /\ set[r].dropUngrounded)
        => (BlockersOn(r, Added[HeadOf[r]]) # {} => Blocks(r))

\* docs/codasaurus-toml.md 163: unless judge_tier1 is on, the model is not asked about
\* findings of deterministic detectors, so it cannot have one of them dropped.
JudgeSparesTier1 ==
    \A r \in Run :
        pc[r] = "done" /\ r \notin cut =>
            ({f \in Holds(r) : f.confidence = 0 /\ BaseConfidence(f.detector) = 5} # {}
                => Blocks(r))

-----------------------------------------------------------------------------
\* The inductive invariant, see FlowProofs.

FlowTypeOK ==
    /\ pc \in [Run -> {"clear", "save", "judge", "review", "conclude", "done", "failed"}]
    /\ set \in [Run -> Settings]
    /\ unsaved \in [Run -> SUBSET File]
    /\ fs = [r \in Run |-> fs[r]] /\ already = [r \in Run |-> already[r]]
    /\ \A r \in Run : IsFiniteSet(fs[r]) /\ \A f \in fs[r] : IsFinding(f)
    /\ found \in [Run -> Reports \cup {{}}]
    /\ draft \in [Run -> BOOLEAN]
    /\ event \in [Run -> {"none", "exists", "REQUEST_CHANGES", "APPROVE", "COMMENT"}]
    /\ check \in [Run -> {"none", "action_required", "neutral", "success"}]
    /\ score \in [Run -> Nat \cup {Unset}]
    /\ cut \subseteq Run /\ stale \subseteq Run /\ blind \in BOOLEAN
    /\ left \in Nat

\* While a run saves, the table has its lines and no others, as far as it has come.
LinesGathered ==
    \A r \in Run : pc[r] = "save" =>
        /\ r \notin stale => lines \subseteq Added[HeadOf[r]]
        /\ r \notin cut => \A f \in File \ unsaved[r] : Changed(HeadOf[r], f) \subseteq lines

\* Who is about to comment has seen every comment.
CommentsListed == \A r \in Run : pc[r] = "review" /\ ~blind => already[r] = inlined

\* What a run has said so far fits the findings it still has to conclude from.
SaidSoFar ==
    \A r \in Run :
        /\ pc[r] # "done" => check[r] = "none"
        /\ pc[r] \in {"clear", "save", "judge", "review"} => event[r] = "none" /\ ~draft[r]
        /\ pc[r] = "conclude" =>
              /\ event[r] = "REQUEST_CHANGES" => HasBlocking(fs[r])
              /\ event[r] = "APPROVE" => fs[r] = {}
              /\ draft[r] => event[r] \in {"COMMENT", "exists", "none"}

\* A run that has to block still has what it blocks for.
BlockersKept ==
    \A r \in Run :
        /\ pc[r] \in {"clear", "save"} => found[r] = {}
        /\ r \notin cut /\ ~(set[r].judge /\ set[r].dropUngrounded) /\ Holds(r) # {} =>
              /\ pc[r] = "judge" =>
                    \E f \in fs[r] : f.severity = "blocking" /\ Grounded(WithBase(f))
              /\ pc[r] \in {"review", "conclude"} => HasBlocking(fs[r])
              /\ pc[r] = "conclude" => event[r] \in {"REQUEST_CHANGES", "exists"}
              /\ pc[r] = "done" => Blocks(r)

FlowInv ==
    /\ FlowTypeOK
    /\ LinesGathered /\ OldCodeQuiet
    /\ CommentsListed /\ InlineOnce
    /\ SaidSoFar /\ BlockersKept
=============================================================================
