----------------------------- MODULE FlowProofs -----------------------------
(***************************************************************************)
(* Proofs about FindingFlow, for any number of runs, commits, files and    *)
(* findings, any settings and any failing calls: old code stays quiet, a   *)
(* finding gets no second comment, a blocking finding is not lost on its   *)
(* way to GitHub, and the verdicts of a run agree.  About Registry, whose  *)
(* answers the detectors' findings rest on: they are backed, for every     *)
(* time to live and every time a request may take.  And about LlmClient,   *)
(* whose tasks spend on the model: for any number of them and any budget   *)
(* what they spend past it is bounded.                                     *)
(***************************************************************************)
EXTENDS FindingFlow, Registry, LlmClient, FiniteSetTheorems, TLAPS

-----------------------------------------------------------------------------
\* Findings and what the steps make of them.

\* Confidence is all that the judge sets.
LEMMA Reconsidered ==
    ASSUME NEW f, IsFinding(f), NEW n \in 0..5
    PROVE  /\ IsFinding([f EXCEPT !.confidence = n])
           /\ [f EXCEPT !.confidence = n].file = f.file
           /\ [f EXCEPT !.confidence = n].line = f.line
           /\ [f EXCEPT !.confidence = n].severity = f.severity
           /\ [f EXCEPT !.confidence = n].confidence = n
<1>1. QED  BY DEF IsFinding

LEMMA Based ==
    ASSUME NEW f, IsFinding(f)
    PROVE  /\ IsFinding(WithBase(f))
           /\ WithBase(f).file = f.file /\ WithBase(f).line = f.line
           /\ WithBase(f).severity = f.severity
<1>1. BaseConfidence(f.detector) \in 0..5
  BY DEF BaseConfidence
<1>2. QED  BY <1>1, Reconsidered DEF WithBase

\* A mapped set is as finite as the set it comes from.
LEMMA BasedFinite ==
    ASSUME NEW S, IsFiniteSet(S)
    PROVE  IsFiniteSet(ApplyBase(S))
<1> DEFINE g == [f \in S |-> WithBase(f)]
<1>1. g \in Surjection(S, ApplyBase(S))
  BY DEF ApplyBase, Surjection
<1>2. QED  BY <1>1, FS_Surjection

LEMMA DoubtedFinite ==
    ASSUME NEW S, IsFiniteSet(S)
    PROVE  IsFiniteSet({[f EXCEPT !.confidence = 1] : f \in S})
<1> DEFINE T == {[f EXCEPT !.confidence = 1] : f \in S}
           g == [f \in S |-> [f EXCEPT !.confidence = 1]]
<1>1. g \in Surjection(S, T)
  BY DEF Surjection
<1>2. QED  BY <1>1, FS_Surjection

\* The findings that compete for the budget.
LEMMA PreparedFindings ==
    ASSUME FlowAssumption, NEW s, NEW S, S = {} \/ S \in Reports
    PROVE  IsFiniteSet(Prepared(s, S)) /\ \A f \in Prepared(s, S) : IsFinding(f)
<1> DEFINE pack == PackOf(s)
           forbidden == ForbiddenPathFindings(File, pack.forbidden)
           all == S \cup forbidden
           floored == SeverityFloor(all, pack.minSeverity)
           described == EnforcePrMetadata(floored, s.described, s.titled)
<1>1. IsFiniteSet(S) /\ \A f \in S : IsFinding(f)
  BY FS_EmptySet DEF FlowAssumption
<1>2. IsFiniteSet(forbidden) /\ \A f \in forbidden : IsFinding(f)
  <2>1. \A p : IsFinding(ForbiddenPath(p))
    BY DEF ForbiddenPath, IsFinding, Severity
  <2>2. IsFiniteSet(File \cap pack.forbidden)
    BY FS_Subset DEF FlowAssumption
  <2> DEFINE g == [p \in File \cap pack.forbidden |-> ForbiddenPath(p)]
  <2>3. g \in Surjection(File \cap pack.forbidden, forbidden)
    BY DEF Surjection, ForbiddenPathFindings
  <2>4. QED  BY <2>1, <2>2, <2>3, FS_Surjection DEF ForbiddenPathFindings
<1>3. \A what : IsFinding(Policy(what))
  BY DEF Policy, IsFinding, Severity
<1>4. IsFiniteSet(floored) /\ \A f \in floored : IsFinding(f)
  <2>1. IsFiniteSet(all) /\ \A f \in all : IsFinding(f)
    BY <1>1, <1>2, FS_Union
  <2>2. floored \subseteq all
    BY DEF SeverityFloor
  <2>3. QED  BY <2>1, <2>2, FS_Subset
<1>5. ASSUME NEW T, NEW U, IsFiniteSet(T), IsFiniteSet(U)
      PROVE  IsFiniteSet(T \cup U)
  BY <1>5, FS_Union
<1>6. ASSUME NEW T, NEW what, T \subseteq {Policy(what)}
      PROVE  IsFiniteSet(T) /\ \A f \in T : IsFinding(f)
  <2>1. IsFiniteSet({Policy(what)})
    BY FS_Singleton
  <2>2. IsFiniteSet(T)
    BY <1>6, <2>1, FS_Subset
  <2>3. QED  BY <1>3, <1>6, <2>2
<1>7. IsFiniteSet(described) /\ \A f \in described : IsFinding(f)
  <2> DEFINE missing == {f \in {Policy("description")} : ~s.described}
             untitled == {f \in {Policy("title")} : ~s.titled}
  <2>1. IsFiniteSet(missing) /\ \A f \in missing : IsFinding(f)
    BY <1>6
  <2>2. IsFiniteSet(untitled) /\ \A f \in untitled : IsFinding(f)
    BY <1>6
  <2>3. described = (floored \cup missing) \cup untitled
    BY DEF EnforcePrMetadata
  <2> HIDE DEF missing, untitled, floored, described
  <2>4. QED  BY <1>4, <1>5, <2>1, <2>2, <2>3
<1>8. QED
  <2> DEFINE many == {f \in {Policy("max_blocking")} :
                         Count(described, "blocking") > pack.maxBlocking}
             more == {f \in {Policy("max_warnings")} :
                         Count(described, "warning") > pack.maxWarnings}
  <2>1. IsFiniteSet(many) /\ \A f \in many : IsFinding(f)
    BY <1>6
  <2>2. IsFiniteSet(more) /\ \A f \in more : IsFinding(f)
    BY <1>6
  <2>3. Prepared(s, S) = (described \cup many) \cup more
    BY DEF Prepared, EnforceCountCaps
  <2> HIDE DEF many, more, described
  <2>4. QED  BY <1>5, <1>7, <2>1, <2>2, <2>3

\* The settings of a run.
LEMMA SettingsMake ==
    ASSUME FlowAssumption, SettingsAssumption, NEW s \in Settings
    PROVE  /\ PackOf(s).minSeverity \in Severity
           /\ SignalOf(s).blocking \in Nat
<1>1. /\ s.org.minSeverity \in Severity \cup {Unset} /\ s.repo.minSeverity \in Severity \cup {Unset}
      /\ s.org.strictness \in Strictness \cup {Unset}
      /\ s.repo.strictness \in Strictness \cup {Unset} /\ s.file \in Strictness \cup {Unset}
  BY DEF SettingsAssumption
<1>2. StrictnessOf(s) \in Strictness
  BY <1>1 DEF StrictnessOf, LoadStrictness, Overlay, Strictness
<1>3. PackOf(s).minSeverity \in Severity
  <2> DEFINE pack == LoadPack(s.preMerge, s.org, s.repo)
  <2>1. pack.minSeverity \in Severity
    BY <1>1 DEF LoadPack, Overlay, Severity
  <2>2. pack = [minSeverity |-> pack.minSeverity, maxBlocking |-> pack.maxBlocking,
                maxWarnings |-> pack.maxWarnings, forbidden |-> pack.forbidden,
                checkRun |-> pack.checkRun]
    BY DEF LoadPack
  <2> HIDE DEF pack
  <2>3. ApplyToPack(StrictnessOf(s), pack).minSeverity \in Severity
    BY <1>2, <2>1, <2>2 DEF ApplyToPack, Strictness, Severity
  <2>4. QED  BY <2>3 DEF PackOf, pack
<1>4. SignalOf(s).blocking \in Nat
  <2> DEFINE signal == StrictnessBudget(StrictnessOf(s), Base)
  <2>1. Base \in [Severity -> Nat]
    BY DEF FlowAssumption
  <2>2. /\ DOMAIN signal = Severity /\ signal["blocking"] = Base["blocking"]
        /\ Base["blocking"] \in Nat
    <3>1. /\ DOMAIN Base = Severity /\ "blocking" # "warning" /\ "blocking" # "info"
          /\ "blocking" \in Severity
      BY <2>1 DEF Severity
    <3>2. \/ \E n : signal = [Base EXCEPT !["warning"] = n]
          \/ \E n, m : signal = [Base EXCEPT !["warning"] = n, !["info"] = m]
          \/ signal = Base
      <4>1. CASE StrictnessOf(s) = "lenient"
        BY <4>1 DEF StrictnessBudget
      <4>2. CASE StrictnessOf(s) = "balanced"
        BY <4>2 DEF StrictnessBudget
      <4>3. CASE StrictnessOf(s) = "strict"
        BY <4>3 DEF StrictnessBudget
      <4>4. CASE StrictnessOf(s) = "nitpick"
        BY <4>4 DEF StrictnessBudget
      <4>5. QED  BY <1>2, <4>1, <4>2, <4>3, <4>4 DEF Strictness
    <3>3. QED  BY <2>1, <3>1, <3>2
  <2> HIDE DEF signal
  <2>3. AgentBudget(signal).blocking \in Nat /\ signal.blocking \in Nat
    BY <2>2 DEF AgentBudget, Severity, Least
  <2>4. QED  BY <2>3 DEF SignalOf, signal
<1>5. QED  BY <1>3, <1>4

\* A blocking finding that was reported competes for the budget.
LEMMA BlockersPrepared ==
    ASSUME FlowAssumption, SettingsAssumption, NEW s \in Settings, NEW S,
           NEW f \in S, f.severity = "blocking"
    PROVE  f \in Prepared(s, S)
<1>1. SeverityAtLeast(f.severity, PackOf(s).minSeverity)
  BY SettingsMake DEF SeverityAtLeast, Rank, Severity
<1>2. f \in SeverityFloor(S \cup ForbiddenPathFindings(File, PackOf(s).forbidden),
                          PackOf(s).minSeverity)
  BY <1>1 DEF SeverityFloor
<1>3. QED  BY <1>2 DEF Prepared, EnforcePrMetadata, EnforceCountCaps

\* A budget that has room for all blocking findings keeps each.
LEMMA BudgetKeeps ==
    ASSUME NEW S, IsFiniteSet(S), NEW K, NEW B, B.blocking \in Nat,
           WithinBudget(K, S, B), Count(S, "blocking") <= B.blocking,
           NEW f \in S, f.severity = "blocking"
    PROVE  f \in K
<1>1. OfSeverity(K, "blocking") \subseteq OfSeverity(S, "blocking")
  BY DEF OfSeverity, WithinBudget
<1>2. IsFiniteSet(OfSeverity(S, "blocking"))
  BY FS_Subset DEF OfSeverity
<1>3. Count(S, "blocking") \in Nat
  BY <1>2, FS_CardinalityType DEF Count
<1>4. Count(K, "blocking") = Count(S, "blocking")
  BY <1>3 DEF WithinBudget, Least, Severity
<1>5. OfSeverity(K, "blocking") = OfSeverity(S, "blocking")
  BY <1>1, <1>2, <1>4, FS_Subset DEF Count
<1>6. QED  BY <1>5 DEF OfSeverity

\* A gate that wants no blocking finding notices one.
LEMMA BlockersCount ==
    ASSUME NEW S, IsFiniteSet(S), HasBlocking(S)
    PROVE  Count(S, "blocking") \in Nat /\ Count(S, "blocking") > 0
<1>1. IsFiniteSet(OfSeverity(S, "blocking")) /\ OfSeverity(S, "blocking") # {}
  BY FS_Subset DEF OfSeverity, HasBlocking
<1>2. QED  BY <1>1, FS_CardinalityType, FS_EmptySet DEF Count

-----------------------------------------------------------------------------
\* The steps of the runs.

Step(r) == \/ Clear(r) \/ SaveLines(r) \/ Detect(r) \/ Judge(r)
           \/ Approve(r) \/ Review(r) \/ Conclude(r)

\* A run changes nothing that is another run's own.
LEMMA OthersStay ==
    ASSUME FlowTypeOK, NEW r \in Run, Step(r), NEW q \in Run, q # r
    PROVE  /\ pc'[q] = pc[q] /\ set'[q] = set[q] /\ unsaved'[q] = unsaved[q]
           /\ fs'[q] = fs[q] /\ already'[q] = already[q] /\ found'[q] = found[q]
           /\ draft'[q] = draft[q] /\ event'[q] = event[q] /\ check'[q] = check[q]
           /\ score'[q] = score[q]
<1> USE DEF FlowTypeOK, Goto, shared, outcome, history
<1>1. CASE Clear(r)
  BY <1>1 DEF Clear
<1>2. CASE SaveLines(r)
  BY <1>2 DEF SaveLines
<1>3. CASE Detect(r)
  BY <1>3 DEF Detect
<1>4. CASE Judge(r)
  BY <1>4 DEF Judge
<1>5. CASE Approve(r)
  BY <1>5 DEF Approve, NoneSeen, Post
<1>6. CASE Review(r)
  BY <1>6 DEF Review, Post
<1>7. CASE Conclude(r)
  BY <1>7 DEF Conclude
<1>8. QED  BY <1>1, <1>2, <1>3, <1>4, <1>5, <1>6, <1>7 DEF Step

\* What each step makes of its run's findings.
LEMMA FindingsStayFindings ==
    ASSUME FlowAssumption, FlowTypeOK, NEW r \in Run, Step(r)
    PROVE  /\ fs' = [q \in Run |-> fs'[q]]
           /\ \A q \in Run : IsFiniteSet(fs'[q]) /\ \A f \in fs'[q] : IsFinding(f)
<1>1. ASSUME NEW S, fs' = [fs EXCEPT ![r] = S], IsFiniteSet(S), \A f \in S : IsFinding(f)
      PROVE  /\ fs' = [q \in Run |-> fs'[q]]
             /\ \A q \in Run : IsFiniteSet(fs'[q]) /\ \A f \in fs'[q] : IsFinding(f)
  <2>1. /\ fs = [q \in Run |-> fs[q]]
        /\ \A q \in Run : IsFiniteSet(fs[q]) /\ \A f \in fs[q] : IsFinding(f)
    BY DEF FlowTypeOK
  <2>2. fs'[r] = S /\ \A q \in Run \ {r} : fs'[q] = fs[q]
    BY <1>1, <2>1
  <2>3. fs' = [q \in Run |-> fs'[q]]
    BY <1>1, <2>1
  <2>4. QED  BY <1>1, <2>1, <2>2, <2>3
<1>2. CASE fs' = fs
  BY <1>2 DEF FlowTypeOK
<1>3. CASE Detect(r)
  <2>0. PICK S \in Reports : \E K \in SUBSET Prepared(set[r], S) :
           fs' = [fs EXCEPT ![r] = OnChangedLines(K, lines)] \/ fs' = [fs EXCEPT ![r] = K]
    BY <1>3 DEF Detect
  <2>1. PICK K \in SUBSET Prepared(set[r], S) :
           fs' = [fs EXCEPT ![r] = OnChangedLines(K, lines)] \/ fs' = [fs EXCEPT ![r] = K]
    BY <2>0
  <2>2. IsFiniteSet(K) /\ \A f \in K : IsFinding(f)
    BY PreparedFindings, FS_Subset
  <2>3. IsFiniteSet(OnChangedLines(K, lines)) /\ OnChangedLines(K, lines) \subseteq K
    BY <2>2, FS_Subset DEF OnChangedLines
  <2>4. QED  BY <1>1, <2>1, <2>2, <2>3
<1>4. CASE Judge(r)
  <2>1. PICK doubted \in SUBSET fs[r] :
           LET based == ApplyBase(fs[r] \ doubted)
                           \cup {[f EXCEPT !.confidence = 1] : f \in doubted}
           IN  fs' = [fs EXCEPT ![r] = IF set[r].dropUngrounded THEN RetainGrounded(based)
                                       ELSE based]
    BY <1>4 DEF Judge
  <2> DEFINE unsure == {[f EXCEPT !.confidence = 1] : f \in doubted}
             based == ApplyBase(fs[r] \ doubted) \cup unsure
  <2>2. IsFiniteSet(fs[r]) /\ \A f \in fs[r] : IsFinding(f)
    BY DEF FlowTypeOK
  <2>3. IsFiniteSet(doubted) /\ IsFiniteSet(fs[r] \ doubted)
    BY <2>2, FS_Subset
  <2>4. IsFiniteSet(unsure) /\ \A f \in unsure : IsFinding(f)
    <3>1. ASSUME NEW f \in fs[r]  PROVE IsFinding([f EXCEPT !.confidence = 1])
      <4>1. 1 \in 0..5 /\ IsFinding(f)
        BY <2>2
      <4>2. QED  BY <4>1, Reconsidered
    <3>2. IsFiniteSet(unsure)
      BY <2>3, DoubtedFinite
    <3>3. QED  BY <3>1, <3>2
  <2>5. /\ IsFiniteSet(ApplyBase(fs[r] \ doubted))
        /\ \A f \in ApplyBase(fs[r] \ doubted) : IsFinding(f)
    BY <2>2, <2>3, BasedFinite, Based DEF ApplyBase
  <2>6. IsFiniteSet(based) /\ \A f \in based : IsFinding(f)
    BY <2>4, <2>5, FS_Union
  <2>7. IsFiniteSet(RetainGrounded(based)) /\ RetainGrounded(based) \subseteq based
    BY <2>6, FS_Subset DEF RetainGrounded
  <2>8. QED
    <3>1. CASE set[r].dropUngrounded
      BY <1>1, <2>1, <2>6, <2>7, <3>1
    <3>2. CASE ~set[r].dropUngrounded
      BY <1>1, <2>1, <2>6, <3>2
    <3>3. QED  BY <3>1, <3>2
<1>5. CASE Conclude(r)
  <2>1. fs' = [fs EXCEPT ![r] = {}]
    BY <1>5 DEF Conclude
  <2>2. QED  BY <1>1, <2>1, FS_EmptySet
<1>6. CASE Clear(r) \/ SaveLines(r) \/ Approve(r) \/ Review(r)
  BY <1>2, <1>6 DEF Clear, SaveLines, Approve, Review
<1>7. QED  BY <1>3, <1>4, <1>5, <1>6 DEF Step

\* A score is a number, whatever is seen.
LEMMA ScoreIsNat ==
    ASSUME NEW cfg, NEW seen, NEW S, NEW passed, NEW reachable, NEW blocked
    PROVE  ReadinessScore(cfg, seen, S, passed, reachable, blocked) \in Nat
<1> DEFINE earned == ReadinessEarned(cfg, seen, S)
<1>1. earned \in 0..16
  BY DEF ReadinessEarned
<1> HIDE DEF earned
<1>2. (10 * earned + 16) \div 32 \in Nat
  BY <1>1
<1>3. QED  BY <1>2 DEF ReadinessScore, earned

LEMMA TypeStep ==
    ASSUME FlowAssumption, FlowTypeOK, NEW r \in Run, Step(r)
    PROVE  FlowTypeOK'
<1>1. /\ fs' = [q \in Run |-> fs'[q]]
      /\ \A q \in Run : IsFiniteSet(fs'[q]) /\ \A f \in fs'[q] : IsFinding(f)
  BY FindingsStayFindings
<1>2. set' = set
  BY DEF Step, Clear, SaveLines, Detect, Judge, Approve, Review, Conclude, shared
<1> USE DEF Goto, shared, outcome, history
<1>3. CASE Clear(r)
  <2>1. pc' = [pc EXCEPT ![r] = "save"] /\ unsaved' = [unsaved EXCEPT ![r] = File]
    BY <1>3 DEF Clear
  <2>2. cut' \subseteq Run /\ stale' \subseteq Run /\ left' \in Nat
    BY <1>3 DEF Clear, Fails, Gathering, FlowTypeOK
  <2>3. QED  BY <1>1, <1>2, <1>3, <2>1, <2>2 DEF Clear, FlowTypeOK
<1>4. CASE SaveLines(r)
  <2>1. PICK S \in SUBSET File : unsaved' = [unsaved EXCEPT ![r] = S]
    <3>1. unsaved[r] \in SUBSET File
      BY DEF FlowTypeOK
    <3>2. QED  BY <1>4, <3>1 DEF SaveLines
  <2>2. cut' \subseteq Run /\ stale' \subseteq Run /\ left' \in Nat
    BY <1>4 DEF SaveLines, Fails, Gathering, FlowTypeOK
  <2>3. QED  BY <1>1, <1>2, <1>4, <2>1, <2>2 DEF SaveLines, FlowTypeOK
<1>5. CASE Detect(r)
  <2>1. pc' = [pc EXCEPT ![r] = "judge"] /\ \E S \in Reports : found' = [found EXCEPT ![r] = S]
    BY <1>5 DEF Detect
  <2>2. cut' \subseteq Run /\ stale' \subseteq Run /\ left' \in Nat
    BY <1>5 DEF Detect, Fails, FlowTypeOK
  <2>3. QED  BY <1>1, <1>2, <1>5, <2>1, <2>2 DEF Detect, FlowTypeOK
<1>6. CASE Judge(r)
  <2>1. pc' = [pc EXCEPT ![r] = "review"] /\ \E S : already' = [already EXCEPT ![r] = S]
    BY <1>6 DEF Judge
  <2>2. /\ blind' = blind \/ blind' = TRUE
        /\ left' = left \/ (left > 0 /\ left' = left - 1)
    BY <1>6 DEF Judge, Fails
  <2>3. UNCHANGED <<unsaved, found, draft, event, check, score, cut, stale>>
    BY <1>6 DEF Judge
  <2>4. left' \in Nat
    BY <2>2 DEF FlowTypeOK
  <2>5. blind' \in BOOLEAN
    BY <2>2 DEF FlowTypeOK
  <2>6. QED  BY <1>1, <1>2, <2>1, <2>3, <2>4, <2>5 DEF FlowTypeOK
<1>7. CASE Approve(r)
  <2>1. pc' = [pc EXCEPT ![r] = "conclude"] /\ already' = [already EXCEPT ![r] = {}]
    BY <1>7 DEF Approve
  <2>2. \/ event' = event \/ event' = [event EXCEPT ![r] = "exists"]
        \/ event' = [event EXCEPT ![r] = "APPROVE"]
    BY <1>7 DEF Approve, NoneSeen, Post, ReviewEvent
  <2>3. left' = left \/ (left > 0 /\ left' = left - 1)
    BY <1>7 DEF Approve, NoneSeen, Fails
  <2>4. UNCHANGED <<unsaved, found, draft, check, score, cut, stale, blind>>
    BY <1>7 DEF Approve
  <2>5. left' \in Nat
    BY <2>3 DEF FlowTypeOK
  <2>6. QED  BY <1>1, <1>2, <2>1, <2>2, <2>4, <2>5 DEF FlowTypeOK
<1>8. CASE Review(r)
  <2>1. /\ pc' = [pc EXCEPT ![r] = "conclude"] \/ pc' = [pc EXCEPT ![r] = "failed"]
        /\ already' = [already EXCEPT ![r] = {}]
    BY <1>8 DEF Review
  <2>2. \/ event' = event \/ event' = [event EXCEPT ![r] = "exists"]
        \/ event' = [event EXCEPT ![r] = "REQUEST_CHANGES"]
        \/ event' = [event EXCEPT ![r] = "COMMENT"]
    BY <1>8 DEF Review, Post, ReviewEvent
  <2>3. /\ left' = left \/ (left > 0 /\ left' = left - 1)
        /\ blind' = blind \/ blind' = (blind \/ \E q \in Run \ {r} : pc[q] = "review")
    BY <1>8 DEF Review, NoneSeen, Fails
  <2>4. \E b \in BOOLEAN : draft' = [draft EXCEPT ![r] = b]
    BY <1>8 DEF Review, IsAdvisoryDraft
  <2>5. UNCHANGED <<unsaved, found, check, score, cut, stale>>
    BY <1>8 DEF Review
  <2>6. left' \in Nat
    BY <2>3 DEF FlowTypeOK
  <2>7. blind' \in BOOLEAN
    BY <2>3 DEF FlowTypeOK
  <2>8. draft' \in [Run -> BOOLEAN]
    BY <2>4 DEF FlowTypeOK
  <2>9. event' \in [Run -> {"none", "exists", "REQUEST_CHANGES", "APPROVE", "COMMENT"}]
    BY <2>2 DEF FlowTypeOK
  <2>10. QED  BY <1>1, <1>2, <2>1, <2>5, <2>6, <2>7, <2>8, <2>9 DEF FlowTypeOK
<1>9. CASE Conclude(r)
  <2>1. pc' = [pc EXCEPT ![r] = "done"]
    BY <1>9 DEF Conclude
  <2>2. \E n \in Nat \cup {Unset} : score' = [score EXCEPT ![r] = n]
    BY <1>9, ScoreIsNat DEF Conclude
  <2>3. \/ check' = check
        \/ \E c \in {"action_required", "neutral", "success"} : check' = [check EXCEPT ![r] = c]
    BY <1>9 DEF Conclude, CheckConclusion
  <2>4. left' = left \/ (left > 0 /\ left' = left - 1)
    BY <1>9 DEF Conclude, Fails
  <2>5. UNCHANGED <<unsaved, already, found, draft, event, cut, stale, blind>>
    BY <1>9 DEF Conclude
  <2>6. left' \in Nat
    BY <2>4 DEF FlowTypeOK
  <2>7. QED  BY <1>1, <1>2, <2>1, <2>2, <2>3, <2>5, <2>6 DEF FlowTypeOK
<1>10. QED  BY <1>3, <1>4, <1>5, <1>6, <1>7, <1>8, <1>9 DEF Step

\* No step takes a run out of a history.
LEMMA HistoryStays ==
    ASSUME NEW r \in Run, Step(r)
    PROVE  cut \subseteq cut' /\ stale \subseteq stale' /\ (blind => blind') /\ set' = set
<1> USE DEF history, shared
<1>1. CASE Clear(r)
  BY <1>1 DEF Clear
<1>2. CASE SaveLines(r)
  BY <1>2 DEF SaveLines
<1>3. CASE Detect(r)
  BY <1>3 DEF Detect
<1>4. CASE Judge(r)
  BY <1>4 DEF Judge
<1>5. CASE Approve(r)
  BY <1>5 DEF Approve
<1>6. CASE Review(r)
  <2>1. UNCHANGED <<cut, stale, set>>
    BY <1>6 DEF Review
  <2>2. blind' = blind \/ blind' = (blind \/ \E q \in Run \ {r} : pc[q] = "review")
    BY <1>6 DEF Review
  <2>3. blind => blind'
    BY <2>2, Zenon
  <2>4. QED  BY <2>1, <2>3
<1>7. CASE Conclude(r)
  BY <1>7 DEF Conclude
<1>8. QED  BY <1>1, <1>2, <1>3, <1>4, <1>5, <1>6, <1>7 DEF Step

-----------------------------------------------------------------------------
\* The changed lines of the pull request.

LEMMA GatheredStep ==
    ASSUME FlowAssumption, PatchAssumption, FlowTypeOK, LinesGathered, NEW r \in Run, Step(r)
    PROVE  LinesGathered'
<1> SUFFICES ASSUME NEW q \in Run, pc'[q] = "save"
             PROVE  /\ q \notin stale' => lines' \subseteq Added[HeadOf[q]]
                    /\ q \notin cut' => \A f \in File \ unsaved'[q] :
                                           Changed(HeadOf[q], f) \subseteq lines'
  BY DEF LinesGathered, Changed
<1>1. cut \subseteq cut' /\ stale \subseteq stale'
  BY HistoryStays
<1>2. CASE Clear(r)
  <2>1. CASE q = r
    <3>1. unsaved'[q] = File
      BY <1>2, <2>1 DEF Clear, FlowTypeOK
    <3>2. lines' = {} \/ r \in stale'
      BY <1>2 DEF Clear
    <3>3. QED  BY <2>1, <3>1, <3>2
  <2>2. CASE q # r
    <3>1. pc[q] = "save" /\ unsaved'[q] = unsaved[q]
      BY <2>2, OthersStay
    <3>2. lines' = lines \/ (lines' = {} /\ q \in cut')
      BY <1>2, <2>2, <3>1 DEF Clear, Gathering
    <3>3. QED  BY <1>1, <3>1, <3>2 DEF LinesGathered
  <2>3. QED  BY <2>1, <2>2
<1>3. CASE SaveLines(r)
  <2> DEFINE f == CHOOSE g \in unsaved[r] : TRUE
  <2>1. f \in unsaved[r] /\ f \in File
    BY <1>3 DEF SaveLines, FlowTypeOK
  <2>2. pc[q] = "save" /\ (q # r => unsaved'[q] = unsaved[q])
    BY <1>3, OthersStay DEF SaveLines
  <2>3. \/ /\ lines' = lines \cup Changed(HeadOf[r], f)
           /\ unsaved' = [unsaved EXCEPT ![r] = @ \ {f}]
           /\ stale' = stale \cup {p \in Gathering : HeadOf[p] # HeadOf[r]}
        \/ lines' = lines /\ cut' = cut \cup {r}
    BY <1>3 DEF SaveLines
  <2> HIDE DEF f
  <2>4. CASE lines' = lines /\ cut' = cut \cup {r}
    BY <1>1, <2>2, <2>4 DEF LinesGathered
  <2>5. CASE /\ lines' = lines \cup Changed(HeadOf[r], f)
             /\ unsaved' = [unsaved EXCEPT ![r] = @ \ {f}]
             /\ stale' = stale \cup {p \in Gathering : HeadOf[p] # HeadOf[r]}
    <3>1. ASSUME q \notin stale'  PROVE lines' \subseteq Added[HeadOf[q]]
      <4>1. HeadOf[q] = HeadOf[r] /\ q \notin stale
        BY <2>2, <2>5, <3>1 DEF Gathering
      <4>2. HeadOf[r] \in Commit
        BY DEF FlowAssumption
      <4>3. Changed(HeadOf[r], f) \subseteq Added[HeadOf[r]]
        BY <2>1, <4>2 DEF PatchAssumption
      <4>4. QED  BY <2>2, <2>5, <4>1, <4>3 DEF LinesGathered
    <3>2. ASSUME q \notin cut', NEW g \in File \ unsaved'[q]
          PROVE  Changed(HeadOf[q], g) \subseteq lines'
      <4>1. CASE g \notin unsaved[q]
        BY <1>1, <2>2, <2>5, <3>2, <4>1 DEF LinesGathered
      <4>2. CASE g \in unsaved[q]
        <5>1. q = r /\ g = f
          BY <2>2, <2>5, <3>2, <4>2 DEF FlowTypeOK
        <5>2. QED  BY <2>5, <5>1
      <4>3. QED  BY <4>1, <4>2
    <3>3. QED  BY <3>1, <3>2
  <2>6. QED  BY <2>3, <2>4, <2>5
<1>4. CASE Detect(r) \/ Judge(r) \/ Approve(r) \/ Review(r) \/ Conclude(r)
  <2>1. lines' = lines /\ pc'[r] # "save"
    BY <1>4 DEF Detect, Judge, Approve, Review, Conclude, Goto, shared, FlowTypeOK
  <2>2. pc[q] = "save" /\ unsaved'[q] = unsaved[q]
    BY <2>1, OthersStay
  <2>3. QED  BY <1>1, <2>1, <2>2 DEF LinesGathered
<1>5. QED  BY <1>2, <1>3, <1>4 DEF Step

\* The model moves no finding.
LEMMA JudgedStayInPlace ==
    ASSUME FlowTypeOK, NEW r \in Run, Judge(r), NEW f \in fs'[r]
    PROVE  \E g \in fs[r] : f.file = g.file /\ f.line = g.line
<1>1. PICK doubted \in SUBSET fs[r] :
         LET based == ApplyBase(fs[r] \ doubted)
                         \cup {[g EXCEPT !.confidence = 1] : g \in doubted}
         IN  fs' = [fs EXCEPT ![r] = IF set[r].dropUngrounded THEN RetainGrounded(based)
                                     ELSE based]
  BY DEF Judge
<1>2. f \in ApplyBase(fs[r] \ doubted) \cup {[g EXCEPT !.confidence = 1] : g \in doubted}
  BY <1>1 DEF RetainGrounded, FlowTypeOK
<1>3. CASE f \in ApplyBase(fs[r] \ doubted)
  <2>1. PICK g \in fs[r] : f = WithBase(g)
    BY <1>3 DEF ApplyBase
  <2>2. QED  BY <2>1, Based DEF FlowTypeOK
<1>4. CASE f \in {[g EXCEPT !.confidence = 1] : g \in doubted}
  <2>1. PICK g \in fs[r] : f = [g EXCEPT !.confidence = 1]
    BY <1>4
  <2>2. IsFinding(g) /\ 1 \in 0..5
    BY DEF FlowTypeOK
  <2>3. QED  BY <2>1, <2>2, Reconsidered
<1>5. QED  BY <1>2, <1>3, <1>4

LEMMA QuietStep ==
    ASSUME FlowTypeOK, LinesGathered, OldCodeQuiet, NEW r \in Run, Step(r)
    PROVE  OldCodeQuiet'
<1> SUFFICES ASSUME NEW q \in Run, pc'[q] \in {"judge", "review", "conclude"},
                    q \notin stale', NEW f \in fs'[q]
             PROVE  <<f.file, f.line>> \in Added[HeadOf[q]]
  BY DEF OldCodeQuiet
<1>1. q \notin stale
  BY HistoryStays
<1>2. CASE q # r
  <2>1. pc'[q] = pc[q] /\ fs'[q] = fs[q]
    BY <1>2, OthersStay
  <2>2. QED  BY <1>1, <2>1 DEF OldCodeQuiet
<1>3. CASE q = r /\ Detect(r)
  <2>1. pc[r] = "save" /\ \E K : fs' = [fs EXCEPT ![r] = OnChangedLines(K, lines)]
    BY <1>3 DEF Detect
  <2>2. \E K : fs'[r] = OnChangedLines(K, lines)
    BY <2>1 DEF FlowTypeOK
  <2>3. <<f.file, f.line>> \in lines
    BY <1>3, <2>2 DEF OnChangedLines
  <2>4. QED  BY <1>1, <1>3, <2>1, <2>3 DEF LinesGathered
<1>4. CASE q = r /\ Judge(r)
  <2>1. pc[r] = "judge"
    BY <1>4 DEF Judge
  <2>2. QED  BY <1>1, <1>4, <2>1, JudgedStayInPlace DEF OldCodeQuiet
<1>5. CASE q = r /\ (Approve(r) \/ Review(r))
  <2>1. pc[r] = "review" /\ fs' = fs
    BY <1>5 DEF Approve, Review
  <2>2. QED  BY <1>1, <1>5, <2>1 DEF OldCodeQuiet
<1>6. CASE q = r /\ (Clear(r) \/ SaveLines(r) \/ Conclude(r))
  <2>1. pc'[r] \in {"save", "done"}
    BY <1>6 DEF Clear, SaveLines, Conclude, Goto, FlowTypeOK
  <2>2. QED  BY <1>6, <2>1
<1>7. QED  BY <1>2, <1>3, <1>4, <1>5, <1>6 DEF Step

-----------------------------------------------------------------------------
\* The comments of the pull request.

LEMMA CommentStep ==
    ASSUME FlowTypeOK, CommentsListed, InlineOnce, NEW r \in Run, Step(r)
    PROVE  CommentsListed' /\ InlineOnce'
<1>1. blind => blind'
  BY HistoryStays
<1>2. CASE Review(r)
  <2>1. PICK C \in SUBSET MergeVulnerabilityFindings(fs[r]) :
           /\ InlineComments(C, fs[r], already[r])
           /\ \/ inlined' = inlined /\ twice' = twice
              \/ /\ inlined' = inlined \cup {Fingerprint(f) : f \in C}
                 /\ twice' = twice \cup (inlined \cap {Fingerprint(f) : f \in C})
                 /\ blind' = (blind \/ \E q \in Run \ {r} : pc[q] = "review")
    BY <1>2 DEF Review
  <2>2. pc[r] = "review" /\ pc'[r] # "review"
    BY <1>2 DEF Review, Goto, FlowTypeOK
  <2>3. ASSUME ~blind'  PROVE twice' = {}
    <3>1. already[r] = inlined /\ twice = {}
      BY <1>1, <2>2, <2>3 DEF CommentsListed, InlineOnce
    <3>2. \A f \in C : Fingerprint(f) \notin inlined
      BY <2>1, <3>1 DEF InlineComments
    <3>3. QED  BY <2>1, <3>1, <3>2
  <2>4. ASSUME NEW q \in Run, pc'[q] = "review", ~blind'
        PROVE  already'[q] = inlined'
    <3>1. q # r
      BY <2>2, <2>4
    <3>2. pc[q] = "review" /\ already'[q] = already[q]
      BY <2>4, <3>1, OthersStay
    <3>3. inlined' = inlined
      BY <2>1, <2>4, <3>1, <3>2
    <3>4. QED  BY <1>1, <2>4, <3>2, <3>3 DEF CommentsListed
  <2>5. QED  BY <2>3, <2>4 DEF CommentsListed, InlineOnce
<1>3. CASE Judge(r)
  <2>1. inlined' = inlined /\ twice' = twice /\ (~blind' => already'[r] = inlined)
    BY <1>3 DEF Judge, shared, FlowTypeOK
  <2>2. ASSUME NEW q \in Run, q # r, pc'[q] = "review", ~blind'
        PROVE  already'[q] = inlined'
    BY <1>1, <2>1, <2>2, OthersStay DEF CommentsListed
  <2>3. QED  BY <1>1, <2>1, <2>2 DEF CommentsListed, InlineOnce
<1>4. CASE Clear(r) \/ SaveLines(r) \/ Detect(r) \/ Approve(r) \/ Conclude(r)
  <2>1. inlined' = inlined /\ twice' = twice
    BY <1>4 DEF Clear, SaveLines, Detect, Approve, Conclude, shared, history
  <2>2. pc'[r] # "review"
    BY <1>4 DEF Clear, SaveLines, Detect, Approve, Conclude, Goto, FlowTypeOK
  <2>3. ASSUME NEW q \in Run, pc'[q] = "review", ~blind'
        PROVE  already'[q] = inlined'
    BY <1>1, <2>1, <2>2, <2>3, OthersStay DEF CommentsListed
  <2>4. QED  BY <1>1, <2>1, <2>3 DEF CommentsListed, InlineOnce
<1>5. QED  BY <1>2, <1>3, <1>4 DEF Step

-----------------------------------------------------------------------------
\* What a run says.

LEMMA SaidStep ==
    ASSUME FlowTypeOK, SaidSoFar, NEW r \in Run, Step(r)
    PROVE  SaidSoFar'
<1> DEFINE Fits(q) ==
        /\ pc[q] # "done" => check[q] = "none"
        /\ pc[q] \in {"clear", "save", "judge", "review"} => event[q] = "none" /\ ~draft[q]
        /\ pc[q] = "conclude" =>
              /\ event[q] = "REQUEST_CHANGES" => HasBlocking(fs[q])
              /\ event[q] = "APPROVE" => fs[q] = {}
              /\ draft[q] => event[q] \in {"COMMENT", "exists", "none"}
<1>1. Fits(r)
  BY DEF SaidSoFar
<1>2. ASSUME NEW q \in Run, q # r  PROVE Fits(q)'
  <2>1. Fits(q)
    BY DEF SaidSoFar
  <2>2. QED  BY <1>2, <2>1, OthersStay DEF HasBlocking, OfSeverity
<1>3. Fits(r)'
  <2>1. CASE Clear(r) \/ SaveLines(r) \/ Detect(r) \/ Judge(r)
    <3>1. /\ pc[r] \in {"clear", "save", "judge"} /\ pc'[r] \in {"save", "judge", "review"}
          /\ event' = event /\ draft' = draft /\ check' = check
      BY <2>1 DEF Clear, SaveLines, Detect, Judge, Goto, outcome, FlowTypeOK
    <3>2. QED  BY <1>1, <3>1
  <2>2. CASE Approve(r)
    <3>1. /\ pc[r] = "review" /\ pc'[r] = "conclude" /\ fs[r] = {} /\ fs' = fs
          /\ draft' = draft /\ check' = check
      BY <2>2 DEF Approve, Goto, FlowTypeOK
    <3>2. event'[r] \in {event[r], "exists", "APPROVE"}
      BY <2>2 DEF Approve, NoneSeen, Post, ReviewEvent, FlowTypeOK
    <3>3. QED  BY <1>1, <3>1, <3>2
  <2>3. CASE Review(r)
    <3>1. /\ pc[r] = "review" /\ pc'[r] \in {"conclude", "failed"} /\ fs' = fs
          /\ draft'[r] = IsAdvisoryDraft(fs[r]) /\ check' = check
      BY <2>3 DEF Review, Goto, FlowTypeOK
    <3>2. event'[r] \in {event[r], "exists", ReviewEvent(HasBlocking(fs[r]), FALSE, FALSE)}
      BY <2>3 DEF Review, Post, FlowTypeOK
    <3>3. event'[r] \in {"none", "exists", IF HasBlocking(fs[r]) THEN "REQUEST_CHANGES"
                                                              ELSE "COMMENT"}
      BY <1>1, <3>1, <3>2 DEF ReviewEvent
    <3>4. draft'[r] => ~HasBlocking(fs[r])
      BY <3>1 DEF IsAdvisoryDraft
    <3>5. check'[r] = "none"
      BY <1>1, <3>1
    <3>6. HasBlocking(fs[r])' = HasBlocking(fs[r])
      BY <3>1 DEF HasBlocking, OfSeverity
    <3>7. QED  BY <3>1, <3>3, <3>4, <3>5, <3>6
  <2>4. CASE Conclude(r)
    <3>1. pc'[r] = "done"
      BY <2>4 DEF Conclude, Goto, FlowTypeOK
    <3>2. QED  BY <3>1
  <2>5. QED  BY <2>1, <2>2, <2>3, <2>4 DEF Step
<1>4. QED  BY <1>2, <1>3 DEF SaidSoFar

-----------------------------------------------------------------------------
\* The way of a blocking finding.

\* The lines of a commit are in the table when none of its files is left to save.
LEMMA AllGathered ==
    ASSUME FlowAssumption, PatchAssumption, LinesGathered,
           NEW r \in Run, pc[r] = "save", unsaved[r] = {}, r \notin cut
    PROVE  Shown(HeadOf[r]) \subseteq lines
<1>1. \A f \in File : Changed(HeadOf[r], f) \subseteq lines
  BY DEF LinesGathered
<1>2. HeadOf[r] \in Commit
  BY DEF FlowAssumption
<1>3. Shown(HeadOf[r]) \subseteq UNION {Changed(HeadOf[r], f) : f \in File}
  BY <1>2 DEF PatchAssumption
<1>4. QED  BY <1>1, <1>3

LEMMA DetectKeeps ==
    ASSUME FlowAssumption, SettingsAssumption, PatchAssumption, FlowTypeOK, LinesGathered,
           NEW r \in Run, Detect(r), r \notin cut, Holds(r)' # {}
    PROVE  \E f \in fs'[r] : f.severity = "blocking" /\ Grounded(WithBase(f))
<1>1. PICK f : f \in Holds(r)'
  OBVIOUS
<1>2. set' = set
  BY DEF Detect
<1>3. PICK S \in Reports : \E K \in SUBSET Prepared(set[r], S) :
         /\ WithinBudget(K, Prepared(set[r], S), SignalOf(set[r]))
         /\ found' = [found EXCEPT ![r] = S]
         /\ \/ fs' = [fs EXCEPT ![r] = OnChangedLines(K, lines)]
            \/ fs' = [fs EXCEPT ![r] = K]
  BY DEF Detect
<1>4. PICK K \in SUBSET Prepared(set[r], S) :
         /\ WithinBudget(K, Prepared(set[r], S), SignalOf(set[r]))
         /\ found' = [found EXCEPT ![r] = S]
         /\ \/ fs' = [fs EXCEPT ![r] = OnChangedLines(K, lines)]
            \/ fs' = [fs EXCEPT ![r] = K]
  BY <1>3
<1>5. found'[r] = S /\ (fs'[r] = OnChangedLines(K, lines) \/ fs'[r] = K)
  BY <1>4 DEF FlowTypeOK
<1>6. /\ f \in S /\ f.severity = "blocking" /\ Grounded(WithBase(f))
      /\ <<f.file, f.line>> \in Shown(HeadOf[r])
      /\ Count(Prepared(set[r], S), "blocking") <= SignalOf(set[r]).blocking
  BY <1>1, <1>2, <1>5 DEF Holds, BlockersOn
<1>7. set[r] \in Settings
  BY DEF FlowTypeOK
<1>8. f \in Prepared(set[r], S)
  BY <1>6, <1>7, BlockersPrepared
<1>9. SignalOf(set[r]).blocking \in Nat /\ IsFiniteSet(Prepared(set[r], S))
  BY <1>7, SettingsMake, PreparedFindings
<1>10. f \in K
  BY <1>4, <1>6, <1>8, <1>9, BudgetKeeps
<1>11. <<f.file, f.line>> \in lines
  <2>1. pc[r] = "save" /\ unsaved[r] = {}
    BY DEF Detect
  <2>2. QED  BY <1>6, <2>1, AllGathered
<1>12. f \in fs'[r]
  BY <1>5, <1>10, <1>11 DEF OnChangedLines
<1>13. QED  BY <1>6, <1>12

LEMMA JudgeKeeps ==
    ASSUME FlowTypeOK, NEW r \in Run, Judge(r), ~(set[r].judge /\ set[r].dropUngrounded),
           NEW f \in fs[r], f.severity = "blocking", Grounded(WithBase(f))
    PROVE  HasBlocking(fs'[r])
<1>1. PICK doubted \in SUBSET fs[r] :
         /\ set[r].judge \/ doubted = {}
         /\ LET based == ApplyBase(fs[r] \ doubted)
                           \cup {[g EXCEPT !.confidence = 1] : g \in doubted}
            IN  fs' = [fs EXCEPT ![r] = IF set[r].dropUngrounded THEN RetainGrounded(based)
                                        ELSE based]
  BY DEF Judge
<1> DEFINE unsure == {[g EXCEPT !.confidence = 1] : g \in doubted}
           based == ApplyBase(fs[r] \ doubted) \cup unsure
<1>2. fs'[r] = IF set[r].dropUngrounded THEN RetainGrounded(based) ELSE based
  BY <1>1 DEF FlowTypeOK
<1>3. IsFinding(f) /\ 1 \in 0..5
  BY DEF FlowTypeOK
<1>4. CASE f \in doubted
  <2>1. [f EXCEPT !.confidence = 1] \in fs'[r]
    BY <1>1, <1>2, <1>4
  <2>2. [f EXCEPT !.confidence = 1].severity = "blocking"
    BY <1>3, Reconsidered
  <2>3. QED  BY <2>1, <2>2 DEF HasBlocking, OfSeverity
<1>5. CASE f \notin doubted
  <2>1. WithBase(f) \in based
    BY <1>5 DEF ApplyBase
  <2>2. WithBase(f) \in fs'[r]
    BY <1>2, <2>1 DEF RetainGrounded
  <2>3. WithBase(f).severity = "blocking"
    BY <1>3, Based
  <2>4. QED  BY <2>2, <2>3 DEF HasBlocking, OfSeverity
<1>6. QED  BY <1>4, <1>5

LEMMA BlockersStep ==
    ASSUME FlowAssumption, SettingsAssumption, PatchAssumption, FlowTypeOK, LinesGathered,
           SaidSoFar, BlockersKept, NEW r \in Run, Step(r)
    PROVE  BlockersKept'
<1> DEFINE Early(q) == pc[q] \in {"clear", "save"} => found[q] = {}
           HasTo(q) == q \notin cut /\ ~(set[q].judge /\ set[q].dropUngrounded) /\ Holds(q) # {}
           Keeps(q) ==
              /\ pc[q] = "judge" =>
                    \E f \in fs[q] : f.severity = "blocking" /\ Grounded(WithBase(f))
              /\ pc[q] \in {"review", "conclude"} => HasBlocking(fs[q])
              /\ pc[q] = "conclude" => event[q] \in {"REQUEST_CHANGES", "exists"}
              /\ pc[q] = "done" => Blocks(q)
<1>1. cut \subseteq cut' /\ set' = set
  BY HistoryStays
<1>2. \A q \in Run : Early(q) /\ (HasTo(q) => Keeps(q))
  BY DEF BlockersKept
<1>3. ASSUME NEW q \in Run, q # r  PROVE Early(q)' /\ (HasTo(q)' => Keeps(q)')
  <2>1. /\ pc'[q] = pc[q] /\ fs'[q] = fs[q] /\ event'[q] = event[q] /\ check'[q] = check[q]
        /\ found'[q] = found[q] /\ set'[q] = set[q]
    BY <1>3, OthersStay
  <2>2. Holds(q)' = Holds(q)
    BY <2>1 DEF Holds, BlockersOn
  <2>3. Keeps(q)' = Keeps(q)
    BY <2>1 DEF HasBlocking, OfSeverity, Blocks
  <2>4. QED  BY <1>1, <1>2, <2>1, <2>2, <2>3
<1>4. Early(r)' /\ (HasTo(r)' => Keeps(r)')
  <2>1. CASE Clear(r) \/ SaveLines(r)
    <3>1. pc[r] \in {"clear", "save"} /\ pc'[r] = "save" /\ found' = found
      BY <2>1 DEF Clear, SaveLines, Goto, FlowTypeOK
    <3>2. found'[r] = {}
      BY <1>2, <3>1
    <3>3. QED  BY <3>1, <3>2
  <2>2. CASE Detect(r)
    <3>1. pc'[r] = "judge" /\ cut' = cut
      BY <2>2 DEF Detect, Goto, FlowTypeOK
    <3>2. HasTo(r)' => \E f \in fs'[r] : f.severity = "blocking" /\ Grounded(WithBase(f))
      BY <2>2, <3>1, DetectKeeps
    <3>3. QED  BY <3>1, <3>2
  <2>3. CASE ~(Clear(r) \/ SaveLines(r) \/ Detect(r))
    <3>1. found' = found /\ pc'[r] \in {"review", "conclude", "failed", "done"}
      BY <2>3 DEF Step, Judge, Approve, Review, Conclude, Goto, FlowTypeOK
    <3>2. Early(r)' /\ Holds(r)' = Holds(r)
      BY <1>1, <3>1 DEF Holds, BlockersOn
    <3>3. SUFFICES ASSUME HasTo(r)  PROVE Keeps(r)'
      BY <1>1, <3>2
    <3>4. Keeps(r)
      BY <1>2, <3>3
    <3>5. CASE Judge(r)
      <4>1. pc[r] = "judge" /\ pc'[r] = "review"
        BY <3>5 DEF Judge, Goto, FlowTypeOK
      <4>2. HasBlocking(fs'[r])
        BY <3>3, <3>4, <3>5, <4>1, JudgeKeeps
      <4>3. QED  BY <4>1, <4>2 DEF HasBlocking, OfSeverity
    <3>6. CASE Approve(r)
      <4>1. pc[r] = "review" /\ fs[r] = {}
        BY <3>6 DEF Approve
      <4>2. QED  BY <3>4, <4>1 DEF HasBlocking, OfSeverity
    <3>7. CASE Review(r)
      <4>1. pc[r] = "review" /\ fs' = fs /\ HasBlocking(fs[r])
        BY <3>4, <3>7 DEF Review
      <4>2. \/ pc'[r] = "failed"
            \/ pc'[r] = "conclude" /\ event'[r] \in {"exists", "REQUEST_CHANGES"}
        BY <3>7, <4>1 DEF Review, Post, ReviewEvent, Goto, FlowTypeOK
      <4>3. QED  BY <4>1, <4>2 DEF HasBlocking, OfSeverity
    <3>8. CASE Conclude(r)
      <4>1. /\ pc[r] = "conclude" /\ pc'[r] = "done" /\ event' = event
            /\ HasBlocking(fs[r]) /\ event[r] \in {"REQUEST_CHANGES", "exists"}
        BY <3>4, <3>8 DEF Conclude, Goto, FlowTypeOK
      <4>2. check'[r] \in {"action_required", check[r]}
        BY <3>8, <4>1 DEF Conclude, CheckConclusion, FlowTypeOK
      <4>3. check[r] = "none"
        BY <4>1 DEF SaidSoFar
      <4>4. QED  BY <4>1, <4>2, <4>3 DEF Blocks
    <3>9. QED  BY <2>3, <3>5, <3>6, <3>7, <3>8 DEF Step
  <2>4. QED  BY <2>1, <2>2, <2>3
<1>5. QED  BY <1>3, <1>4 DEF BlockersKept

-----------------------------------------------------------------------------
\* The verdicts.

LEMMA DefaultGateBlocks ==
    ASSUME NEW gate, DefaultGate \subseteq gate, NEW S, IsFiniteSet(S), HasBlocking(S)
    PROVE  ~GatePasses(gate, S)
<1> DEFINE c == [metric |-> "new_blocker_issues", operator |-> "gt", threshold |-> 0]
<1>1. c \in gate
  BY DEF DefaultGate
<1>2. Metric(S, c.metric) = Count(S, "blocking")
  BY DEF Metric
<1>3. Compares(c.operator, Metric(S, c.metric), c.threshold)
  BY <1>2, BlockersCount DEF Compares
<1>4. QED  BY <1>1, <1>3 DEF GatePasses

LEMMA CleanConclusion ==
    ASSUME NEW blockOnFail
    PROVE  CheckConclusion({}, FALSE, blockOnFail) = "success"
<1>1. OfSeverity({}, "warning") = {} /\ OfSeverity({}, "blocking") = {}
  BY DEF OfSeverity
<1>2. Count({}, "warning") = 0
  BY <1>1, FS_EmptySet DEF Count
<1>3. QED  BY <1>1, <1>2 DEF CheckConclusion, HasBlocking

\* A gate that a run without findings cannot fail.
CleanPasses == \A s \in Settings : GatePasses(Overlay(s.gate, s.repo.gate), {})

LEMMA VerdictStep ==
    ASSUME FlowTypeOK, SaidSoFar, CleanPasses, VerdictsAgree, NEW r \in Run, Step(r)
    PROVE  VerdictsAgree'
<1> DEFINE Agrees(q) ==
        /\ event[q] = "REQUEST_CHANGES" =>
              /\ check[q] \in {"action_required", "none"}
              /\ DefaultGate \subseteq Overlay(set[q].gate, set[q].repo.gate)
                    /\ set[q].readiness.blockOnBlockers => score[q] = 0
        /\ event[q] = "APPROVE" => check[q] \in {"success", "none"}
        /\ draft[q] => event[q] \in {"COMMENT", "exists", "none"}
<1>1. set' = set
  BY HistoryStays
<1>2. ASSUME NEW q \in Run, q # r, pc'[q] = "done"  PROVE Agrees(q)'
  <2>1. /\ pc[q] = "done" /\ event'[q] = event[q] /\ check'[q] = check[q]
        /\ score'[q] = score[q] /\ draft'[q] = draft[q] /\ set'[q] = set[q]
    BY <1>2, OthersStay
  <2>2. Agrees(q)
    BY <2>1 DEF VerdictsAgree
  <2>3. QED  BY <2>1, <2>2
<1>3. ASSUME pc'[r] = "done"  PROVE Agrees(r)'
  <2>1. Conclude(r)
    BY <1>3 DEF Step, Clear, SaveLines, Detect, Judge, Approve, Review, Goto, FlowTypeOK
  <2>2. pc[r] = "conclude" /\ UNCHANGED <<event, draft>>
    BY <2>1 DEF Conclude
  <2>3. /\ check[r] = "none"
        /\ event[r] = "REQUEST_CHANGES" => HasBlocking(fs[r])
        /\ event[r] = "APPROVE" => fs[r] = {}
        /\ draft[r] => event[r] \in {"COMMENT", "exists", "none"}
    BY <2>2 DEF SaidSoFar
  <2> DEFINE gate == Overlay(set[r].gate, set[r].repo.gate)
             passes == GatePasses(gate, fs[r])
  <2>4. PICK premergeFails \in BOOLEAN, seen \in Seen :
           LET blocked == fs[r] # {} /\ premergeFails
           IN  /\ score'[r] = IF fs[r] = {} THEN Unset
                     ELSE ReadinessScore(set[r].readiness, seen, fs[r], passes, FALSE, blocked)
               /\ check'[r] \in {check[r],
                     CheckConclusion(fs[r], ~passes \/ blocked, set[r].blockOnFail)}
    BY <2>1 DEF Conclude, FlowTypeOK
  <2> HIDE DEF passes
  <2>5. ASSUME HasBlocking(fs[r])
        PROVE  /\ check'[r] \in {"action_required", "none"}
               /\ DefaultGate \subseteq gate /\ set[r].readiness.blockOnBlockers => score'[r] = 0
    <3>1. fs[r] # {}
      BY <2>5 DEF HasBlocking, OfSeverity
    <3>2. check'[r] \in {"action_required", "none"}
      BY <2>3, <2>4, <2>5 DEF CheckConclusion
    <3>3. ASSUME DefaultGate \subseteq gate, set[r].readiness.blockOnBlockers
          PROVE  score'[r] = 0
      <4>1. IsFiniteSet(fs[r])
        BY DEF FlowTypeOK
      <4>2. ~passes
        BY <2>5, <3>3, <4>1, DefaultGateBlocks DEF passes
      <4>3. QED  BY <2>4, <3>1, <3>3, <4>2 DEF ReadinessScore, ReadinessBlocked
    <3>4. QED  BY <3>2, <3>3
  <2>6. ASSUME fs[r] = {}  PROVE check'[r] \in {"success", "none"}
    <3>1. set[r] \in Settings
      BY DEF FlowTypeOK
    <3>2. passes
      BY <2>6, <3>1 DEF CleanPasses, passes
    <3>3. check'[r] \in {check[r], CheckConclusion({}, FALSE, set[r].blockOnFail)}
      BY <2>4, <2>6, <3>2
    <3>4. QED  BY <2>3, <3>3, CleanConclusion
  <2>7. QED  BY <1>1, <2>2, <2>3, <2>5, <2>6
<1>4. QED  BY <1>2, <1>3 DEF VerdictsAgree

-----------------------------------------------------------------------------
\* The invariant.

LEMMA FlowInit ==
    ASSUME FlowAssumption, Init
    PROVE  FlowInv /\ VerdictsAgree
<1>1. PICK s \in Settings : set = [r \in Run |-> s]
  BY DEF Init
<1>2. FlowTypeOK
  <2>1. IsFiniteSet({})
    BY FS_EmptySet
  <2>2. Budget \in Nat
    BY DEF FlowAssumption
  <2>3. QED  BY <1>1, <2>1, <2>2 DEF Init, FlowTypeOK
<1>3. LinesGathered /\ OldCodeQuiet /\ CommentsListed /\ InlineOnce /\ VerdictsAgree
  BY DEF Init, LinesGathered, OldCodeQuiet, CommentsListed, InlineOnce, VerdictsAgree
<1>4. SaidSoFar
  BY DEF Init, SaidSoFar
<1>5. BlockersKept
  BY DEF Init, BlockersKept, Holds, BlockersOn
<1>6. QED  BY <1>2, <1>3, <1>4, <1>5 DEF FlowInv

LEMMA FlowStep ==
    ASSUME FlowAssumption, SettingsAssumption, PatchAssumption, FlowInv, [Next]_vars
    PROVE  FlowInv' /\ (CleanPasses /\ VerdictsAgree => VerdictsAgree')
<1>1. CASE Next
  <2>1. PICK r \in Run : Step(r)
    BY <1>1 DEF Next, Step
  <2>2. FlowTypeOK' /\ LinesGathered' /\ OldCodeQuiet'
    BY <2>1, TypeStep, GatheredStep, QuietStep DEF FlowInv
  <2>3. CommentsListed' /\ InlineOnce' /\ SaidSoFar' /\ BlockersKept'
    BY <2>1, CommentStep, SaidStep, BlockersStep DEF FlowInv
  <2>4. CleanPasses /\ VerdictsAgree => VerdictsAgree'
    BY <2>1, VerdictStep DEF FlowInv
  <2>5. QED  BY <2>2, <2>3, <2>4 DEF FlowInv
<1>2. CASE UNCHANGED vars
  <2> USE <1>2 DEF vars
  <2>1. FlowTypeOK' /\ LinesGathered' /\ OldCodeQuiet' /\ CommentsListed' /\ InlineOnce'
    BY DEF FlowInv, FlowTypeOK, LinesGathered, OldCodeQuiet, CommentsListed, InlineOnce, Changed
  <2>2. SaidSoFar'
    BY DEF FlowInv, SaidSoFar, HasBlocking, OfSeverity
  <2>3. BlockersKept'
    BY DEF FlowInv, BlockersKept, Holds, BlockersOn, HasBlocking, OfSeverity, Blocks
  <2>4. VerdictsAgree => VerdictsAgree'
    BY DEF VerdictsAgree
  <2>5. QED  BY <2>1, <2>2, <2>3, <2>4 DEF FlowInv
<1>3. QED  BY <1>1, <1>2

\* What every state of every run of the specification satisfies.
LEMMA FlowInvariance == Spec => []FlowInv
<1>1. Init => FlowInv
  BY FlowAssumption, FlowInit
<1>2. FlowInv /\ [Next]_vars => FlowInv'
  BY FlowAssumption, SettingsAssumption, PatchAssumption, FlowStep
<1>3. QED  BY <1>1, <1>2, PTL DEF Spec

-----------------------------------------------------------------------------
\* Old code stays quiet (baseline.rs 92-160), whatever runs do at the same time: a run
\* reports on lines of its commit alone, unless its filter failed, its DELETE did, or a
\* run of another commit saved into the table meanwhile.
THEOREM OldCodeStaysQuiet == Spec => []OldCodeQuiet
<1>1. FlowInv => OldCodeQuiet
  BY DEF FlowInv
<1>2. QED  BY FlowInvariance, <1>1, PTL

\* A finding gets no second comment (github.rs 115-170), in any number of runs, as long
\* as none comments while another one waits to, and GitHub lists the comments it has.
THEOREM CommentsAreMadeOnce == Spec => []InlineOnce
<1>1. FlowInv => InlineOnce
  BY DEF FlowInv
<1>2. QED  BY FlowInvariance, <1>1, PTL

\* A blocking finding on new code gets to GitHub (pipeline.rs 277-292, 676-745), for any
\* settings, reports and patches and whichever calls fail, in every run whose changed lines
\* were not cut short and whose findings the model may doubt but not drop.
THEOREM BlockersGetThrough == Spec => []NoSilentPass
<1>1. FlowInv => NoSilentPass
  BY DEF FlowInv, BlockersKept, NoSilentPass
<1>2. QED  BY FlowInvariance, <1>1, PTL

\* Review, check run and readiness agree (pipeline.rs 830-1350), when the quality gate
\* is one that a run without findings cannot fail: gates.rs accepts others.
THEOREM VerdictsAlwaysAgree == ASSUME CleanPasses PROVE Spec => []VerdictsAgree
<1>1. Init => VerdictsAgree
  BY FlowAssumption, FlowInit
<1>2. FlowInv /\ VerdictsAgree /\ [Next]_vars => VerdictsAgree'
  BY FlowAssumption, SettingsAssumption, PatchAssumption, FlowStep
<1>3. QED  BY FlowInvariance, <1>1, <1>2, PTL DEF Spec

-----------------------------------------------------------------------------
\* Registry: answers about packages.

Known == Value \cup {"none", "unknown"}

RegistryTypeOK ==
    /\ kind \in {"exists", "metadata", "osv", "osv_batch"}
    /\ truth \in Value
    /\ since \in [Value -> 0..Old]
    /\ since[truth] = 0
    /\ cache \in [val : Known, age : 0..Old]
    /\ offline \in BOOLEAN
    /\ lookup \in [Task -> [pc : {"idle", "asking", "told"}, told : Known, age : 0..Flight]]

\* What a request was told was true while it was under way.
ToldBacked ==
    \A t \in Task : lookup[t].told \in Value => since[lookup[t].told] <= lookup[t].age

\* What the cache says was true within the flight of the request that brought it.
CacheBacked == cache.val \in Value => since[cache.val] <= cache.age + Flight

RegistryInv == RegistryTypeOK /\ ToldBacked /\ CacheBacked /\ AnswersBacked

LEMMA OldIsNat == Old \in Nat /\ Old > Flight /\ Old > 0
BY RegistryAssumption DEF Old

\* At the start nothing was asked yet.
LEMMA InitBacked == ASSUME RegistryInit PROVE RegistryInv
<1>0. Old \in Nat /\ Old > 0 /\ Flight \in Nat
  BY OldIsNat, RegistryAssumption
<1>1. RegistryTypeOK
  <2>1. since \in [Value -> 0..Old] /\ since[truth] = 0
    BY <1>0 DEF RegistryInit, Value
  <2>2. kind \in {"exists", "metadata", "osv", "osv_batch"}
    BY RegistryAssumption DEF RegistryInit
  <2>3. lookup \in [Task -> [pc : {"idle", "asking", "told"}, told : Known, age : 0..Flight]]
    BY <1>0 DEF RegistryInit, Quiet, Known
  <2>4. cache \in [val : Known, age : 0..Old]
    BY <1>0 DEF RegistryInit, None, Known
  <2>. QED BY <2>1, <2>2, <2>3, <2>4 DEF RegistryInit, RegistryTypeOK
<1>2. ToldBacked /\ CacheBacked /\ AnswersBacked
  BY DEF RegistryInit, ToldBacked, CacheBacked, AnswersBacked, Value, None, Quiet
<1>. QED BY <1>1, <1>2 DEF RegistryInv

\* A value given back now that was true so recently is backed.
LEMMA BackedAnswer ==
    ASSUME NEW v \in Known, Answers(v), UNCHANGED offline,
           ~offline /\ v \in Value => since[v] < Ttl + Flight
    PROVE  AnswersBacked'
BY DEF Answers, AnswersBacked, Known, Value

\* No answer, nothing to back.
LEMMA NoAnswer == ASSUME answer' = None PROVE AnswersBacked'
BY DEF AnswersBacked, None, Value

\* A lookup answers from the cache, or begins a request that was told nothing yet.
LEMMA LookupKeeps ==
    ASSUME RegistryInv, NEW t \in Task, Lookup(t) PROVE RegistryInv'
<1>1. RegistryTypeOK' /\ ToldBacked' /\ CacheBacked'
  <2>1. CASE UNCHANGED lookup
    BY <2>1 DEF RegistryInv, Lookup, RegistryTypeOK, ToldBacked, CacheBacked
  <2>2. CASE lookup' = [lookup EXCEPT ![t].pc = "asking"]
    BY <2>2 DEF RegistryInv, Lookup, RegistryTypeOK, ToldBacked, CacheBacked
  <2>. QED BY <2>1, <2>2 DEF Lookup
<1>2. AnswersBacked'
  <2>1. CASE Hit
    <3>1. ~offline /\ cache.val \in Value => cache.age < Ttl
      BY <2>1 DEF RegistryInv, RegistryTypeOK, Hit, ExistsHit, MetadataHit, OsvHit, Value
    <3>2. cache.val \in Value =>
              /\ cache.age \in Nat /\ since[cache.val] \in Nat
              /\ since[cache.val] <= cache.age + Flight
      <4>1. Old \in Nat
        BY OldIsNat
      <4>. QED BY <4>1 DEF RegistryInv, RegistryTypeOK, CacheBacked
    <3>3. ~offline /\ cache.val \in Value => since[cache.val] < Ttl + Flight
      BY <3>1, <3>2, RegistryAssumption
    <3>4. cache.val \in Known /\ Answers(cache.val) /\ UNCHANGED offline
      BY <2>1 DEF RegistryInv, RegistryTypeOK, Lookup
    <3>. QED BY <3>3, <3>4, BackedAnswer
  <2>2. CASE ~Hit /\ offline
    <3>1. Answers(Offline) /\ UNCHANGED offline
      BY <2>2 DEF Lookup
    <3>2. Offline \in Known
      BY DEF Offline, Known, Value
    <3>. QED BY <2>2, <3>1, <3>2, BackedAnswer
  <2>3. CASE ~Hit /\ ~offline
    BY <2>3, NoAnswer DEF Lookup
  <2>. QED BY <2>1, <2>2, <2>3
<1>. QED BY <1>1, <1>2 DEF RegistryInv

\* A request is told what is true now, or nothing.
LEMMA ToldKeeps ==
    ASSUME RegistryInv, NEW t \in Task,
           RegistryAnswers(t) \/ RegistryFails(t)
    PROVE  RegistryInv'
<1>1. PICK v \in {truth, "unknown"} : Told(t, v)
  BY DEF RegistryAnswers, RegistryFails
<1>2. RegistryTypeOK' /\ CacheBacked' /\ UNCHANGED since
  BY <1>1 DEF RegistryInv, Told, RegistryTypeOK, CacheBacked, Known
<1>3. ToldBacked'
  <2> SUFFICES ASSUME NEW u \in Task, lookup'[u].told \in Value
               PROVE  since[lookup'[u].told] <= lookup'[u].age
    BY <1>2 DEF ToldBacked
  <2>1. CASE u = t
    <3>1. lookup'[t].told = truth /\ since[truth] = 0
      BY <1>1, <2>1 DEF RegistryInv, Told, RegistryTypeOK, Value
    <3>2. lookup'[t].age \in 0..Flight
      BY <1>2 DEF RegistryTypeOK
    <3>. QED BY <2>1, <3>1, <3>2
  <2>2. CASE u # t
    BY <1>1, <2>2 DEF RegistryInv, Told, RegistryTypeOK, ToldBacked
  <2>. QED BY <2>1, <2>2
<1>. QED BY <1>1, <1>2, <1>3, NoAnswer DEF RegistryInv, Told

\* What is kept is what was told, now; else the entry stays.
LEMMA ReturnKeeps ==
    ASSUME RegistryInv, NEW t \in Task, Return(t) PROVE RegistryInv'
<1> DEFINE v == lookup[t].told
<1>0. Old \in Nat /\ Flight \in Nat /\ Ttl \in Nat \ {0}
  BY OldIsNat, RegistryAssumption
<1>1. v \in Known /\ (v \in Value => since[v] \in Nat /\ since[v] <= Flight)
  BY <1>0 DEF RegistryInv, RegistryTypeOK, ToldBacked
<1>2. cache' = [val |-> v, age |-> 0] \/ UNCHANGED cache
  BY DEF RegistryInv, RegistryTypeOK, Return, Store, Given
<1>3. RegistryTypeOK'
  BY <1>0, <1>1, <1>2 DEF RegistryInv, Return, RegistryTypeOK, Quiet, Known
<1>4. ToldBacked'
  BY DEF RegistryInv, Return, RegistryTypeOK, ToldBacked, Quiet, Value
<1>5. CacheBacked'
  <2>1. CASE cache' = [val |-> v, age |-> 0]
    BY <1>0, <1>1, <2>1 DEF Return, CacheBacked
  <2>2. CASE UNCHANGED cache
    BY <2>2 DEF RegistryInv, Return, CacheBacked
  <2>. QED BY <1>2, <2>1, <2>2
<1>6. AnswersBacked'
  <2>1. ~offline /\ v \in Value => since[v] < Ttl + Flight
    BY <1>0, <1>1
  <2>2. Answers(v) /\ UNCHANGED offline
    BY DEF Return
  <2>. QED BY <1>1, <2>1, <2>2, BackedAnswer
<1>. QED BY <1>3, <1>4, <1>5, <1>6 DEF RegistryInv

\* An entry that goes, a registry that changes its mind, a switch: what was true a while
\* ago is no longer ago than before.
LEMMA OthersKeep ==
    ASSUME RegistryInv, Evict \/ Change \/ SetOfflineMode
    PROVE  RegistryInv'
<1>0. Old \in Nat /\ Flight \in Nat
  BY OldIsNat, RegistryAssumption
<1>1. CASE Evict
  BY <1>0, <1>1, NoAnswer
     DEF RegistryInv, RegistryTypeOK, ToldBacked, CacheBacked, Evict, None, Known, Value
<1>2. CASE Change
  <2>1. RegistryTypeOK'
    BY <1>0, <1>2 DEF RegistryInv, RegistryTypeOK, Change
  <2>2. \A w \in Value : since'[w] = since[w] \/ since'[w] = 0
    BY <1>2 DEF RegistryInv, RegistryTypeOK, Change
  <2>3. ToldBacked'
    BY <1>0, <1>2, <2>2 DEF RegistryInv, RegistryTypeOK, ToldBacked, Change
  <2>4. CacheBacked'
    BY <1>0, <1>2, <2>2 DEF RegistryInv, RegistryTypeOK, CacheBacked, Change
  <2>. QED BY <1>2, <2>1, <2>3, <2>4, NoAnswer DEF RegistryInv, Change
<1>3. CASE SetOfflineMode
  BY <1>3, NoAnswer DEF RegistryInv, RegistryTypeOK, ToldBacked, CacheBacked, SetOfflineMode
<1>. QED BY <1>1, <1>2, <1>3

\* A tick: everything grows older together, and what a request was told no faster than it.
LEMMA TickKeeps ==
    ASSUME RegistryInv, Tick PROVE RegistryInv'
<1>0. Old \in Nat /\ Old > Flight /\ Flight \in Nat
  BY OldIsNat, RegistryAssumption
<1>1. /\ \A n \in 0..Old : Older(n) \in 0..Old /\ Older(n) <= n + 1
      /\ \A n \in 0..Old : n < Old => Older(n) = n + 1
  BY <1>0 DEF Older
<1>2. since' \in [Value -> 0..Old] /\ \A w \in Value : since'[w] <= since[w] + 1
  BY <1>0, <1>1 DEF RegistryInv, RegistryTypeOK, Tick
<1>3. /\ lookup' \in [Task -> [pc : {"idle", "asking", "told"}, told : Known, age : 0..Flight]]
      /\ \A t \in Task : \/ lookup'[t].told = "none"
                         \/ lookup'[t].told = lookup[t].told /\ lookup'[t].age = lookup[t].age + 1
  BY <1>0 DEF RegistryInv, RegistryTypeOK, Tick, Quiet, Known
<1>4. cache' \in [val : Known, age : 0..Old]
  BY <1>0, <1>1 DEF RegistryInv, RegistryTypeOK, Tick, None, Known
<1>5. RegistryTypeOK'
  BY <1>0, <1>2, <1>3, <1>4 DEF RegistryInv, RegistryTypeOK, Tick
<1>6. ToldBacked'
  BY <1>0, <1>2, <1>3 DEF RegistryInv, RegistryTypeOK, ToldBacked, Value
<1>7. CacheBacked'
  <2> SUFFICES ASSUME cache'.val \in Value PROVE since'[cache'.val] <= cache'.age + Flight
    BY DEF CacheBacked
  <2>1. cache'.val = cache.val /\ cache'.age = Older(cache.age)
    BY DEF RegistryInv, RegistryTypeOK, Tick, None, Value
  <2>2. /\ since[cache.val] \in 0..Old /\ since[cache.val] <= cache.age + Flight
        /\ since'[cache.val] \in 0..Old /\ since'[cache.val] <= since[cache.val] + 1
        /\ cache.age \in 0..Old
    BY <1>2, <2>1 DEF RegistryInv, RegistryTypeOK, CacheBacked
  <2>3. CASE cache.age < Old
    BY <1>0, <1>1, <2>1, <2>2, <2>3
  <2>4. CASE ~(cache.age < Old)
    BY <1>0, <2>1, <2>2, <2>4 DEF Older
  <2>. QED BY <2>3, <2>4
<1>. QED BY <1>5, <1>6, <1>7, NoAnswer DEF RegistryInv, Tick

\* What a lookup returns while the process is online was true no longer ago than the time
\* to live and the flight of a request (registry/mod.rs, AnswersBacked): the invariant says
\* the same, sharper, of what requests were told and of the entry.
THEOREM AnswersAreBacked == RegistrySpec => []AnswersBacked
<1>1. RegistryInit => RegistryInv
  BY InitBacked
<1>2. RegistryInv /\ [RegistryNext]_registryVars => RegistryInv'
  <2> SUFFICES ASSUME RegistryInv, [RegistryNext]_registryVars PROVE RegistryInv'
    OBVIOUS
  <2>1. CASE RegistryNext
    BY <2>1, LookupKeeps, ToldKeeps, ReturnKeeps, OthersKeep, TickKeeps DEF RegistryNext
  <2>2. CASE UNCHANGED registryVars
    BY <2>2 DEF registryVars, RegistryInv, RegistryTypeOK, ToldBacked, CacheBacked, AnswersBacked
  <2>. QED BY <2>1, <2>2
<1>3. RegistryInv => AnswersBacked
  BY DEF RegistryInv
<1>. QED BY <1>1, <1>2, <1>3, PTL DEF RegistrySpec

-----------------------------------------------------------------------------
\* The model's budget.

Level == 1..4

\* One caller comes or goes.
LEMMA OneMoves ==
    ASSUME NEW S, NEW T, NEW x, IsFiniteSet(S), T \ {x} = S \ {x}
    PROVE  /\ IsFiniteSet(T) /\ Cardinality(T) \in Nat /\ Cardinality(S) \in Nat
           /\ Cardinality(T) + (IF x \in S THEN 1 ELSE 0) =
                 Cardinality(S) + (IF x \in T THEN 1 ELSE 0)
<1> DEFINE rest == S \ {x}
<1>1. IsFiniteSet(rest) /\ x \notin rest /\ Cardinality(rest) \in Nat
  BY FS_Subset, FS_CardinalityType
<1>2. IsFiniteSet(rest \cup {x}) /\ Cardinality(rest \cup {x}) = Cardinality(rest) + 1
  BY <1>1, FS_AddElement
<1>3. S = (IF x \in S THEN rest \cup {x} ELSE rest) /\ T = (IF x \in T THEN rest \cup {x} ELSE rest)
  OBVIOUS
<1> HIDE DEF rest
<1>4. /\ IsFiniteSet(S) /\ Cardinality(S) = Cardinality(rest) + (IF x \in S THEN 1 ELSE 0)
      /\ IsFiniteSet(T) /\ Cardinality(T) = Cardinality(rest) + (IF x \in T THEN 1 ELSE 0)
  <2>1. CASE x \in S /\ x \in T
    BY <1>1, <1>2, <1>3, <2>1
  <2>2. CASE x \in S /\ x \notin T
    BY <1>1, <1>2, <1>3, <2>2
  <2>3. CASE x \notin S /\ x \in T
    <3>1. S = rest /\ T = rest \cup {x}
      BY <1>3, <2>3
    <3>2. QED  BY <1>1, <1>2, <2>3, <3>1
  <2>4. CASE x \notin S /\ x \notin T
    BY <1>1, <1>2, <1>3, <2>4
  <2>5. QED  BY <2>1, <2>2, <2>3, <2>4
<1>5. QED  BY <1>1, <1>4

LEMMA FourAtMost ==
    ASSUME NEW c
    PROVE  /\ MayStillSend(c) \in 0..4
           /\ c.pc = "asked" => MayStillSend(c) <= 3
BY DEF MayStillSend

\* What all callers may send fits four for each.
LEMMA FourEach ==
    ASSUME LlmAssumption,
           NEW one \in SUBSET Caller, NEW two \in SUBSET Caller, NEW three \in SUBSET Caller,
           NEW four \in SUBSET Caller, NEW asked \in SUBSET Caller, four \cap asked = {}
    PROVE  LET n == Cardinality(one) + Cardinality(two) + Cardinality(three) + Cardinality(four)
           IN  /\ n \in Nat /\ Cardinality(asked) \in Nat /\ Cardinality(Caller) \in Nat
               /\ n + Cardinality(asked) <= 4 * Cardinality(Caller)
<1>1. /\ IsFiniteSet(Caller) /\ Cardinality(Caller) \in Nat
      /\ \A S \in SUBSET Caller : /\ IsFiniteSet(S) /\ Cardinality(S) \in Nat
                                  /\ Cardinality(S) <= Cardinality(Caller)
  BY FS_Subset, FS_CardinalityType DEF LlmAssumption
<1>2. Cardinality(four) + Cardinality(asked) <= Cardinality(Caller)
  <2>1. Cardinality(four \cup asked) = Cardinality(four) + Cardinality(asked) - Cardinality({})
    BY <1>1, FS_Union
  <2>2. Cardinality({}) = 0
    BY FS_EmptySet
  <2>3. four \cup asked \in SUBSET Caller
    OBVIOUS
  <2>4. QED  BY <1>1, <2>1, <2>2, <2>3
<1>3. QED  BY <1>1, <1>2

\* What may still be sent, with what is to be entered, fits in four for each caller.
LEMMA SentAndOwed ==
    ASSUME LlmAssumption
    PROVE  /\ Outstanding \in Nat /\ Cardinality(Unbooked) \in Nat
           /\ Outstanding' \in Nat /\ Cardinality(Unbooked') \in Nat
           /\ Cardinality(Caller) \in Nat
           /\ Outstanding + Cardinality(Unbooked) <= 4 * Cardinality(Caller)
           /\ Outstanding' + Cardinality(Unbooked') <= 4 * Cardinality(Caller)
<1>1. /\ Sending(1) \in SUBSET Caller /\ Sending(2) \in SUBSET Caller
      /\ Sending(3) \in SUBSET Caller /\ Sending(4) \in SUBSET Caller
      /\ Unbooked \in SUBSET Caller /\ Sending(4) \cap Unbooked = {}
  BY FourAtMost DEF Sending, Unbooked
<1>2. /\ Sending(1)' \in SUBSET Caller /\ Sending(2)' \in SUBSET Caller
      /\ Sending(3)' \in SUBSET Caller /\ Sending(4)' \in SUBSET Caller
      /\ Unbooked' \in SUBSET Caller /\ Sending(4)' \cap Unbooked' = {}
  BY FourAtMost DEF Sending, Unbooked
<1>3. /\ Outstanding \in Nat /\ Cardinality(Unbooked) \in Nat /\ Cardinality(Caller) \in Nat
      /\ Outstanding + Cardinality(Unbooked) <= 4 * Cardinality(Caller)
  BY <1>1, FourEach DEF Outstanding
<1>4. /\ Outstanding' \in Nat /\ Cardinality(Unbooked') \in Nat
      /\ Outstanding' + Cardinality(Unbooked') <= 4 * Cardinality(Caller)
  BY <1>2, FourEach DEF Outstanding
<1>5. QED  BY <1>3, <1>4

Asks(c) == IF c.pc = "asked" THEN 1 ELSE 0

\* When one call goes on, the sums change by what it changes.
LEMMA SumsMove ==
    ASSUME LlmAssumption, LlmTypeOK, LlmTypeOK', NEW t \in Caller, NEW c,
           call' = [call EXCEPT ![t] = c]
    PROVE  /\ Outstanding' = Outstanding + MayStillSend(c) - MayStillSend(call[t])
           /\ Cardinality(Unbooked)' = Cardinality(Unbooked) + Asks(c) - Asks(call[t])
           /\ MayStillSend(c) \in 0..4 /\ MayStillSend(call[t]) \in 0..4
<1>1. call'[t] = c /\ \A u \in Caller \ {t} : call'[u] = call[u]
  BY DEF LlmTypeOK
<1>2. MayStillSend(c) \in 0..4 /\ MayStillSend(call[t]) \in 0..4
  BY FourAtMost
<1>3. ASSUME NEW n \in Level
      PROVE  /\ Cardinality(Sending(n)) \in Nat /\ Cardinality(Sending(n)') \in Nat
             /\ Cardinality(Sending(n)') + (IF MayStillSend(call[t]) >= n THEN 1 ELSE 0)
                  = Cardinality(Sending(n)) + (IF MayStillSend(c) >= n THEN 1 ELSE 0)
  <2>1. IsFiniteSet(Sending(n))
    BY FS_Subset DEF LlmAssumption, Sending
  <2>2. Sending(n)' \ {t} = Sending(n) \ {t}
    BY <1>1 DEF Sending
  <2>3. /\ t \in Sending(n) <=> MayStillSend(call[t]) >= n
        /\ t \in Sending(n)' <=> MayStillSend(c) >= n
    BY <1>1 DEF Sending
  <2> HIDE DEF Sending
  <2>4. QED  BY <2>1, <2>2, <2>3, OneMoves
<1>4. /\ Cardinality(Unbooked) \in Nat /\ Cardinality(Unbooked') \in Nat
      /\ Cardinality(Unbooked') + Asks(call[t]) = Cardinality(Unbooked) + Asks(c)
  <2>1. IsFiniteSet(Unbooked)
    BY FS_Subset DEF LlmAssumption, Unbooked
  <2>2. Unbooked' \ {t} = Unbooked \ {t}
    BY <1>1 DEF Unbooked
  <2>3. (t \in Unbooked <=> call[t].pc = "asked") /\ (t \in Unbooked' <=> c.pc = "asked")
    BY <1>1 DEF Unbooked
  <2>4. QED  BY <2>1, <2>2, <2>3, OneMoves DEF Asks
<1>5. Outstanding' = Outstanding + MayStillSend(c) - MayStillSend(call[t])
  <2> DEFINE p == MayStillSend(call[t])
             q == MayStillSend(c)
             Has(n, m) == IF m >= n THEN 1 ELSE 0
  <2>1. 1 \in Level /\ 2 \in Level /\ 3 \in Level /\ 4 \in Level
    BY DEF Level
  <2>2. \A m \in 0..4 : Has(1, m) + Has(2, m) + Has(3, m) + Has(4, m) = m
    OBVIOUS
  <2>3. QED  BY <1>2, <1>3, <2>1, <2>2 DEF Outstanding
<1>6. QED  BY <1>2, <1>4, <1>5 DEF Asks

-----------------------------------------------------------------------------
\* The steps of a call.

\* The books leave room.
Room == DailyBudget = 0 \/ ledger < DailyBudget

\* What a step of a call, which makes c of it, has to do with the books and the budget: it
\* passes a look, sends a request, or the request is entered or dropped; or it does nothing
\* of this.
Spends(t, c) ==
    LET p == MayStillSend(call[t])
        q == MayStillSend(c)
    IN  \/ /\ UNCHANGED <<paid, ledger, dropped>> /\ Asks(c) = Asks(call[t])
           /\ (slips' = slips /\ (Room \/ q <= p)) \/ slips' = slips + 4
        \/ /\ paid' = paid + 1 /\ UNCHANGED <<ledger, dropped>> /\ Asks(call[t]) = 0 /\ Asks(c) = 1
           /\ (slips' = slips /\ (Room \/ q + 1 <= p)) \/ (slips' = slips + 4 /\ q <= p)
        \/ /\ UNCHANGED <<paid, dropped>> /\ Asks(call[t]) = 1 /\ Asks(c) = 0 /\ q <= p
           /\ \/ ledger' = ledger + 1 /\ slips' = slips
              \/ ledger' = ledger /\ slips' = slips + 1
        \/ /\ UNCHANGED <<paid, ledger, slips>> /\ Asks(c) = 0 /\ q <= p
           /\ dropped' = dropped + Asks(call[t])

LEMMA SpendsWithin ==
    ASSUME LlmAssumption, LlmTypeOK, LlmTypeOK', BooksKept, OvershootForeseen,
           NEW t \in Caller, NEW c, call' = [call EXCEPT ![t] = c], Spends(t, c)
    PROVE  BooksKept' /\ OvershootForeseen'
<1> DEFINE p == MayStillSend(call[t])
           q == MayStillSend(c)
           owed == Cardinality(Unbooked)
           all == Cardinality(Caller)
<1>1. /\ Outstanding' = Outstanding + q - p /\ owed' = owed + Asks(c) - Asks(call[t])
      /\ p \in 0..4 /\ q \in 0..4
  BY SumsMove
<1>2. /\ Outstanding \in Nat /\ owed \in Nat /\ all \in Nat /\ Outstanding + owed <= 4 * all
      /\ Outstanding' \in Nat /\ owed' \in Nat /\ Outstanding' + owed' <= 4 * all
  BY SentAndOwed
<1>3. Asks(c) \in {0, 1} /\ Asks(call[t]) \in {0, 1} /\ DailyBudget \in Nat
  BY DEF Asks, LlmAssumption
<1>4. /\ paid \in Int /\ slips \in Nat /\ ledger \in Nat
      /\ paid' \in Int /\ slips' \in Nat /\ ledger' \in Nat
      /\ dropped \in Nat /\ dropped' \in Nat
  BY DEF LlmTypeOK
<1>5. BooksKept'
  BY <1>1, <1>2, <1>3, <1>4 DEF BooksKept, Spends
<1>6. ASSUME DailyBudget > 0
      PROVE  paid' + Outstanding' <= DailyBudget - 1 + 4 * all + slips' + dropped'
  <2>1. CASE Room /\ ledger' = ledger
    BY <1>2, <1>4, <1>5, <1>6, <2>1 DEF BooksKept, Room
  <2>2. CASE ~(Room /\ ledger' = ledger)
    <3>1. paid' + q + slips + dropped <= paid + p + slips' + dropped'
      <4>1. CASE UNCHANGED <<paid, ledger, slips>> /\ dropped' = dropped + Asks(call[t]) /\ q <= p
        BY <1>1, <1>3, <1>4, <4>1
      <4>2. CASE dropped' = dropped
        BY <1>1, <1>3, <1>4, <2>2, <4>2 DEF Spends
      <4>3. QED  BY <4>1, <4>2 DEF Spends
    <3>2. QED  BY <1>1, <1>2, <1>3, <1>4, <1>6, <3>1 DEF OvershootForeseen
  <2>3. QED  BY <2>1, <2>2
<1>7. QED  BY <1>5, <1>6 DEF OvershootForeseen

\* A step of a call: what it makes of the call, and how it spends.
Turn(t) == \E c \in Calls : /\ call' = [call EXCEPT ![t] = c]
                            /\ Rounds(c) /\ Spends(t, c)
                            /\ local' \in Nat /\ hitches' \in Nat

LEMMA Gates ==
    /\ Head(ReviewGates) = "budget" /\ Tail(ReviewGates) = <<"endpoint">>
    /\ Head(TextGates) = "endpoint" /\ Tail(TextGates) = <<"budget">>
    /\ Head(<<"budget">>) = "budget" /\ Tail(<<"budget">>) = << >>
    /\ Head(<<"endpoint">>) = "endpoint" /\ Tail(<<"endpoint">>) = << >>
    /\ ReviewGates # << >> /\ TextGates # << >> /\ <<"budget">> # << >> /\ <<"endpoint">> # << >>
    /\ ReviewGates # <<"endpoint">> /\ TextGates # <<"endpoint">>
    /\ <<"budget">> # <<"endpoint">> /\ << >> # <<"endpoint">>
BY DEF ReviewGates, TextGates

LEMMA IdleIsCall == Idle \in Calls /\ Rounds(Idle) /\ MayStillSend(Idle) = 0 /\ Asks(Idle) = 0
BY LlmAssumption DEF Idle, Calls, Rounds, MayStillSend, Asks

\* A call that has ended sends nothing.
LEMMA EndedSends ==
    ASSUME LlmTypeOK, NEW t \in Caller
    PROVE  /\ Ended(t) \in Calls /\ Rounds(Ended(t))
           /\ MayStillSend(Ended(t)) = 0 /\ Asks(Ended(t)) = 0
<1>1. CASE call[t].checks > 0
  <2> DEFINE c == [Idle EXCEPT !.pc = "checks", !.checks = call[t].checks - 1]
  <2>1. Ended(t) = c
    BY <1>1 DEF Ended
  <2>2. call[t].checks - 1 \in Nat
    BY <1>1 DEF LlmTypeOK, Calls
  <2>3. c \in Calls
    BY <2>2, IdleIsCall DEF Calls
  <2>4. Rounds(c) /\ MayStillSend(c) = 0 /\ Asks(c) = 0
    BY DEF Idle, Rounds, MayStillSend, Asks
  <2>5. QED  BY <2>1, <2>3, <2>4
<1>2. CASE ~(call[t].checks > 0)
  BY <1>2, IdleIsCall DEF Ended
<1>3. QED  BY <1>1, <1>2

LEMMA BeginTurns ==
    ASSUME LlmAssumption, LlmTypeOK, NEW t \in Caller, NEW helper \in {"review", "text"},
           NEW gates \in {ReviewGates, TextGates}, Begin(t, helper, gates)
    PROVE  Turn(t)
<1> DEFINE c == [Idle EXCEPT !.pc = "gates", !.helper = helper, !.gates = gates]
<1>1. /\ call' = [call EXCEPT ![t] = c] /\ call[t].pc = "idle"
      /\ UNCHANGED <<ledger, local, paid, slips, dropped>> /\ hitches' \in Nat
  BY DEF Begin, Becomes, FromDbOrEnv, Hitch, LlmTypeOK
<1>2. c \in Calls
  BY IdleIsCall DEF Calls
<1>3. Rounds(c) /\ MayStillSend(c) = 0 /\ Asks(c) = 0
  BY Gates, LlmAssumption DEF Idle, Rounds, MayStillSend, Asks
<1>4. Asks(call[t]) = 0 /\ MayStillSend(call[t]) = 0
  BY <1>1 DEF Asks, MayStillSend
<1>5. Spends(t, c)
  BY <1>1, <1>3, <1>4 DEF Spends
<1>6. QED  BY <1>1, <1>2, <1>3, <1>5 DEF Turn, LlmTypeOK

LEMMA ChecksTurn ==
    ASSUME LlmAssumption, LlmTypeOK, RoundsCounted, NEW t \in Caller,
           RunPreMergeChecks(t) \/ PremergeCheck(t) \/ ChecksDone(t)
    PROVE  Turn(t)
<1>1. /\ UNCHANGED <<ledger, local, paid, slips, dropped>> /\ hitches' \in Nat
      /\ call[t].pc \in {"idle", "checks"}
  <2>1. /\ UNCHANGED <<ledger, local, paid, slips, dropped>> /\ call[t].pc \in {"idle", "checks"}
    BY DEF RunPreMergeChecks, PremergeCheck, ChecksDone
  <2>2. hitches' = hitches \/ Hitch
    BY DEF RunPreMergeChecks, PremergeCheck, ChecksDone, FromDbOrEnv, NoConfig
  <2>3. QED  BY <2>1, <2>2 DEF Hitch, LlmTypeOK
<1>2. Asks(call[t]) = 0 /\ MayStillSend(call[t]) = 0 /\ call[t] \in Calls /\ Rounds(call[t])
  BY <1>1 DEF Asks, MayStillSend, LlmTypeOK, RoundsCounted
<1>3. ASSUME NEW c \in Calls, call' = [call EXCEPT ![t] = c],
             Rounds(c), MayStillSend(c) = 0, Asks(c) = 0
      PROVE  Turn(t)
  <2>1. Spends(t, c)
    BY <1>1, <1>2, <1>3 DEF Spends
  <2>2. QED  BY <1>1, <1>3, <2>1 DEF Turn, LlmTypeOK
<1>4. CASE RunPreMergeChecks(t)
  <2>1. PICK n \in 1..MaxChecks :
           call' = [call EXCEPT ![t] = [Idle EXCEPT !.pc = "checks", !.checks = n]]
    BY <1>4 DEF RunPreMergeChecks, Becomes
  <2> DEFINE c == [Idle EXCEPT !.pc = "checks", !.checks = n]
  <2>2. n \in Nat
    BY DEF LlmAssumption
  <2>3. c \in Calls
    BY <2>2, IdleIsCall DEF Calls
  <2>4. Rounds(c) /\ MayStillSend(c) = 0 /\ Asks(c) = 0
    BY DEF Idle, Rounds, MayStillSend, Asks
  <2>5. QED  BY <1>3, <2>1, <2>3, <2>4
<1>5. CASE PremergeCheck(t)
  <2> DEFINE begun == [call[t] EXCEPT !.pc = "gates", !.helper = "text", !.gates = TextGates]
             less == [call[t] EXCEPT !.checks = @ - 1]
  <2>1. /\ call[t].pc = "checks" /\ call[t].checks > 0
        /\ call' = [call EXCEPT ![t] = begun] \/ call' = [call EXCEPT ![t] = less]
    BY <1>5 DEF PremergeCheck, Becomes
  <2>2. begun \in Calls /\ less \in Calls
    <3>1. call[t].checks - 1 \in Nat
      BY <1>2, <2>1 DEF Calls
    <3>2. less \in Calls
      BY <1>2, <3>1 DEF Calls
    <3>3. begun \in Calls
      BY <1>2 DEF Calls
    <3>4. QED  BY <3>2, <3>3
  <2>3. Rounds(begun) /\ MayStillSend(begun) = 0 /\ Asks(begun) = 0
    BY <1>2, <2>1, Gates DEF Calls, Rounds, MayStillSend, Asks
  <2>4. Rounds(less) /\ MayStillSend(less) = 0 /\ Asks(less) = 0
    BY <1>2, <2>1 DEF Calls, Rounds, MayStillSend, Asks
  <2>5. QED  BY <1>3, <2>1, <2>2, <2>3, <2>4
<1>6. CASE ChecksDone(t)
  <2>1. call' = [call EXCEPT ![t] = Idle]
    BY <1>6 DEF ChecksDone, Becomes
  <2>2. QED  BY <1>3, <2>1, IdleIsCall
<1>7. QED  BY <1>4, <1>5, <1>6

\* A call with its budget looked at may send four requests, its first turn included.
LEMMA GatesSend ==
    ASSUME LlmAssumption, LlmTypeOK, RoundsCounted, NEW t \in Caller, call[t].pc = "gates"
    PROVE  LET rest == Tail(call[t].gates)
               c == [call[t] EXCEPT !.gates = rest]
               turn == [c EXCEPT !.pc = "turn", !.messages = 2]
           IN  /\ call[t].gates \in {ReviewGates, TextGates, <<"budget">>, <<"endpoint">>}
               /\ rest # << >> => /\ c \in Calls /\ Rounds(c) /\ Asks(c) = 0
                                  /\ MayStillSend(c) = IF rest = <<"endpoint">> THEN 4 ELSE 0
               /\ rest = << >> => /\ turn \in Calls /\ Rounds(turn) /\ Asks(turn) = 0
                                  /\ MayStillSend(turn) = 4
               /\ MayStillSend(call[t]) = IF call[t].gates = <<"endpoint">> THEN 4 ELSE 0
<1> DEFINE rest == Tail(call[t].gates)
           c == [call[t] EXCEPT !.gates = rest]
           turn == [c EXCEPT !.pc = "turn", !.messages = 2]
<1>1. call[t] \in Calls /\ Rounds(call[t])
  BY DEF LlmTypeOK, RoundsCounted
<1>2. call[t].gates \in {ReviewGates, TextGates, <<"budget">>, <<"endpoint">>}
  BY <1>1 DEF Calls, Rounds
<1>3. rest \in {<<"endpoint">>, <<"budget">>, << >>}
  BY <1>2, Gates
<1>4. c \in Calls /\ turn \in Calls
  <2> HIDE DEF rest
  <2>1. c \in Calls
    BY <1>1, <1>3 DEF Calls
  <2>2. turn \in Calls
    BY <2>1 DEF Calls
  <2>3. QED  BY <2>1, <2>2
<1>5. /\ c.pc = "gates" /\ c.gates = rest /\ c.sent = 0 /\ ~c.fallback
      /\ turn.pc = "turn" /\ turn.gates = rest /\ turn.sent = 0 /\ ~turn.fallback
      /\ turn.messages = 2
  BY <1>1 DEF Calls, Rounds
<1> HIDE DEF rest, c, turn
<1>6. rest # << >> => Rounds(c) /\ Asks(c) = 0
  BY <1>5 DEF Rounds, Asks
<1>7. rest # << >> => MayStillSend(c) = IF rest = <<"endpoint">> THEN 4 ELSE 0
  BY <1>5 DEF MayStillSend
<1>8. rest = << >> => Rounds(turn) /\ Asks(turn) = 0 /\ MayStillSend(turn) = 4
  BY <1>5, LlmAssumption DEF Rounds, Asks, MayStillSend
<1>9. MayStillSend(call[t]) = IF call[t].gates = <<"endpoint">> THEN 4 ELSE 0
  BY DEF MayStillSend
<1>10. QED  BY <1>2, <1>4, <1>6, <1>7, <1>8, <1>9 DEF rest, c, turn

\* What passes a gate is charged, and on its way or at its first turn.
LEMMA PassedTurns ==
    ASSUME LlmAssumption, LlmTypeOK, RoundsCounted, NEW t \in Caller, call[t].pc = "gates",
           Passed(t), UNCHANGED <<ledger, paid, dropped>>, hitches' \in Nat,
           \/ slips' = slips /\ (Room \/ Head(call[t].gates) = "endpoint")
           \/ slips' = slips + 4
    PROVE  Turn(t)
<1> DEFINE rest == Tail(call[t].gates)
           c == [call[t] EXCEPT !.gates = rest]
           d == IF rest # << >> THEN c ELSE [c EXCEPT !.pc = "turn", !.messages = 2]
<1>1. call' = [call EXCEPT ![t] = d] /\ local' \in Nat
  <2>1. local' = local \/ local' = local + 1
    BY DEF Passed, Charged
  <2>2. local' \in Nat
    BY <2>1 DEF LlmTypeOK
  <2>3. call' = [call EXCEPT ![t] = d]
    BY DEF Passed, Becomes
  <2>4. QED  BY <2>2, <2>3
<1>2. /\ d \in Calls /\ Rounds(d) /\ Asks(d) = 0
      /\ MayStillSend(d) <= 4
      /\ Head(call[t].gates) = "endpoint" => MayStillSend(d) = MayStillSend(call[t])
  <2> DEFINE turn == [c EXCEPT !.pc = "turn", !.messages = 2]
  <2>1. /\ call[t].gates \in {ReviewGates, TextGates, <<"budget">>, <<"endpoint">>}
        /\ rest # << >> => /\ c \in Calls /\ Rounds(c) /\ Asks(c) = 0
                           /\ MayStillSend(c) = IF rest = <<"endpoint">> THEN 4 ELSE 0
        /\ rest = << >> => /\ turn \in Calls /\ Rounds(turn) /\ Asks(turn) = 0
                           /\ MayStillSend(turn) = 4
        /\ MayStillSend(call[t]) = IF call[t].gates = <<"endpoint">> THEN 4 ELSE 0
    BY GatesSend
  <2>2. Head(call[t].gates) = "endpoint" =>
           \/ rest = <<"budget">> /\ call[t].gates # <<"endpoint">>
           \/ rest = << >> /\ call[t].gates = <<"endpoint">>
    BY <2>1, Gates
  <2>3. d = IF rest # << >> THEN c ELSE turn
    OBVIOUS
  <2>4. <<"budget">> # << >> /\ <<"budget">> # <<"endpoint">>
    OBVIOUS
  <2> HIDE DEF rest, c, turn, d
  <2>5. CASE rest # << >>
    BY <2>1, <2>2, <2>3, <2>4, <2>5
  <2>6. CASE rest = << >>
    BY <2>1, <2>2, <2>3, <2>4, <2>6
  <2>7. QED  BY <2>5, <2>6
<1>3. Asks(call[t]) = 0
  BY DEF Asks
<1> HIDE DEF d
<1>4. MayStillSend(d) \in 0..4 /\ MayStillSend(call[t]) \in 0..4
  BY FourAtMost
<1>5. Spends(t, d)
  BY <1>2, <1>3, <1>4 DEF Spends
<1>6. QED  BY <1>1, <1>2, <1>5 DEF Turn

\* A look at the whole of the budget that lets a call on has found room in it.
LEMMA LookFinds ==
    ASSUME LlmAssumption, LlmTypeOK, NEW view \in View, Look(view)
    PROVE  /\ slips' = (IF view = "whole" THEN slips ELSE slips + 4) /\ hitches' \in Nat
           /\ WithinDailyBudget(view) /\ view = "whole" => Room
<1>1. slips' = (IF view = "whole" THEN slips ELSE slips + 4) /\ hitches' \in Nat
  BY DEF Look, Hitch, LlmTypeOK
<1>2. ASSUME WithinDailyBudget(view), view = "whole", DailyBudget # 0  PROVE ledger < DailyBudget
  BY <1>2 DEF WithinDailyBudget, CurrentSpend, LlmAssumption, LlmTypeOK
<1>3. QED  BY <1>1, <1>2 DEF Room

LEMMA BudgetTurns ==
    ASSUME LlmAssumption, LlmTypeOK, RoundsCounted, NEW t \in Caller, AssertWithinBudget(t)
    PROVE  Turn(t)
<1>1. PICK view \in View :
         /\ Look(view)
         /\ IF WithinDailyBudget(view) THEN Passed(t)
            ELSE Becomes(t, Ended(t)) /\ UNCHANGED local
  BY DEF AssertWithinBudget
<1>2. call[t].pc = "gates" /\ UNCHANGED <<ledger, paid, dropped>>
  BY DEF AssertWithinBudget, At
<1>3. /\ slips' = (IF view = "whole" THEN slips ELSE slips + 4) /\ hitches' \in Nat
      /\ WithinDailyBudget(view) /\ view = "whole" => Room
  BY <1>1, LookFinds
<1>4. CASE WithinDailyBudget(view)
  BY <1>1, <1>2, <1>3, <1>4, PassedTurns
<1>5. CASE ~WithinDailyBudget(view)
  <2>1. call' = [call EXCEPT ![t] = Ended(t)] /\ local' \in Nat
    BY <1>1, <1>5 DEF Becomes, LlmTypeOK
  <2>2. Asks(call[t]) = 0 /\ MayStillSend(call[t]) \in 0..4
    BY <1>2, FourAtMost DEF Asks
  <2>3. Spends(t, Ended(t))
    BY <1>2, <1>3, <2>2, EndedSends DEF Spends
  <2>4. QED  BY <1>3, <2>1, <2>3, EndedSends DEF Turn
<1>6. QED  BY <1>4, <1>5

LEMMA EndpointTurns ==
    ASSUME LlmAssumption, LlmTypeOK, RoundsCounted, NEW t \in Caller, AssertEndpointSafe(t)
    PROVE  Turn(t)
<1>1. /\ call[t].pc = "gates" /\ Head(call[t].gates) = "endpoint"
      /\ UNCHANGED <<ledger, paid, slips, dropped>> /\ hitches' \in Nat
  BY DEF AssertEndpointSafe, At, LlmTypeOK
<1>2. CASE Passed(t)
  BY <1>1, <1>2, PassedTurns
<1>3. CASE Becomes(t, Ended(t)) /\ UNCHANGED local
  <2>1. call' = [call EXCEPT ![t] = Ended(t)] /\ local' \in Nat
    BY <1>3 DEF Becomes, LlmTypeOK
  <2>2. Asks(call[t]) = 0 /\ MayStillSend(call[t]) \in 0..4
    BY <1>1, FourAtMost DEF Asks
  <2>3. Spends(t, Ended(t))
    BY <1>1, <2>2, EndedSends DEF Spends
  <2>4. QED  BY <1>1, <2>1, <2>3, EndedSends DEF Turn
<1>4. QED  BY <1>2, <1>3 DEF AssertEndpointSafe

\* A call that waits or that has tools called has not been looked at for its next request;
\* one whose look finds the budget spent, or not to be known, sends its last.
LEMMA RequestTurns ==
    ASSUME LlmAssumption, LlmTypeOK, RoundsCounted, NEW t \in Caller, Request(t)
    PROVE  Turn(t)
<1>1. PICK view \in View :
         /\ view # "whole" => call[t].messages > 2
         /\ Look(view)
         /\ LET final == \/ call[t].messages > 2 * MaxToolIterations
                         \/ call[t].messages > 2 /\ ~WithinDailyBudget(view)
            IN  Becomes(t, [call[t] EXCEPT !.pc = "asked", !.sent = @ + 1, !.final = final])
  BY DEF Request
<1>2. call[t].pc = "turn" /\ paid' = paid + 1 /\ UNCHANGED <<ledger, local, dropped>>
  BY DEF Request
<1>3. /\ slips' = (IF view = "whole" THEN slips ELSE slips + 4) /\ hitches' \in Nat
      /\ WithinDailyBudget(view) /\ view = "whole" => Room
  BY <1>1, LookFinds
<1>4. call[t] \in Calls /\ Rounds(call[t])
  BY DEF LlmTypeOK, RoundsCounted
<1> DEFINE final == \/ call[t].messages > 2 * MaxToolIterations
                    \/ call[t].messages > 2 /\ ~WithinDailyBudget(view)
           c == [call[t] EXCEPT !.pc = "asked", !.sent = @ + 1, !.final = final]
           again == IF call[t].fallback THEN 0 ELSE 2
<1>5. call' = [call EXCEPT ![t] = c]
  BY <1>1 DEF Becomes
<1>6. /\ c.pc = "asked" /\ c.sent = call[t].sent + 1 /\ c.final = final
      /\ c.messages = call[t].messages /\ c.fallback = call[t].fallback
      /\ c.gates = call[t].gates
  BY <1>4 DEF Calls
<1>7. c \in Calls
  <2>1. final \in BOOLEAN
    OBVIOUS
  <2> HIDE DEF final
  <2>2. call[t].sent + 1 \in Nat
    BY <1>4 DEF Calls
  <2>3. QED  BY <1>4, <2>1, <2>2 DEF Calls
<1>8. /\ MaxToolIterations \in Nat /\ call[t].sent \in Nat /\ call[t].messages \in Nat
      /\ call[t].sent <= MaxToolIterations /\ call[t].messages >= 2 /\ call[t].gates = << >>
      /\ call[t].messages <= 2 * MaxToolIterations => 2 * call[t].sent + 2 <= call[t].messages
  BY <1>2, <1>4, LlmAssumption DEF Calls, Rounds
<1>9. ~final => call[t].messages <= 2 * MaxToolIterations
  BY <1>8
<1> HIDE DEF c
<1>10. Rounds(c)
  BY <1>6, <1>8, <1>9 DEF Rounds
<1>11. /\ MayStillSend(c) = again + (IF final THEN 0 ELSE 1)
       /\ MayStillSend(call[t]) = again + (IF call[t].messages > 2 THEN 1 ELSE 2)
       /\ Asks(c) = 1 /\ Asks(call[t]) = 0
  BY <1>2, <1>6 DEF MayStillSend, Asks
<1>12. Spends(t, c)
  <2>1. CASE view # "whole"
    <3> HIDE DEF final
    <3>1. again \in {0, 2} /\ call[t].messages > 2
      BY <1>1, <2>1
    <3> HIDE DEF again
    <3>2. MayStillSend(c) <= MayStillSend(call[t])
      BY <1>11, <3>1
    <3>3. QED  BY <1>2, <1>3, <1>11, <2>1, <3>2 DEF Spends
  <2>2. CASE view = "whole" /\ WithinDailyBudget(view)
    BY <1>2, <1>3, <1>11, <2>2 DEF Spends
  <2>3. CASE view = "whole" /\ ~WithinDailyBudget(view)
    <3>1. call[t].messages > 2 => final
      BY <2>3
    <3> HIDE DEF final
    <3>2. QED  BY <1>2, <1>3, <1>11, <2>3, <3>1 DEF Spends
  <2>4. QED  BY <2>1, <2>2, <2>3
<1>13. QED  BY <1>2, <1>3, <1>5, <1>7, <1>10, <1>12 DEF Turn, LlmTypeOK

\* The entry of a request: what the call becomes may send no more than it could.
LEMMA EmitsTurn ==
    ASSUME LlmAssumption, LlmTypeOK, NEW t \in Caller, call[t].pc = "asked", EmitLlmCall,
           UNCHANGED <<local, paid, dropped>>,
           NEW c \in Calls, call' = [call EXCEPT ![t] = c],
           Rounds(c), c.pc # "asked", MayStillSend(c) <= MayStillSend(call[t])
    PROVE  Turn(t)
<1>1. hitches' \in Nat /\ local' \in Nat
  BY DEF EmitLlmCall, Hitch, LlmTypeOK
<1>2. Asks(call[t]) = 1 /\ Asks(c) = 0
  BY DEF Asks
<1>3. \/ ledger' = ledger + 1 /\ slips' = slips
      \/ ledger' = ledger /\ slips' = slips + 1
  BY DEF EmitLlmCall
<1>4. Spends(t, c)
  BY <1>2, <1>3 DEF Spends
<1>5. QED  BY <1>1, <1>4 DEF Turn

LEMMA AnswersTurn ==
    ASSUME LlmAssumption, LlmTypeOK, RoundsCounted, NEW t \in Caller,
           Answered(t) \/ Failed(t) \/ CallsTools(t)
    PROVE  Turn(t)
<1>1. call[t].pc = "asked" /\ EmitLlmCall /\ UNCHANGED <<local, paid, dropped>>
  BY DEF Answered, Failed, CallsTools
<1>2. call[t] \in Calls /\ Rounds(call[t]) /\ MaxToolIterations \in Nat /\ MaxToolCalls \in Nat
  BY LlmAssumption DEF LlmTypeOK, RoundsCounted
<1>3. /\ MayStillSend(call[t]) =
           (IF call[t].fallback THEN 0 ELSE 2) + (IF call[t].final THEN 0 ELSE 1)
      /\ MayStillSend(call[t]) \in 0..4
  BY <1>1, FourAtMost DEF MayStillSend
<1>4. Ended(t) \in Calls /\ Rounds(Ended(t)) /\ Ended(t).pc # "asked" /\ MayStillSend(Ended(t)) = 0
  BY EndedSends DEF Asks
<1>5. CASE call' = [call EXCEPT ![t] = Ended(t)]
  <2>1. MayStillSend(Ended(t)) <= MayStillSend(call[t])
    BY <1>3, <1>4
  <2>2. QED  BY <1>1, <1>4, <1>5, <2>1, EmitsTurn
<1>6. CASE Failed(t)
  <2> DEFINE c == [call[t] EXCEPT !.pc = "turn", !.fallback = TRUE, !.messages = 2,
                                  !.sent = 0, !.final = FALSE]
  <2>1. CASE HasFallback /\ ~call[t].fallback
    <3>1. call' = [call EXCEPT ![t] = c]
      BY <1>6, <2>1 DEF Failed, Becomes
    <3>2. c \in Calls
      BY <1>2 DEF Calls
    <3>3. /\ c.pc = "turn" /\ c.fallback /\ c.messages = 2 /\ c.sent = 0
          /\ c.gates = << >>
      BY <1>1, <1>2 DEF Calls, Rounds
    <3> HIDE DEF c
    <3>4. Rounds(c)
      BY <1>2, <3>3 DEF Rounds
    <3>5. MayStillSend(c) = 2
      BY <3>3 DEF MayStillSend
    <3>6. MayStillSend(call[t]) >= 2
      BY <1>2, <1>3, <2>1 DEF Calls
    <3>7. QED  BY <1>1, <3>1, <3>2, <3>3, <3>4, <3>5, <3>6, EmitsTurn
  <2>2. CASE ~(HasFallback /\ ~call[t].fallback)
    BY <1>5, <1>6, <2>2 DEF Failed, Becomes
  <2>3. QED  BY <2>1, <2>2
<1>7. CASE CallsTools(t)
  <2>1. PICK k \in 1..MaxToolCalls :
           LET n == call[t].messages + 1 + k
           IN  Becomes(t, [call[t] EXCEPT !.pc = "tools",
                           !.messages = IF n > 2 * MaxToolIterations
                                        THEN 2 * MaxToolIterations + 1 ELSE n])
    BY <1>7 DEF CallsTools
  <2> DEFINE n == call[t].messages + 1 + k
             m == IF n > 2 * MaxToolIterations THEN 2 * MaxToolIterations + 1 ELSE n
             c == [call[t] EXCEPT !.pc = "tools", !.messages = m]
  <2>2. call' = [call EXCEPT ![t] = c] /\ ~call[t].final
    BY <1>7, <2>1 DEF CallsTools, Becomes
  <2>3. /\ 2 <= call[t].messages /\ call[t].messages <= 2 * MaxToolIterations
        /\ 2 * call[t].sent <= call[t].messages /\ call[t].gates = << >>
        /\ call[t].messages \in Nat /\ call[t].sent \in Nat
    BY <1>1, <1>2, <2>2 DEF Calls, Rounds
  <2>4. /\ m \in Nat /\ m > 2 /\ call[t].sent <= MaxToolIterations
        /\ m <= 2 * MaxToolIterations => 2 * call[t].sent + 2 <= m
    BY <1>2, <2>3
  <2> HIDE DEF m
  <2>5. c \in Calls
    BY <1>2, <2>4 DEF Calls
  <2>6. /\ c.pc = "tools" /\ c.messages = m /\ c.sent = call[t].sent
        /\ c.gates = call[t].gates /\ c.fallback = call[t].fallback
    BY <1>2 DEF Calls
  <2> HIDE DEF c
  <2>7. Rounds(c)
    BY <2>3, <2>4, <2>6 DEF Rounds
  <2>8. MayStillSend(c) = MayStillSend(call[t])
    BY <1>3, <2>2, <2>6 DEF MayStillSend
  <2>9. MayStillSend(c) <= MayStillSend(call[t]) /\ c.pc # "asked"
    BY <1>3, <2>6, <2>8
  <2>10. QED  BY <1>1, <2>2, <2>5, <2>7, <2>9, EmitsTurn
<1>8. QED  BY <1>5, <1>6, <1>7 DEF Answered, Becomes

LEMMA ToolsTurn ==
    ASSUME LlmAssumption, LlmTypeOK, RoundsCounted, NEW t \in Caller, ToolsAnswer(t)
    PROVE  Turn(t)
<1> DEFINE c == [call[t] EXCEPT !.pc = "turn"]
<1>1. /\ call[t].pc = "tools" /\ call' = [call EXCEPT ![t] = c]
      /\ UNCHANGED <<ledger, local, paid, slips, dropped, hitches>>
  BY DEF ToolsAnswer, Becomes
<1>2. call[t] \in Calls /\ Rounds(call[t])
  BY DEF LlmTypeOK, RoundsCounted
<1>3. c \in Calls
  BY <1>2 DEF Calls
<1>4. /\ c.pc = "turn" /\ c.messages = call[t].messages /\ c.sent = call[t].sent
      /\ c.gates = call[t].gates /\ c.fallback = call[t].fallback /\ call[t].messages > 2
  BY <1>1, <1>2 DEF Calls, Rounds
<1> HIDE DEF c
<1>5. Rounds(c)
  BY <1>1, <1>2, <1>4 DEF Rounds
<1>6. MayStillSend(c) = MayStillSend(call[t]) /\ Asks(c) = 0 /\ Asks(call[t]) = 0
  BY <1>1, <1>4 DEF MayStillSend, Asks
<1>7. MayStillSend(c) \in 0..4
  BY FourAtMost
<1>8. Spends(t, c)
  BY <1>1, <1>6, <1>7 DEF Spends
<1>9. QED  BY <1>1, <1>3, <1>5, <1>8 DEF Turn, LlmTypeOK

\* A call dropped where it stands sends nothing more.
LEMMA TimedOutTurns ==
    ASSUME LlmAssumption, LlmTypeOK, NEW t \in Caller, TimedOut(t)
    PROVE  Turn(t)
<1>1. /\ call' = [call EXCEPT ![t] = Idle] /\ UNCHANGED <<ledger, local, paid, slips>>
      /\ dropped' = dropped + Asks(call[t]) /\ hitches' \in Nat
  BY DEF TimedOut, Becomes, Hitch, LlmTypeOK, Asks
<1>2. MayStillSend(call[t]) \in 0..4
  BY FourAtMost
<1>3. Spends(t, Idle)
  BY <1>1, <1>2, IdleIsCall DEF Spends
<1>4. QED  BY <1>1, <1>3, IdleIsCall DEF Turn, LlmTypeOK

-----------------------------------------------------------------------------
\* What keeps to all steps.

LEMMA TurnKeeps ==
    ASSUME LlmAssumption, LlmInv, NEW t \in Caller, Turn(t)
    PROVE  LlmInv'
<1>1. PICK c \in Calls : /\ call' = [call EXCEPT ![t] = c]
                         /\ Rounds(c) /\ Spends(t, c)
                         /\ local' \in Nat /\ hitches' \in Nat
  BY DEF Turn
<1>2. LlmTypeOK'
  <2>1. call' \in [Caller -> Calls]
    BY <1>1 DEF LlmInv, LlmTypeOK
  <2>2. ledger' \in Nat /\ paid' \in Int /\ slips' \in Nat /\ dropped' \in Nat
    BY <1>1 DEF LlmInv, LlmTypeOK, Spends, Asks
  <2>3. QED  BY <1>1, <2>1, <2>2 DEF LlmTypeOK
<1>3. RoundsCounted'
  <2>1. \A u \in Caller : call'[u] = IF u = t THEN c ELSE call[u]
    BY <1>1 DEF LlmInv, LlmTypeOK
  <2>2. QED  BY <1>1, <2>1 DEF LlmInv, RoundsCounted, Rounds
<1>4. BooksKept' /\ OvershootForeseen'
  BY <1>1, <1>2, SpendsWithin DEF LlmInv
<1>5. QED  BY <1>2, <1>3, <1>4 DEF LlmInv

LEMMA CallsTurn ==
    ASSUME LlmAssumption, LlmInv, NEW t \in Caller,
           \/ ReviewDiff(t) \/ SummarizePr(t) \/ DescribePr(t) \/ GenerateTests(t)
           \/ SequenceDiagram(t) \/ AskAboutPr(t) \/ ChangelogPr(t) \/ JudgeFindings(t)
           \/ RunPreMergeChecks(t) \/ CallStep(t)
    PROVE  Turn(t)
<1> USE DEF LlmInv
<1>1. CASE ReviewDiff(t)
  BY <1>1, BeginTurns DEF ReviewDiff
<1>2. CASE JudgeFindings(t)
  BY <1>2, BeginTurns DEF JudgeFindings
<1>3. CASE \/ SummarizePr(t) \/ DescribePr(t) \/ GenerateTests(t)
           \/ SequenceDiagram(t) \/ AskAboutPr(t) \/ ChangelogPr(t)
  BY <1>3, BeginTurns
     DEF SummarizePr, DescribePr, GenerateTests, SequenceDiagram, AskAboutPr, ChangelogPr
<1>4. CASE RunPreMergeChecks(t) \/ PremergeCheck(t) \/ ChecksDone(t)
  BY <1>4, ChecksTurn
<1>5. CASE AssertWithinBudget(t)
  BY <1>5, BudgetTurns
<1>6. CASE AssertEndpointSafe(t)
  BY <1>6, EndpointTurns
<1>7. CASE Request(t)
  BY <1>7, RequestTurns
<1>8. CASE Answered(t) \/ Failed(t) \/ CallsTools(t)
  BY <1>8, AnswersTurn
<1>9. CASE ToolsAnswer(t)
  BY <1>9, ToolsTurn
<1>10. CASE TimedOut(t)
  BY <1>10, TimedOutTurns
<1>11. QED  BY <1>1, <1>2, <1>3, <1>4, <1>5, <1>6, <1>7, <1>8, <1>9, <1>10 DEF CallStep

\* Where no call is under way nothing is to be sent and nothing to be entered.
LEMMA AllIdle ==
    ASSUME NEW f, f = [t \in Caller |-> Idle]
    PROVE  /\ f \in [Caller -> Calls] /\ \A t \in Caller : Rounds(f[t])
           /\ {t \in Caller : f[t].pc = "asked"} = {}
           /\ \A n \in Level : {t \in Caller : MayStillSend(f[t]) >= n} = {}
           /\ Cardinality({}) = 0
<1>1. \A t \in Caller : f[t] = Idle
  OBVIOUS
<1>2. f \in [Caller -> Calls]
  BY IdleIsCall
<1>3. {t \in Caller : f[t].pc = "asked"} = {}
  BY <1>1 DEF Idle
<1>4. QED  BY <1>1, <1>2, <1>3, IdleIsCall, FS_EmptySet DEF Level

LEMMA ExpireKeeps ==
    ASSUME LlmAssumption, LlmInv, Expire \/ Switch \/ UNCHANGED llmVars
    PROVE  LlmInv'
<1>1. /\ UNCHANGED <<call, local, slips, dropped>> /\ hitches' \in Nat
      /\ \/ UNCHANGED <<ledger, paid>>
         \/ ledger > 0 /\ ledger' = ledger - 1 /\ paid' = paid - 1
  BY DEF Expire, Switch, Hitch, llmVars, LlmInv, LlmTypeOK
<1>2. LlmTypeOK' /\ RoundsCounted'
  <2>1. LlmTypeOK'
    BY <1>1 DEF LlmInv, LlmTypeOK
  <2>2. RoundsCounted'
    BY <1>1 DEF LlmInv, RoundsCounted, Rounds
  <2>3. QED  BY <2>1, <2>2
<1>3. Outstanding' = Outstanding /\ Unbooked' = Unbooked
  BY <1>1 DEF Outstanding, Sending, Unbooked
<1>4. Outstanding \in Nat /\ Cardinality(Unbooked) \in Nat /\ Cardinality(Caller) \in Nat
  BY SentAndOwed DEF LlmInv
<1>5. BooksKept' /\ OvershootForeseen'
  BY <1>1, <1>3, <1>4, LlmAssumption DEF LlmInv, LlmTypeOK, BooksKept, OvershootForeseen
<1>6. QED  BY <1>2, <1>5 DEF LlmInv

LEMMA RestartKeeps ==
    ASSUME LlmAssumption, LlmInv, Restart
    PROVE  LlmInv'
<1> DEFINE owed == Cardinality(Unbooked)
<1>1. /\ call' = [t \in Caller |-> Idle] /\ local' = 0 /\ UNCHANGED <<ledger, paid, slips>>
      /\ dropped' = dropped + owed /\ hitches' \in Nat
  BY DEF Restart, Hitch, Unbooked, LlmInv, LlmTypeOK
<1>2. /\ call' \in [Caller -> Calls] /\ RoundsCounted'
      /\ Cardinality(Unbooked') = 0 /\ Outstanding' = 0
  <2>1. /\ call' \in [Caller -> Calls] /\ \A t \in Caller : Rounds(call'[t])
        /\ {t \in Caller : call'[t].pc = "asked"} = {}
        /\ \A n \in Level : {t \in Caller : MayStillSend(call'[t]) >= n} = {}
        /\ Cardinality({}) = 0
    BY <1>1, AllIdle
  <2>2. RoundsCounted' /\ Cardinality(Unbooked') = 0
    BY <2>1 DEF RoundsCounted, Rounds, Unbooked
  <2>3. Outstanding' = 0
    BY <2>1 DEF Outstanding, Sending, Level
  <2>4. QED  BY <2>1, <2>2, <2>3
<1>3. Outstanding \in Nat /\ owed \in Nat /\ Cardinality(Caller) \in Nat
  BY SentAndOwed DEF LlmInv
<1>4. LlmTypeOK'
  BY <1>1, <1>2, <1>3 DEF LlmInv, LlmTypeOK
<1>5. BooksKept' /\ OvershootForeseen'
  BY <1>1, <1>2, <1>3, LlmAssumption DEF LlmInv, LlmTypeOK, BooksKept, OvershootForeseen
<1>6. QED  BY <1>2, <1>4, <1>5 DEF LlmInv

LEMMA LlmInvariant == LlmSpec => []LlmInv
<1>1. LlmInit => LlmInv
  <2> SUFFICES ASSUME LlmInit PROVE LlmInv
    OBVIOUS
  <2>1. /\ call \in [Caller -> Calls] /\ RoundsCounted
        /\ Cardinality(Unbooked) = 0 /\ Outstanding = 0
    <3>1. /\ call \in [Caller -> Calls] /\ \A t \in Caller : Rounds(call[t])
          /\ {t \in Caller : call[t].pc = "asked"} = {}
          /\ \A n \in Level : {t \in Caller : MayStillSend(call[t]) >= n} = {}
          /\ Cardinality({}) = 0
      BY AllIdle DEF LlmInit
    <3>2. RoundsCounted /\ Cardinality(Unbooked) = 0
      BY <3>1 DEF RoundsCounted, Unbooked
    <3>3. \A n \in Level : Cardinality(Sending(n)) = 0
      BY <3>1 DEF Sending
    <3>4. Outstanding = 0
      BY <3>3 DEF Outstanding, Level
    <3>5. QED  BY <3>1, <3>2, <3>4
  <2>2. Cardinality(Caller) \in Nat
    BY LlmAssumption, FS_CardinalityType
  <2>3. LlmTypeOK
    BY <2>1, LlmAssumption DEF LlmInit, LlmTypeOK
  <2>4. BooksKept /\ OvershootForeseen
    BY <2>1, <2>2, LlmAssumption DEF LlmInit, BooksKept, OvershootForeseen
  <2>5. QED  BY <2>1, <2>3, <2>4 DEF LlmInv
<1>2. LlmInv /\ [LlmNext]_llmVars => LlmInv'
  <2> SUFFICES ASSUME LlmInv, [LlmNext]_llmVars PROVE LlmInv'
    OBVIOUS
  <2>1. CASE Expire \/ Switch \/ UNCHANGED llmVars
    BY <2>1, LlmAssumption, ExpireKeeps
  <2>2. CASE Restart
    BY <2>2, LlmAssumption, RestartKeeps
  <2>3. ASSUME NEW t \in Caller,
               \/ ReviewDiff(t) \/ SummarizePr(t) \/ DescribePr(t) \/ GenerateTests(t)
               \/ SequenceDiagram(t) \/ AskAboutPr(t) \/ ChangelogPr(t) \/ JudgeFindings(t)
               \/ RunPreMergeChecks(t) \/ CallStep(t)
        PROVE  LlmInv'
    BY <2>3, LlmAssumption, CallsTurn, TurnKeeps
  <2>4. QED  BY <2>1, <2>2, <2>3 DEF LlmNext
<1>3. QED  BY <1>1, <1>2, PTL DEF LlmSpec

\* What the tasks spend past the budget is bounded by what each may be in the middle of, four
\* requests, and by the requests dropped under way, and a call's loop of tools by its messages
\* (llm/mod.rs, llm/budget.rs).
THEOREM SpendIsBounded == LlmSpec => []SpendBounded
<1>1. LlmInv => SpendBounded
  <2> SUFFICES ASSUME LlmInv PROVE SpendBounded
    OBVIOUS
  <2>1. Outstanding \in Nat
    BY LlmAssumption, SentAndOwed DEF LlmInv
  <2>2. OvershootBounded
    <3>1. /\ DailyBudget \in Nat /\ paid \in Int /\ slips \in Nat /\ dropped \in Nat
          /\ Cardinality(Caller) \in Nat
      BY LlmAssumption, FS_CardinalityType DEF LlmInv, LlmTypeOK
    <3>2. QED  BY <2>1, <3>1 DEF LlmInv, OvershootForeseen, OvershootBounded
  <2>3. LoopBounded
    <3> SUFFICES ASSUME NEW t \in Caller PROVE call[t].sent <= MaxToolIterations + 1
      BY DEF LoopBounded
    <3>1. call[t] \in Calls /\ Rounds(call[t]) /\ MaxToolIterations \in Nat
      BY LlmAssumption DEF LlmInv, LlmTypeOK, RoundsCounted
    <3>2. QED  BY <3>1 DEF Calls, Rounds
  <2>4. QED  BY <2>2, <2>3 DEF SpendBounded
<1>2. QED  BY <1>1, LlmInvariant, PTL
=============================================================================
