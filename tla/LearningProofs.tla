--------------------------- MODULE LearningProofs ---------------------------
(***************************************************************************)
(* Proofs about Learning: the bot's ignore rules are earned, and what a    *)
(* review does to a finding has its causes, for any number of tasks,       *)
(* reviews, repositories, detectors and pull requests, with any chains of  *)
(* scopes and any comments.                                                *)
(*                                                                         *)
(* A rule is inserted by counts that are two statements old, of rows that  *)
(* may be gone; so the argument is about dismissals that were ever made,   *)
(* which only grow.  IInv says of every row which of them it rests on, and *)
(* of every task what its counts show of them.                             *)
(***************************************************************************)
EXTENDS Learning, FiniteSetTheorems, TLAPS

USE Assumptions DEF LearningAssumption

-----------------------------------------------------------------------------
\* What a dismissal is.

\* A dismissal that no maintainer made names no detector, or one that guards no security
\* and a pull request.
Sound(d) ==
    /\ d \in Saids
    /\ \/ d.maintainer \/ d.detector \in Unpromoted
       \/ d.detector \notin Security /\ d.pr # None

LEMMA FindingType ==
    ASSUME NEW f \in Findings
    PROVE  /\ f.fp \in Fp /\ f.detector \in Detector /\ f.file \in File
           /\ f.message \in Message /\ f.severity \in {"blocking", "warning", "info"}
<1>1. QED  OBVIOUS

LEMMA SoundDismissals ==
    ASSUME NEW s \in Scope, NEW on \in Scope
    PROVE  /\ \A f \in Findings, pr \in Pr \cup {None} :
                 /\ Sound([Dismissal(f.fp, f.detector, f.file, f.message, s, pr, TRUE)
                             EXCEPT !.on = on])
                 /\ Sound([Dismissal(f.fp, "manual", None, "dashboard", s, pr, TRUE)
                             EXCEPT !.on = on])
           /\ \A fp \in Fp, p \in Pr :
                 Sound(Dismissal(fp, "manual", "repo", "command", s, p, FALSE))
           /\ \A fp \in Fp :
                 /\ Sound(Dismissal(fp, "reaction", "repo", "reaction", s, None, TRUE))
                 /\ Sound(Dismissal(fp, "resolve", "repo", "resolve", s, None, TRUE))
           /\ \A p \in Pr : \A c \in Comments[p] :
                 c.kind = "wrong" /\ c.detector \notin Security =>
                    Sound(Dismissal(Mined[p][c.detector], c.detector, None, "mined",
                                    s, p, FALSE))
<1>1. ASSUME NEW f \in Findings, NEW pr \in Pr \cup {None}
      PROVE  /\ Sound([Dismissal(f.fp, f.detector, f.file, f.message, s, pr, TRUE)
                         EXCEPT !.on = on])
             /\ Sound([Dismissal(f.fp, "manual", None, "dashboard", s, pr, TRUE)
                         EXCEPT !.on = on])
  BY <1>1, FindingType DEF Sound, Dismissal, Saids, Word, Place, Saying
<1>2. ASSUME NEW fp \in Fp, NEW p \in Pr
      PROVE  Sound(Dismissal(fp, "manual", "repo", "command", s, p, FALSE))
  BY <1>2 DEF Sound, Dismissal, Saids, Word, Place, Saying, Unpromoted
<1>3. ASSUME NEW fp \in Fp
      PROVE  /\ Sound(Dismissal(fp, "reaction", "repo", "reaction", s, None, TRUE))
             /\ Sound(Dismissal(fp, "resolve", "repo", "resolve", s, None, TRUE))
  BY <1>3 DEF Sound, Dismissal, Saids, Word, Place, Saying
<1>4. ASSUME NEW p \in Pr, NEW c \in Comments[p],
             c.kind = "wrong", c.detector \notin Security
      PROVE  Sound(Dismissal(Mined[p][c.detector], c.detector, None, "mined",
                             s, p, FALSE))
  <2>1. Mined[p][c.detector] \in Fp
    BY <1>4
  <2>2. c.detector \in Detector /\ p # None
    BY NoneIsNone
  <2>3. QED  BY <1>4, <2>1, <2>2 DEF Sound, Dismissal, Saids, Word, Place, Saying
<1>5. QED  BY <1>1, <1>2, <1>3, <1>4

-----------------------------------------------------------------------------
\* The steps.

\* A task that touches nothing but its own variables.
TaskMoves(t) == UNCHANGED <<tables, reviewVars, history>>

\* A task adds a rule : of its job, once that is promoted, or of a comment it mines.
Made(t, r) ==
    /\ r \in RuleRow /\ r.id = minted + 1
    /\ \/ r.action = "always_warn"
       \/ /\ pc[t] = "add" /\ r.action = "ignore"
          /\ r.detector = job[t].detector /\ r.scope = job[t].scope

Mints(t) ==
    /\ \E r : Made(t, r) /\ Insert(r)
    /\ UNCHANGED <<rows, reviewVars, said, standing, seen>>

\* What may happen to the tables and to what was said.
LEMMA Effects ==
    ASSUME TypeOK, CountsBacked, Next
    PROVE  \/ \E t \in Task : \E d : Sound(d) /\ Dismiss(t, d)
           \/ \E t \in Task : TaskMoves(t)
           \/ \E t \in Task : Archive(t)
           \/ \E t \in Task : Mints(t)
           \/ \E v \in Review : ReviewStep(v)
           \/ Maintainer
<1>1. ASSUME NEW t \in Task, TaskStep(t)
      PROVE  \/ \E d : Sound(d) /\ Dismiss(t, d)
             \/ TaskMoves(t) \/ Archive(t) \/ Mints(t)
  <2>1. CASE DismissOnDashboard(t)
    <3>1. PICK f \in Findings, page \in Pages :
             \/ Dismiss(t, [Dismissal(f.fp, f.detector, f.file, f.message,
                                     page.scope, page.pr, TRUE) EXCEPT !.on = page.on])
             \/ Dismiss(t, [Dismissal(f.fp, "manual", None, "dashboard",
                                     page.scope, page.pr, TRUE) EXCEPT !.on = page.on])
      BY <2>1 DEF DismissOnDashboard
    <3>2. page.scope \in Scope /\ page.on \in Scope /\ page.pr \in Pr \cup {None}
      OBVIOUS
    <3>3. QED  BY <3>1, <3>2, SoundDismissals
  <2>2. CASE IgnoreCommand(t)
    BY <2>2, SoundDismissals DEF IgnoreCommand
  <2>3. CASE React(t)
    BY <2>3, SoundDismissals DEF React
  <2>4. CASE Resolve(t)
    BY <2>4, SoundDismissals DEF Resolve
  <2>5. CASE Mine(t)
    <3>1. PICK m \in todo[t] :
             LET p == m[1]
                 c == m[2]
                 d == Dismissal(Mined[p][c.detector], c.detector, None, "mined",
                                PrRepo[p], p, FALSE)
             IN  \/ UNCHANGED <<tables, reviewVars, history>>
                 \/ c.kind = "wrong" /\ c.detector \notin Security /\ Dismiss(t, d)
                 \/ /\ Insert(Rule(d, "always_warn", None, None, "approved", 1))
                    /\ UNCHANGED <<rows, reviewVars, said, standing, seen>>
      BY <2>5 DEF Mine, history, tables
    <3>2. PICK p \in Pr : \E c \in Comments[p] : m = <<p, c>>
      BY DEF TypeOK
    <3>3. PICK c \in Comments[p] : m = <<p, c>>
      BY <3>2
    <3>4. PrRepo[p] \in Scope /\ c.detector \in Detector
      OBVIOUS
    <3>5. CASE c.kind = "wrong" /\ c.detector \notin Security /\
               Dismiss(t, Dismissal(Mined[p][c.detector], c.detector, None, "mined",
                                    PrRepo[p], p, FALSE))
      BY <3>4, <3>5, SoundDismissals
    <3>6. CASE /\ Insert(Rule(Dismissal(Mined[p][c.detector], c.detector, None, "mined",
                                        PrRepo[p], p, FALSE),
                              "always_warn", None, None, "approved", 1))
               /\ UNCHANGED <<rows, reviewVars, said, standing, seen>>
      <4> DEFINE d == Dismissal(Mined[p][c.detector], c.detector, None, "mined",
                                PrRepo[p], p, FALSE)
                 r == Rule(d, "always_warn", None, None, "approved", 1)
      <4>1. Made(t, r)
        BY <3>4 DEF Made, Rule, RuleRow, Dismissal, Word, TypeOK
      <4>2. QED  BY <4>1, <3>6 DEF Mints
    <3>7. QED  BY <3>1, <3>3, <3>5, <3>6 DEF TaskMoves
  <2>6. CASE AddRule(t)
    <3> DEFINE d == job[t]
    <3>1. PICK auto \in AutoApprove :
             Insert(Rule(d, "ignore", IF d.file = None THEN None ELSE PatternOf[d.file],
                         PhraseOf[d.message], IF auto THEN "approved" ELSE "suggested",
                         Evidence(maint[t], prs[t])))
      BY <2>6 DEF AddRule
    <3>2. d \in Saids /\ pc[t] = "add"
      BY <2>6 DEF AddRule, CountsBacked, Promoting, TypeOK
    <3>3. (IF d.file = None THEN None ELSE PatternOf[d.file]) \in Pattern \cup {None}
      BY <3>2 DEF Saids
    <3>4. PhraseOf[d.message] \in {PhraseOf[m] : m \in Saying}
      BY <3>2 DEF Saids
    <3>5. Evidence(maint[t], prs[t]) \in Nat
      BY DEF Evidence, TypeOK
    <3>6. d.detector \in Word /\ d.scope \in Scope
      BY <3>2 DEF Saids
    <3>7. minted + 1 \in Int
      BY DEF TypeOK
    <3>8. Made(t, Rule(d, "ignore", IF d.file = None THEN None ELSE PatternOf[d.file],
                       PhraseOf[d.message], IF auto THEN "approved" ELSE "suggested",
                       Evidence(maint[t], prs[t])))
      BY <3>2, <3>3, <3>4, <3>5, <3>6, <3>7 DEF Made, Rule, RuleRow
    <3>9. UNCHANGED <<rows, reviewVars, said, standing, seen>>
      BY <2>6 DEF AddRule
    <3>10. QED  BY <3>1, <3>8, <3>9 DEF Mints
  <2>7. CASE \/ StartMining(t) \/ MiningFails(t) \/ CountMaintainers(t) \/ CountPrs(t)
             \/ Decay(t) \/ GiveUp(t)
    BY <2>7 DEF StartMining, MiningFails, CountMaintainers, CountPrs, Decay, GiveUp,
                TaskMoves, tables, history, reviewVars
  <2>8. QED  BY <1>1, <2>1, <2>2, <2>3, <2>4, <2>5, <2>6, <2>7 DEF TaskStep
<1>2. QED  BY <1>1 DEF Next

-----------------------------------------------------------------------------
\* Counting.

MaintainerRows(d, s) ==
    {q \in Chain[s] \X Fp :
        LET row == rows[q[1]][q[2]]
        IN  row # None /\ row.detector = d /\ row.maintainer}

CountedPrs(d, s) == {row.pr : row \in {w \in RowsOf(s) : w.detector = d /\ w.pr # None}}

LEMMA FiniteImage ==
    ASSUME NEW S, IsFiniteSet(S), NEW f, f = [x \in S |-> f[x]]
    PROVE  IsFiniteSet({f[x] : x \in S})
<1> DEFINE T == {f[x] : x \in S}
<1>1. f \in [S -> T]
  <2>1. \A x \in S : f[x] \in T
    OBVIOUS
  <2>2. [x \in S |-> f[x]] \in [S -> T]
    BY <2>1
  <2>3. QED  BY <2>2
<1>2. f \in Surjection(S, T)
  BY <1>1 DEF Surjection
<1>3. QED  BY <1>2, FS_Surjection

LEMMA CountsAreFinite ==
    ASSUME NEW d, NEW s \in Scope
    PROVE  /\ IsFiniteSet(MaintainerRows(d, s))
           /\ CountMaintainerRows(d, s) = Cardinality(MaintainerRows(d, s))
           /\ IsFiniteSet(CountedPrs(d, s))
           /\ CountDistinctPrs(d, s) = Cardinality(CountedPrs(d, s))
           /\ CountMaintainerRows(d, s) \in Nat /\ CountDistinctPrs(d, s) \in Nat
<1>1. IsFiniteSet(MaintainerRows(d, s))
  <2>1. IsFiniteSet(Chain[s] \X Fp)
    BY FS_Product
  <2>2. MaintainerRows(d, s) \subseteq Chain[s] \X Fp
    BY DEF MaintainerRows
  <2>3. QED  BY <2>1, <2>2, FS_Subset
<1>2. IsFiniteSet(CountedPrs(d, s))
  <2> DEFINE Counted == {g \in Fp : rows[s][g] # None /\ rows[s][g].detector = d
                                                     /\ rows[s][g].pr # None}
  <2>1. IsFiniteSet(Counted)
    BY FS_Subset
  <2> DEFINE f == [g \in Counted |-> rows[s][g].pr]
  <2>2. CountedPrs(d, s) = {f[g] : g \in Counted}
    BY DEF CountedPrs, RowsOf
  <2>3. f = [g \in Counted |-> f[g]]
    OBVIOUS
  <2>4. IsFiniteSet({f[g] : g \in Counted})
    <3> HIDE DEF f, Counted
    <3>1. QED  BY <2>1, <2>3, FiniteImage
  <2>5. QED  BY <2>2, <2>4
<1>3. /\ CountMaintainerRows(d, s) = Cardinality(MaintainerRows(d, s))
      /\ CountDistinctPrs(d, s) = Cardinality(CountedPrs(d, s))
  BY DEF CountMaintainerRows, MaintainerRows, CountDistinctPrs, CountedPrs
<1>4. QED  BY <1>1, <1>2, <1>3, FS_CardinalityType

-----------------------------------------------------------------------------
\* Types, and what only grows.

LEMMA UpsertedRow ==
    ASSUME NEW row \in Row \cup {None}, NEW d \in Saids
    PROVE  Upserted(row, d) \in Row
<1>1. row # None => row.pr \in Pr \cup {None} /\ row.maintainer \in BOOLEAN
  BY DEF Row
<1>2. d.detector \in Word /\ d.pr \in Pr \cup {None} /\ d.maintainer \in BOOLEAN
  BY DEF Saids
<1>3. QED  BY <1>1, <1>2 DEF Upserted, Row

LEMMA Restated ==
    ASSUME NEW id, NEW from, NEW to \in {"suggested", "approved", "archived"},
           rules \subseteq RuleRow
    PROVE  /\ WithStatus(id, from, to) \subseteq RuleRow
           /\ \A r \in WithStatus(id, from, to) : \E q \in rules :
                 /\ r = IF q.id = id /\ q.status \in from
                        THEN [q EXCEPT !.status = to] ELSE q
                 /\ r.id = q.id /\ r.detector = q.detector /\ r.action = q.action
                 /\ r.scope = q.scope
                 /\ r = q \/ (r.id = id /\ r.status = to /\ q.status \in from)
<1>1. ASSUME NEW r \in WithStatus(id, from, to)
      PROVE  /\ r \in RuleRow
             /\ \E q \in rules :
                 /\ r = IF q.id = id /\ q.status \in from
                        THEN [q EXCEPT !.status = to] ELSE q
                 /\ r.id = q.id /\ r.detector = q.detector /\ r.action = q.action
                 /\ r.scope = q.scope
                 /\ r = q \/ (r.id = id /\ r.status = to /\ q.status \in from)
  <2>1. PICK q \in rules : r = IF q.id = id /\ q.status \in from
                              THEN [q EXCEPT !.status = to] ELSE q
    BY DEF WithStatus
  <2>2. q \in RuleRow
    OBVIOUS
  <2>3. QED  BY <2>1, <2>2 DEF RuleRow
<1>2. QED  BY <1>1

LEMMA TablesType ==
    ASSUME TypeOK, CountsBacked, Next
    PROVE  rows' \in [Scope -> [Fp -> Row \cup {None}]] /\ rules' \subseteq RuleRow
<1>0. ASSUME NEW id, NEW from, NEW to \in {"suggested", "approved", "archived"}
      PROVE  WithStatus(id, from, to) \subseteq RuleRow
  BY Restated DEF TypeOK
<1>1. CASE \E t \in Task : \E d : Sound(d) /\ Dismiss(t, d)
  <2>0. PICK t \in Task : \E d : Sound(d) /\ Dismiss(t, d)
    BY <1>1
  <2>1. PICK d : Sound(d) /\ Dismiss(t, d)
    BY <2>0
  <2>2. d \in Saids /\ d.scope \in Scope /\ d.fp \in Fp
    BY <2>1 DEF Sound, Saids
  <2>3. Upserted(rows[d.scope][d.fp], d) \in Row
    <3>1. rows[d.scope][d.fp] \in Row \cup {None}
      BY <2>2 DEF TypeOK
    <3>2. QED  BY <2>2, <3>1, UpsertedRow
  <2>4. rules' = rules /\ rows' = [rows EXCEPT ![d.scope][d.fp] =
                                      Upserted(rows[d.scope][d.fp], d)]
    BY <2>1 DEF Dismiss
  <2>5. QED  BY <2>2, <2>3, <2>4 DEF TypeOK
<1>2. CASE \E t \in Task : TaskMoves(t)
  BY <1>2 DEF TaskMoves, tables, TypeOK
<1>3. CASE \E t \in Task : Archive(t)
  BY <1>3, <1>0 DEF Archive, TypeOK
<1>4. CASE \E t \in Task : Mints(t)
  BY <1>4 DEF Mints, Made, Insert, TypeOK
<1>5. CASE \E v \in Review : ReviewStep(v)
  BY <1>5 DEF ReviewStep, ReadExact, ReadRules, ReadPrefixes, FilterFails, tables, TypeOK
<1>6. CASE Maintainer
  <2>1. CASE Unresolve
    BY <2>1 DEF Unresolve, TypeOK
  <2>2. CASE ApproveRule
    BY <2>2, <1>0 DEF ApproveRule, TypeOK
  <2>3. CASE ArchiveRule
    BY <2>3, <1>0 DEF ArchiveRule, TypeOK
  <2>4. CASE DeleteRule
    BY <2>4 DEF DeleteRule, TypeOK
  <2>5. CASE DeleteRepo
    BY <2>5 DEF DeleteRepo, TypeOK
  <2>6. QED  BY <1>6, <2>1, <2>2, <2>3, <2>4, <2>5 DEF Maintainer
<1>7. QED  BY <1>1, <1>2, <1>3, <1>4, <1>5, <1>6, Effects

\* What was said, minted and approved only grows; a review under way sees all that stands.
LEMMA HistoryStep ==
    ASSUME TypeOK, CountsBacked, Next
    PROVE  /\ said \subseteq said' /\ said' \subseteq Saids /\ IsFiniteSet(said')
           /\ approved \subseteq approved'
           /\ minted' \in Nat /\ minted <= minted'
           /\ standing' \subseteq said'
           /\ seen' \in [Review -> SUBSET said']
<1> USE DEF TypeOK
<1>1. CASE \E t \in Task : \E d : Sound(d) /\ Dismiss(t, d)
  <2>0. PICK t \in Task : \E d : Sound(d) /\ Dismiss(t, d)
    BY <1>1
  <2>1. PICK d : Sound(d) /\ Dismiss(t, d)
    BY <2>0
  <2>2. said' = said \cup {d} /\ d \in Saids
    BY <2>1 DEF Dismiss, Sound
  <2>3. IsFiniteSet(said')
    BY <2>2, FS_AddElement
  <2>4. approved' = approved /\ minted' = minted /\ standing' = standing \cup {d}
    BY <2>1 DEF Dismiss
  <2>5. seen' = [v \in Review |-> IF rpc[v] = "idle" THEN seen[v] ELSE seen[v] \cup {d}]
    BY <2>1 DEF Dismiss
  <2>6. QED  BY <2>2, <2>3, <2>4, <2>5
<1>2. CASE \E t \in Task : TaskMoves(t)
  BY <1>2 DEF TaskMoves, tables, history
<1>3. CASE \E t \in Task : Archive(t)
  BY <1>3 DEF Archive, history
<1>4. CASE \E t \in Task : Mints(t)
  BY <1>4 DEF Mints, Insert
<1>5. CASE \E v \in Review : ReviewStep(v)
  BY <1>5 DEF ReviewStep, ReadExact, ReadRules, ReadPrefixes, FilterFails, tables, history
<1>6. CASE Maintainer
  BY <1>6 DEF Maintainer, Unresolve, ApproveRule, ArchiveRule, DeleteRule, DeleteRepo,
              history
<1>7. QED  BY <1>1, <1>2, <1>3, <1>4, <1>5, <1>6, Effects

LEMMA DoneType ==
    ASSUME TypeOK, NEW t \in Task, Done(t)
    PROVE  /\ pc' \in [Task -> Labels] /\ pc'[t] \in {"idle", "mine"}
           /\ job' \in [Task -> said \cup {None}]
           /\ maint' \in [Task -> Nat] /\ prs' \in [Task -> Nat]
           /\ doomed' \in [Task -> Int \cup {None}]
           /\ UNCHANGED todo
<1>1. QED  BY DEF Done, Goto, TypeOK, Labels

LEMMA TasksType ==
    ASSUME TypeOK, CountsBacked, Next
    PROVE  /\ pc' \in [Task -> Labels]
           /\ job' \in [Task -> said' \cup {None}]
           /\ maint' \in [Task -> Nat] /\ prs' \in [Task -> Nat]
           /\ doomed' \in [Task -> Int \cup {None}]
           /\ todo' \in [Task -> SUBSET UNION {{<<p, c>> : c \in Comments[p]} : p \in Pr}]
<1> USE DEF TypeOK, Labels
<1> DEFINE All == UNION {{<<p, c>> : c \in Comments[p]} : p \in Pr}
           Jobs == job' \in [Task -> said' \cup {None}]
<1>0. said \subseteq said'
  BY HistoryStep
<1>1. ASSUME NEW t \in Task, TaskStep(t)
      PROVE  /\ pc' \in [Task -> Labels] /\ Jobs
             /\ maint' \in [Task -> Nat] /\ prs' \in [Task -> Nat]
             /\ doomed' \in [Task -> Int \cup {None}]
             /\ todo' \in [Task -> SUBSET All]
  <2>1. ASSUME NEW d, Dismiss(t, d)
        PROVE  /\ pc' \in [Task -> Labels] /\ Jobs
               /\ UNCHANGED <<maint, prs, doomed>>
    BY <2>1 DEF Dismiss, Goto
  <2>2. CASE \/ DismissOnDashboard(t) \/ IgnoreCommand(t) \/ React(t) \/ Resolve(t)
    <3>1. UNCHANGED todo /\ \E d : Dismiss(t, d)
      BY <2>2 DEF DismissOnDashboard, IgnoreCommand, React, Resolve
    <3>2. QED  BY <2>1, <3>1
  <2>3. CASE StartMining(t)
    <3>1. PICK p \in Pr : todo' = [todo EXCEPT ![t] = {<<p, c>> : c \in Comments[p]}]
      BY <2>3 DEF StartMining
    <3>2. {<<p, c>> : c \in Comments[p]} \in SUBSET All
      OBVIOUS
    <3>3. todo' \in [Task -> SUBSET All]
      BY <3>1, <3>2
    <3>4. UNCHANGED <<job, maint, prs, doomed>> /\ Goto(t, "mine")
      BY <2>3 DEF StartMining
    <3>5. QED  BY <1>0, <3>3, <3>4 DEF Goto
  <2>4. CASE Mine(t)
    <3>1. PICK m \in todo[t] : todo' = [todo EXCEPT ![t] = todo[t] \ {m}]
      BY <2>4 DEF Mine
    <3>2. todo' \in [Task -> SUBSET All]
      BY <3>1
    <3>3. \/ \E d : Dismiss(t, d)
          \/ /\ UNCHANGED <<job, maint, prs, doomed>>
             /\ \E label \in {"idle", "mine"} : Goto(t, label)
      BY <2>4 DEF Mine
    <3>4. QED  BY <1>0, <2>1, <3>2, <3>3 DEF Goto
  <2>5. CASE MiningFails(t)
    BY <1>0, <2>5 DEF MiningFails, Goto
  <2>6. CASE CountMaintainers(t) \/ CountPrs(t)
    <3>1. job[t] \in said /\ job[t].scope \in Scope
      BY <2>6 DEF CountMaintainers, CountPrs, CountsBacked, Promoting, Saids
    <3>2. /\ CountMaintainerRows(job[t].detector, job[t].scope) \in Nat
          /\ CountDistinctPrs(job[t].detector, job[t].scope) \in Nat
      BY <3>1, CountsAreFinite
    <3>3. CASE CountMaintainers(t)
      BY <1>0, <3>2, <3>3 DEF CountMaintainers, Goto
    <3>4. CASE CountPrs(t)
      BY <1>0, <3>2, <3>4 DEF CountPrs, Goto
    <3>5. QED  BY <2>6, <3>3, <3>4
  <2>8. CASE Decay(t)
    <3>1. \A r \in Decaying(job[t].detector, job[t].file, job[t].scope) : r.id \in Int
      BY DEF Decaying, First, InForce, RuleRow
    <3>2. \/ UNCHANGED doomed
          \/ \E i \in Int : doomed' = [doomed EXCEPT ![t] = i]
      BY <2>8, <3>1 DEF Decay
    <3>3. \E label \in {"archive", "add", "end"} : Goto(t, label)
      BY <2>8 DEF Decay
    <3>4. UNCHANGED <<job, maint, prs, todo>>
      BY <2>8 DEF Decay
    <3>5. QED  BY <1>0, <3>2, <3>3, <3>4 DEF Goto
  <2>7. CASE Archive(t) \/ AddRule(t) \/ GiveUp(t)
    BY <1>0, <2>7, DoneType DEF Archive, AddRule, GiveUp
  <2>9. QED  BY <1>1, <2>2, <2>3, <2>4, <2>5, <2>6, <2>7, <2>8 DEF TaskStep
<1>2. CASE (\E v \in Review : ReviewStep(v)) \/ Maintainer
  <2>1. UNCHANGED taskVars
    BY <1>2 DEF ReviewStep, ReadExact, ReadRules, ReadPrefixes, FilterFails,
                Maintainer, Unresolve, ApproveRule, ArchiveRule, DeleteRule, DeleteRepo
  <2>2. QED  BY <1>0, <2>1 DEF taskVars
<1>3. QED  BY <1>1, <1>2 DEF Next

LEMMA ReviewsType ==
    ASSUME TypeOK, CountsBacked, Next
    PROVE  /\ rpc' \in [Review -> {"idle", "rules", "prefixes"}]
           /\ exact' \in [Review -> SUBSET Findings]
           /\ active' \in [Review -> SUBSET RuleRow]
           /\ fate' \in [Review ->
                   [Findings -> {"blocking", "warning", "info", "dropped"}] \cup {None}]
           /\ left' \in Nat
<1> USE DEF TypeOK
<1>1. ASSUME NEW v \in Review, ReviewStep(v)
      PROVE  /\ rpc' \in [Review -> {"idle", "rules", "prefixes"}]
             /\ exact' \in [Review -> SUBSET Findings]
             /\ active' \in [Review -> SUBSET RuleRow]
             /\ fate' \in [Review ->
                   [Findings -> {"blocking", "warning", "info", "dropped"}] \cup {None}]
  <2>1. CASE ReadExact(v)
    BY <2>1 DEF ReadExact, RGoto
  <2>2. CASE ReadRules(v)
    <3>1. InForce(RepoOf[v]) \subseteq RuleRow
      BY DEF InForce
    <3>2. QED  BY <2>2, <3>1 DEF ReadRules, RGoto
  <2>3. CASE ReadPrefixes(v)
    <3>1. PICK g \in [Findings -> {"blocking", "warning", "info", "dropped"}] :
             fate' = [fate EXCEPT ![v] = g]
      BY <2>3 DEF ReadPrefixes
    <3>2. QED  BY <2>3, <3>1 DEF ReadPrefixes, RGoto
  <2>4. CASE FilterFails(v)
    BY <2>4 DEF FilterFails, RGoto
  <2>5. QED  BY <1>1, <2>1, <2>2, <2>3, <2>4 DEF ReviewStep
<1>2. (\E v \in Review : ReviewStep(v)) \/ UNCHANGED reviewVars
  BY Effects DEF Dismiss, TaskMoves, Archive, Mints, Maintainer, Unresolve, ApproveRule,
                 ArchiveRule, DeleteRule, DeleteRepo
<1>3. left' = left \/ (left > 0 /\ left' = left - 1)
  BY DEF Next, TaskStep, ReviewStep, Maintainer, DismissOnDashboard, IgnoreCommand, React,
         Resolve, StartMining, Mine, MiningFails, CountMaintainers, CountPrs, Decay,
         Archive, AddRule, GiveUp, ReadExact, ReadRules, ReadPrefixes, FilterFails,
         Unresolve, ApproveRule, ArchiveRule, DeleteRule, DeleteRepo, Spend
<1>4. left' \in Nat
  BY <1>3
<1>5. QED  BY <1>1, <1>2, <1>4 DEF reviewVars

LEMMA TypeStep == ASSUME TypeOK, CountsBacked, Next PROVE TypeOK'
<1>1. QED
  BY TablesType, HistoryStep, TasksType, ReviewsType DEF TypeOK, Labels

LEMMA InitType == Init => TypeOK
<1>1. IsFiniteSet({})
  BY FS_EmptySet
<1>2. QED  BY <1>1 DEF Init, TypeOK, Labels

-----------------------------------------------------------------------------
\* What was earned stays earned.

PrsIn(S, d, s) == {x.pr : x \in {y \in S : y.detector = d /\ y.scope = s /\ y.pr # None}}

LEMMA DismissersFinite ==
    ASSUME NEW S, IsFiniteSet(S), NEW d, NEW s
    PROVE  IsFiniteSet(PrsIn(S, d, s))
<1> DEFINE X == {y \in S : y.detector = d /\ y.scope = s /\ y.pr # None}
           f == [x \in X |-> x.pr]
<1>1. IsFiniteSet(X)
  BY FS_Subset
<1>2. PrsIn(S, d, s) = {f[x] : x \in X}
  BY DEF PrsIn
<1>3. f = [x \in X |-> f[x]]
  OBVIOUS
<1>4. IsFiniteSet({f[x] : x \in X})
  <2> HIDE DEF f, X
  <2>1. QED  BY <1>1, <1>3, FiniteImage
<1>5. QED  BY <1>2, <1>4

EarnedIn(S, d, s) ==
    \/ \E x \in S : x.maintainer /\ x.detector = d /\ x.scope \in Chain[s]
    \/ /\ d \notin Security
       /\ \/ \E x, y \in S : /\ x.detector = d /\ x.scope \in Chain[s]
                             /\ y.maintainer /\ y.scope = x.scope /\ y.fp = x.fp
          \/ Cardinality(PrsIn(S, d, s)) >= MinDismissals

LEMMA EarnedIs == \A d, s : Earned(d, s) <=> EarnedIn(said, d, s)
<1>1. QED  BY DEF Earned, ByMaintainer, Inherited, PrsThatDismissed, EarnedIn, PrsIn

LEMMA EarnedStays ==
    ASSUME TypeOK, CountsBacked, Next, NEW d, NEW s, EarnedIn(said, d, s)
    PROVE  EarnedIn(said', d, s)
<1>1. said \subseteq said' /\ IsFiniteSet(said) /\ IsFiniteSet(said')
  BY HistoryStep DEF TypeOK
<1>2. PrsIn(said, d, s) \subseteq PrsIn(said', d, s)
  BY <1>1 DEF PrsIn
<1>3. IsFiniteSet(PrsIn(said, d, s)) /\ IsFiniteSet(PrsIn(said', d, s))
  BY <1>1, DismissersFinite
<1>4. /\ Cardinality(PrsIn(said, d, s)) \in Nat
      /\ Cardinality(PrsIn(said', d, s)) \in Nat
      /\ Cardinality(PrsIn(said, d, s)) <= Cardinality(PrsIn(said', d, s))
  BY <1>2, <1>3, FS_Subset, FS_CardinalityType
<1>5. Cardinality(PrsIn(said, d, s)) >= MinDismissals =>
         Cardinality(PrsIn(said', d, s)) >= MinDismissals
  BY <1>4
<1>6. QED  BY <1>1, <1>5 DEF EarnedIn

-----------------------------------------------------------------------------
\* Rows rest on dismissals.

\* The row that a dismissal writes rests on it.
LEMMA UpsertedBacked ==
    ASSUME NEW d, Sound(d), Upserted(rows[d.scope][d.fp], d).detector \notin Unpromoted
    PROVE  Backs(d, d.scope, d.fp, Upserted(rows[d.scope][d.fp], d))
<1>1. CASE d.maintainer
  BY <1>1 DEF Upserted, Backs
<1>2. CASE ~d.maintainer
  BY <1>2 DEF Sound, Upserted, Backs
<1>3. QED  BY <1>1, <1>2

\* What becomes of a row: it stays, or a dismissal writes it, or it goes.
LEMMA RowsChange ==
    ASSUME TypeOK, CountsBacked, Next, NEW s \in Scope, NEW fp \in Fp
    PROVE  \/ /\ rows'[s][fp] = rows[s][fp]
              /\ \A d \in standing : d.scope = s /\ d.fp = fp => d \in standing'
           \/ rows'[s][fp] = None
           \/ \E d : /\ Sound(d) /\ d.scope = s /\ d.fp = fp
                    /\ d \in standing' /\ d \in said'
                    /\ rows'[s][fp] = Upserted(rows[s][fp], d)
<1> USE DEF TypeOK
<1>1. CASE \E t \in Task : \E d : Sound(d) /\ Dismiss(t, d)
  <2>0. PICK t \in Task : \E d : Sound(d) /\ Dismiss(t, d)
    BY <1>1
  <2>1. PICK d : Sound(d) /\ Dismiss(t, d)
    BY <2>0
  <2>2. /\ rows' = [rows EXCEPT ![d.scope][d.fp] = Upserted(rows[d.scope][d.fp], d)]
        /\ said' = said \cup {d} /\ standing' = standing \cup {d}
    BY <2>1 DEF Dismiss
  <2>3. d.scope \in Scope /\ d.fp \in Fp
    BY <2>1 DEF Sound, Saids
  <2>4. CASE d.scope = s /\ d.fp = fp
    BY <2>1, <2>2, <2>4
  <2>5. CASE d.scope # s \/ d.fp # fp
    BY <2>2, <2>3, <2>5
  <2>6. QED  BY <2>4, <2>5
<1>2. CASE \E t \in Task : TaskMoves(t)
  BY <1>2 DEF TaskMoves, tables, history
<1>3. CASE \E t \in Task : Archive(t)
  BY <1>3 DEF Archive, history
<1>4. CASE \E t \in Task : Mints(t)
  BY <1>4 DEF Mints
<1>5. CASE \E v \in Review : ReviewStep(v)
  BY <1>5 DEF ReviewStep, ReadExact, ReadRules, ReadPrefixes, FilterFails, tables, history
<1>6. CASE Maintainer
  <2>1. CASE Unresolve
    BY <2>1 DEF Unresolve
  <2>2. CASE DeleteRepo
    BY <2>2 DEF DeleteRepo
  <2>3. CASE ApproveRule \/ ArchiveRule \/ DeleteRule
    BY <2>3 DEF ApproveRule, ArchiveRule, DeleteRule, history
  <2>4. QED  BY <1>6, <2>1, <2>2, <2>3 DEF Maintainer
<1>7. QED  BY <1>1, <1>2, <1>3, <1>4, <1>5, <1>6, Effects

LEMMA RowsStep ==
    ASSUME TypeOK, CountsBacked, RowsBacked, Next
    PROVE  RowsBacked'
<1>1. SUFFICES ASSUME NEW s \in Scope, NEW fp \in Fp, rows'[s][fp] # None
               PROVE  /\ \E d \in standing' : d.scope = s /\ d.fp = fp
                      /\ rows'[s][fp].detector \notin Unpromoted =>
                            \E x \in said' : Backs(x, s, fp, rows'[s][fp])
                      /\ rows'[s][fp].maintainer =>
                            \E y \in said' : y.maintainer /\ y.scope = s /\ y.fp = fp
  BY DEF RowsBacked, Backs
<1>2. said \subseteq said'
  BY HistoryStep
<1>3. CASE /\ rows'[s][fp] = rows[s][fp]
           /\ \A d \in standing : d.scope = s /\ d.fp = fp => d \in standing'
  BY <1>1, <1>2, <1>3 DEF RowsBacked
<1>4. ASSUME NEW d, Sound(d), d.scope = s, d.fp = fp, d \in standing', d \in said',
             rows'[s][fp] = Upserted(rows[s][fp], d)
      PROVE  /\ \E e \in standing' : e.scope = s /\ e.fp = fp
             /\ rows'[s][fp].detector \notin Unpromoted =>
                   \E x \in said' : Backs(x, s, fp, rows'[s][fp])
             /\ rows'[s][fp].maintainer =>
                   \E y \in said' : y.maintainer /\ y.scope = s /\ y.fp = fp
  <2>1. rows'[s][fp].detector \notin Unpromoted => Backs(d, s, fp, rows'[s][fp])
    BY <1>4, UpsertedBacked
  <2>2. rows'[s][fp].maintainer =>
           d.maintainer \/ (rows[s][fp] # None /\ rows[s][fp].maintainer)
    <3>1. SUFFICES ASSUME ~d.maintainer, ~(rows[s][fp] # None /\ rows[s][fp].maintainer)
                   PROVE  rows'[s][fp].maintainer = FALSE
      OBVIOUS
    <3>2. Upserted(rows[s][fp], d).maintainer = FALSE
      BY <3>1 DEF Upserted
    <3>3. QED  BY <1>4, <3>2
  <2>3. QED  BY <1>2, <1>4, <2>1, <2>2 DEF RowsBacked
<1>5. QED  BY <1>1, <1>3, <1>4, RowsChange

-----------------------------------------------------------------------------
\* What a promotion has counted was earned.

LEMMA MaintainersEarn ==
    ASSUME TypeOK, RowsBacked, NEW d, d \notin Unpromoted, NEW s \in Scope,
           CountMaintainerRows(d, s) >= 1
    PROVE  Earned(d, s)
<1>1. MaintainerRows(d, s) # {}
  BY CountsAreFinite, FS_EmptySet
<1>2. PICK c \in Chain[s], fp \in Fp :
         /\ rows[c][fp] # None
         /\ rows[c][fp].detector = d /\ rows[c][fp].maintainer
  BY <1>1 DEF MaintainerRows
<1>3. PICK x \in said : Backs(x, c, fp, rows[c][fp])
  BY <1>2 DEF RowsBacked
<1>4. PICK y \in said : y.maintainer /\ y.scope = c /\ y.fp = fp
  BY <1>2 DEF RowsBacked
<1>5. x.detector = d /\ x.scope = c /\ x.fp = fp
  BY <1>2, <1>3 DEF Backs
<1>6. CASE x.maintainer
  BY <1>5, <1>6 DEF Earned, ByMaintainer
<1>7. CASE ~x.maintainer
  BY <1>3, <1>4, <1>5, <1>7 DEF Backs, Earned, Inherited
<1>8. QED  BY <1>6, <1>7

LEMMA PullRequestsEarn ==
    ASSUME TypeOK, RowsBacked, NEW d, d \notin Unpromoted, d \notin Security,
           NEW s \in Scope, CountDistinctPrs(d, s) >= MinDismissals
    PROVE  Earned(d, s)
<1>1. CASE \E x \in said : x.maintainer /\ x.detector = d /\ x.scope = s
  BY <1>1 DEF Earned, ByMaintainer
<1>2. CASE ~\E x \in said : x.maintainer /\ x.detector = d /\ x.scope = s
  <2>1. ASSUME NEW p \in CountedPrs(d, s)
        PROVE  p \in PrsIn(said, d, s)
    <3>1. PICK fp \in Fp : /\ rows[s][fp] # None /\ rows[s][fp].detector = d
                          /\ rows[s][fp].pr # None /\ p = rows[s][fp].pr
      BY DEF CountedPrs, RowsOf
    <3>2. PICK x \in said : Backs(x, s, fp, rows[s][fp])
      BY <3>1 DEF RowsBacked
    <3>3. x.detector = d /\ x.scope = s /\ x.pr = p /\ x.pr # None
      BY <1>2, <3>1, <3>2 DEF Backs
    <3>4. QED  BY <3>3 DEF PrsIn
  <2>2. IsFiniteSet(PrsIn(said, d, s))
    BY DismissersFinite DEF TypeOK
  <2>3. /\ Cardinality(CountedPrs(d, s)) <= Cardinality(PrsIn(said, d, s))
        /\ Cardinality(PrsIn(said, d, s)) \in Nat
    BY <2>1, <2>2, FS_Subset, FS_CardinalityType
  <2>4. Cardinality(PrsIn(said, d, s)) >= MinDismissals
    BY <2>3, CountsAreFinite
  <2>5. QED  BY <2>4 DEF Earned, ByMaintainer, Inherited, PrsThatDismissed, PrsIn
<1>3. QED  BY <1>1, <1>2

\* A task's step leaves the other tasks alone.
LEMMA OthersStay ==
    ASSUME TypeOK, NEW t \in Task, TaskStep(t), NEW u \in Task, u # t
    PROVE  /\ pc'[u] = pc[u] /\ job'[u] = job[u]
           /\ maint'[u] = maint[u] /\ prs'[u] = prs[u]
<1> USE DEF TypeOK
<1>1. ASSUME NEW d, Dismiss(t, d)
      PROVE  /\ pc'[u] = pc[u] /\ job'[u] = job[u]
             /\ maint'[u] = maint[u] /\ prs'[u] = prs[u]
  BY <1>1 DEF Dismiss, Goto
<1>2. CASE \E d : Dismiss(t, d)
  BY <1>1, <1>2
<1>3. CASE Mine(t) /\ ~\E d : Dismiss(t, d)
  BY <1>3 DEF Mine, Goto
<1>4. CASE Archive(t) \/ AddRule(t) \/ GiveUp(t)
  BY <1>4 DEF Archive, AddRule, GiveUp, Done, Goto
<1>5. CASE \/ StartMining(t) \/ MiningFails(t)
           \/ CountMaintainers(t) \/ CountPrs(t)
  BY <1>5 DEF StartMining, MiningFails, CountMaintainers, CountPrs, Goto
<1>6. CASE Decay(t)
  BY <1>6 DEF Decay, Goto
<1>7. CASE \/ DismissOnDashboard(t) \/ IgnoreCommand(t) \/ React(t) \/ Resolve(t)
  BY <1>1, <1>7 DEF DismissOnDashboard, IgnoreCommand, React, Resolve
<1>8. QED  BY <1>2, <1>3, <1>4, <1>5, <1>6, <1>7 DEF TaskStep

\* CountsBacked of one task, said of its values.
BackedBy(S, label, d, m, n) ==
    /\ label \in Promoting => d \in S /\ d.detector \notin Unpromoted
    /\ label \in {"prs", "decay"} /\ m >= 1 => EarnedIn(S, d.detector, d.scope)
    /\ label = "decay" /\ d.detector \notin Security /\ n >= MinDismissals
          => EarnedIn(S, d.detector, d.scope)
    /\ label = "add" => EarnedIn(S, d.detector, d.scope)

LEMMA CountsBackedIs ==
    CountsBacked <=> \A u \in Task : BackedBy(said, pc[u], job[u], maint[u], prs[u])
<1>1. QED  BY EarnedIs DEF CountsBacked, BackedBy

LEMMA CountsBackedNext ==
    (\A u \in Task : BackedBy(said', pc'[u], job'[u], maint'[u], prs'[u])) => CountsBacked'
<1>1. QED
  BY DEF CountsBacked, BackedBy, Earned, ByMaintainer, Inherited, PrsThatDismissed, EarnedIn, PrsIn

LEMMA CountsStep ==
    ASSUME TypeOK, CountsBacked, RowsBacked, Next
    PROVE  CountsBacked'
<1> DEFINE Now(u) == BackedBy(said, pc[u], job[u], maint[u], prs[u])
           Then(u) == BackedBy(said', pc'[u], job'[u], maint'[u], prs'[u])
<1>1. \A u \in Task : Now(u)
  BY CountsBackedIs
<1>2. said \subseteq said' /\ \A d, s : EarnedIn(said, d, s) => EarnedIn(said', d, s)
  BY HistoryStep, EarnedStays
<1>3. ASSUME NEW u \in Task, pc'[u] = pc[u], job'[u] = job[u],
             maint'[u] = maint[u], prs'[u] = prs[u]
      PROVE  Then(u)
  BY <1>1, <1>2, <1>3 DEF BackedBy
<1>4. ASSUME NEW t \in Task, TaskStep(t)
      PROVE  Then(t)
  <2> USE DEF TypeOK
  <2>1. ASSUME NEW d, Dismiss(t, d)
        PROVE  Then(t)
    <3>1. /\ job'[t] = d /\ d \in said'
          /\ pc'[t] = IF d.detector \in Unpromoted THEN "end" ELSE "maintainers"
      BY <2>1 DEF Dismiss, Goto
    <3>2. QED  BY <3>1 DEF BackedBy, Promoting
  <2>2. ASSUME pc'[t] \in {"idle", "mine", "end"}
        PROVE  Then(t)
    BY <2>2 DEF BackedBy, Promoting
  <2>3. CASE CountMaintainers(t)
    <3> DEFINE d == job[t]
    <3>1. /\ pc[t] = "maintainers" /\ pc'[t] = "prs" /\ job'[t] = d
          /\ maint'[t] = CountMaintainerRows(d.detector, d.scope)
      BY <2>3 DEF CountMaintainers, Goto
    <3>2. d \in said /\ d.detector \notin Unpromoted /\ d.scope \in Scope
      BY <1>1, <3>1 DEF BackedBy, Promoting, Saids
    <3>3. maint'[t] >= 1 => EarnedIn(said, d.detector, d.scope)
      BY <3>1, <3>2, MaintainersEarn, EarnedIs
    <3>4. QED  BY <1>2, <3>1, <3>2, <3>3 DEF BackedBy
  <2>4. CASE CountPrs(t)
    <3> DEFINE d == job[t]
    <3>1. /\ pc[t] = "prs" /\ pc'[t] = "decay" /\ job'[t] = d /\ maint'[t] = maint[t]
          /\ prs'[t] = CountDistinctPrs(d.detector, d.scope)
      BY <2>4 DEF CountPrs, Goto
    <3>2. d \in said /\ d.detector \notin Unpromoted /\ d.scope \in Scope
      BY <1>1, <3>1 DEF BackedBy, Promoting, Saids
    <3>3. d.detector \notin Security /\ prs'[t] >= MinDismissals
             => EarnedIn(said, d.detector, d.scope)
      BY <3>1, <3>2, PullRequestsEarn, EarnedIs
    <3>4. QED  BY <1>1, <1>2, <3>1, <3>2, <3>3 DEF BackedBy
  <2>5. CASE Decay(t) /\ pc'[t] = "add"
    <3>1. /\ pc[t] = "decay" /\ job'[t] = job[t]
          /\ Allowed(job[t].detector, maint[t], prs[t])
      BY <2>5 DEF Decay, Goto
    <3>2. QED  BY <1>1, <1>2, <2>5, <3>1 DEF BackedBy, Allowed, Promoting
  <2>6. CASE Decay(t) /\ pc'[t] = "archive"
    <3>1. pc[t] = "decay" /\ job'[t] = job[t]
      BY <2>6 DEF Decay
    <3>2. BackedBy(said, "decay", job[t], maint[t], prs[t])
      BY <1>1, <3>1
    <3>3. QED  BY <1>2, <2>6, <3>1, <3>2 DEF BackedBy, Promoting
  <2>7. CASE \/ StartMining(t) \/ MiningFails(t)
             \/ Mine(t) /\ ~\E d : Dismiss(t, d)
    <3>1. pc'[t] \in {"idle", "mine"}
      BY <2>7 DEF StartMining, MiningFails, Mine, Goto
    <3>2. QED  BY <2>2, <3>1
  <2>8. CASE Archive(t) \/ AddRule(t) \/ GiveUp(t)
    <3>1. pc'[t] \in {"idle", "mine"}
      BY <2>8, DoneType DEF Archive, AddRule, GiveUp
    <3>2. QED  BY <2>2, <3>1
  <2>9. CASE Decay(t)
    <3>1. pc'[t] \in {"archive", "add", "end"}
      BY <2>9 DEF Decay, Goto
    <3>2. QED  BY <2>2, <2>5, <2>6, <2>9, <3>1
  <2>10. CASE \/ DismissOnDashboard(t) \/ IgnoreCommand(t) \/ React(t) \/ Resolve(t)
    <3>1. \E d : Dismiss(t, d)
      BY <2>10 DEF DismissOnDashboard, IgnoreCommand, React, Resolve
    <3>2. QED  BY <2>1, <3>1
  <2>11. QED  BY <1>4, <2>1, <2>3, <2>4, <2>7, <2>8, <2>9, <2>10 DEF TaskStep
<1>5. CASE \E t \in Task : TaskStep(t)
  <2>1. PICK t \in Task : TaskStep(t)
    BY <1>5
  <2>2. ASSUME NEW u \in Task, u # t
        PROVE  Then(u)
    BY <1>3, <2>1, <2>2, OthersStay
  <2>3. QED  BY <1>4, <2>1, <2>2, CountsBackedNext
<1>6. CASE (\E v \in Review : ReviewStep(v)) \/ Maintainer
  <2>1. UNCHANGED taskVars
    BY <1>6 DEF ReviewStep, ReadExact, ReadRules, ReadPrefixes, FilterFails,
                Maintainer, Unresolve, ApproveRule, ArchiveRule, DeleteRule, DeleteRepo
  <2>2. \A u \in Task : Then(u)
    BY <1>3, <2>1 DEF taskVars
  <2>3. QED  BY <2>2, CountsBackedNext
<1>7. QED  BY <1>5, <1>6 DEF Next

-----------------------------------------------------------------------------
\* Rules have causes.

\* Caused, said of values.
CausedBy(S, n, A, r) ==
    \/ /\ r.id \in 1..n
       /\ r.action = "ignore"
       /\ EarnedIn(S, r.detector, r.scope)
       /\ r.status = "approved" => <<r.detector, r.scope>> \in A
    \/ r.id \in 1..n /\ r.action = "always_warn"
    \/ r.id < 0 /\ ByHand(r, r.scope, r.action)

LEMMA CausedIs == \A r : Caused(r) <=> CausedBy(said, minted, approved, r)
<1>1. QED  BY EarnedIs DEF Caused, CausedBy

LEMMA RulesCausedNext ==
    ASSUME \A r \in rules' : CausedBy(said', minted', approved', r),
           \A r, q \in rules' : r.id = q.id /\ r.id > 0 => r = q
    PROVE  RulesCaused'
<1>1. QED
  BY DEF RulesCaused, Caused, CausedBy, Earned, ByMaintainer, Inherited, PrsThatDismissed, EarnedIn, PrsIn

LEMMA CausedStays ==
    ASSUME TypeOK, CountsBacked, Next, NEW r, CausedBy(said, minted, approved, r)
    PROVE  CausedBy(said', minted', approved', r)
<1>1. /\ minted \in Nat /\ minted' \in Nat /\ minted <= minted'
      /\ approved \subseteq approved'
  BY HistoryStep DEF TypeOK
<1>2. r.id \in 1..minted => r.id \in 1..minted'
  BY <1>1
<1>3. EarnedIn(said, r.detector, r.scope) => EarnedIn(said', r.detector, r.scope)
  BY EarnedStays
<1>4. QED  BY <1>1, <1>2, <1>3 DEF CausedBy

\* A rule of another status is the rule it was, and no two become one.
LEMMA RestatedRules ==
    ASSUME TypeOK, CountsBacked, RulesCaused, Next,
           NEW id, NEW from, NEW to \in {"suggested", "approved", "archived"},
           rules' = WithStatus(id, from, to),
           to = "approved" => \E r \in rules : /\ r.id = id
                                             /\ <<r.detector, r.scope>> \in approved'
    PROVE  RulesCaused'
<1> DEFINE New(x) == IF x.id = id /\ x.status \in from
                     THEN [x EXCEPT !.status = to] ELSE x
<1>0. \A r \in rules' : \E q \in rules :
         /\ r = New(q)
         /\ r.id = q.id /\ r.detector = q.detector /\ r.action = q.action
         /\ r.scope = q.scope
         /\ r = q \/ (r.id = id /\ r.status = to /\ q.status \in from)
  <2>1. rules \subseteq RuleRow
    BY DEF TypeOK
  <2>2. \A r \in WithStatus(id, from, to) : \E q \in rules :
           /\ r = New(q)
           /\ r.id = q.id /\ r.detector = q.detector /\ r.action = q.action
           /\ r.scope = q.scope
           /\ r = q \/ (r.id = id /\ r.status = to /\ q.status \in from)
    BY <2>1, Restated
  <2>3. QED  BY <2>2
<1>1. ASSUME NEW r \in rules'
      PROVE  CausedBy(said', minted', approved', r)
  <2>1. PICK q \in rules :
           /\ r.id = q.id /\ r.detector = q.detector /\ r.action = q.action
           /\ r.scope = q.scope
           /\ r = q \/ (r.id = id /\ r.status = to /\ q.status \in from)
    BY <1>0
  <2>2. CausedBy(said', minted', approved', q)
    BY CausedStays, CausedIs DEF RulesCaused
  <2>3. CASE r = q
    BY <2>2, <2>3
  <2>4. CASE r.id = id /\ r.status = to
    <3>1. CASE q.id > 0
      <4>1. to = "approved" => <<q.detector, q.scope>> \in approved'
        BY <2>1, <2>4, <3>1 DEF RulesCaused
      <4>2. ~(q.id < 0)
        BY <3>1 DEF TypeOK, RuleRow
      <4>3. QED  BY <2>1, <2>2, <2>4, <4>1, <4>2 DEF CausedBy
    <3>2. CASE ~(q.id > 0)
      <4>1. minted' \in Nat
        BY HistoryStep
      <4>2. q.id \notin 1..minted'
        BY <3>2, <4>1
      <4>3. q.id < 0 /\ ByHand(q, q.scope, q.action)
        BY <2>2, <4>2 DEF CausedBy
      <4>4. QED  BY <2>1, <4>3 DEF CausedBy, ByHand
    <3>3. QED  BY <3>1, <3>2
  <2>5. QED  BY <2>1, <2>3, <2>4
<1>2. ASSUME NEW r \in rules', NEW q \in rules', r.id = q.id, r.id > 0
      PROVE  r = q
  <2>1. PICK a \in rules : r = New(a) /\ r.id = a.id
    BY <1>0
  <2>2. PICK b \in rules : q = New(b) /\ q.id = b.id
    BY <1>0
  <2>3. a = b
    BY <1>2, <2>1, <2>2 DEF RulesCaused
  <2>4. QED  BY <2>1, <2>2, <2>3
<1>3. QED  BY <1>1, <1>2, RulesCausedNext

\* Fewer rules.
LEMMA FewerRules ==
    ASSUME TypeOK, CountsBacked, RulesCaused, Next, rules' \subseteq rules
    PROVE  RulesCaused'
<1>1. \A r \in rules' : CausedBy(said', minted', approved', r)
  BY CausedStays, CausedIs DEF RulesCaused
<1>2. \A r, q \in rules' : r.id = q.id /\ r.id > 0 => r = q
  BY DEF RulesCaused
<1>3. QED  BY <1>1, <1>2, RulesCausedNext

LEMMA MintedRule ==
    ASSUME TypeOK, CountsBacked, RulesCaused, Next, NEW t \in Task, Mints(t)
    PROVE  RulesCaused'
<1>1. PICK r : Made(t, r) /\ Insert(r)
  BY DEF Mints
<1>2. /\ r \in RuleRow /\ r.id = minted + 1 /\ minted' = minted + 1 /\ minted \in Nat
      /\ rules' = rules \cup {r} /\ said' = said
  BY <1>1 DEF Made, Insert, TypeOK, Mints
<1>3. r.action = "ignore" => EarnedIn(said, r.detector, r.scope)
  <2>1. CASE pc[t] = "add" /\ r.detector = job[t].detector /\ r.scope = job[t].scope
    BY <2>1, CountsBackedIs DEF BackedBy
  <2>2. QED  BY <1>1, <2>1 DEF Made
<1>4. r.status = "approved" /\ r.action = "ignore" =>
         <<r.detector, r.scope>> \in approved'
  BY <1>1 DEF Insert
<1>5. CausedBy(said', minted', approved', r)
  <2>1. r.id \in 1..minted'
    BY <1>2
  <2>2. r.action \in {"ignore", "always_warn"}
    BY <1>1 DEF Made
  <2>3. QED  BY <1>2, <1>3, <1>4, <2>1, <2>2 DEF CausedBy
<1>6. \A q \in rules : CausedBy(said', minted', approved', q) /\ q.id # r.id
  <2>1. ASSUME NEW q \in rules
        PROVE  q.id # minted + 1
    <3>1. q.id \in 1..minted \/ q.id < 0
      BY DEF RulesCaused, Caused
    <3>2. QED  BY <1>2, <3>1
  <2>2. QED  BY <1>2, <2>1, CausedStays, CausedIs DEF RulesCaused
<1>7. \A q \in rules' : CausedBy(said', minted', approved', q)
  BY <1>2, <1>5, <1>6
<1>8. \A a, b \in rules' : a.id = b.id /\ a.id > 0 => a = b
  BY <1>2, <1>6 DEF RulesCaused
<1>9. QED  BY <1>7, <1>8, RulesCausedNext

LEMMA RulesStep ==
    ASSUME TypeOK, CountsBacked, RulesCaused, Next
    PROVE  RulesCaused'
<1>1. CASE rules' \subseteq rules
  BY <1>1, FewerRules
<1>2. CASE \E t \in Task : Archive(t)
  BY <1>2, RestatedRules DEF Archive
<1>3. CASE \E t \in Task : Mints(t)
  BY <1>3, MintedRule
<1>4. CASE ApproveRule
  <2>1. PICK r \in rules :
           /\ rules' = WithStatus(r.id, {"suggested"}, "approved")
           /\ approved' = approved \cup {<<r.detector, r.scope>>}
    BY <1>4 DEF ApproveRule
  <2>2. QED  BY <2>1, RestatedRules
<1>5. CASE ArchiveRule
  BY <1>5, RestatedRules DEF ArchiveRule
<1>6. \/ rules' \subseteq rules
      \/ \E t \in Task : Archive(t) \/ Mints(t)
      \/ ApproveRule \/ ArchiveRule
  BY Effects DEF Dismiss, TaskMoves, ReviewStep, ReadExact, ReadRules, ReadPrefixes,
                 FilterFails, Maintainer, Unresolve, DeleteRule, DeleteRepo, tables
<1>7. QED  BY <1>1, <1>2, <1>3, <1>4, <1>5, <1>6

-----------------------------------------------------------------------------
\* Reviews go by what stood and by rules in force.

\* ReviewsBacked of one review, said of values.
ReviewBy(v, label, D, E, R, stood, S, n, A) ==
    /\ label # "idle" =>
          /\ stood \subseteq D
          /\ \A f \in E : \E d \in D : d.scope \in Chain[RepoOf[v]] /\ d.fp = f.fp
    /\ label = "prefixes" =>
          \A r \in R : /\ CausedBy(S, n, A, r) /\ r.status = "approved"
                      /\ r.scope \in Chain[RepoOf[v]]

LEMMA ReviewsBackedIs ==
    ReviewsBacked <=>
       \A v \in Review : ReviewBy(v, rpc[v], seen[v], exact[v], active[v], standing,
                                  said, minted, approved)
<1>1. QED  BY CausedIs DEF ReviewsBacked, ReviewBy

LEMMA ReviewsBackedNext ==
    (\A v \in Review : ReviewBy(v, rpc'[v], seen'[v], exact'[v], active'[v], standing',
                                said', minted', approved'))
       => ReviewsBacked'
<1>1. QED
  BY DEF ReviewsBacked, ReviewBy, Caused, CausedBy, Earned, ByMaintainer, Inherited, PrsThatDismissed, EarnedIn, PrsIn

\* What other steps do to reviews: they see what is dismissed meanwhile.
LEMMA ReviewsSee ==
    ASSUME TypeOK, CountsBacked, Next, ~\E v \in Review : ReviewStep(v)
    PROVE  /\ UNCHANGED reviewVars
           /\ \A v \in Review :
                 /\ seen[v] \subseteq seen'[v]
                 /\ rpc[v] # "idle" /\ standing \subseteq seen[v]
                       => standing' \subseteq seen'[v]
<1> USE DEF TypeOK
<1>1. CASE \E t \in Task : \E d : Sound(d) /\ Dismiss(t, d)
  <2>0. PICK t \in Task : \E d : Dismiss(t, d)
    BY <1>1
  <2>1. PICK d : Dismiss(t, d)
    BY <2>0
  <2>2. /\ standing' = standing \cup {d} /\ UNCHANGED reviewVars
        /\ \A v \in Review :
              seen'[v] = IF rpc[v] = "idle" THEN seen[v] ELSE seen[v] \cup {d}
    BY <2>1 DEF Dismiss
  <2>3. QED  BY <2>2
<1>2. CASE \E t \in Task : TaskMoves(t)
  BY <1>2 DEF TaskMoves, history
<1>3. CASE \E t \in Task : Archive(t)
  BY <1>3 DEF Archive, history
<1>4. CASE \E t \in Task : Mints(t)
  BY <1>4 DEF Mints
<1>5. CASE Maintainer
  BY <1>5 DEF Maintainer, Unresolve, ApproveRule, ArchiveRule, DeleteRule, DeleteRepo,
              history
<1>6. QED  BY <1>1, <1>2, <1>3, <1>4, <1>5, Effects

LEMMA DismissedRows ==
    ASSUME TypeOK, RowsBacked, NEW s \in Scope, NEW fp \in Fp, rows[s][fp] # None
    PROVE  \E d \in standing : d.scope = s /\ d.fp = fp
<1>1. QED  BY DEF RowsBacked

LEMMA ReviewsStep ==
    ASSUME TypeOK, CountsBacked, RowsBacked, RulesCaused, ReviewsBacked, Next
    PROVE  ReviewsBacked'
<1> USE DEF TypeOK
<1> DEFINE Now(v) == ReviewBy(v, rpc[v], seen[v], exact[v], active[v], standing,
                              said, minted, approved)
           Then(v) == ReviewBy(v, rpc'[v], seen'[v], exact'[v], active'[v], standing',
                               said', minted', approved')
<1>1. \A v \in Review : Now(v)
  BY ReviewsBackedIs
<1>2. \A r : CausedBy(said, minted, approved, r) => CausedBy(said', minted', approved', r)
  BY CausedStays
<1>3. ASSUME NEW v \in Review, rpc'[v] = rpc[v], exact'[v] = exact[v],
             active'[v] = active[v], seen[v] \subseteq seen'[v],
             rpc[v] # "idle" /\ standing \subseteq seen[v] => standing' \subseteq seen'[v]
      PROVE  Then(v)
  BY <1>1, <1>2, <1>3 DEF ReviewBy
<1>4. ASSUME NEW v \in Review, ReviewStep(v)
      PROVE  \A u \in Review : Then(u)
  <2>1. CASE ReadExact(v)
    <3>1. ASSUME NEW f \in exact'[v]
          PROVE  \E d \in standing : d.scope \in Chain[RepoOf[v]] /\ d.fp = f.fp
      <4>1. f \in Findings /\ \E s \in Chain[RepoOf[v]] : rows[s][f.fp] # None
        BY <2>1, <3>1 DEF ReadExact
      <4>2. PICK s \in Chain[RepoOf[v]] : rows[s][f.fp] # None
        BY <4>1
      <4>3. s \in Scope /\ f.fp \in Fp
        BY <4>1
      <4> DEFINE fp == f.fp
      <4>4. PICK d \in standing : d.scope = s /\ d.fp = fp
        <5> HIDE DEF TypeOK, fp
        <5>1. fp \in Fp /\ rows[s][fp] # None
          BY <4>2, <4>3 DEF fp
        <5>2. QED  BY <4>3, <5>1, DismissedRows
      <4>5. QED  BY <4>2, <4>4
    <3>2. /\ rpc'[v] = "rules" /\ seen'[v] = standing /\ standing' = standing
      BY <2>1 DEF ReadExact, RGoto
    <3>3. Then(v)
      BY <3>1, <3>2 DEF ReviewBy
    <3>4. ASSUME NEW u \in Review, u # v
          PROVE  Then(u)
      <4>1. /\ rpc'[u] = rpc[u] /\ exact'[u] = exact[u] /\ active'[u] = active[u]
            /\ seen'[u] = seen[u] /\ standing' = standing
        BY <2>1, <3>4 DEF ReadExact, RGoto
      <4>2. QED  BY <1>3, <4>1
    <3>5. QED  BY <3>3, <3>4
  <2>2. CASE ReadRules(v)
    <3>1. /\ rpc[v] = "rules" /\ rpc'[v] = "prefixes" /\ exact'[v] = exact[v]
          /\ active'[v] = InForce(RepoOf[v])
          /\ seen' = seen /\ standing' = standing
      BY <2>2 DEF ReadRules, RGoto, history
    <3>2. \A r \in active'[v] : /\ CausedBy(said', minted', approved', r)
                               /\ r.status = "approved" /\ r.scope \in Chain[RepoOf[v]]
      BY <1>2, <3>1, CausedIs DEF InForce, RulesCaused
    <3>3. Then(v)
      BY <1>1, <3>1, <3>2 DEF ReviewBy
    <3>4. ASSUME NEW u \in Review, u # v
          PROVE  Then(u)
      <4>1. /\ rpc'[u] = rpc[u] /\ exact'[u] = exact[u] /\ active'[u] = active[u]
            /\ seen'[u] = seen[u] /\ standing' = standing
        BY <2>2, <3>4 DEF ReadRules, RGoto, history
      <4>2. QED  BY <1>3, <4>1
    <3>5. QED  BY <3>3, <3>4
  <2>3. CASE ReadPrefixes(v) \/ FilterFails(v)
    <3>1. rpc'[v] = "idle"
      BY <2>3 DEF ReadPrefixes, FilterFails, RGoto
    <3>2. Then(v)
      BY <3>1 DEF ReviewBy
    <3>3. ASSUME NEW u \in Review, u # v
          PROVE  Then(u)
      <4>1. /\ rpc'[u] = rpc[u] /\ exact'[u] = exact[u] /\ active'[u] = active[u]
            /\ seen'[u] = seen[u] /\ standing' = standing
        BY <2>3, <3>3 DEF ReadPrefixes, FilterFails, RGoto, history
      <4>2. QED  BY <1>3, <4>1
    <3>4. QED  BY <3>2, <3>3
  <2>4. QED  BY <1>4, <2>1, <2>2, <2>3 DEF ReviewStep
<1>5. CASE ~\E v \in Review : ReviewStep(v)
  <2>1. \A v \in Review : Then(v)
    BY <1>3, <1>5, ReviewsSee DEF reviewVars
  <2>2. QED  BY <2>1, ReviewsBackedNext
<1>6. QED  BY <1>4, <1>5, ReviewsBackedNext

-----------------------------------------------------------------------------
\* Fates have causes.

\* FatesHaveCauses of one finding in one review, said of values.
FateBy(v, f, result, D, S, A) ==
    /\ result = "dropped" =>
          \/ \E d \in D : /\ d.scope \in Chain[RepoOf[v]]
                          /\ d.fp = f.fp \/ <<d.fp, f.fp>> \in Prefixes
          \/ \E s \in Chain[RepoOf[v]] :
                \/ <<f.detector, s>> \in A /\ EarnedIn(S, f.detector, s)
                \/ ByHand(f, s, "ignore")
    /\ result \notin {"dropped", f.severity} =>
          \/ f.severity = "info" /\ result = "warning"
          \/ /\ result = Lowered[f.severity]
             /\ \E s \in Chain[RepoOf[v]] : ByHand(f, s, "downgrade")

LEMMA FatesIs ==
    FatesHaveCauses <=>
       \A v \in Review : fate[v] # None =>
          \A f \in Findings : FateBy(v, f, fate[v][f], seen[v], said, approved)
<1>1. QED  BY EarnedIs DEF FatesHaveCauses, FateBy

LEMMA FatesNext ==
    (\A v \in Review : fate'[v] # None =>
        \A f \in Findings : FateBy(v, f, fate'[v][f], seen'[v], said', approved'))
       => FatesHaveCauses'
<1>1. QED
  BY DEF FatesHaveCauses, FateBy, Earned, ByMaintainer, Inherited, PrsThatDismissed, EarnedIn, PrsIn

\* What a rule in force may do.
LEMMA RulesAct ==
    ASSUME NEW v \in Review, NEW f \in Findings, NEW S, NEW n \in Nat, NEW A, NEW r,
           CausedBy(S, n, A, r), r.status = "approved", r.scope \in Chain[RepoOf[v]],
           r.detector = f.detector
    PROVE  /\ r.action = "ignore" =>
                 \/ <<f.detector, r.scope>> \in A /\ EarnedIn(S, f.detector, r.scope)
                 \/ ByHand(f, r.scope, "ignore")
           /\ r.action = "downgrade" => ByHand(f, r.scope, "downgrade")
<1>1. QED  BY DEF CausedBy, ByHand

LEMMA Filtered ==
    ASSUME TypeOK, RowsBacked, ReviewsBacked, NEW v \in Review, rpc[v] = "prefixes",
           NEW f \in Findings, NEW result,
           result \in IF \/ f \in exact[v] \/ PrefixDismissed(v, f)
                        \/ Ignored(active[v], f)
                     THEN {"dropped"} ELSE Adjusted(active[v], f)
    PROVE  FateBy(v, f, result, seen[v], said, approved)
<1>1. ReviewBy(v, rpc[v], seen[v], exact[v], active[v], standing, said, minted, approved)
  BY ReviewsBackedIs
<1>2. /\ standing \subseteq seen[v]
      /\ \A e \in exact[v] :
            \E d \in seen[v] : d.scope \in Chain[RepoOf[v]] /\ d.fp = e.fp
      /\ \A r \in active[v] : /\ CausedBy(said, minted, approved, r)
                              /\ r.status = "approved" /\ r.scope \in Chain[RepoOf[v]]
  BY <1>1 DEF ReviewBy
<1>3. minted \in Nat
  BY DEF TypeOK
<1>4. f.severity \in {"blocking", "warning", "info"}
  BY FindingType
<1>5. CASE f \in exact[v]
  BY <1>2, <1>4, <1>5 DEF FateBy
<1>6. CASE PrefixDismissed(v, f)
  <2>1. PICK s \in Chain[RepoOf[v]], p \in Fp :
           rows[s][p] # None /\ <<p, f.fp>> \in Prefixes
    BY <1>6 DEF PrefixDismissed
  <2>2. s \in Scope
    OBVIOUS
  <2>3. PICK d \in standing : d.scope = s /\ d.fp = p
    BY <2>1, <2>2, DismissedRows
  <2>4. result = "dropped"
    BY <1>6
  <2>5. QED  BY <1>2, <2>1, <2>3, <2>4 DEF FateBy
<1>7. CASE Ignored(active[v], f)
  <2>1. PICK r \in active[v] : r.detector = f.detector /\ r.action = "ignore"
    BY <1>7 DEF Ignored, Matching
  <2>2. \/ <<f.detector, r.scope>> \in approved /\ EarnedIn(said, f.detector, r.scope)
        \/ ByHand(f, r.scope, "ignore")
    BY <1>2, <1>3, <2>1, RulesAct
  <2>3. result = "dropped"
    BY <1>7
  <2>4. QED  BY <1>2, <2>1, <2>2, <2>3 DEF FateBy
<1>8. CASE ~(f \in exact[v] \/ PrefixDismissed(v, f) \/ Ignored(active[v], f))
  <2>1. result \in Adjusted(active[v], f)
    BY <1>8
  <2>2. CASE result = f.severity
    BY <1>4, <2>2 DEF FateBy
  <2>3. CASE result # f.severity
    <3>1. PICK r \in active[v] :
             /\ r.detector = f.detector
             /\ result = CASE r.action = "downgrade" -> Lowered[f.severity]
                          [] r.action = "always_warn" /\ f.severity = "info" -> "warning"
                          [] OTHER -> f.severity
      BY <2>1, <2>3 DEF Adjusted, First, Matching
    <3>2. CASE r.action = "downgrade"
      <4>1. ByHand(f, r.scope, "downgrade")
        BY <1>2, <1>3, <3>1, <3>2, RulesAct
      <4>2. result = Lowered[f.severity] /\ result # "dropped"
        BY <1>4, <3>1, <3>2 DEF Lowered
      <4>3. QED  BY <1>2, <4>1, <4>2 DEF FateBy
    <3>3. CASE r.action # "downgrade"
      BY <2>3, <3>1, <3>3 DEF FateBy
    <3>4. QED  BY <3>2, <3>3
  <2>4. QED  BY <2>2, <2>3
<1>9. QED  BY <1>5, <1>6, <1>7, <1>8

LEMMA FatesStep ==
    ASSUME TypeOK, CountsBacked, RowsBacked, ReviewsBacked, FatesHaveCauses, Next
    PROVE  FatesHaveCauses'
<1> USE DEF TypeOK
<1> DEFINE Then(v) == fate'[v] # None =>
              \A f \in Findings : FateBy(v, f, fate'[v][f], seen'[v], said', approved')
<1>1. approved \subseteq approved' /\ \A d, s : EarnedIn(said, d, s) => EarnedIn(said', d, s)
  BY HistoryStep, EarnedStays
<1>2. ASSUME NEW v \in Review, fate'[v] = fate[v], seen[v] \subseteq seen'[v]
      PROVE  Then(v)
  <2>1. ASSUME NEW f \in Findings, fate[v] # None
        PROVE  FateBy(v, f, fate[v][f], seen'[v], said', approved')
    <3>1. FateBy(v, f, fate[v][f], seen[v], said, approved)
      BY <2>1, FatesIs
    <3>2. QED  BY <1>1, <1>2, <3>1 DEF FateBy
  <2>2. QED  BY <1>2, <2>1
<1>3. ASSUME NEW v \in Review, ReviewStep(v)
      PROVE  \A u \in Review : Then(u)
  <2>1. CASE ReadExact(v)
    <3>1. fate'[v] = None
      BY <2>1 DEF ReadExact
    <3>2. \A u \in Review : u # v => fate'[u] = fate[u] /\ seen'[u] = seen[u]
      BY <2>1 DEF ReadExact
    <3>3. QED  BY <1>2, <3>1, <3>2
  <2>2. CASE ReadPrefixes(v)
    <3>1. PICK g \in [Findings -> {"blocking", "warning", "info", "dropped"}] :
             /\ \A f \in Findings :
                   g[f] \in IF \/ f \in exact[v] \/ PrefixDismissed(v, f)
                              \/ Ignored(active[v], f)
                           THEN {"dropped"} ELSE Adjusted(active[v], f)
             /\ fate' = [fate EXCEPT ![v] = g]
      BY <2>2 DEF ReadPrefixes
    <3>2. rpc[v] = "prefixes" /\ UNCHANGED history
      BY <2>2 DEF ReadPrefixes
    <3>3. \A f \in Findings : FateBy(v, f, g[f], seen[v], said, approved)
      BY <3>1, <3>2, Filtered
    <3>4. fate'[v] = g /\ \A u \in Review : u # v => fate'[u] = fate[u]
      BY <3>1
    <3>5. seen' = seen /\ said' = said /\ approved' = approved
      BY <3>2 DEF history
    <3>6. QED  BY <1>2, <3>3, <3>4, <3>5
  <2>3. CASE ReadRules(v) \/ FilterFails(v)
    <3>1. fate' = fate /\ seen' = seen
      BY <2>3 DEF ReadRules, FilterFails, history
    <3>2. QED  BY <1>2, <3>1
  <2>4. QED  BY <1>3, <2>1, <2>2, <2>3 DEF ReviewStep
<1>4. CASE ~\E v \in Review : ReviewStep(v)
  <2>1. \A v \in Review : Then(v)
    BY <1>2, <1>4, ReviewsSee DEF reviewVars
  <2>2. QED  BY <2>1, FatesNext
<1>5. QED  BY <1>3, <1>4, FatesNext

-----------------------------------------------------------------------------
\* The theorems.

LEMMA InitIInv == Init => IInv
<1> SUFFICES ASSUME Init PROVE IInv
  OBVIOUS
<1>1. TypeOK
  BY InitType
<1>2. RowsBacked
  <2>1. \A s \in Scope, fp \in Fp : rows[s][fp] = None
    BY DEF Init
  <2>2. QED  BY <2>1 DEF RowsBacked
<1>3. CountsBacked
  BY DEF Init, CountsBacked, Promoting
<1>4. RulesCaused
  <2>1. ASSUME NEW r \in rules
        PROVE  r.id < 0 /\ ByHand(r, r.scope, r.action) /\ ~(r.id > 0)
    <3>1. r \in Handwritten /\ r.id < 0 /\ r.id \in Int
      BY DEF Init, RuleRow
    <3>2. QED  BY <3>1 DEF ByHand
  <2>2. QED  BY <2>1 DEF RulesCaused, Caused
<1>5. ReviewsBacked /\ FatesHaveCauses
  BY DEF Init, ReviewsBacked, FatesHaveCauses
<1>6. QED  BY <1>1, <1>2, <1>3, <1>4, <1>5 DEF IInv

LEMMA StepIInv == IInv /\ [Next]_vars => IInv'
<1>1. SUFFICES ASSUME IInv, [Next]_vars
               PROVE  IInv'
  OBVIOUS
<1>2. CASE Next
  <2>1. /\ TypeOK /\ RowsBacked /\ CountsBacked /\ RulesCaused
        /\ ReviewsBacked /\ FatesHaveCauses
    BY <1>1 DEF IInv
  <2>2. TypeOK' /\ RowsBacked' /\ CountsBacked'
    BY <1>2, <2>1, TypeStep, RowsStep, CountsStep
  <2>3. RulesCaused' /\ ReviewsBacked' /\ FatesHaveCauses'
    BY <1>2, <2>1, RulesStep, ReviewsStep, FatesStep
  <2>4. QED  BY <2>2, <2>3 DEF IInv
<1>3. CASE UNCHANGED vars
  <2> USE <1>1, <1>3 DEF vars, IInv
  <2>1. TypeOK'
    BY DEF TypeOK
  <2>2. RowsBacked'
    BY DEF RowsBacked, Backs
  <2>3. CountsBacked'
    BY CountsBackedIs, CountsBackedNext
  <2>4. RulesCaused'
    BY CausedIs, RulesCausedNext DEF RulesCaused
  <2>5. ReviewsBacked'
    BY ReviewsBackedIs, ReviewsBackedNext
  <2>6. FatesHaveCauses'
    BY FatesIs, FatesNext
  <2>7. QED  BY <2>1, <2>2, <2>3, <2>4, <2>5, <2>6
<1>4. QED  BY <1>1, <1>2, <1>3

THEOREM Invariance == Spec => []IInv
<1>1. QED  BY InitIInv, StepIInv, PTL DEF Spec

\* learning/store.rs, mine.rs: tables, tasks and reviews hold what they are meant to, in
\* particular the counts, and every dismissal a task is about was made.
THEOREM TypeCorrect == Spec => []TypeOK
<1>1. IInv => TypeOK
  BY DEF IInv
<1>2. QED  BY <1>1, Invariance, PTL

\* mine.rs 12-60: the bot makes an ignore rule only of what was earned, however stale the
\* two counts are by the time the rule is inserted, and whatever fingerprints the comments
\* name that maintainers react to and resolve.
THEOREM RulesEarned == Spec => []RulesAreEarned
<1>1. IInv => RulesAreEarned
  <2>1. SUFFICES ASSUME IInv, NEW r \in rules, r.id > 0, r.action = "ignore"
                 PROVE  Earned(r.detector, r.scope)
    BY DEF RulesAreEarned
  <2>2. Caused(r) /\ ~(r.id < 0)
    BY <2>1 DEF IInv, RulesCaused, TypeOK, RuleRow
  <2>3. QED  BY <2>1, <2>2 DEF Caused
<1>2. QED  BY <1>1, Invariance, PTL

\* store.rs 385-560, threads.rs 20-70: what a review does to a finding has its causes,
\* although it reads dismissals, rules and prefixes in three statements.
THEOREM FatesCaused == Spec => []FatesHaveCauses
<1>1. IInv => FatesHaveCauses
  BY DEF IInv
<1>2. QED  BY <1>1, Invariance, PTL
=============================================================================
