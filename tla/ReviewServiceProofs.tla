------------------------ MODULE ReviewServiceProofs ------------------------
(***************************************************************************)
(* Proofs about ReviewService, for every number of pull requests, commits, *)
(* replicas and tasks, every timeout shorter than the stale window and     *)
(* every budget of disturbances: IInv is inductive, and with it the types, *)
(* the freshness of a running review's lease, the meaning of a completed   *)
(* row and one review of a commit at a time on each replica.               *)
(*                                                                         *)
(* Then, as long as WaitsAreShort, HeldInv is inductive: a job stays with  *)
(* one worker and done stays done.  And when the service is Calm, so is    *)
(* CalmInv, which implies WaitsAreShort: every other property of the       *)
(* undisturbed service follows from it, on any number of replicas.         *)
(***************************************************************************)
EXTENDS ReviewService, FiniteSetTheorems, TLAPS

-----------------------------------------------------------------------------
\* Rows.

\* An UPDATE of a job row leaves a job row.
LEMMA WrittenRow ==
  ASSUME NEW j \in Job, NEW s \in Status, NEW n \in 0..MaxAttempts
  PROVE  Written(j, s, n) \in Job
  BY ClockAssumption DEF Job, Written, AgeCap

\* So does the INSERT of one: there are finitely many rows to count.
LEMMA NewRow == NewJob \in Job
<1>1. IsFiniteSet({c \in Commit : jobs[c].status # "absent"})
  BY BoundAssumption, FS_Subset
<1>2. Cardinality({c \in Commit : jobs[c].status # "absent"}) \in Nat
  BY <1>1, FS_CardinalityType
<1> QED
  BY <1>2, ClockAssumption, BoundAssumption DEF NewJob, Job, AgeCap, Status

\* mark_done, mark_failed and the requeue leave a table of job rows.
LEMMA SetStatusRows ==
  ASSUME jobs \in [Commit -> Job], NEW c, NEW s \in Status
  PROVE  SetStatus(c, s) \in [Commit -> Job]
<1>1. ASSUME NEW d \in Commit PROVE Written(jobs[d], s, jobs[d].attempts) \in Job
  BY WrittenRow DEF Job
<1> QED
  BY <1>1 DEF SetStatus

\* What a claim or a completion writes is a lease row.
LEMMA OwnLeaseRow ==
  ASSUME TypeOK, NEW r \in Runner, NEW s \in {"in_progress", "completed"}
  PROVE  OwnLease(r, s) \in Lease
  BY KindAssumption, ClockAssumption DEF TypeOK, OwnLease, Lease, AgeCap

\* A deleted row reads as a free lease.
LEMMA NoLeaseRow == NoLease \in Lease
  BY ClockAssumption DEF NoLease, Lease, AgeCap

\* A lease row that ages is a lease row.
LEMMA LeaseAged ==
  ASSUME NEW l \in Lease, NEW n \in 0..AgeCap PROVE [l EXCEPT !.age = n] \in Lease
  BY DEF Lease

\* So is one whose owner restarted under another name.
LEMMA LeaseOrphaned ==
  ASSUME NEW l \in Lease PROVE [l EXCEPT !.owner = Gone] \in Lease
  BY DEF Lease

\* A run that ends leaves its runner idle, with every component of its type.
LEMMA EndType ==
  ASSUME TypeOK, NEW r \in Runner, End(r)
  PROVE  /\ pc' \in [Runner -> Pc]
         /\ on' \in [Runner -> Pr \cup {NoPr}]
         /\ job' \in [Runner -> Commit \cup {NoCommit}]
         /\ tries' \in [Runner -> 0..MaxAttempts]
         /\ target' \in [Runner -> Commit \cup {NoCommit}]
         /\ leased' \in [Runner -> BOOLEAN]
         /\ spent' \in [Runner -> 0..Timeout]
         /\ permits' \in [Replica -> SUBSET Runner]
         /\ locks' \in [Replica -> [Pr -> Runner \cup {NoRunner}]]
<1>1. locks' \in [Replica -> [Pr -> Runner \cup {NoRunner}]]
  <2> DEFINE Freed == [p \in Pr |-> IF locks[Home[r]][p] = r THEN NoRunner
                                    ELSE locks[Home[r]][p]]
  <2>1. Home[r] \in Replica
    BY KindAssumption
  <2>2. Freed \in [Pr -> Runner \cup {NoRunner}]
    BY <2>1 DEF TypeOK
  <2>3. locks' = [locks EXCEPT ![Home[r]] = Freed]
    BY DEF End, LetGo
  <2> HIDE DEF Freed
  <2> QED
    BY <2>1, <2>2, <2>3 DEF TypeOK
<1>2. permits' \in [Replica -> SUBSET Runner]
  BY KindAssumption DEF TypeOK, End, LetGo
<1> QED
  BY <1>1, <1>2, KindAssumption, BoundAssumption, ClockAssumption DEF TypeOK, End, Goto, Pc

-----------------------------------------------------------------------------
\* Which steps write what.

\* Steps of a run that move nothing but its control, a permit or the budget.
ControlStep(r) ==
    \/ r \in Worker /\ NoCredentials(r)
    \/ AcquirePermit(r) \/ FetchFails(r) \/ SelectClaim(r) \/ ClaimError(r)
    \/ Analyse(r) \/ AnalyseFails(r) \/ CheckPosted(r) \/ PostFails(r)
    \/ WrapUp(r) \/ TimeOut(r)

\* Where such a step leads.
Edge(s, t) ==
    \/ s = "permit" /\ t \in {"lock", "markFailed"}
    \/ s \in Timed /\ t \in {"finish", "release"}
    \/ s \in {"select", "upsert"} /\ t \in {"upsert", "review"}
    \/ s \in Reviewing /\ t \in Reviewing

\* A control step follows an edge and leaves rows, GitHub, locks and the rest of
\* the run alone.
LEMMA ControlSteps ==
  ASSUME NEW r \in Runner, ControlStep(r)
  PROVE  /\ UNCHANGED <<jobs, leases, github, hook, finished, run, locks>>
         /\ \E t \in Pc : Edge(pc[r], t) /\ pc' = [pc EXCEPT ![r] = t]
<1> DEFINE Leads(t) == t \in Pc /\ Edge(pc[r], t) /\ pc' = [pc EXCEPT ![r] = t]
<1>1. UNCHANGED <<jobs, leases, github, hook, finished, run, locks>>
  BY DEF ControlStep, NoCredentials, AcquirePermit, FetchFails, Fail, SelectClaim, ClaimError,
     Analyse, AnalyseFails, CheckPosted, PostFails, WrapUp, TimeOut, held
<1>2. ASSUME NoCredentials(r) PROVE Leads("markFailed")
  BY <1>2 DEF NoCredentials, Goto, Edge, Pc
<1>3. ASSUME AcquirePermit(r) PROVE Leads("lock")
  BY <1>3 DEF AcquirePermit, Goto, Edge, Pc
<1>4. ASSUME FetchFails(r) \/ AnalyseFails(r) \/ TimeOut(r) PROVE Leads("release")
  BY <1>4 DEF FetchFails, AnalyseFails, TimeOut, Fail, Goto, Edge, Pc, Timed
<1>5. ASSUME SelectClaim(r) PROVE Leads("finish") \/ Leads("upsert")
  BY <1>5 DEF SelectClaim, Goto, Edge, Pc, Timed
<1>6. ASSUME ClaimError(r) PROVE Leads("review")
  BY <1>6 DEF ClaimError, Goto, Edge, Pc, Timed
<1>7. ASSUME Analyse(r) PROVE Leads("complete") \/ Leads("check")
  BY <1>7 DEF Analyse, Goto, Edge, Pc, Timed, Reviewing
<1>8. ASSUME CheckPosted(r) PROVE Leads("complete") \/ Leads("post")
  BY <1>8 DEF CheckPosted, Goto, Edge, Pc, Timed, Reviewing
<1>9. ASSUME PostFails(r) PROVE Leads("release") \/ Leads("complete")
  BY <1>9 DEF PostFails, Goto, Edge, Pc, Timed, Reviewing
<1>10. ASSUME WrapUp(r) PROVE Leads("finish")
  BY <1>10 DEF WrapUp, Goto, Edge, Pc, Timed
<1> HIDE DEF Leads
<1>11. \E t : Leads(t)
  BY <1>2, <1>3, <1>4, <1>5, <1>6, <1>7, <1>8, <1>9, <1>10 DEF ControlStep
<1> QED
  BY <1>1, <1>11 DEF Leads

\* Every step, with the control steps taken together.
LEMMA Steps ==
  ASSUME Next
  PROVE  \/ \E c \in Commit : Push(c) \/ Enqueue(c)
         \/ \E p \in Pr : Redeliver(p) \/ MarkReady(p) \/ HumanReview(p) \/ Toggle(p)
         \/ \E r \in Commander, p \in Pr : Command(r, p)
         \/ \E r \in Inline, c \in Commit : EnqueueFails(c, r)
         \/ \E r \in Worker, c \in Commit : ClaimNext(r, c)
         \/ \E r \in Worker : MarkFailed(r) \/ Requeue(r)
         \/ \E r \in Runner : ControlStep(r)
         \/ \E r \in Runner : AcquireLock(r) \/ Fetch(r) \/ UpsertClaim(r) \/ ForceClaim(r)
         \/ \E r \in Runner : PostReview(r) \/ PostAnswerLost(r) \/ Complete(r)
         \/ \E r \in Runner : Finish(r) \/ Release(r)
         \/ \E i \in Replica : Crash(i)
         \/ Tick
<1>1. ASSUME NEW r \in Worker, QueueStep(r)
      PROVE  \/ \E c \in Commit : ClaimNext(r, c)
             \/ MarkFailed(r) \/ Requeue(r) \/ ControlStep(r)
  BY <1>1 DEF QueueStep, ControlStep
<1>2. ASSUME NEW r \in Runner, RunStep(r)
      PROVE  \/ ControlStep(r)
             \/ AcquireLock(r) \/ Fetch(r) \/ UpsertClaim(r) \/ ForceClaim(r)
             \/ PostReview(r) \/ PostAnswerLost(r) \/ Complete(r)
             \/ Finish(r) \/ Release(r)
  BY <1>2 DEF RunStep, ControlStep
<1> QED
  BY <1>1, <1>2 DEF Next, Environment, Runner

-----------------------------------------------------------------------------
\* TypeOK.

\* The initial state has the types.
LEMMA InitType == Init => TypeOK
<1> SUFFICES ASSUME Init PROVE TypeOK
  OBVIOUS
<1>1. jobs \in [Commit -> Job]
  BY BoundAssumption, ClockAssumption DEF Init, Job, Status, AgeCap
<1>2. leases \in [Pr -> Lease]
  BY NoLeaseRow DEF Init
<1>3. posted \in [Commit -> 0..MaxPosted]
  BY BoundAssumption DEF Init
<1>4. tries \in [Runner -> 0..MaxAttempts] /\ spent \in [Runner -> 0..Timeout]
  BY BoundAssumption, ClockAssumption DEF Init
<1>5. pc \in [Runner -> Pc] /\ left \in Nat
  BY BoundAssumption DEF Init, Pc
<1> QED
  BY <1>1, <1>2, <1>3, <1>4, <1>5 DEF Init, TypeOK

\* Job rows stay job rows.
LEMMA JobsType == ASSUME TypeOK, Next PROVE jobs' \in [Commit -> Job]
<1> jobs \in [Commit -> Job]
  BY DEF TypeOK
<1>1. ASSUME NEW c \in Commit, Enqueue(c) PROVE jobs' \in [Commit -> Job]
  <2>1. ASSUME jobs[c].status # "absent" PROVE Enqueued(c) \in Job
    BY <2>1, WrittenRow DEF Enqueued, Job, Status
  <2>2. Enqueued(c) \in Job
    BY <2>1, NewRow DEF Enqueued
  <2> QED
    BY <1>1, <2>2 DEF Enqueue
<1>2. ASSUME NEW r \in Worker, NEW c \in Commit, ClaimNext(r, c) PROVE jobs' \in [Commit -> Job]
  <2>1. OneMore(jobs[c].attempts, MaxAttempts) \in 0..MaxAttempts
    BY BoundAssumption DEF OneMore, Job
  <2>2. Written(jobs[c], "running", OneMore(jobs[c].attempts, MaxAttempts)) \in Job
    BY <2>1, WrittenRow DEF Status
  <2> QED
    BY <1>2, <2>2 DEF ClaimNext
<1>3. ASSUME NEW r \in Runner, MarkFailed(r) \/ Requeue(r) \/ Finish(r)
      PROVE  jobs' \in [Commit -> Job]
  <2>1. \A s \in {"done", "failed", "pending"} : SetStatus(job[r], s) \in [Commit -> Job]
    BY SetStatusRows DEF Status
  <2> QED
    BY <1>3, <2>1 DEF MarkFailed, Requeue, Finish
<1>4. ASSUME Tick PROVE jobs' \in [Commit -> Job]
  <2>1. ASSUME NEW c \in Commit PROVE [jobs[c] EXCEPT !.age = OneMore(@, AgeCap)] \in Job
    BY ClockAssumption DEF Job, OneMore, AgeCap
  <2> QED
    BY <1>4, <2>1 DEF Tick
<1>5. ASSUME UNCHANGED jobs PROVE jobs' \in [Commit -> Job]
  BY <1>5
<1> QED
  BY <1>1, <1>2, <1>3, <1>4, <1>5, Steps, ControlSteps
  DEF Runner, Push, Redeliver, MarkReady, HumanReview, Toggle, Command, EnqueueFails, AcquireLock,
      Fetch, UpsertClaim, ForceClaim, PostReview, PostAnswerLost, Complete, Release, Crash

\* The steps that write the lease table or count a commit as reviewed.
LEMMA LeaseWriters ==
  ASSUME Next
  PROVE  \/ UNCHANGED <<leases, finished>>
         \/ \E r \in Runner : UpsertClaim(r) \/ ForceClaim(r) \/ Complete(r) \/ Release(r)
         \/ \E i \in Replica : Crash(i)
         \/ Tick
  BY Steps, ControlSteps
  DEF Push, Enqueue, Redeliver, MarkReady, HumanReview, Toggle, Command, EnqueueFails, ClaimNext,
      MarkFailed, Requeue, AcquireLock, Fetch, PostReview, PostAnswerLost, Finish

\* Lease rows stay lease rows.
LEMMA LeasesType == ASSUME TypeOK, Next PROVE leases' \in [Pr -> Lease]
<1> leases \in [Pr -> Lease]
  BY DEF TypeOK
<1>1. ASSUME NEW r \in Runner, UpsertClaim(r) \/ ForceClaim(r) \/ Complete(r)
      PROVE  leases' \in [Pr -> Lease]
  <2>1. OwnLease(r, "in_progress") \in Lease /\ OwnLease(r, "completed") \in Lease
    BY OwnLeaseRow
  <2> QED
    BY <1>1, <2>1 DEF UpsertClaim, ForceClaim, Complete
<1>2. ASSUME NEW r \in Runner, Release(r) PROVE leases' \in [Pr -> Lease]
  BY <1>2, NoLeaseRow DEF Release
<1>3. ASSUME NEW i \in Replica, Crash(i) PROVE leases' \in [Pr -> Lease]
  BY <1>3, LeaseOrphaned DEF Crash
<1>4. ASSUME Tick PROVE leases' \in [Pr -> Lease]
  <2>1. ASSUME NEW q \in Pr PROVE [leases[q] EXCEPT !.age = OneMore(@, AgeCap)] \in Lease
    <3>1. leases[q] \in Lease /\ leases[q].age \in 0..AgeCap
      BY DEF Lease
    <3>2. OneMore(leases[q].age, AgeCap) \in 0..AgeCap
      BY <3>1, ClockAssumption DEF OneMore, AgeCap
    <3> QED
      BY <3>1, <3>2, LeaseAged
  <2> QED
    BY <1>4, <2>1 DEF Tick
<1>5. ASSUME UNCHANGED leases PROVE leases' \in [Pr -> Lease]
  BY <1>5
<1> QED
  BY <1>1, <1>2, <1>3, <1>4, <1>5, LeaseWriters

\* The budget of disturbances never goes below zero.
LEMMA BudgetType == ASSUME TypeOK, Next PROVE left' \in Nat
<1> left \in Nat
  BY DEF TypeOK
<1>1. ASSUME NEW k, Spend(k) PROVE left' \in Nat
  BY <1>1 DEF Spend
<1>2. ASSUME NEW ok, Ran(ok) PROVE left' \in Nat
  BY <1>1, <1>2 DEF Ran
<1>3. ASSUME UNCHANGED left PROVE left' \in Nat
  BY <1>3
<1>4. ASSUME NEW r \in Runner, ControlStep(r) PROVE left' \in Nat
  BY <1>1, <1>3, <1>4
  DEF ControlStep, NoCredentials, AcquirePermit, FetchFails, Fail, SelectClaim, ClaimError, Analyse,
      AnalyseFails, CheckPosted, PostFails, WrapUp, TimeOut
<1>5. ASSUME NEW r \in Runner, MarkFailed(r) \/ Requeue(r) \/ Complete(r) \/ Finish(r) \/ Release(r)
      PROVE  left' \in Nat
  BY <1>2, <1>3, <1>5 DEF MarkFailed, Requeue, Complete, Finish, Release
<1> QED
  BY <1>1, <1>3, <1>4, <1>5, Steps
  DEF Runner, Push, Enqueue, Redeliver, MarkReady, HumanReview, Toggle, Command, EnqueueFails,
      ClaimNext, AcquireLock, Fetch, UpsertClaim, ForceClaim, PostReview, PostAnswerLost, Crash,
      Tick

\* Every step keeps the types.
LEMMA TypeStep == ASSUME TypeOK, Located, Next PROVE TypeOK'
<1> USE KindAssumption DEF TypeOK
<1>1. jobs' \in [Commit -> Job] /\ leases' \in [Pr -> Lease] /\ left' \in Nat
  BY JobsType, LeasesType, BudgetType
<1>2. ASSUME NEW c \in Commit, Push(c) \/ Enqueue(c) PROVE TypeOK'
  <2>1. CASE Push(c)
    BY <1>1, <2>1 DEF Push, run, held
  <2>2. CASE Enqueue(c)
    BY <1>1, <2>2 DEF Enqueue, github, run, held
  <2> QED
    BY <1>2, <2>1, <2>2
<1>3. ASSUME NEW p \in Pr, Redeliver(p) \/ MarkReady(p) \/ HumanReview(p) \/ Toggle(p) PROVE TypeOK'
  <2>1. CASE Redeliver(p)
    BY <1>1, <2>1 DEF Redeliver, github, run, held
  <2>2. CASE MarkReady(p)
    BY <1>1, <2>2 DEF MarkReady, run, held
  <2>3. CASE HumanReview(p)
    BY <1>1, <2>3 DEF HumanReview, run, held
  <2>4. CASE Toggle(p)
    BY <1>1, <2>4 DEF Toggle, run, held
  <2> QED
    BY <1>3, <2>1, <2>2, <2>3, <2>4
<1>4. ASSUME NEW r \in Commander, NEW p \in Pr, Command(r, p) PROVE TypeOK'
  BY <1>1, <1>4 DEF Command, Goto, Pc, github, held, Runner
<1>5. ASSUME NEW r \in Inline, NEW c \in Commit, EnqueueFails(c, r) PROVE TypeOK'
  <2>1. pc' \in [Runner -> Pc]
    BY <1>5 DEF EnqueueFails, Goto, Pc
  <2> QED
    BY <1>1, <1>5, <2>1 DEF EnqueueFails, github, held, Runner
<1>6. ASSUME NEW r \in Worker, NEW c \in Commit, ClaimNext(r, c) PROVE TypeOK'
  <2>1. tries' \in [Runner -> 0..MaxAttempts]
    BY <1>1, <1>6 DEF ClaimNext, Job
  <2> QED
    BY <1>1, <1>6, <2>1 DEF ClaimNext, Goto, Pc, github, held, Runner
<1>7. ASSUME NEW r \in Runner, MarkFailed(r) PROVE TypeOK'
  BY <1>1, <1>7 DEF MarkFailed, Goto, Pc, github, run, held
<1>8. ASSUME NEW r \in Runner, Requeue(r) \/ Finish(r) PROVE TypeOK'
  <2>1. End(r)
    BY <1>8 DEF Requeue, Finish
  <2> HIDE DEF TypeOK
  <2>2. TypeOK
    OBVIOUS
  <2> QED
    BY <1>1, <1>8, <2>1, <2>2, EndType DEF TypeOK, Requeue, Finish, github
<1>9. ASSUME NEW r \in Runner, Release(r) PROVE TypeOK'
  <2>2. CASE r \in Worker
    BY <1>1, <1>9, <2>2 DEF Release, Goto, Pc, github, run, held
  <2>3. CASE r \notin Worker
    <3>1. End(r)
      BY <1>9, <2>3 DEF Release
    <3> HIDE DEF TypeOK
    <3>2. TypeOK
      OBVIOUS
    <3> QED
      BY <1>1, <1>9, <3>1, <3>2, EndType DEF TypeOK, Release, github
  <2> QED
    BY <2>2, <2>3
<1>10. ASSUME NEW r \in Runner, ControlStep(r) PROVE TypeOK'
  <2>1. pc' \in [Runner -> Pc]
    BY <1>10, ControlSteps
  <2>2. permits' \in [Replica -> SUBSET Runner]
    <3>1. CASE AcquirePermit(r)
      BY <3>1 DEF AcquirePermit
    <3>2. CASE UNCHANGED permits
      BY <3>2
    <3> QED
      BY <1>10, <3>1, <3>2
      DEF ControlStep, NoCredentials, FetchFails, Fail, SelectClaim, ClaimError, Analyse,
          AnalyseFails, CheckPosted, PostFails, WrapUp, TimeOut, held
  <2> QED
    BY <1>1, <1>10, <2>1, <2>2, ControlSteps DEF github, run
<1>11. ASSUME NEW r \in Runner, AcquireLock(r) \/ Fetch(r) PROVE TypeOK'
  <2>1. CASE AcquireLock(r)
    BY <1>1, <2>1 DEF AcquireLock, Goto, Pc, Timed, github, run
  <2>2. CASE Fetch(r)
    <3>1. target' \in [Runner -> Commit \cup {NoCommit}]
      BY <2>2 DEF Fetch, Located, RunLocated
    <3> QED
      BY <1>1, <2>2, <3>1 DEF Fetch, Goto, Pc, Timed, github, held
  <2> QED
    BY <1>11, <2>1, <2>2
<1>12. ASSUME NEW r \in Runner, UpsertClaim(r) \/ ForceClaim(r) PROVE TypeOK'
  <2>1. CASE UpsertClaim(r)
    BY <1>1, <2>1 DEF UpsertClaim, Goto, Pc, Timed, github, held
  <2>2. CASE ForceClaim(r)
    BY <1>1, <2>2 DEF ForceClaim, Goto, Pc, Timed, github, held
  <2> QED
    BY <1>12, <2>1, <2>2
<1>13. ASSUME NEW r \in Runner, PostReview(r) \/ PostAnswerLost(r) PROVE TypeOK'
  <2>1. Posted(r) /\ pc[r] = "post"
    BY <1>13 DEF PostReview, PostAnswerLost
  <2>2. \A n \in 0..MaxPosted : OneMore(n, MaxPosted) \in 0..MaxPosted
    BY BoundAssumption DEF OneMore
  <2>3. posted' \in [Commit -> 0..MaxPosted]
    BY <2>1, <2>2 DEF Posted
  <2>4. filed' \subseteq Commit
    BY <2>1 DEF Posted, Located, RunLocated
  <2>5. pc' \in [Runner -> Pc]
    BY <1>13 DEF PostReview, PostAnswerLost, Goto, Pc, Timed
  <2> QED
    BY <1>1, <1>13, <2>3, <2>4, <2>5 DEF PostReview, PostAnswerLost, run, held
<1>14. ASSUME NEW r \in Runner, Complete(r) PROVE TypeOK'
  <2>1. target[r] \in Commit
    BY <1>14 DEF Complete, Located, RunLocated, Reviewing
  <2> QED
    BY <1>1, <1>14, <2>1 DEF Complete, Goto, Pc, Timed, github, run, held
<1>15. ASSUME NEW i \in Replica, Crash(i) PROVE TypeOK'
  <2>1. /\ pc' \in [Runner -> Pc]
        /\ on' \in [Runner -> Pr \cup {NoPr}]
        /\ job' \in [Runner -> Commit \cup {NoCommit}]
        /\ tries' \in [Runner -> 0..MaxAttempts]
    BY <1>15, BoundAssumption DEF Crash, Pc
  <2>2. /\ target' \in [Runner -> Commit \cup {NoCommit}]
        /\ leased' \in [Runner -> BOOLEAN]
        /\ spent' \in [Runner -> 0..Timeout]
    BY <1>15, ClockAssumption DEF Crash
  <2>3. locks' \in [Replica -> [Pr -> Runner \cup {NoRunner}]]
    BY <1>15 DEF Crash
  <2>4. hook' \in [Commit -> {"unsent", "outstanding", "handled"}]
    BY <1>15 DEF Crash
  <2>5. permits' \in [Replica -> SUBSET Runner]
    BY <1>15 DEF Crash
  <2> QED
    BY <1>1, <1>15, <2>1, <2>2, <2>3, <2>4, <2>5 DEF Crash, github
<1>16. ASSUME Tick PROVE TypeOK'
  <2>1. spent' \in [Runner -> 0..Timeout]
    BY <1>16, ClockAssumption DEF Tick
  <2> QED
    BY <1>1, <1>16, <2>1 DEF Tick, github, held
<1> HIDE DEF TypeOK
<1> QED
  BY <1>2, <1>3, <1>4, <1>5, <1>6, <1>7, <1>8, <1>9, <1>10, <1>11, <1>12, <1>13, <1>14, <1>15,
     <1>16, Steps
  DEF Runner

-----------------------------------------------------------------------------
\* The other conjuncts of IInv.

\* A job row that was absent and is not any more was put there by an event.
LEMMA JobsAppear ==
  ASSUME TypeOK, Located, Next, NEW d \in Commit, jobs'[d].status # "absent"
  PROVE  jobs[d].status # "absent" \/ hook[d] # "unsent" \/ head[PrOf[d]] # NoCommit
<1> USE DEF TypeOK
<1>1. ASSUME NEW c \in Commit, Enqueue(c) PROVE jobs[d].status # "absent" \/ hook[d] # "unsent"
  BY <1>1 DEF Enqueue
<1>2. ASSUME NEW r \in Worker, NEW c \in Commit, ClaimNext(r, c) PROVE jobs[d].status # "absent"
  BY <1>2 DEF ClaimNext, Claimable, Pending, StaleRunning
<1>3. ASSUME NEW r \in Worker, MarkFailed(r) \/ Requeue(r) \/ Finish(r)
      PROVE  jobs[d].status # "absent" \/ head[PrOf[d]] # NoCommit
  <2>1. jobs[d].status # "absent" \/ d = job[r]
    BY <1>3 DEF MarkFailed, Requeue, Finish, SetStatus
  <2>2. head[on[r]] # NoCommit
    BY <1>3 DEF MarkFailed, Requeue, Finish, Located, RunLocated, Runner
  <2> QED
    BY <2>1, <2>2, NoneAssumption DEF Located, RunLocated, Runner
<1>4. ASSUME Tick PROVE jobs[d].status # "absent"
  BY <1>4 DEF Tick
<1>5. ASSUME UNCHANGED jobs PROVE jobs[d].status # "absent"
  BY <1>5
<1> QED
  BY <1>1, <1>2, <1>3, <1>4, <1>5, Steps, ControlSteps
  DEF Push, Redeliver, MarkReady, HumanReview, Toggle, Command, EnqueueFails, AcquireLock, Fetch,
      UpsertClaim, ForceClaim, PostReview, PostAnswerLost, Complete, Finish, Release, Crash

\* Pull requests keep having a head commit, of their own.
LEMMA HeadsStay ==
  ASSUME TypeOK, Located, Next
  PROVE  \A p \in Pr : /\ head[p] # NoCommit => head'[p] # NoCommit
                       /\ head'[p] # NoCommit => PrOf[head'[p]] = p
<1>1. ASSUME NEW c \in Commit, Push(c)
      PROVE  \A p \in Pr : /\ head[p] # NoCommit => head'[p] # NoCommit
                           /\ head'[p] # NoCommit => PrOf[head'[p]] = p
  BY <1>1, KindAssumption, NoneAssumption DEF TypeOK, Located, RunLocated, Push
<1>2. CASE UNCHANGED head
  BY <1>2 DEF Located, RunLocated
<1> QED
  BY <1>1, <1>2, Steps, ControlSteps
  DEF github, Enqueue, Redeliver, MarkReady, HumanReview, Toggle, Command, EnqueueFails, ClaimNext,
      MarkFailed, Requeue, AcquireLock, Fetch, UpsertClaim, ForceClaim, PostReview, PostAnswerLost,
      Complete, Finish, Release, Crash, Tick

\* An event is sent for a commit that is, or was, a head.
LEMMA EventsHaveHeads ==
  ASSUME TypeOK, Located, Next, NEW d \in Commit, hook'[d] # "unsent"
  PROVE  head'[PrOf[d]] # NoCommit
<1> USE KindAssumption, NoneAssumption DEF TypeOK
<1>1. ASSUME hook[d] # "unsent" PROVE head'[PrOf[d]] # NoCommit
  BY <1>1, HeadsStay DEF Located, RunLocated
<1>2. ASSUME NEW c \in Commit, Push(c) PROVE hook[d] # "unsent" \/ head'[PrOf[d]] # NoCommit
  BY <1>2 DEF Push
<1>3. ASSUME NEW p \in Pr, Redeliver(p) \/ MarkReady(p)
      PROVE  hook[d] # "unsent" \/ head[PrOf[d]] # NoCommit
  BY <1>3 DEF Redeliver, MarkReady, Located, RunLocated
<1>4. ASSUME NEW c \in Commit, Enqueue(c) \/ \E r \in Inline : EnqueueFails(c, r)
      PROVE  hook[d] # "unsent"
  BY <1>4 DEF Enqueue, EnqueueFails
<1>5. ASSUME NEW i \in Replica, Crash(i) PROVE hook[d] # "unsent"
  BY <1>5 DEF Crash
<1>6. ASSUME UNCHANGED hook PROVE hook[d] # "unsent"
  BY <1>6
<1>7. \/ \E c \in Commit : Push(c) \/ Enqueue(c) \/ \E r \in Inline : EnqueueFails(c, r)
      \/ \E p \in Pr : Redeliver(p) \/ MarkReady(p)
      \/ \E i \in Replica : Crash(i)
      \/ UNCHANGED hook
  BY Steps, ControlSteps
  DEF HumanReview, Toggle, Command, ClaimNext, MarkFailed, Requeue, AcquireLock, Fetch, UpsertClaim,
      ForceClaim, PostReview, PostAnswerLost, Complete, Finish, Release, Tick
<1>8. head[PrOf[d]] # NoCommit => head'[PrOf[d]] # NoCommit
  BY HeadsStay
<1> QED
  BY <1>1, <1>2, <1>3, <1>4, <1>5, <1>6, <1>7, <1>8

\* A run stays located: starting, its target, its end, a crash.
LEMMA RunsStep == ASSUME TypeOK, Located, Next, NEW q \in Runner PROVE RunLocated(q)'
<1> USE KindAssumption, NoneAssumption DEF TypeOK
<1> RunLocated(q)
  BY DEF Located
<1>1. \A p \in Pr : head[p] # NoCommit => head'[p] # NoCommit
  BY HeadsStay
<1>2. ASSUME UNCHANGED <<pc, on, job, target>> PROVE RunLocated(q)'
  BY <1>1, <1>2 DEF RunLocated
<1>3. ASSUME NEW r \in Commander, NEW p \in Pr, Command(r, p) PROVE RunLocated(q)'
  BY <1>3 DEF Command, Goto, github, Runner, RunLocated, Reviewing
<1>4. ASSUME NEW r \in Inline, NEW c \in Commit, EnqueueFails(c, r) PROVE RunLocated(q)'
  BY <1>4 DEF EnqueueFails, Goto, github, Runner, Located, RunLocated, Reviewing
<1>5. ASSUME NEW r \in Worker, NEW c \in Commit, ClaimNext(r, c) PROVE RunLocated(q)'
  <2>1. jobs[c].status # "absent"
    BY <1>5 DEF ClaimNext, Claimable, Pending, StaleRunning
  <2>2. head[PrOf[c]] # NoCommit /\ PrOf[c] \in Pr
    BY <2>1 DEF Located
  <2> HIDE DEF TypeOK
  <2>3. CASE q = r
    <3>1. /\ pc'[r] = "permit" /\ on'[r] = PrOf[c] /\ job'[r] = c
          /\ target'[r] = NoCommit /\ UNCHANGED head
      BY <1>5 DEF ClaimNext, Goto, github, TypeOK, Runner, RunLocated, Located
    <3> QED
      BY <2>2, <2>3, <3>1 DEF RunLocated, Reviewing
  <2>4. CASE q # r
    <3>1. /\ pc'[q] = pc[q] /\ on'[q] = on[q] /\ job'[q] = job[q]
          /\ target'[q] = target[q] /\ UNCHANGED head
      BY <1>5, <2>4 DEF ClaimNext, Goto, github, TypeOK
    <3> QED
      BY <3>1 DEF RunLocated
  <2> QED
    BY <2>3, <2>4
<1>6. ASSUME NEW r \in Runner, ControlStep(r) PROVE RunLocated(q)'
  <2>1. UNCHANGED <<head, on, job, target>>
    BY <1>6, ControlSteps DEF github, run
  <2>2. PICK t \in Pc : Edge(pc[r], t) /\ pc' = [pc EXCEPT ![r] = t]
    BY <1>6, ControlSteps
  <2> QED
    BY <2>1, <2>2 DEF RunLocated, Edge, Timed, Reviewing
<1>7. ASSUME NEW r \in Runner, End(r), UNCHANGED head PROVE RunLocated(q)'
  BY <1>7 DEF End, Goto, RunLocated, Reviewing
<1>8. ASSUME NEW r \in Runner, NEW t, pc[r] # "idle", Goto(r, t), UNCHANGED <<head, on, job, target>>,
             t # "idle",
             t \in Reviewing \cup {"select", "upsert", "wrapup"} => target[r] # NoCommit
      PROVE  RunLocated(q)'
  BY <1>8 DEF Goto, RunLocated
<1>9. ASSUME NEW r \in Runner, Fetch(r) PROVE RunLocated(q)'
  BY <1>9 DEF Fetch, Goto, Skipped, github, Located, RunLocated, Reviewing
<1>10. ASSUME NEW i \in Replica, Crash(i) PROVE RunLocated(q)'
  BY <1>10 DEF Crash, github, RunLocated, Reviewing
<1>11. ASSUME NEW r \in Runner, AcquireLock(r) \/ MarkFailed(r) PROVE RunLocated(q)'
  BY <1>8, <1>11 DEF AcquireLock, MarkFailed, Reviewing, github, run
<1>12. ASSUME NEW r \in Runner, UpsertClaim(r) \/ ForceClaim(r) PROVE RunLocated(q)'
  <2>1. target[r] # NoCommit /\ pc[r] # "idle" /\ UNCHANGED <<head, on, job, target>>
    BY <1>12 DEF UpsertClaim, ForceClaim, Located, RunLocated, github
  <2>2. Goto(r, "review") \/ Goto(r, "finish")
    BY <1>12 DEF UpsertClaim, ForceClaim
  <2> QED
    BY <1>8, <2>1, <2>2
<1>13. ASSUME NEW r \in Runner, PostReview(r) \/ Complete(r) PROVE RunLocated(q)'
  <2>1. target[r] # NoCommit /\ pc[r] # "idle" /\ UNCHANGED <<head, on, job, target>>
    BY <1>13 DEF PostReview, Complete, Located, RunLocated, Reviewing, github, run
  <2>2. Goto(r, "complete") \/ Goto(r, "wrapup")
    BY <1>13 DEF PostReview, Complete
  <2> QED
    BY <1>8, <2>1, <2>2
<1>14. ASSUME NEW r \in Runner, Finish(r) \/ Release(r) \/ Requeue(r) PROVE RunLocated(q)'
  <2>1. UNCHANGED head
    BY <1>14 DEF Finish, Release, Requeue, github
  <2>2. End(r) \/ (pc[r] = "release" /\ Goto(r, "markFailed") /\ UNCHANGED <<on, job, target>>)
    BY <1>14 DEF Finish, Release, Requeue, run
  <2> QED
    BY <1>7, <1>8, <2>1, <2>2 DEF Reviewing
<1> HIDE DEF TypeOK
<1> QED
  BY <1>2, <1>3, <1>4, <1>5, <1>6, <1>9, <1>10, <1>11, <1>12, <1>13, <1>14, Steps
  DEF Runner, run, Push, Enqueue, Redeliver, MarkReady, HumanReview, Toggle, PostAnswerLost, Tick

\* Runs, events and jobs stay located.
LEMMA LocatedStep == ASSUME TypeOK, Located, Next PROVE Located'
<1>1. ASSUME NEW d \in Commit, jobs'[d].status # "absent" PROVE head'[PrOf[d]] # NoCommit
  <2>1. head[PrOf[d]] # NoCommit
    BY <1>1, JobsAppear DEF Located
  <2> QED
    BY <2>1, HeadsStay, KindAssumption
<1> QED
  BY <1>1, HeadsStay, EventsHaveHeads, RunsStep DEF Located

\* Only AcquireLock takes a lock, only from nobody, and only the end of the run
\* that holds it, or the end of its process, gives it back.
LEMMA LockStep == ASSUME TypeOK, Located, LockHeld, Next PROVE LockHeld'
<1> USE KindAssumption, NoneAssumption DEF TypeOK
<1>1. ASSUME UNCHANGED <<pc, on, locks>> PROVE LockHeld'
  BY <1>1 DEF LockHeld
<1>2. ASSUME NEW r \in Runner, ControlStep(r) PROVE LockHeld'
  <2>1. UNCHANGED <<on, locks>>
    BY <1>2, ControlSteps DEF run
  <2>2. PICK t \in Pc : Edge(pc[r], t) /\ pc' = [pc EXCEPT ![r] = t]
    BY <1>2, ControlSteps
  <2> QED
    BY <2>1, <2>2 DEF LockHeld, Edge, Timed, Reviewing
<1>3. ASSUME NEW r \in Runner, NEW p, NEW t \in {"permit", "markFailed", "requeue"},
             Goto(r, t), on' = [on EXCEPT ![r] = p], UNCHANGED locks
      PROVE  LockHeld'
  BY <1>3 DEF Goto, LockHeld, Timed
<1>4. ASSUME NEW r \in Runner, NEW p \in Pr, Command(r, p) PROVE LockHeld'
  BY <1>3, <1>4 DEF Command, held
<1>5. ASSUME NEW r \in Runner, NEW c \in Commit, EnqueueFails(c, r) \/ ClaimNext(r, c) PROVE LockHeld'
  BY <1>3, <1>5 DEF EnqueueFails, ClaimNext, held
<1>6. ASSUME NEW r \in Runner, MarkFailed(r) PROVE LockHeld'
  BY <1>6 DEF MarkFailed, Goto, run, held, LockHeld, Timed
<1>7. ASSUME NEW r \in Runner, End(r) PROVE LockHeld'
  BY <1>7 DEF End, LetGo, Goto, LockHeld, Timed, Located, RunLocated
<1>8. ASSUME NEW r \in Runner, Requeue(r) \/ Finish(r) \/ Release(r) PROVE LockHeld'
  <2>1. End(r) \/ (Goto(r, "markFailed") /\ UNCHANGED <<on, locks>>)
    BY <1>8 DEF Requeue, Finish, Release, run, held
  <2> QED
    BY <1>7, <2>1 DEF Goto, LockHeld, Timed
<1>9. ASSUME NEW r \in Runner, AcquireLock(r) PROVE LockHeld'
  BY <1>9 DEF AcquireLock, Goto, run, LockHeld, Timed, Located, RunLocated
<1>10. ASSUME NEW r \in Runner, Fetch(r) PROVE LockHeld'
  BY <1>10 DEF Fetch, Goto, held, LockHeld, Timed
<1>11. ASSUME NEW r \in Runner, UpsertClaim(r) \/ ForceClaim(r) \/ Complete(r) PROVE LockHeld'
  <2>1. pc[r] \in Timed /\ UNCHANGED <<on, locks>>
    BY <1>11 DEF UpsertClaim, ForceClaim, Complete, Timed, run, held
  <2>2. Goto(r, "review") \/ Goto(r, "finish") \/ Goto(r, "wrapup")
    BY <1>11 DEF UpsertClaim, ForceClaim, Complete
  <2> QED
    BY <2>1, <2>2 DEF Goto, LockHeld
<1>12. ASSUME NEW r \in Runner, PostReview(r) PROVE LockHeld'
  BY <1>12 DEF PostReview, Goto, run, held, LockHeld, Timed
<1>13. ASSUME NEW i \in Replica, Crash(i) PROVE LockHeld'
  BY <1>13 DEF Crash, LockHeld, Timed
<1> HIDE DEF TypeOK
<1> QED
  BY <1>1, <1>2, <1>4, <1>5, <1>6, <1>8, <1>9, <1>10, <1>11, <1>12, <1>13, Steps
  DEF Runner, run, held, Push, Enqueue, Redeliver, MarkReady, HumanReview, Toggle, PostAnswerLost, Tick

\* leased is set by a claim and cleared by the end of the run.
LEMMA LeasedStep == ASSUME TypeOK, LeasedByClaim, Next PROVE LeasedByClaim'
<1> USE KindAssumption DEF TypeOK
<1>1. ASSUME UNCHANGED <<pc, leased>> PROVE LeasedByClaim'
  BY <1>1 DEF LeasedByClaim
<1>2. ASSUME NEW r \in Runner, ControlStep(r) PROVE LeasedByClaim'
  <2>1. UNCHANGED leased
    BY <1>2, ControlSteps DEF run
  <2>2. PICK t \in Pc : Edge(pc[r], t) /\ pc' = [pc EXCEPT ![r] = t]
    BY <1>2, ControlSteps
  <2> QED
    BY <2>1, <2>2 DEF LeasedByClaim, Edge, Reviewing
<1>3. ASSUME NEW r \in Runner, NEW t, Goto(r, t), UNCHANGED leased,
             pc[r] \in {"idle", "permit", "lock", "fetch"}
      PROVE  LeasedByClaim'
  BY <1>3 DEF Goto, LeasedByClaim
<1>4. ASSUME NEW r \in Runner, Goto(r, "review") \/ Goto(r, "finish"), NEW b \in BOOLEAN,
             leased' = [leased EXCEPT ![r] = b]
      PROVE  LeasedByClaim'
  BY <1>4 DEF Goto, LeasedByClaim
<1>5. ASSUME NEW r \in Runner, NEW t \in {"complete", "wrapup", "markFailed", "requeue"},
             Goto(r, t), UNCHANGED leased
      PROVE  LeasedByClaim'
  BY <1>5 DEF Goto, LeasedByClaim
<1>6. ASSUME NEW r \in Runner, End(r) PROVE LeasedByClaim'
  BY <1>6 DEF End, Goto, LeasedByClaim
<1>7. ASSUME NEW r \in Runner, NEW p \in Pr, Command(r, p) PROVE LeasedByClaim'
  BY <1>3, <1>7 DEF Command
<1>8. ASSUME NEW r \in Runner, NEW c \in Commit, EnqueueFails(c, r) \/ ClaimNext(r, c)
      PROVE  LeasedByClaim'
  BY <1>3, <1>8 DEF EnqueueFails, ClaimNext
<1>9. ASSUME NEW r \in Runner, AcquireLock(r) \/ Fetch(r) PROVE LeasedByClaim'
  BY <1>3, <1>9 DEF AcquireLock, Fetch, run
<1>10. ASSUME NEW r \in Runner, UpsertClaim(r) \/ ForceClaim(r) PROVE LeasedByClaim'
  BY <1>4, <1>10 DEF UpsertClaim, ForceClaim, Goto, LeasedByClaim
<1>11. ASSUME NEW r \in Runner, PostReview(r) \/ Complete(r) \/ MarkFailed(r) PROVE LeasedByClaim'
  BY <1>5, <1>11 DEF PostReview, Complete, MarkFailed, run
<1>12. ASSUME NEW r \in Runner, Requeue(r) \/ Finish(r) \/ Release(r) PROVE LeasedByClaim'
  BY <1>5, <1>6, <1>12 DEF Requeue, Finish, Release, run
<1>13. ASSUME NEW i \in Replica, Crash(i) PROVE LeasedByClaim'
  BY <1>13 DEF Crash, LeasedByClaim
<1> HIDE DEF TypeOK
<1> QED
  BY <1>1, <1>2, <1>7, <1>8, <1>9, <1>10, <1>11, <1>12, <1>13, Steps
  DEF Runner, run, Push, Enqueue, Redeliver, MarkReady, HumanReview, Toggle, PostAnswerLost, Tick

\* Only Complete completes a row, for a commit it counts as reviewed.
LEMMA EarnedStep == ASSUME TypeOK, Located, CompletedLeaseIsEarned, Next PROVE CompletedLeaseIsEarned'
<1> USE KindAssumption DEF TypeOK
<1>1. ASSUME UNCHANGED <<leases, finished>> PROVE CompletedLeaseIsEarned'
  BY <1>1 DEF CompletedLeaseIsEarned
<1>2. ASSUME NEW r \in Runner, UpsertClaim(r) \/ ForceClaim(r) PROVE CompletedLeaseIsEarned'
  <2>1. UNCHANGED finished
    BY <1>2 DEF UpsertClaim, ForceClaim
  <2>2. ASSUME NEW p \in Pr
        PROVE  leases'[p] = leases[p] \/ leases'[p].status = "in_progress"
    BY <1>2 DEF UpsertClaim, ForceClaim, OwnLease
  <2> QED
    BY <2>1, <2>2 DEF CompletedLeaseIsEarned
<1>3. ASSUME NEW r \in Runner, Complete(r) PROVE CompletedLeaseIsEarned'
  <2>1. finished' = finished \cup {target[r]}
    BY <1>3 DEF Complete
  <2>2. ASSUME NEW p \in Pr
        PROVE  leases'[p] = leases[p] \/ leases'[p].commit = target[r]
    BY <1>3 DEF Complete, OwnLease
  <2> QED
    BY <2>1, <2>2 DEF CompletedLeaseIsEarned
<1>4. ASSUME NEW r \in Runner, Release(r) PROVE CompletedLeaseIsEarned'
  <2>1. UNCHANGED finished
    BY <1>4 DEF Release
  <2>2. ASSUME NEW p \in Pr PROVE leases'[p] = leases[p] \/ leases'[p].status = "free"
    BY <1>4 DEF Release, NoLease
  <2> QED
    BY <2>1, <2>2 DEF CompletedLeaseIsEarned
<1>5. ASSUME NEW i \in Replica, Crash(i) PROVE CompletedLeaseIsEarned'
  BY <1>5 DEF Crash, CompletedLeaseIsEarned, Lease
<1>6. ASSUME Tick PROVE CompletedLeaseIsEarned'
  BY <1>6 DEF Tick, CompletedLeaseIsEarned, Lease
<1> HIDE DEF TypeOK
<1> QED
  BY <1>1, <1>2, <1>3, <1>4, <1>5, <1>6, LeaseWriters

\* A claim writes age 0; after that row and run age together, and a row another
\* run wrote names another owner, since one replica has one run on the row.
LEMMA YoungStep == ASSUME IInv, Next PROVE LeaseYoungerThanRun'
<1> DEFINE Concerns(q) ==
             LET l == leases[on[q]]
             IN  /\ pc[q] \in Reviewing /\ leased[q] /\ l.commit = target[q]
                 /\ l.status = "in_progress" /\ l.owner = Home[q]
           Young(q) == Concerns(q) => leases[on[q]].age <= spent[q]
           Keeps(q) == /\ pc'[q] = pc[q] /\ on'[q] = on[q] /\ target'[q] = target[q]
                       /\ leased'[q] = leased[q] /\ spent'[q] = spent[q]
<1> TypeOK /\ Located /\ LockHeld /\ LeasedByClaim
  BY DEF IInv
<1> USE KindAssumption, NoneAssumption DEF TypeOK
<1> SUFFICES ASSUME NEW q \in Runner PROVE Young(q)'
  BY DEF LeaseYoungerThanRun
<1>0. Young(q) /\ (pc[q] \in Reviewing => on[q] \in Pr)
  BY DEF IInv, LeaseYoungerThanRun, Located, RunLocated, Reviewing
<1>1. ASSUME UNCHANGED leases, Keeps(q) PROVE Young(q)'
  BY <1>0, <1>1
<1>2. ASSUME pc'[q] \notin Reviewing PROVE Young(q)'
  BY <1>2
<1>3. ASSUME NEW r \in Runner, ControlStep(r) PROVE Young(q)'
  <2>1. UNCHANGED <<leases, on, target, leased, spent>>
    BY <1>3, ControlSteps DEF run
  <2>2. PICK t \in Pc : Edge(pc[r], t) /\ pc' = [pc EXCEPT ![r] = t]
    BY <1>3, ControlSteps
  <2>3. pc'[q] \in Reviewing /\ leased[q] => pc[q] \in Reviewing
    BY <2>2 DEF Edge, Timed, Reviewing, LeasedByClaim
  <2> QED
    BY <1>0, <2>1, <2>3
<1>4. ASSUME NEW r \in Runner, UpsertClaim(r) \/ ForceClaim(r) PROVE Young(q)'
  <2>1. UNCHANGED <<on, target, spent>>
    BY <1>4 DEF UpsertClaim, ForceClaim
  <2>2. CASE /\ leases' = [leases EXCEPT ![on[r]] = OwnLease(r, "in_progress")]
             /\ q = r
    <3>1. on[r] \in Pr
      BY <1>4 DEF UpsertClaim, ForceClaim, Located, RunLocated
    <3>2. leases'[on[q]].age = 0
      BY <2>2, <3>1 DEF OwnLease
    <3> QED
      BY <2>1, <3>2, ClockAssumption
  <2>3. CASE /\ leases' = [leases EXCEPT ![on[r]] = OwnLease(r, "in_progress")]
             /\ q # r
    <3>1. Keeps(q)
      BY <1>4, <2>1, <2>3 DEF UpsertClaim, ForceClaim, Goto
    <3>2. CASE on[q] = on[r] /\ pc[q] \in Reviewing
      <4>1. Home[q] # Home[r]
        BY <1>4, <2>3, <3>2 DEF LockHeld, UpsertClaim, ForceClaim, Timed, Reviewing
      <4>2. leases'[on[q]].owner = Home[r]
        BY <1>0, <2>3, <3>2 DEF OwnLease
      <4> QED
        BY <2>1, <4>1, <4>2
    <3>3. CASE on[q] # on[r] /\ pc[q] \in Reviewing
      <4>1. leases'[on[q]] = leases[on[q]]
        BY <1>0, <2>3, <3>3
      <4> QED
        BY <1>0, <3>1, <4>1
    <3> QED
      BY <3>1, <3>2, <3>3, <1>2
  <2>4. CASE Goto(r, "finish") /\ UNCHANGED <<leases, leased>>
    BY <1>0, <2>1, <2>4 DEF Goto, Reviewing
  <2> QED
    BY <1>4, <2>2, <2>3, <2>4 DEF UpsertClaim, ForceClaim
<1>5. ASSUME NEW r \in Runner, Complete(r) PROVE Young(q)'
  <2>1. UNCHANGED <<on, target, leased, spent>> /\ (pc'[q] \in Reviewing => pc[q] \in Reviewing)
    BY <1>5 DEF Complete, Goto, run, Reviewing
  <2>2. ASSUME NEW p \in Pr PROVE leases'[p] = leases[p] \/ leases'[p].status = "completed"
    BY <1>5 DEF Complete, OwnLease
  <2> QED
    BY <1>0, <2>1, <2>2
<1>6. ASSUME NEW r \in Runner, Release(r) PROVE Young(q)'
  <2>1. Keeps(q) \/ pc'[q] \notin Reviewing
    BY <1>6 DEF Release, End, Goto, run, Reviewing
  <2>2. ASSUME NEW p \in Pr PROVE leases'[p] = leases[p] \/ leases'[p].status = "free"
    BY <1>6 DEF Release, NoLease
  <2> QED
    BY <1>0, <1>2, <2>1, <2>2
<1>7. ASSUME NEW i \in Replica, Crash(i) PROVE Young(q)'
  <2>1. CASE Home[q] = i
    BY <1>2, <1>7, <2>1 DEF Crash, Reviewing
  <2>2. CASE Home[q] # i
    <3>1. Keeps(q)
      BY <1>7, <2>2 DEF Crash
    <3>2. ASSUME NEW p \in Pr PROVE leases'[p] = leases[p] \/ leases'[p].owner = Gone
      BY <1>7 DEF Crash, Lease
    <3>3. CASE pc[q] \notin Reviewing
      BY <1>2, <3>1, <3>3
    <3>4. CASE pc[q] \in Reviewing
      <4>1. on[q] \in Pr
        BY <1>0, <3>4
      <4>2. Home[q] # Gone
        BY KindAssumption, NoneAssumption
      <4> QED
        BY <1>0, <3>1, <3>2, <3>4, <4>1, <4>2
    <3> QED
      BY <3>3, <3>4
  <2> QED
    BY <2>1, <2>2
<1>8. ASSUME Tick PROVE Young(q)'
  <2>1. CASE pc[q] \in Reviewing
    <3>1. /\ leases'[on[q]].commit = leases[on[q]].commit
          /\ leases'[on[q]].status = leases[on[q]].status
          /\ leases'[on[q]].owner = leases[on[q]].owner
      BY <1>0, <1>8, <2>1 DEF Tick, Lease
    <3>2. leases'[on[q]].age <= leases[on[q]].age + 1
      BY <1>0, <1>8, <2>1, ClockAssumption DEF Tick, Lease, OneMore, AgeCap
    <3>3. spent'[q] = spent[q] + 1 /\ UNCHANGED <<pc, on, target, leased>>
      BY <1>8, <2>1 DEF Tick, Timed, Reviewing
    <3>4. leases[on[q]].age \in Int /\ leases'[on[q]].age \in Int /\ spent[q] \in Int
      BY <1>0, <2>1, LeasesType, ClockAssumption DEF Lease, AgeCap
    <3> QED
      BY <1>0, <2>1, <3>1, <3>2, <3>3, <3>4
  <2>2. CASE pc[q] \notin Reviewing
    BY <1>2, <1>8, <2>2 DEF Tick
  <2> QED
    BY <2>1, <2>2
<1>9. ASSUME NEW r \in Runner, AcquireLock(r) \/ Fetch(r) \/ MarkFailed(r) \/ Requeue(r) \/ Finish(r)
      PROVE  (UNCHANGED leases /\ Keeps(q)) \/ pc'[q] \notin Reviewing
  BY <1>9 DEF AcquireLock, Fetch, MarkFailed, Requeue, Finish, End, Goto, run, Reviewing
<1>10. ASSUME NEW r \in Runner, PostReview(r) \/ PostAnswerLost(r) PROVE Young(q)'
  BY <1>0, <1>10 DEF PostReview, PostAnswerLost, Goto, run, Reviewing
<1>11. ASSUME NEW r \in Runner,
              \/ \E p \in Pr : Command(r, p)
              \/ \E c \in Commit : EnqueueFails(c, r) \/ ClaimNext(r, c)
       PROVE  (UNCHANGED leases /\ Keeps(q)) \/ pc'[q] \notin Reviewing
  BY <1>11 DEF Command, EnqueueFails, ClaimNext, Goto, Reviewing
<1>12. ASSUME \/ \E c \in Commit : Push(c) \/ Enqueue(c)
              \/ \E p \in Pr : Redeliver(p) \/ MarkReady(p) \/ HumanReview(p) \/ Toggle(p)
       PROVE  UNCHANGED leases /\ Keeps(q)
  BY <1>12 DEF Push, Enqueue, Redeliver, MarkReady, HumanReview, Toggle, run
<1> HIDE DEF TypeOK, Young, Keeps
<1> QED
  BY <1>1, <1>2, <1>3, <1>4, <1>5, <1>6, <1>7, <1>8, <1>9, <1>10, <1>11, <1>12, Steps DEF Runner

-----------------------------------------------------------------------------
\* The invariant and what follows from it.

\* The invariant holds at the start.
LEMMA InitIInv == Init => IInv
<1> SUFFICES ASSUME Init PROVE IInv
  OBVIOUS
<1>1. TypeOK
  BY InitType
<1>2. Located
  BY KindAssumption, NoneAssumption DEF Init, Located, RunLocated, Reviewing
<1>3. LockHeld /\ LeasedByClaim /\ LeaseYoungerThanRun
  BY DEF Init, LockHeld, LeasedByClaim, LeaseYoungerThanRun, Timed, Reviewing
<1>4. CompletedLeaseIsEarned
  BY DEF Init, NoLease, CompletedLeaseIsEarned
<1> QED
  BY <1>1, <1>2, <1>3, <1>4 DEF IInv

\* Every step, and every stutter, keeps it.
LEMMA StepIInv == IInv /\ [Next]_vars => IInv'
<1> SUFFICES ASSUME IInv, [Next]_vars PROVE IInv'
  OBVIOUS
<1>1. CASE Next
  <2> TypeOK /\ Located /\ LockHeld /\ LeasedByClaim /\ CompletedLeaseIsEarned
    BY DEF IInv
  <2> QED
    BY <1>1, TypeStep, LocatedStep, LockStep, LeasedStep, YoungStep, EarnedStep DEF IInv
<1>2. CASE UNCHANGED vars
  <2>1. TypeOK'
    BY <1>2 DEF IInv, TypeOK, vars
  <2>2. Located'
    BY <1>2 DEF IInv, Located, RunLocated, vars
  <2>3. LockHeld' /\ LeasedByClaim'
    BY <1>2 DEF IInv, LockHeld, LeasedByClaim, vars
  <2>4. LeaseYoungerThanRun' /\ CompletedLeaseIsEarned'
    BY <1>2 DEF IInv, LeaseYoungerThanRun, CompletedLeaseIsEarned, vars
  <2> QED
    BY <2>1, <2>2, <2>3, <2>4 DEF IInv
<1> QED
  BY <1>1, <1>2

\* The inductive invariant holds in every reachable state.
THEOREM Invariance == Spec => []IInv
  BY InitIInv, StepIInv, PTL DEF Spec

\* Every variable keeps to its type; in particular a run is only ever on a commit.
THEOREM TypeCorrect == Spec => []TypeOK
<1>1. IInv => TypeOK
  BY DEF IInv
<1> QED
  BY <1>1, Invariance, PTL

\* state.rs, stale_claim_secs: while a run that claimed its commit is reviewing,
\* its own lease row is younger than the stale window, so neither try_claim_sha
\* nor release_sha_claim of another replica takes it for abandoned.
THEOREM LeaseOutlivesRun == Spec => []RunningLeaseFresh
<1>1. IInv => RunningLeaseFresh
  <2> SUFFICES ASSUME IInv, NEW r \in Runner, pc[r] \in Reviewing,
                      leases[on[r]].age <= spent[r]
               PROVE  leases[on[r]].age < Stale
    BY DEF IInv, LeaseYoungerThanRun, RunningLeaseFresh
  <2>1. spent[r] \in 0..Timeout /\ on[r] \in Pr
    BY DEF IInv, TypeOK, Located, RunLocated, Reviewing
  <2>2. leases[on[r]].age \in Int
    BY <2>1, ClockAssumption DEF IInv, TypeOK, Lease, AgeCap
  <2> QED
    BY <2>1, <2>2, ClockAssumption
<1> QED
  BY <1>1, Invariance, PTL

\* state.rs, set_reviewed_sha_async: a completed row is never left by a claim, a
\* failure, a timeout or a crash, only by a run that went through the pipeline.
THEOREM CompletedMeansReviewed == Spec => []CompletedLeaseIsEarned
<1>1. IInv => CompletedLeaseIsEarned
  BY DEF IInv
<1> QED
  BY <1>1, Invariance, PTL

\* bot/mod.rs, PR_LOCKS: on any number of replicas, no commit is reviewed by two
\* runs of one replica at once, whatever is pushed, redelivered, forced, lost or
\* restarted.
THEOREM OneReview == Spec => []OneReviewPerReplica
<1>1. IInv => OneReviewPerReplica
  <2> SUFFICES ASSUME IInv, NEW r \in Runner, NEW s \in Runner,
                      pc[r] \in Reviewing, pc[s] \in Reviewing,
                      Home[r] = Home[s], target[r] = target[s]
               PROVE  r = s
    BY DEF OneReviewPerReplica
  <2>1. on[r] = on[s]
    BY DEF IInv, Located, RunLocated
  <2>2. locks[Home[r]][on[r]] = r /\ locks[Home[s]][on[s]] = s
    BY DEF IInv, LockHeld, Reviewing, Timed
  <2> QED
    BY <2>1, <2>2
<1> QED
  BY <1>1, Invariance, PTL

-----------------------------------------------------------------------------
\* A job stays with one worker, as long as the waits are short.

\* What a step of r may do to the run of a runner q other than r: nothing.
Same(q) ==
    /\ pc'[q] = pc[q] /\ on'[q] = on[q] /\ job'[q] = job[q] /\ tries'[q] = tries[q]
    /\ target'[q] = target[q] /\ leased'[q] = leased[q] /\ spent'[q] = spent[q]

\* The steps one runner takes, the control steps taken together.
StepOf(r) ==
    \/ r \in Worker /\ \E c \in Commit : ClaimNext(r, c)
    \/ r \in Worker /\ (MarkFailed(r) \/ Requeue(r))
    \/ ControlStep(r)
    \/ AcquireLock(r) \/ Fetch(r) \/ UpsertClaim(r) \/ ForceClaim(r)
    \/ PostReview(r) \/ PostAnswerLost(r) \/ Complete(r)
    \/ Finish(r) \/ Release(r)

\* A step of one runner leaves the runs of the others alone.
LEMMA OthersStay ==
  ASSUME TypeOK, NEW r \in Runner, StepOf(r), NEW q \in Runner, q # r
  PROVE  Same(q)
<1> USE DEF TypeOK, Same
<1>1. CASE ControlStep(r)
  BY <1>1, ControlSteps DEF run
<1>2. CASE \E c \in Commit : ClaimNext(r, c)
  BY <1>2 DEF ClaimNext, Goto
<1>3. ASSUME End(r) PROVE Same(q)
  BY <1>3 DEF End, Goto
<1>4. CASE MarkFailed(r) \/ Requeue(r) \/ Finish(r) \/ Release(r)
  BY <1>3, <1>4 DEF MarkFailed, Requeue, Finish, Release, Goto, run
<1>5. CASE AcquireLock(r) \/ Fetch(r) \/ UpsertClaim(r) \/ ForceClaim(r)
  BY <1>5 DEF AcquireLock, Fetch, UpsertClaim, ForceClaim, Goto, run
<1>6. CASE PostReview(r) \/ PostAnswerLost(r) \/ Complete(r)
  BY <1>6 DEF PostReview, PostAnswerLost, Complete, Goto, run
<1> QED
  BY <1>1, <1>2, <1>4, <1>5, <1>6 DEF StepOf

\* Every step, by who takes it.
LEMMA StepsByRunner ==
  ASSUME Next
  PROVE  \/ \E c \in Commit : Push(c) \/ Enqueue(c)
         \/ \E p \in Pr : Redeliver(p) \/ MarkReady(p) \/ HumanReview(p) \/ Toggle(p)
         \/ \E r \in Commander, p \in Pr : Command(r, p)
         \/ \E r \in Inline, c \in Commit : EnqueueFails(c, r)
         \/ \E r \in Runner : StepOf(r)
         \/ \E i \in Replica : Crash(i)
         \/ Tick
  BY Steps DEF StepOf, Runner

\* The timer of a run that has no lock yet stands still.
LEMMA TimerStep == ASSUME TypeOK, TimerUnstarted, Next PROVE TimerUnstarted'
<1> USE DEF TypeOK
<1> SUFFICES ASSUME NEW q \in Runner, pc'[q] \in {"idle", "permit", "lock"} PROVE spent'[q] = 0
  BY DEF TimerUnstarted
<1>0. pc[q] \in {"idle", "permit", "lock"} => spent[q] = 0
  BY DEF TimerUnstarted
<1>1. ASSUME pc[q] \in {"idle", "permit", "lock"}, spent'[q] = spent[q] PROVE spent'[q] = 0
  BY <1>0, <1>1
<1>2. ASSUME NEW r \in Runner, StepOf(r) PROVE spent'[q] = 0
  <2>1. CASE q # r
    BY <1>0, <1>2, <2>1, OthersStay DEF Same
  <2>2. CASE q = r /\ ControlStep(r)
    BY <1>0, <2>2, ControlSteps DEF Edge, run, Timed, Reviewing
  <2>3. CASE q = r /\ ~ControlStep(r)
    <3>1. CASE End(r)
      BY <2>3, <3>1 DEF End
    <3>2. CASE \E c \in Commit : ClaimNext(r, c)
      BY <1>0, <2>3, <3>2 DEF ClaimNext
    <3>3. CASE MarkFailed(r) \/ (r \in Worker /\ Release(r))
      BY <2>3, <3>3 DEF MarkFailed, Release, Goto
    <3>4. CASE AcquireLock(r) \/ Fetch(r) \/ UpsertClaim(r) \/ ForceClaim(r)
      BY <2>3, <3>4 DEF AcquireLock, Fetch, UpsertClaim, ForceClaim, Goto
    <3>5. CASE PostReview(r) \/ PostAnswerLost(r) \/ Complete(r)
      BY <2>3, <3>5 DEF PostReview, PostAnswerLost, Complete, Goto
    <3> QED
      BY <1>2, <2>3, <3>1, <3>2, <3>3, <3>4, <3>5 DEF StepOf, Requeue, Finish, Release
  <2> QED
    BY <2>1, <2>2, <2>3
<1>3. ASSUME NEW i \in Replica, Crash(i) PROVE spent'[q] = 0
  BY <1>0, <1>3 DEF Crash
<1>4. ASSUME Tick PROVE spent'[q] = 0
  BY <1>0, <1>4 DEF Tick, Timed
<1>5. ASSUME NEW r \in Runner, NEW p, pc[r] = "idle", Goto(r, "permit"), UNCHANGED spent
      PROVE  spent'[q] = 0
  BY <1>0, <1>5 DEF Goto
<1>6. ASSUME UNCHANGED <<pc, spent>> PROVE spent'[q] = 0
  BY <1>1, <1>6
<1> HIDE DEF TypeOK
<1> QED
  BY <1>2, <1>3, <1>4, <1>5, <1>6, StepsByRunner
  DEF Runner, run, Push, Enqueue, Redeliver, MarkReady, HumanReview, Toggle, Command, EnqueueFails

\* While a job is in a worker's hand, nobody else touches its row but a
\* redelivered event, and that leaves it running.
LEMMA HandStep ==
  ASSUME HeldInv, WaitsAreShort, WaitsAreShort', Next
  PROVE  JobInHand'
<1> TypeOK /\ TypeOK' /\ Located
  BY TypeStep DEF HeldInv, IInv
<1> USE KindAssumption, NoneAssumption DEF TypeOK
<1> DEFINE InHand(q) ==
             /\ pc[q] # "idle" => job[q] # NoCommit
             /\ pc[q] \notin {"idle", "requeue"} =>
                   jobs[job[q]].status = "running" /\ jobs[job[q]].age <= Stale
             /\ pc[q] \in Timed => jobs[job[q]].age + Timeout <= Stale + spent[q]
           Row(c) == jobs'[c] = jobs[c] \/ (jobs'[c].status = jobs[c].status /\ jobs'[c].age = 0)
<1> SUFFICES ASSUME NEW q \in Worker PROVE InHand(q)'
  BY DEF JobInHand
<1> q \in Runner
  BY DEF Runner
<1>0. InHand(q)
  BY DEF HeldInv, JobInHand
<1>1. \A c \in Commit : jobs[c].age \in Nat /\ jobs'[c].age \in Nat
  BY ClockAssumption DEF Job, AgeCap
<1>2. ASSUME pc'[q] = pc[q], job'[q] = job[q], spent'[q] = spent[q],
             pc[q] \notin {"idle", "requeue"} => Row(job[q])
      PROVE  InHand(q)'
  BY <1>0, <1>1, <1>2, ClockAssumption DEF Timed
<1>3. ASSUME NEW r \in Worker, pc[r] \notin {"idle", "requeue"}, r # q,
             pc[q] \notin {"idle", "requeue"}
      PROVE  job[q] # job[r]
  BY <1>0, <1>3 DEF HeldInv, JobHeldOnce
<1>4. ASSUME NEW c \in Commit, Enqueue(c) PROVE InHand(q)'
  <2>1. Row(job[q]) \/ pc[q] \in {"idle", "requeue"}
    BY <1>0, <1>4 DEF Enqueue, Enqueued, Written
  <2> QED
    BY <1>2, <1>4, <2>1 DEF Enqueue, run
<1>5. ASSUME NEW r \in Runner, StepOf(r), r # q PROVE InHand(q)'
  <2>1. Same(q)
    BY <1>5, OthersStay
  <2>2. SUFFICES ASSUME pc[q] \notin {"idle", "requeue"} PROVE Row(job[q])
    BY <1>2, <2>1 DEF Same
  <2>3. CASE \E c \in Commit : r \in Worker /\ ClaimNext(r, c)
    <3>1. PICK c \in Commit : ClaimNext(r, c)
      BY <2>3
    <3>2. c # job[q]
      BY <1>0, <1>1, <2>2, <3>1, ClockAssumption DEF ClaimNext, Claimable, Pending, StaleRunning
    <3> QED
      BY <3>1, <3>2 DEF ClaimNext
  <2>4. CASE r \in Worker /\ (MarkFailed(r) \/ Finish(r))
    <3>1. job[q] # job[r]
      BY <1>3, <1>5, <2>2, <2>4 DEF MarkFailed, Finish
    <3> QED
      BY <1>0, <2>2, <2>4, <3>1 DEF MarkFailed, Finish, SetStatus
  <2>5. CASE Requeue(r)
    BY <1>0, <2>2, <2>5 DEF Requeue, SetStatus
  <2>6. CASE UNCHANGED jobs
    BY <2>6
  <2> QED
    BY <1>5, <2>3, <2>4, <2>5, <2>6, ControlSteps
    DEF StepOf, AcquireLock, Fetch, UpsertClaim, ForceClaim, PostReview, PostAnswerLost, Complete,
        Finish, Release
<1>6. ASSUME StepOf(q) PROVE InHand(q)'
  <2>1. CASE \E c \in Commit : ClaimNext(q, c)
    <3>1. PICK c \in Commit : ClaimNext(q, c)
      BY <2>1
    <3>2. /\ pc'[q] = "permit" /\ job'[q] = c
          /\ jobs'[c].status = "running" /\ jobs'[c].age = 0
      BY <3>1 DEF ClaimNext, Goto, Written
    <3> QED
      BY <3>2, ClockAssumption DEF Timed
  <2>2. CASE MarkFailed(q)
    BY <1>0, <2>2 DEF MarkFailed, Goto, run, Timed
  <2>3. CASE End(q)
    BY <2>3 DEF End, Goto, Timed
  <2>4. CASE ControlStep(q)
    <3>1. UNCHANGED <<jobs, job, spent>>
      BY <2>4, ControlSteps DEF run
    <3>2. PICK t \in Pc : Edge(pc[q], t) /\ pc'[q] = t
      BY <2>4, ControlSteps
    <3> QED
      BY <1>0, <3>1, <3>2 DEF Edge, Timed, Reviewing
  <2>5. CASE AcquireLock(q)
    <3>1. jobs[job[q]].age + Timeout <= Stale
      BY <2>5 DEF AcquireLock, WaitsAreShort
    <3>2. spent[q] = 0
      BY <2>5 DEF AcquireLock, HeldInv, TimerUnstarted
    <3>3. pc[q] = "lock" /\ pc'[q] = "fetch" /\ UNCHANGED <<jobs, job, spent>>
      BY <2>5 DEF AcquireLock, Goto, run
    <3> QED
      BY <1>0, <3>1, <3>2, <3>3, ClockAssumption
  <2>6. ASSUME pc[q] \in Timed, pc'[q] \in Timed \cup {"finish"}, UNCHANGED <<jobs, job, spent>>
        PROVE  InHand(q)'
    BY <1>0, <2>6 DEF Timed
  <2>7. CASE Fetch(q) \/ UpsertClaim(q) \/ ForceClaim(q)
    BY <2>6, <2>7 DEF Fetch, UpsertClaim, ForceClaim, Goto, Timed
  <2>8. CASE PostReview(q) \/ PostAnswerLost(q) \/ Complete(q)
    BY <2>6, <2>8 DEF PostReview, PostAnswerLost, Complete, Goto, Timed, run
  <2>9. CASE Release(q)
    <3>1. pc[q] = "release" /\ pc'[q] = "markFailed" /\ UNCHANGED <<jobs, job, spent>>
      BY <2>9 DEF Release, Goto, run
    <3> QED
      BY <1>0, <3>1 DEF Timed
  <2> QED
    BY <1>6, <2>1, <2>2, <2>3, <2>4, <2>5, <2>7, <2>8, <2>9 DEF StepOf, Requeue, Finish
<1>7. ASSUME NEW i \in Replica, Crash(i) PROVE InHand(q)'
  <2>1. UNCHANGED jobs /\ (Same(q) \/ pc'[q] = "idle")
    BY <1>7 DEF Crash, Same
  <2> QED
    BY <1>0, <2>1 DEF Same, Timed
<1>8. ASSUME Tick PROVE InHand(q)'
  <2>1. pc'[q] = pc[q] /\ job'[q] = job[q] /\ pc[q] \notin {"finish", "release", "markFailed", "requeue"}
    BY <1>8 DEF Tick, Prompt
  <2>2. SUFFICES ASSUME pc[q] # "idle" PROVE InHand(q)'
    BY <2>1 DEF Timed
  <2>3. /\ job[q] \in Commit
        /\ jobs'[job[q]].status = "running" /\ jobs'[job[q]].age <= jobs[job[q]].age + 1
    BY <1>0, <1>1, <1>8, <2>1, <2>2, ClockAssumption DEF Tick, OneMore, AgeCap, Job
  <2>4. CASE pc[q] \in Timed
    <3>1. spent'[q] = spent[q] + 1 /\ spent'[q] <= Timeout
      BY <1>8, <2>4 DEF Tick
    <3>2. jobs'[job[q]].age + Timeout <= Stale + spent'[q]
      BY <1>0, <1>1, <2>3, <2>4, <3>1, ClockAssumption
    <3> QED
      BY <1>1, <2>1, <2>2, <2>3, <3>1, <3>2, <1>0, ClockAssumption
  <2>5. CASE pc[q] \in {"permit", "lock"}
    <3>1. jobs'[job[q]].age + Timeout <= Stale
      BY <2>1, <2>5 DEF WaitsAreShort
    <3> QED
      BY <1>0, <1>1, <2>1, <2>3, <2>5, <3>1, ClockAssumption DEF Timed
  <2> QED
    BY <2>1, <2>2, <2>4, <2>5 DEF Pc
<1>9. ASSUME NEW r \in Runner, r # q, pc' = [pc EXCEPT ![r] = "permit"], UNCHANGED <<jobs, spent>>,
             job'[q] = job[q]
      PROVE  InHand(q)'
  BY <1>2, <1>9
<1>10. ASSUME UNCHANGED <<jobs, pc, job, spent>> PROVE InHand(q)'
  BY <1>2, <1>10
<1>11. ASSUME NEW r \in Commander, NEW p \in Pr, Command(r, p) PROVE InHand(q)'
  BY <1>9, <1>11 DEF Command, Goto, Runner
<1>12. ASSUME NEW r \in Inline, NEW c \in Commit, EnqueueFails(c, r) PROVE InHand(q)'
  <2>1. r \in Runner /\ r # q
    BY DEF Runner
  <2>2. /\ pc' = [pc EXCEPT ![r] = "permit"] /\ UNCHANGED <<jobs, spent>>
        /\ job' = [job EXCEPT ![r] = c]
    BY <1>12 DEF EnqueueFails, Goto
  <2> QED
    BY <1>9, <2>1, <2>2
<1>13. ASSUME \/ \E c \in Commit : Push(c)
              \/ \E p \in Pr : Redeliver(p) \/ MarkReady(p) \/ HumanReview(p) \/ Toggle(p)
       PROVE  InHand(q)'
  BY <1>10, <1>13 DEF run, Push, Redeliver, MarkReady, HumanReview, Toggle
<1> HIDE DEF TypeOK, InHand, Row
<1> QED
  BY <1>4, <1>5, <1>6, <1>7, <1>8, <1>11, <1>12, <1>13, StepsByRunner

\* Two workers never have one job: it is claimed when it is pending, or stale.
LEMMA HeldOnceStep == ASSUME HeldInv, Next PROVE JobHeldOnce'
<1> TypeOK /\ TypeOK' /\ Located /\ JobInHand /\ JobHeldOnce
  BY TypeStep DEF HeldInv, IInv
<1> USE KindAssumption, NoneAssumption DEF TypeOK
<1> DEFINE Holds(q, c) == job[q] = c /\ pc[q] # "requeue"
<1> SUFFICES ASSUME NEW q \in Worker, NEW s \in Worker, NEW c \in Commit,
                    Holds(q, c)', Holds(s, c)'
             PROVE  q = s
  BY DEF JobHeldOnce, Runner
<1> q \in Runner /\ s \in Runner
  BY DEF Runner
<1>1. ASSUME Holds(q, c), Holds(s, c) PROVE q = s
  BY <1>1 DEF JobHeldOnce
<1>2. ASSUME NEW u \in Worker, Holds(u, c) PROVE jobs[c].status = "running" /\ jobs[c].age <= Stale
  <2>1. u \in Runner /\ pc[u] # "idle"
    BY <1>2 DEF Located, RunLocated, Runner
  <2> QED
    BY <1>2, <2>1 DEF JobInHand
<1>3. ASSUME NEW r \in Worker, NEW d \in Commit, ClaimNext(r, d), NEW u \in Worker, u # r,
             Holds(u, c)'
      PROVE  Holds(u, c) /\ c # d
  <2>1. Holds(u, c)
    BY <1>3 DEF ClaimNext, Goto, Runner
  <2>2. jobs[c].age \in Int
    BY ClockAssumption DEF Job, AgeCap
  <2> QED
    BY <1>2, <1>3, <2>1, <2>2, ClockAssumption DEF ClaimNext, Claimable, Pending, StaleRunning
<1>4. ASSUME NEW r \in Worker, NEW d \in Commit, ClaimNext(r, d) PROVE q = s
  <2>1. r \in Runner /\ job'[r] = d
    BY <1>4 DEF ClaimNext, Runner
  <2> QED
    BY <1>1, <1>3, <1>4, <2>1
<1>5. ASSUME NEW u \in Worker, ~Holds(u, c), Holds(u, c)'
      PROVE  \E r \in Worker, d \in Commit : ClaimNext(r, d)
  <2>1. u \in Runner
    BY DEF Runner
  <2>2. ASSUME NEW r \in Runner, StepOf(r), r # u PROVE FALSE
    BY <1>5, <2>1, <2>2, OthersStay DEF Same
  <2>3. ASSUME StepOf(u), \A d \in Commit : ~ClaimNext(u, d) PROVE FALSE
    <3>1. CASE ControlStep(u)
      BY <1>5, <2>1, <3>1, ControlSteps DEF run, Edge, Timed, Reviewing
    <3>2. CASE End(u)
      BY <1>5, <2>1, <3>2 DEF End
    <3>3. CASE MarkFailed(u) \/ (u \in Worker /\ Release(u))
      BY <1>5, <2>1, <3>3 DEF MarkFailed, Release, Goto, run
    <3>4. CASE AcquireLock(u) \/ Fetch(u) \/ UpsertClaim(u) \/ ForceClaim(u)
      BY <1>5, <2>1, <3>4 DEF AcquireLock, Fetch, UpsertClaim, ForceClaim, Goto, run
    <3>5. CASE PostReview(u) \/ PostAnswerLost(u) \/ Complete(u)
      BY <1>5, <2>1, <3>5 DEF PostReview, PostAnswerLost, Complete, Goto, run
    <3> QED
      BY <2>3, <3>1, <3>2, <3>3, <3>4, <3>5 DEF StepOf, Requeue, Finish
  <2>4. ASSUME NEW i \in Replica, Crash(i) PROVE FALSE
    BY <1>5, <2>1, <2>4 DEF Crash
  <2>5. ASSUME UNCHANGED <<pc, job>> PROVE FALSE
    BY <1>5, <2>5
  <2>6. ASSUME NEW r \in Commander, NEW p \in Pr, Command(r, p) PROVE FALSE
    BY <1>5, <2>1, <2>6 DEF Command, Goto, Runner
  <2>7. ASSUME NEW r \in Inline, NEW d \in Commit, EnqueueFails(d, r) PROVE FALSE
    <3>1. r \in Runner /\ r # u
      BY DEF Runner
    <3>2. pc' = [pc EXCEPT ![r] = "permit"] /\ job' = [job EXCEPT ![r] = d]
      BY <2>7 DEF EnqueueFails, Goto
    <3> QED
      BY <1>5, <2>1, <3>1, <3>2
  <2>8. ASSUME \/ \E d \in Commit : Push(d) \/ Enqueue(d)
               \/ \E p \in Pr : Redeliver(p) \/ MarkReady(p) \/ HumanReview(p) \/ Toggle(p)
               \/ Tick
        PROVE  FALSE
    BY <2>5, <2>8 DEF run, Push, Enqueue, Redeliver, MarkReady, HumanReview, Toggle, Tick
  <2> HIDE DEF TypeOK, Holds
  <2> QED
    BY <2>2, <2>3, <2>4, <2>6, <2>7, <2>8, StepsByRunner
<1> HIDE DEF TypeOK, Holds
<1> QED
  BY <1>1, <1>4, <1>5

\* HeldInv holds at the start.
LEMMA InitHeld == Init => HeldInv
<1> SUFFICES ASSUME Init PROVE HeldInv
  OBVIOUS
<1>1. TimerUnstarted /\ JobInHand /\ JobHeldOnce
  BY DEF Init, TimerUnstarted, JobInHand, JobHeldOnce, Timed, Runner
<1> QED
  BY <1>1, InitIInv DEF HeldInv

\* A step, or a stutter, between two states with short waits keeps it.
LEMMA StepHeld == HeldInv /\ WaitsAreShort /\ WaitsAreShort' /\ [Next]_vars => HeldInv'
<1> SUFFICES ASSUME HeldInv, WaitsAreShort, WaitsAreShort', [Next]_vars PROVE HeldInv'
  OBVIOUS
<1>1. IInv'
  BY StepIInv DEF HeldInv
<1>2. CASE Next
  <2>1. TypeOK /\ TimerUnstarted
    BY DEF HeldInv, IInv
  <2> QED
    BY <1>1, <1>2, <2>1, TimerStep, HandStep, HeldOnceStep DEF HeldInv
<1>3. CASE UNCHANGED vars
  BY <1>1, <1>3 DEF vars, HeldInv, TimerUnstarted, JobInHand, JobHeldOnce
<1> QED
  BY <1>2, <1>3

\* queue.rs, stale_secs: in every behaviour whose waits for permits and locks stay
\* within the slack of the stale window, whatever is pushed, redelivered, forced,
\* lost or restarted, no job is claimed again while its worker lives.
THEOREM JobsAreHeldOnce == Spec /\ []WaitsAreShort => []JobHeldOnce
<1>1. HeldInv => JobHeldOnce
  BY DEF HeldInv
<1> QED
  BY <1>1, InitHeld, StepHeld, PTL DEF Spec

\* A step never takes a job out of done.
LEMMA DoneStep ==
  ASSUME TypeOK, JobInHand, [Next]_vars
  PROVE  [\A c \in Commit : jobs[c].status = "done" => jobs'[c].status = "done"]_jobs
<1> USE DEF TypeOK
<1> SUFFICES ASSUME NEW c \in Commit, jobs[c].status = "done" PROVE jobs'[c].status = "done"
  OBVIOUS
<1>1. ASSUME NEW d \in Commit, Enqueue(d) PROVE jobs'[c].status = "done"
  BY <1>1 DEF Enqueue, Enqueued, Written
<1>2. ASSUME NEW r \in Worker, NEW d \in Commit, ClaimNext(r, d) PROVE jobs'[c].status = "done"
  BY <1>2 DEF ClaimNext, Claimable, Pending, StaleRunning
<1>3. ASSUME NEW r \in Worker, MarkFailed(r) PROVE jobs'[c].status = "done"
  BY <1>3 DEF MarkFailed, SetStatus, JobInHand
<1>4. ASSUME NEW r \in Worker, Requeue(r) PROVE jobs'[c].status = "done"
  BY <1>4 DEF Requeue, SetStatus
<1>5. ASSUME NEW r \in Runner, Finish(r) PROVE jobs'[c].status = "done"
  BY <1>5 DEF Finish, SetStatus, Written
<1>6. ASSUME Tick PROVE jobs'[c].status = "done"
  BY <1>6 DEF Tick
<1>7. ASSUME UNCHANGED jobs PROVE jobs'[c].status = "done"
  BY <1>7
<1> HIDE DEF TypeOK
<1> QED
  BY <1>1, <1>2, <1>3, <1>4, <1>5, <1>6, <1>7, Steps, ControlSteps
  DEF vars, Push, Redeliver, MarkReady, HumanReview, Toggle, Command, EnqueueFails, AcquireLock,
      Fetch, UpsertClaim, ForceClaim, PostReview, PostAnswerLost, Complete, Release, Crash

\* queue.rs, mark_failed and enqueue: in the same behaviours a job that is done
\* stays done; no late failure, redelivery or reclaim takes it back.
THEOREM DoneJobsStayDone == Spec /\ []WaitsAreShort => DoneStaysDone
<1>1. HeldInv => TypeOK /\ JobInHand
  BY DEF HeldInv, IInv
<1>2. TypeOK /\ JobInHand /\ [Next]_vars =>
        [\A c \in Commit : jobs[c].status = "done" => jobs'[c].status = "done"]_jobs
  BY DoneStep
<1> QED
  BY <1>1, <1>2, InitHeld, StepHeld, PTL DEF Spec, DoneStaysDone

-----------------------------------------------------------------------------
\* An undisturbed service.

\* Nothing crashes, no statement fails and nobody forces a review.
LEMMA NothingFails ==
  ASSUME Calm
  PROVE  /\ \A ok \in BOOLEAN : Ran(ok) => ok
         /\ ~Spend("crash") /\ ~Spend("fault") /\ ~Spend("force")
  BY DEF Calm, Ran, Spend

\* An idle runner takes no step but a claim.
LEMMA IdleRests ==
  ASSUME NEW r \in Runner, StepOf(r), pc[r] = "idle"
  PROVE  r \in Worker /\ \E c \in Commit : ClaimNext(r, c)
  BY DEF StepOf, MarkFailed, Requeue, AcquireLock, Fetch, UpsertClaim, ForceClaim, PostReview,
     PostAnswerLost, Complete, Finish, Release, ControlStep, NoCredentials, AcquirePermit,
     FetchFails, SelectClaim, ClaimError, Analyse, AnalyseFails, CheckPosted, PostFails, WrapUp,
     TimeOut, Timed

\* So only workers run, and the steps are theirs, the users' and the clock's.
LEMMA CalmSteps ==
  ASSUME Calm, TypeOK, WorkersOnly, Next
  PROVE  \/ \E c \in Commit : Push(c) \/ Enqueue(c)
         \/ \E p \in Pr : Redeliver(p) \/ MarkReady(p) \/ HumanReview(p) \/ Toggle(p)
         \/ \E r \in Worker : StepOf(r)
         \/ Tick
<1>1. ASSUME NEW r \in Runner, StepOf(r) PROVE r \in Worker
  BY <1>1, IdleRests DEF WorkersOnly
<1> QED
  BY <1>1, NothingFails, StepsByRunner DEF Command, EnqueueFails, Crash

\* What the users do leaves runs and locks alone.
LEMMA UsersStay ==
  ASSUME \/ \E c \in Commit : Push(c) \/ Enqueue(c)
         \/ \E p \in Pr : Redeliver(p) \/ MarkReady(p) \/ HumanReview(p) \/ Toggle(p)
  PROVE  UNCHANGED <<leases, finished, posted, pc, on, job, tries, target, leased, spent, permits, locks>>
  BY DEF Push, Enqueue, Redeliver, MarkReady, HumanReview, Toggle, run, held, github

\* So does the clock, but for the timers.
LEMMA ClockStays ==
  ASSUME Tick
  PROVE  UNCHANGED <<finished, posted, pc, on, job, tries, target, leased, permits, locks>>
  BY DEF Tick, github, held

\* The commits of one pull request are one.
LEMMA OneCommit ==
  ASSUME Calm, NEW c \in Commit, NEW d \in Commit, PrOf[c] = PrOf[d] PROVE c = d
  BY DEF Calm

\* A pull request is reviewed by one run at a time, whatever the replica.
LEMMA OneRun ==
  ASSUME Calm, CalmInv, NEW r \in Worker, NEW s \in Worker, on[r] = on[s],
         pc[r] \notin {"idle", "requeue"}, pc[s] \notin {"idle", "requeue"}
  PROVE  r = s
<1>1. job[r] \in Commit /\ job[s] \in Commit
  BY DEF CalmInv, HeldInv, JobInHand, IInv, TypeOK, Runner
<1>2. PrOf[job[r]] = on[r] /\ PrOf[job[s]] = on[s]
  BY <1>1, NoneAssumption DEF CalmInv, HeldInv, IInv, Located, RunLocated, Runner
<1>3. job[r] = job[s]
  BY <1>1, <1>2, OneCommit
<1> QED
  BY <1>1, <1>3, NoneAssumption DEF CalmInv, HeldInv, JobHeldOnce

\* Its target is the commit of its job.
LEMMA TargetIsJob ==
  ASSUME Calm, CalmInv, NEW r \in Worker, pc[r] # "idle", target[r] # NoCommit
  PROVE  target[r] = job[r] /\ job[r] \in Commit /\ PrOf[job[r]] = on[r] /\ on[r] \in Pr
<1>1. job[r] \in Commit /\ target[r] \in Commit
  BY DEF CalmInv, HeldInv, JobInHand, IInv, TypeOK, Runner
<1>2. PrOf[job[r]] = on[r] /\ PrOf[target[r]] = on[r] /\ on[r] \in Pr
  BY <1>1, NoneAssumption DEF CalmInv, HeldInv, IInv, Located, RunLocated, Runner
<1> QED
  BY <1>1, <1>2, OneCommit

\* Only workers run.
LEMMA WorkersStep == ASSUME Calm, TypeOK, WorkersOnly, Next PROVE WorkersOnly'
<1> SUFFICES ASSUME NEW q \in Runner \ Worker PROVE pc'[q] = "idle"
  BY DEF WorkersOnly
<1>1. pc[q] = "idle"
  BY DEF WorkersOnly
<1>2. ASSUME NEW r \in Worker, StepOf(r) PROVE pc'[q] = pc[q]
  BY <1>2, OthersStay DEF Same, Runner
<1> QED
  BY <1>1, <1>2, CalmSteps, UsersStay, ClockStays

\* Where a run goes and what becomes of its permit and its locks.
LEMMA HeldThings ==
  ASSUME Calm, TypeOK, NEW r \in Worker, StepOf(r)
  PROVE  \/ /\ pc[r] = "idle" /\ pc'[r] # "idle" /\ UNCHANGED <<permits, locks>>
         \/ /\ pc[r] = "permit" /\ pc'[r] = "lock" /\ UNCHANGED <<locks, on>>
            /\ permits' = [permits EXCEPT ![Home[r]] = @ \cup {r}]
         \/ /\ pc[r] = "lock" /\ pc'[r] = "fetch" /\ UNCHANGED <<permits, on>>
            /\ locks' = [locks EXCEPT ![Home[r]][on[r]] = r]
         \/ /\ pc[r] \notin {"idle", "permit", "lock"} /\ pc'[r] \notin {"idle", "permit", "lock"}
            /\ UNCHANGED <<on, permits, locks>>
         \/ End(r)
<1> USE DEF TypeOK
<1> r \in Runner
  BY DEF Runner
<1>1. CASE \E c \in Commit : ClaimNext(r, c)
  BY <1>1 DEF ClaimNext, Goto, held
<1>2. CASE MarkFailed(r) \/ Requeue(r) \/ Finish(r) \/ Release(r)
  BY <1>2 DEF MarkFailed, Requeue, Finish, Release, Goto, run, held
<1>3. CASE AcquireLock(r) \/ Fetch(r) \/ UpsertClaim(r) \/ ForceClaim(r)
  BY <1>3 DEF AcquireLock, Fetch, UpsertClaim, ForceClaim, Goto, run, held
<1>4. CASE PostReview(r) \/ PostAnswerLost(r) \/ Complete(r)
  BY <1>4 DEF PostReview, PostAnswerLost, Complete, Goto, run, held
<1>5. CASE AcquirePermit(r)
  BY <1>5 DEF AcquirePermit, Goto, run
<1>6. CASE ControlStep(r) /\ ~AcquirePermit(r)
  <2>1. PICK t \in Pc : Edge(pc[r], t) /\ pc'[r] = t
    BY <1>6, ControlSteps
  <2>2. pc[r] # "permit" /\ UNCHANGED held
    BY <1>6, NothingFails
    DEF ControlStep, NoCredentials, FetchFails, Fail, SelectClaim, ClaimError, Analyse,
        AnalyseFails, CheckPosted, PostFails, WrapUp, TimeOut, Timed
  <2>3. UNCHANGED on
    BY <1>6, ControlSteps DEF run
  <2> QED
    BY <2>1, <2>2, <2>3 DEF Edge, Timed, Reviewing, held
<1> QED
  BY <1>1, <1>2, <1>3, <1>4, <1>5, <1>6 DEF StepOf

\* A permit is held by a run that has taken it and not ended.
LEMMA PermitsStep ==
  ASSUME Calm, TypeOK, WorkersOnly, PermitsHeld, Next PROVE PermitsHeld'
<1> USE KindAssumption DEF TypeOK
<1> SUFFICES ASSUME NEW i \in Replica, NEW q \in permits'[i]
             PROVE  q \in Worker /\ Home[q] = i /\ pc'[q] \notin {"idle", "permit"}
  BY DEF PermitsHeld, WorkersOf
<1>1. ASSUME q \in permits[i] PROVE q \in Worker /\ Home[q] = i /\ pc[q] \notin {"idle", "permit"}
  BY <1>1 DEF PermitsHeld, WorkersOf
<1>2. ASSUME NEW r \in Worker, StepOf(r)
      PROVE  q \in Worker /\ Home[q] = i /\ pc'[q] \notin {"idle", "permit"}
  <2> r \in Runner
    BY DEF Runner
  <2>1. ASSUME q # r, q \in permits[i] PROVE pc'[q] = pc[q]
    BY <1>1, <1>2, <2>1, OthersStay DEF Same, Runner
  <2>2. CASE End(r)
    <3>1. permits' = [permits EXCEPT ![Home[r]] = permits[Home[r]] \ {r}]
      BY <2>2 DEF End, LetGo
    <3>2. q \in permits[i] /\ (i = Home[r] => q # r)
      BY <3>1
    <3> QED
      BY <1>1, <2>1, <3>2
  <2>3. CASE ~End(r)
    <3>1. \/ pc[r] = "idle" /\ UNCHANGED permits
          \/ pc'[r] = "lock" /\ permits' = [permits EXCEPT ![Home[r]] = @ \cup {r}]
          \/ pc'[r] \notin {"idle", "permit"} /\ UNCHANGED permits
      BY <1>2, <2>3, HeldThings
    <3> QED
      BY <1>1, <2>1, <3>1
  <2> QED
    BY <2>2, <2>3
<1> HIDE DEF TypeOK
<1> QED
  BY <1>1, <1>2, CalmSteps, UsersStay, ClockStays

\* A lock is held by a run of its pull request, on its replica.
LEMMA LocksStep ==
  ASSUME Calm, TypeOK, Located, WorkersOnly, LocksHeld, Next PROVE LocksHeld'
<1> USE KindAssumption, NoneAssumption DEF TypeOK
<1> DEFINE Fits(q, i, p) ==
             Home[q] = i /\ on[q] = p /\ pc[q] \notin {"idle", "permit", "lock"}
<1> SUFFICES ASSUME NEW i \in Replica, NEW p \in Pr, NEW q \in Runner, locks'[i][p] = q,
                    q # NoRunner
             PROVE  Fits(q, i, p)'
  <2>1. TypeOK'
    BY TypeStep
  <2>2. ASSUME NEW i \in Replica, NEW p \in Pr, locks'[i][p] # NoRunner
        PROVE  Fits(locks[i][p], i, p)'
    <3>1. locks'[i][p] \in Runner
      BY <2>1, <2>2
    <3> QED
      BY <2>2, <3>1
  <2> QED
    BY <2>2 DEF LocksHeld
<1>1. ASSUME locks[i][p] = q PROVE Fits(q, i, p)
  BY <1>1 DEF LocksHeld
<1>2. ASSUME NEW r \in Worker, StepOf(r) PROVE Fits(q, i, p)'
  <2> r \in Runner
    BY DEF Runner
  <2>1. ASSUME q # r, locks[i][p] = q PROVE Fits(q, i, p)'
    BY <1>1, <1>2, <2>1, OthersStay DEF Same
  <2>2. CASE End(r)
    <3>1. locks' = [locks EXCEPT ![Home[r]] =
                       [u \in Pr |-> IF locks[Home[r]][u] = r THEN NoRunner ELSE locks[Home[r]][u]]]
      BY <2>2 DEF End, LetGo
    <3>2. locks[i][p] = q /\ (i = Home[r] => q # r)
      BY <3>1
    <3> QED
      BY <1>1, <2>1, <3>2
  <2>3. CASE ~End(r)
    <3>1. on[r] \in Pr \/ pc[r] = "idle"
      BY DEF Located, RunLocated
    <3>2. \/ pc[r] = "idle" /\ UNCHANGED locks
          \/ pc[r] \in {"permit", "lock"} /\ UNCHANGED locks
          \/ /\ pc[r] = "lock" /\ pc'[r] = "fetch" /\ UNCHANGED on
             /\ locks' = [locks EXCEPT ![Home[r]][on[r]] = r]
          \/ pc'[r] \notin {"idle", "permit", "lock"} /\ UNCHANGED <<locks, on>>
      BY <1>2, <2>3, HeldThings
    <3>3. CASE UNCHANGED locks
      <4>1. locks[i][p] = q
        BY <3>3
      <4>2. Fits(q, i, p)
        BY <1>1, <4>1
      <4> QED
        BY <2>1, <3>2, <4>1, <4>2
    <3>4. CASE /\ pc[r] = "lock" /\ pc'[r] = "fetch" /\ UNCHANGED on
               /\ locks' = [locks EXCEPT ![Home[r]][on[r]] = r]
      BY <1>1, <2>1, <3>1, <3>4
    <3> QED
      BY <3>2, <3>3, <3>4
  <2> QED
    BY <2>2, <2>3
<1> HIDE DEF TypeOK, Fits
<1>3. ASSUME UNCHANGED <<pc, on, locks>> PROVE Fits(q, i, p)'
  BY <1>1, <1>3 DEF Fits
<1> QED
  BY <1>2, <1>3, CalmSteps, UsersStay, ClockStays

\* How a worker gets where: each place of a run is entered by its own step.
LEMMA Arrivals ==
  ASSUME Calm, TypeOK, NEW r \in Worker, StepOf(r)
  PROVE  /\ pc'[r] \in {"permit", "lock"} =>
               AcquirePermit(r) \/ \E c \in Commit : ClaimNext(r, c)
         /\ pc'[r] = "upsert" => SelectClaim(r)
         /\ pc'[r] = "review" => UpsertClaim(r)
         /\ pc'[r] = "post" => CheckPosted(r) \/ PostAnswerLost(r)
         /\ pc'[r] \in {"finish", "wrapup"} =>
               SelectClaim(r) \/ WrapUp(r) \/ Fetch(r) \/ UpsertClaim(r) \/ Complete(r)
<1> r \in Runner /\ r \notin Commander
  BY KindAssumption DEF Runner
<1>1. CASE ControlStep(r)
  BY <1>1, NothingFails
  DEF ControlStep, NoCredentials, AcquirePermit, FetchFails, Fail, SelectClaim, ClaimError,
      Analyse, AnalyseFails, CheckPosted, PostFails, WrapUp, TimeOut, Goto, TypeOK
<1>2. CASE End(r)
  BY <1>2 DEF End, Goto, TypeOK
<1>3. CASE \E c \in Commit : ClaimNext(r, c)
  BY <1>3 DEF ClaimNext, Goto, TypeOK
<1>4. CASE MarkFailed(r) \/ Release(r)
  BY <1>2, <1>4 DEF MarkFailed, Release, Goto, TypeOK
<1>5. CASE AcquireLock(r) \/ Fetch(r) \/ UpsertClaim(r) \/ ForceClaim(r)
  BY <1>5 DEF AcquireLock, Fetch, UpsertClaim, ForceClaim, Goto, TypeOK
<1>6. CASE PostReview(r) \/ PostAnswerLost(r) \/ Complete(r)
  BY <1>6 DEF PostReview, PostAnswerLost, Complete, Goto, TypeOK
<1> QED
  BY <1>1, <1>2, <1>3, <1>4, <1>5, <1>6 DEF StepOf, Requeue, Finish

\* What CalmInv is made of.
LEMMA CalmParts ==
  CalmInv => /\ TypeOK /\ Located /\ CompletedLeaseIsEarned
             /\ TimerUnstarted /\ JobInHand /\ JobHeldOnce
             /\ WorkersOnly /\ PermitsHeld /\ LocksHeld /\ ClaimsAreFresh
             /\ LeasesHeld /\ FinishedStands /\ AttemptsCounted
  BY DEF CalmInv, HeldInv, IInv

\* Nobody waits while the clock runs: a permit is free for every worker, and the
\* lock of a pull request is free for the one worker that has its job.
LEMMA NobodyWaits ==
  ASSUME Calm, CalmInv, Tick, NEW r \in Worker
  PROVE  pc[r] \notin {"permit", "lock"}
<1> TypeOK /\ Located /\ WorkersOnly /\ PermitsHeld /\ LocksHeld /\ JobInHand
  BY CalmParts
<1> r \in Runner /\ Home[r] \in Replica
  BY KindAssumption DEF Runner
<1>1. ASSUME pc[r] = "permit" PROVE FALSE
  <2> DEFINE mine == WorkersOf(Home[r])
  <2>1. IsFiniteSet(mine) /\ Cardinality(mine) <= Permits /\ Cardinality(mine) \in Nat
    BY FS_CardinalityType DEF Calm
  <2>2. r \in mine
    BY DEF WorkersOf
  <2>3. IsFiniteSet(mine \ {r}) /\ Cardinality(mine \ {r}) = Cardinality(mine) - 1
    BY <2>1, <2>2, FS_RemoveElement
  <2>4. permits[Home[r]] \subseteq mine \ {r}
    BY <1>1 DEF PermitsHeld, WorkersOf
  <2>5. Cardinality(permits[Home[r]]) <= Cardinality(mine \ {r})
    BY <2>3, <2>4, FS_Subset
  <2>6. Cardinality(permits[Home[r]]) \in Nat
    BY <2>3, <2>4, FS_Subset, FS_CardinalityType
  <2>7. Cardinality(permits[Home[r]]) < Permits
    BY <2>1, <2>3, <2>5, <2>6, BoundAssumption
  <2> QED
    BY <1>1, <2>7 DEF Tick, Prompt
<1>2. ASSUME pc[r] = "lock" PROVE FALSE
  <2> DEFINE s == locks[Home[r]][on[r]]
  <2>1. on[r] \in Pr
    BY <1>2 DEF Located, RunLocated
  <2>2. s # NoRunner
    BY <1>2 DEF Tick, Prompt
  <2>3. s \in Runner /\ on[s] = on[r] /\ pc[s] \notin {"idle", "permit", "lock"}
    BY <2>1, <2>2 DEF LocksHeld, TypeOK
  <2>4. s \in Worker
    BY <2>3 DEF WorkersOnly
  <2>5. pc[s] # "requeue"
    BY <2>3 DEF Tick, Prompt
  <2> QED
    BY <1>2, <2>3, <2>4, <2>5, OneRun
<1> QED
  BY <1>1, <1>2

\* Until the clock runs, every write to a job row makes it a row of this moment.
LEMMA RowsAreFresh ==
  ASSUME TypeOK, Next, ~Tick, NEW c \in Commit
  PROVE  jobs'[c] = jobs[c] \/ jobs'[c].age = 0
<1> USE DEF TypeOK
<1>1. ASSUME NEW d \in Commit, Enqueue(d) PROVE jobs'[c] = jobs[c] \/ jobs'[c].age = 0
  BY <1>1 DEF Enqueue, Enqueued, Written, NewJob
<1>2. ASSUME NEW r \in Worker, NEW d \in Commit, ClaimNext(r, d)
      PROVE  jobs'[c] = jobs[c] \/ jobs'[c].age = 0
  BY <1>2 DEF ClaimNext, Written
<1>3. ASSUME NEW r \in Runner, MarkFailed(r) \/ Requeue(r) \/ Finish(r)
      PROVE  jobs'[c] = jobs[c] \/ jobs'[c].age = 0
  BY <1>3 DEF MarkFailed, Requeue, Finish, SetStatus, Written
<1>4. ASSUME UNCHANGED jobs PROVE jobs'[c] = jobs[c]
  BY <1>4
<1> HIDE DEF TypeOK
<1> QED
  BY <1>1, <1>2, <1>3, <1>4, Steps, ControlSteps
  DEF Runner, Push, Redeliver, MarkReady, HumanReview, Toggle, Command, EnqueueFails, AcquireLock,
      Fetch, UpsertClaim, ForceClaim, PostReview, PostAnswerLost, Complete, Release, Crash

\* No time passes between a claim and the lock.
LEMMA FreshStep == ASSUME Calm, CalmInv, Next PROVE ClaimsAreFresh'
<1> TypeOK /\ TypeOK' /\ Located /\ WorkersOnly /\ ClaimsAreFresh /\ JobInHand
  BY CalmParts, TypeStep
<1> SUFFICES ASSUME NEW q \in Worker, pc'[q] \in {"permit", "lock"} PROVE jobs'[job'[q]].age = 0
  BY DEF ClaimsAreFresh
<1> q \in Runner
  BY DEF Runner
<1>1. ASSUME pc[q] \in {"permit", "lock"}, job'[q] = job[q] PROVE jobs'[job'[q]].age = 0
  <2>1. jobs[job[q]].age = 0 /\ job[q] \in Commit
    BY <1>1 DEF ClaimsAreFresh, JobInHand, TypeOK
  <2>2. ~Tick
    BY <1>1, NobodyWaits
  <2> QED
    BY <1>1, <2>1, <2>2, RowsAreFresh
<1>2. ASSUME NEW r \in Worker, StepOf(r) PROVE jobs'[job'[q]].age = 0
  <2> r \in Runner
    BY DEF Runner
  <2>1. CASE r # q
    BY <1>1, <1>2, <2>1, OthersStay DEF Same
  <2>2. CASE r = q /\ \E c \in Commit : ClaimNext(q, c)
    <3>1. PICK c \in Commit : ClaimNext(q, c)
      BY <2>2
    <3>2. job'[q] = c /\ jobs'[c].age = 0
      BY <3>1 DEF ClaimNext, Written, TypeOK
    <3> QED
      BY <3>2
  <2>3. CASE r = q /\ AcquirePermit(q)
    BY <1>1, <2>3 DEF AcquirePermit, run
  <2> QED
    BY <1>2, <2>1, <2>2, <2>3, Arrivals
<1>3. ASSUME UNCHANGED <<pc, job>> PROVE jobs'[job'[q]].age = 0
  BY <1>1, <1>3
<1> QED
  BY <1>2, <1>3, CalmSteps, UsersStay, ClockStays

\* The statements on the lease table, of an undisturbed service.
LEMMA CalmLeaseSteps ==
  ASSUME Calm, TypeOK, WorkersOnly, Next
  PROVE  \/ UNCHANGED <<leases, finished>>
         \/ \E r \in Worker : UpsertClaim(r) \/ Complete(r) \/ Release(r)
         \/ Tick
<1>1. ASSUME NEW r \in Runner, UpsertClaim(r) \/ ForceClaim(r) \/ Complete(r) \/ Release(r)
      PROVE  r \in Worker /\ ~ForceClaim(r)
  BY <1>1, KindAssumption DEF WorkersOnly, UpsertClaim, ForceClaim, Complete, Release
<1> QED
  BY <1>1, NothingFails, LeaseWriters DEF Crash

\* A completion leaves a completed row of its target.
LEMMA CompleteWrites ==
  ASSUME Calm, TypeOK, Located, NEW r \in Worker, Complete(r)
  PROVE  /\ pc[r] = "complete" /\ on[r] \in Pr /\ target[r] \in Commit /\ PrOf[target[r]] = on[r]
         /\ leases' = [leases EXCEPT ![on[r]] = OwnLease(r, "completed")]
         /\ finished' = finished \cup {target[r]}
<1>1. r \in Runner /\ pc[r] = "complete" /\ on[r] \in Pr
  BY DEF Complete, Located, RunLocated, Runner
<1>2. target[r] \in Commit /\ PrOf[target[r]] = on[r]
  BY <1>1 DEF Located, RunLocated, Reviewing, TypeOK
<1>3. PICK ok \in BOOLEAN :
         Ran(ok) /\ leases' = [leases EXCEPT ![on[r]] = IF ok THEN OwnLease(r, "completed") ELSE @]
  BY DEF Complete
<1>4. ok
  BY <1>3, NothingFails
<1> QED
  BY <1>1, <1>2, <1>3, <1>4 DEF Complete

\* A release after a failure frees a row in progress: it is the run's own.
LEMMA ReleaseFrees ==
  ASSUME Calm, CalmInv, NEW r \in Worker, Release(r)
  PROVE  /\ pc[r] = "release" /\ on[r] \in Pr
         /\ \A p \in Pr : leases'[p] = leases[p] \/ leases'[p].status = "free"
         /\ \A p \in Pr : leases[p].status # "in_progress" => leases'[p] = leases[p]
         /\ leases'[on[r]].status # "in_progress"
<1> TypeOK /\ Located /\ LeasesHeld
  BY CalmParts
<1>1. r \in Runner /\ pc[r] = "release" /\ on[r] \in Pr /\ r \notin Commander
  BY KindAssumption DEF Release, Located, RunLocated, Runner
<1>2. PICK ok \in BOOLEAN :
         Ran(ok) /\ leases' = [leases EXCEPT ![on[r]] = IF ok /\ Releases(r) THEN NoLease ELSE @]
  BY DEF Release
<1>3. leases' = [leases EXCEPT ![on[r]] = IF Releases(r) THEN NoLease ELSE @]
  BY <1>2, NothingFails
<1>4. ASSUME leases[on[r]].status = "in_progress" PROVE Releases(r)
  <2>1. PICK h \in Worker : HoldsLease(h, on[r])
    BY <1>1, <1>4 DEF LeasesHeld
  <2>2. h = r
    BY <1>1, <2>1, OneRun DEF HoldsLease, Reviewing
  <2>3. target[r] = leases[on[r]].commit /\ leases[on[r]].owner = Home[r]
    BY <2>1, <2>2 DEF HoldsLease
  <2>4. ReleaseKey(r) = leases[on[r]].commit
    BY <1>1, <2>1, <2>2, <2>3, TargetIsJob DEF ReleaseKey, HoldsLease
  <2> QED
    BY <1>4, <2>3, <2>4 DEF Releases
<1> QED
  BY <1>1, <1>3, <1>4 DEF NoLease, Releases, TypeOK

\* A run that is reviewing goes on, or fails.
LEMMA ReviewingGoesOn ==
  ASSUME TypeOK, NEW r \in Runner, ControlStep(r), pc[r] \in Reviewing
  PROVE  pc'[r] \in Reviewing \cup {"release"}
  BY DEF ControlStep, NoCredentials, AcquirePermit, FetchFails, Fail, SelectClaim, ClaimError,
     Analyse, AnalyseFails, CheckPosted, PostFails, WrapUp, TimeOut, Goto, Reviewing, TypeOK

\* Whoever has a lease keeps it until it completes or releases it.
LEMMA HolderStays ==
  ASSUME Calm, CalmInv, Next, NEW p \in Pr, NEW h \in Worker, HoldsLease(h, p),
         leases'[p].commit = leases[p].commit, leases'[p].owner = leases[p].owner,
         leases'[p].status = "in_progress"
  PROVE  HoldsLease(h, p)'
<1> TypeOK /\ Located /\ WorkersOnly
  BY CalmParts
<1> h \in Runner
  BY DEF Runner
<1>1. ASSUME Same(h) PROVE HoldsLease(h, p)'
  BY <1>1 DEF Same, HoldsLease
<1>2. ASSUME NEW r \in Worker, StepOf(r), r # h PROVE HoldsLease(h, p)'
  BY <1>1, <1>2, OthersStay DEF Runner
<1>3. ASSUME pc'[h] \in Reviewing \cup {"release"}, UNCHANGED <<on, target, leased>>
      PROVE  HoldsLease(h, p)'
  BY <1>3 DEF HoldsLease
<1>4. ASSUME StepOf(h) PROVE HoldsLease(h, p)'
  <2>1. CASE ControlStep(h)
    <3>1. pc'[h] \in Reviewing \cup {"release"}
      <4>1. CASE pc[h] \in Reviewing
        BY <2>1, <4>1, ReviewingGoesOn
      <4>2. CASE pc[h] = "release"
        BY <2>1, <4>2, ControlSteps DEF Edge, Timed, Reviewing
      <4> QED
        BY <4>1, <4>2 DEF HoldsLease
    <3> QED
      BY <1>3, <2>1, <3>1, ControlSteps DEF run
  <2>2. CASE PostReview(h) \/ PostAnswerLost(h)
    BY <1>3, <2>2 DEF PostReview, PostAnswerLost, Goto, Reviewing, run, TypeOK
  <2>3. CASE Complete(h)
    <3>1. on[h] = p
      BY DEF HoldsLease
    <3>2. leases' = [leases EXCEPT ![p] = OwnLease(h, "completed")]
      BY <2>3, <3>1, CompleteWrites
    <3>3. leases'[p].status = "completed"
      BY <3>2 DEF OwnLease, TypeOK
    <3> QED
      BY <3>3
  <2>4. CASE Release(h)
    BY <2>4, ReleaseFrees DEF HoldsLease
  <2>5. ~MarkFailed(h) /\ ~Requeue(h) /\ ~AcquireLock(h) /\ ~Fetch(h)
        /\ ~UpsertClaim(h) /\ ~ForceClaim(h) /\ ~Finish(h) /\ \A c \in Commit : ~ClaimNext(h, c)
    BY DEF HoldsLease, Reviewing, ClaimNext, MarkFailed, Requeue, AcquireLock, Fetch, UpsertClaim,
           ForceClaim, Finish
  <2> QED
    BY <1>4, <2>1, <2>2, <2>3, <2>4, <2>5 DEF StepOf
<1>5. ASSUME UNCHANGED <<pc, on, target, leased>> PROVE HoldsLease(h, p)'
  BY <1>3, <1>5 DEF HoldsLease
<1> QED
  BY <1>2, <1>4, <1>5, CalmSteps, UsersStay, ClockStays

\* A row in progress has a run that will complete or release it.
LEMMA LeasesStep == ASSUME Calm, CalmInv, Next PROVE LeasesHeld'
<1> TypeOK /\ Located /\ WorkersOnly /\ LeasesHeld
  BY CalmParts
<1> SUFFICES ASSUME NEW p \in Pr, leases'[p].status = "in_progress"
             PROVE  \E h \in Worker : HoldsLease(h, p)'
  BY DEF LeasesHeld
<1>1. ASSUME leases'[p].commit = leases[p].commit, leases'[p].owner = leases[p].owner,
             leases[p].status = "in_progress"
      PROVE  \E h \in Worker : HoldsLease(h, p)'
  BY <1>1, HolderStays DEF LeasesHeld
<1>2. ASSUME NEW r \in Worker, UpsertClaim(r) PROVE \E h \in Worker : HoldsLease(h, p)'
  <2> r \in Runner
    BY DEF Runner
  <2>1. CASE leases'[p] = leases[p]
    BY <1>1, <2>1
  <2>2. CASE leases'[p] # leases[p]
    <3>1. /\ p = on[r] /\ leases'[p] = OwnLease(r, "in_progress")
          /\ leased'[r] /\ pc'[r] = "review" /\ UNCHANGED <<on, target>> /\ pc[r] = "upsert"
      BY <1>2, <2>2 DEF UpsertClaim, Goto, TypeOK
    <3>2. target[r] # NoCommit
      BY <3>1 DEF Located, RunLocated
    <3> HoldsLease(r, p)'
      BY <3>1, <3>2 DEF HoldsLease, OwnLease, Reviewing
    <3> QED
      OBVIOUS
  <2> QED
    BY <2>1, <2>2
<1>3. ASSUME NEW r \in Worker, Complete(r) PROVE leases'[p] = leases[p]
  <2>1. leases' = [leases EXCEPT ![on[r]] = OwnLease(r, "completed")]
    BY <1>3, CompleteWrites
  <2> QED
    BY <2>1 DEF OwnLease, TypeOK
<1>4. ASSUME NEW r \in Worker, Release(r) PROVE leases'[p] = leases[p]
  BY <1>4, ReleaseFrees
<1>5. ASSUME Tick
      PROVE  /\ leases'[p].commit = leases[p].commit /\ leases'[p].owner = leases[p].owner
             /\ leases'[p].status = leases[p].status
  BY <1>5 DEF Tick, TypeOK, Lease
<1> QED
  BY <1>1, <1>2, <1>3, <1>4, <1>5, CalmLeaseSteps

\* A finished commit keeps its completed row and is not claimed again.
LEMMA FinishedStep == ASSUME Calm, CalmInv, Next PROVE FinishedStands'
<1> TypeOK /\ TypeOK' /\ Located /\ WorkersOnly /\ LeasesHeld /\ FinishedStands
  BY CalmParts, TypeStep
<1> DEFINE Stands(c) == leases[PrOf[c]].status = "completed" /\ leases[PrOf[c]].commit = c
<1>1. ASSUME NEW c \in finished' PROVE Stands(c)'
  <2> c \in Commit /\ PrOf[c] \in Pr
    BY KindAssumption DEF TypeOK
  <2>1. ASSUME c \in finished PROVE Stands(c)
    BY <2>1 DEF FinishedStands
  <2>2. ASSUME NEW r \in Worker, UpsertClaim(r) PROVE Stands(c)'
    <3>1. /\ pc[r] = "upsert" /\ UNCHANGED finished
          /\ leases' = leases \/ leases' = [leases EXCEPT ![on[r]] = OwnLease(r, "in_progress")]
      BY <2>2 DEF UpsertClaim
    <3>2. target[r] \in Commit /\ PrOf[target[r]] = on[r] /\ target[r] \notin finished
      BY <3>1 DEF FinishedStands, Located, RunLocated, Runner, TypeOK
    <3>3. PrOf[c] # on[r]
      BY <3>1, <3>2, OneCommit
    <3> QED
      BY <2>1, <3>1, <3>3 DEF TypeOK
  <2>3. ASSUME NEW r \in Worker, Complete(r) PROVE Stands(c)'
    <3>1. /\ PrOf[target[r]] = on[r] /\ target[r] \in Commit /\ on[r] \in Pr
          /\ leases' = [leases EXCEPT ![on[r]] = OwnLease(r, "completed")]
          /\ finished' = finished \cup {target[r]}
      BY <2>3, CompleteWrites
    <3>2. CASE c = target[r]
      BY <3>1, <3>2 DEF OwnLease, TypeOK
    <3>3. CASE c # target[r]
      <4>1. PrOf[c] # on[r]
        BY <3>1, <3>3, OneCommit
      <4> QED
        BY <2>1, <3>1, <3>3, <4>1
    <3> QED
      BY <3>2, <3>3
  <2>4. ASSUME NEW r \in Worker, Release(r) PROVE Stands(c)'
    BY <2>1, <2>4, ReleaseFrees DEF Release
  <2>5. ASSUME Tick PROVE Stands(c)'
    BY <2>1, <2>5 DEF Tick
  <2>6. ASSUME UNCHANGED <<leases, finished>> PROVE Stands(c)'
    BY <2>1, <2>6
  <2> HIDE DEF Stands
  <2> QED
    BY <2>2, <2>3, <2>4, <2>5, <2>6, CalmLeaseSteps
<1>2. ASSUME NEW q \in Runner, pc'[q] = "upsert" PROVE target'[q] \notin finished'
  <2> q \in Worker
    BY <1>2, WorkersStep DEF WorkersOnly
  <2>1. ASSUME pc[q] = "upsert" PROVE target[q] \notin finished
    BY <2>1 DEF FinishedStands
  <2>2. ASSUME NEW r \in Worker, StepOf(r), r # q PROVE target'[q] \notin finished'
    <3>1. pc[q] = "upsert" /\ target'[q] = target[q]
      BY <1>2, <2>2, OthersStay DEF Same, Runner
    <3>2. ASSUME Complete(r) PROVE target[q] # target[r]
      <4>1. pc[r] = "complete" /\ target[r] \in Commit /\ PrOf[target[r]] = on[r]
        BY <3>2, CompleteWrites
      <4>2. target[q] # NoCommit => PrOf[target[q]] = on[q]
        BY <3>1 DEF Located, RunLocated
      <4>3. on[q] # on[r]
        BY <2>2, <3>1, <4>1, OneRun
      <4> QED
        BY <4>1, <4>2, <4>3, NoneAssumption
    <3>3. finished' = finished \/ (Complete(r) /\ finished' = finished \cup {target[r]})
      BY <2>2, ControlSteps
      DEF StepOf, ClaimNext, MarkFailed, Requeue, AcquireLock, Fetch, UpsertClaim, ForceClaim,
          PostReview, PostAnswerLost, Complete, Finish, Release, Runner
    <3> QED
      BY <2>1, <3>1, <3>2, <3>3
  <2>3. ASSUME StepOf(q) PROVE target'[q] \notin finished'
    <3>1. SelectClaim(q)
      BY <1>2, <2>3, Arrivals
    <3>2. /\ ~Claimed(leases[on[q]], target[q]) /\ UNCHANGED <<target, finished>>
          /\ pc[q] = "select"
      BY <1>2, <3>1 DEF SelectClaim, Goto, TypeOK, run
    <3>3. target[q] # NoCommit /\ PrOf[target[q]] = on[q]
      BY <3>2 DEF Located, RunLocated
    <3> QED
      BY <3>2, <3>3 DEF FinishedStands, Claimed
  <2>4. ASSUME UNCHANGED <<pc, target, finished>> PROVE target'[q] \notin finished'
    BY <1>2, <2>1, <2>4
  <2> QED
    BY <2>2, <2>3, <2>4, CalmSteps, UsersStay, ClockStays
<1> QED
  BY <1>1, <1>2 DEF FinishedStands

\* What the steps of an undisturbed service do to a job row.
LEMMA CalmRows ==
  ASSUME Calm, TypeOK, WorkersOnly, Next
  PROVE  \/ UNCHANGED jobs
         \/ \E c \in Commit : Enqueue(c) /\ jobs' = [jobs EXCEPT ![c] = Enqueued(c)]
         \/ \E r \in Worker, c \in Commit : ClaimNext(r, c)
         \/ \E r \in Worker : MarkFailed(r) /\ jobs' = SetStatus(job[r], "failed")
         \/ \E r \in Worker : /\ Requeue(r) /\ tries[r] < MaxAttempts
                             /\ jobs[job[r]].status = "failed"
                             /\ jobs' = SetStatus(job[r], "pending")
         \/ \E r \in Worker : Finish(r) /\ jobs' = SetStatus(job[r], "done")
         \/ Tick
<1>1. ASSUME NEW r \in Worker, StepOf(r)
      PROVE  \/ UNCHANGED jobs
             \/ \E c \in Commit : ClaimNext(r, c)
             \/ MarkFailed(r) /\ jobs' = SetStatus(job[r], "failed")
             \/ /\ Requeue(r) /\ tries[r] < MaxAttempts
                /\ jobs[job[r]].status = "failed"
                /\ jobs' = SetStatus(job[r], "pending")
             \/ Finish(r) /\ jobs' = SetStatus(job[r], "done")
  BY <1>1, NothingFails, ControlSteps
  DEF StepOf, MarkFailed, Requeue, Finish, AcquireLock, Fetch, UpsertClaim, ForceClaim, PostReview,
      PostAnswerLost, Complete, Release, Runner
<1> QED
  BY <1>1, CalmSteps DEF Push, Enqueue, Redeliver, MarkReady, HumanReview, Toggle

\* The counts agree: a claim raises the row's and copies it, nothing else moves
\* either, and the requeue that follows a failure looks at the same number.
LEMMA AttemptsStep == ASSUME Calm, CalmInv, Next PROVE AttemptsCounted'
<1> TypeOK /\ TypeOK' /\ Located /\ WorkersOnly /\ AttemptsCounted /\ JobInHand /\ JobHeldOnce
  BY CalmParts, TypeStep
<1> DEFINE KeepsCount(c) == jobs'[c].attempts = jobs[c].attempts
           Counted(q) == pc[q] \notin {"idle", "requeue"} => tries[q] = jobs[job[q]].attempts
           Retried(c, q) == pc[q] = "requeue" /\ job[q] = c /\ tries[q] < MaxAttempts
           Settled(c) == \/ jobs[c].attempts = MaxAttempts
                         \/ \E q \in Worker : Retried(c, q)
<1>1. ASSUME NEW r \in Worker, NEW c \in Commit, ClaimNext(r, c), NEW q \in Worker, q # r,
             pc[q] \notin {"idle", "requeue"}
      PROVE  job[q] # c
  <2>1. jobs[job[q]].status = "running" /\ jobs[job[q]].age <= Stale
    BY <1>1 DEF JobInHand
  <2>2. jobs[c].age \in Int
    BY ClockAssumption DEF TypeOK, Job, AgeCap
  <2> QED
    BY <1>1, <2>1, <2>2, ClockAssumption DEF ClaimNext, Claimable, Pending, StaleRunning
<1>2. ASSUME NEW q \in Worker PROVE Counted(q)'
  <2> q \in Runner
    BY DEF Runner
  <2>1. Counted(q) /\ (pc[q] \notin {"idle", "requeue"} => /\ job[q] \in Commit
                                                          /\ jobs[job[q]].status = "running")
    BY DEF AttemptsCounted, JobInHand, TypeOK
  <2>2. ASSUME NEW r \in Worker, NEW c \in Commit, ClaimNext(r, c) PROVE Counted(q)'
    <3>1. CASE q = r
      BY <2>2, <3>1 DEF ClaimNext, TypeOK
    <3>2. CASE q # r
      <4>1. pc'[q] = pc[q] /\ job'[q] = job[q] /\ tries'[q] = tries[q]
        BY <2>2, <3>2 DEF ClaimNext, Goto, TypeOK
      <4>2. pc[q] \notin {"idle", "requeue"} => jobs'[job[q]] = jobs[job[q]]
        BY <1>1, <2>1, <2>2, <3>2 DEF ClaimNext, TypeOK
      <4> QED
        BY <2>1, <4>1, <4>2
    <3> QED
      BY <3>1, <3>2
  <2>3. ASSUME \A r \in Worker, c \in Commit : ~ClaimNext(r, c), pc[q] \notin {"idle", "requeue"}
        PROVE  KeepsCount(job[q])
    <3> job[q] \in Commit /\ jobs[job[q]].status = "running"
      BY <2>1, <2>3
    <3>1. ASSUME NEW d \in Commit, jobs' = [jobs EXCEPT ![d] = Enqueued(d)] PROVE KeepsCount(job[q])
      BY <3>1 DEF Enqueued, Written, TypeOK
    <3>2. ASSUME NEW d, NEW s, jobs' = SetStatus(d, s) PROVE KeepsCount(job[q])
      BY <3>2 DEF SetStatus, Written, TypeOK
    <3>3. ASSUME Tick PROVE KeepsCount(job[q])
      BY <3>3 DEF Tick, TypeOK, Job
    <3> QED
      BY <2>3, <3>1, <3>2, <3>3, CalmRows
  <2>4. ASSUME \A r \in Worker, c \in Commit : ~ClaimNext(r, c)
        PROVE  pc'[q] \notin {"idle", "requeue"} =>
                  pc[q] \notin {"idle", "requeue"} /\ job'[q] = job[q] /\ tries'[q] = tries[q]
    <3>1. ASSUME NEW r \in Worker, StepOf(r), r # q PROVE Same(q)
      BY <3>1, OthersStay DEF Runner
    <3>2. ASSUME StepOf(q), ~End(q) PROVE UNCHANGED <<job, tries>> /\ pc[q] \notin {"idle", "requeue"}
      <4>1. pc[q] # "idle"
        BY <2>4, <3>2, IdleRests
      <4> QED
        BY <2>4, <3>2, <4>1, ControlSteps
        DEF StepOf, MarkFailed, Requeue, AcquireLock, Fetch, UpsertClaim, ForceClaim, PostReview,
            PostAnswerLost, Complete, Finish, Release, Edge, Timed, Reviewing, run
    <3>3. ASSUME StepOf(q), End(q) PROVE pc'[q] = "idle"
      BY <3>3 DEF End, Goto, TypeOK
    <3> QED
      BY <3>1, <3>2, <3>3, CalmSteps, UsersStay, ClockStays DEF Same
  <2> QED
    BY <2>1, <2>2, <2>3, <2>4
<1>3. ASSUME NEW c \in Commit, jobs'[c].status = "failed" PROVE Settled(c)'
  <2>1. jobs[c].status = "failed" => Settled(c)
    BY DEF AttemptsCounted
  <2>2. ASSUME NEW q \in Worker, Retried(c, q), ~Requeue(q) PROVE Retried(c, q)'
    <3>1. q \in Runner /\ pc[q] = "requeue"
      BY <2>2 DEF Runner
    <3>2. ASSUME NEW r \in Worker, StepOf(r) PROVE r # q
      BY <2>2, <3>1, <3>2, ControlSteps
      DEF StepOf, ClaimNext, MarkFailed, AcquireLock, Fetch, UpsertClaim, ForceClaim, PostReview,
          PostAnswerLost, Complete, Finish, Release, Edge, Timed, Reviewing
    <3>3. Same(q) \/ UNCHANGED <<pc, job, tries>>
      BY <3>1, <3>2, CalmSteps, OthersStay, UsersStay, ClockStays DEF Runner
    <3> QED
      BY <2>2, <3>3 DEF Same
  <2>3. ASSUME jobs'[c].attempts = jobs[c].attempts, jobs[c].status = "failed",
               \A q \in Worker : ~(Requeue(q) /\ Retried(c, q))
        PROVE  Settled(c)'
    BY <2>1, <2>2, <2>3
  <2>4. ASSUME NEW r \in Worker, MarkFailed(r), jobs' = SetStatus(job[r], "failed") PROVE Settled(c)'
    <3> r \in Runner
      BY DEF Runner
    <3>1. CASE c = job[r]
      <4>1. /\ jobs'[c].attempts = jobs[c].attempts /\ tries[r] = jobs[c].attempts
            /\ pc'[r] = "requeue" /\ UNCHANGED <<job, tries>>
        BY <2>4, <3>1 DEF SetStatus, Written, MarkFailed, Goto, AttemptsCounted, TypeOK, run
      <4>2. tries[r] \in 0..MaxAttempts
        BY DEF TypeOK
      <4>3. CASE tries[r] = MaxAttempts
        BY <4>1, <4>3
      <4>4. CASE tries[r] < MaxAttempts
        <5> Retried(c, r)'
          BY <3>1, <4>1, <4>4
        <5> QED
          OBVIOUS
      <4> QED
        BY <4>2, <4>3, <4>4, BoundAssumption
    <3>2. CASE c # job[r]
      <4>1. jobs'[c] = jobs[c] /\ pc[r] = "markFailed" /\ UNCHANGED <<job, tries>> /\ Goto(r, "requeue")
        BY <2>4, <3>2 DEF SetStatus, MarkFailed, TypeOK, run
      <4>2. \A q \in Worker : Retried(c, q) => Retried(c, q)'
        BY <4>1 DEF Goto, TypeOK, Runner
      <4> QED
        BY <1>3, <2>1, <4>1, <4>2
    <3> QED
      BY <3>1, <3>2
  <2>5. ASSUME NEW r \in Worker, Requeue(r), Retried(c, r), jobs[c].status = "failed" PROVE FALSE
    <3>1. jobs' = SetStatus(c, "pending")
      BY <2>5, NothingFails DEF Requeue
    <3> QED
      BY <1>3, <3>1 DEF SetStatus, Written, TypeOK
  <2>6. ASSUME ~\E r \in Worker : MarkFailed(r) /\ jobs' = SetStatus(job[r], "failed")
        PROVE  jobs'[c].attempts = jobs[c].attempts /\ jobs[c].status = "failed"
    <3>1. ASSUME NEW d \in Commit, jobs' = [jobs EXCEPT ![d] = Enqueued(d)] PROVE jobs'[c] = jobs[c]
      <4>1. Enqueued(d).status # "failed"
        BY DEF Enqueued, Written, NewJob
      <4> QED
        BY <1>3, <3>1, <4>1 DEF TypeOK
    <3>2. ASSUME NEW r \in Worker, NEW d \in Commit, ClaimNext(r, d) PROVE jobs'[c] = jobs[c]
      BY <1>3, <3>2 DEF ClaimNext, Written, TypeOK
    <3>3. ASSUME NEW d, NEW s \in {"pending", "done"}, jobs' = SetStatus(d, s) PROVE jobs'[c] = jobs[c]
      BY <1>3, <3>3 DEF SetStatus, Written, TypeOK
    <3>4. ASSUME Tick
          PROVE  jobs'[c].attempts = jobs[c].attempts /\ jobs'[c].status = jobs[c].status
      BY <3>4 DEF Tick, TypeOK, Job
    <3> QED
      BY <1>3, <2>6, <3>1, <3>2, <3>3, <3>4, CalmRows
  <2> QED
    BY <2>3, <2>4, <2>5, <2>6
<1> QED
  BY <1>2, <1>3 DEF AttemptsCounted

\* An undisturbed service at the start.
LEMMA InitCalm == Init => CalmInv
<1> SUFFICES ASSUME Init PROVE CalmInv
  OBVIOUS
<1>1. WorkersOnly /\ PermitsHeld /\ LocksHeld /\ ClaimsAreFresh
  BY DEF Init, WorkersOnly, PermitsHeld, LocksHeld, ClaimsAreFresh, Runner
<1>2. LeasesHeld /\ FinishedStands /\ AttemptsCounted
  BY DEF Init, NoLease, LeasesHeld, FinishedStands, AttemptsCounted, Runner
<1> QED
  BY <1>1, <1>2, InitHeld DEF CalmInv

\* Every step, and every stutter, of an undisturbed service keeps it one.
LEMMA StepCalm == ASSUME Calm, CalmInv, [Next]_vars PROVE CalmInv'
<1>1. CASE Next
  <2>1. WorkersOnly' /\ PermitsHeld' /\ LocksHeld' /\ ClaimsAreFresh'
    BY <1>1, CalmParts, WorkersStep, PermitsStep, LocksStep, FreshStep
  <2>2. LeasesHeld' /\ FinishedStands' /\ AttemptsCounted'
    BY <1>1, LeasesStep, FinishedStep, AttemptsStep
  <2>3. WaitsAreShort /\ WaitsAreShort'
    BY <2>1, CalmParts, ClockAssumption DEF ClaimsAreFresh, WaitsAreShort
  <2>4. HeldInv'
    BY <1>1, <2>3, StepHeld DEF CalmInv
  <2> QED
    BY <2>1, <2>2, <2>4 DEF CalmInv
<1>2. CASE UNCHANGED vars
  <2>1. WorkersOnly' /\ PermitsHeld' /\ LocksHeld' /\ ClaimsAreFresh'
    BY <1>2 DEF CalmInv, WorkersOnly, PermitsHeld, LocksHeld, ClaimsAreFresh, vars, WorkersOf
  <2>2. LeasesHeld' /\ FinishedStands' /\ AttemptsCounted'
    BY <1>2 DEF CalmInv, LeasesHeld, HoldsLease, FinishedStands, AttemptsCounted, vars
  <2>3. WaitsAreShort /\ WaitsAreShort'
    BY <2>1, CalmParts, ClockAssumption DEF ClaimsAreFresh, WaitsAreShort
  <2>4. HeldInv'
    BY <1>2, <2>3, StepHeld DEF CalmInv
  <2> QED
    BY <2>1, <2>2, <2>4 DEF CalmInv
<1> QED
  BY <1>1, <1>2

\* The invariant of an undisturbed service.
LEMMA CalmInvariance == ASSUME Calm PROVE Spec => []CalmInv
<1>1. CalmInv /\ [Next]_vars => CalmInv'
  BY StepCalm
<1> QED
  BY <1>1, InitCalm, PTL DEF Spec

\* queue.rs and worker.rs: undisturbed and with no more workers than permits, the
\* waits are as short as JobsAreHeldOnce asks: no job is claimed for stale.
THEOREM CalmJobsAreHeldOnce == ASSUME Calm PROVE Spec => []JobHeldOnce
<1>1. CalmInv => JobHeldOnce
  BY CalmParts
<1> QED
  BY <1>1, CalmInvariance, PTL

\* state.rs, release_sha_claim: undisturbed, a row in progress belongs to a run
\* that is still going, whatever timed out, failed or was pushed meanwhile.
THEOREM NoLeaseIsOrphaned == ASSUME Calm PROVE Spec => []NoOrphanLease
<1>1. CalmInv => NoOrphanLease
  BY CalmParts DEF LeasesHeld, HoldsLease, NoOrphanLease, Runner
<1> QED
  BY <1>1, CalmInvariance, PTL

\* queue.rs, requeue_if_retryable: undisturbed, a job nobody works on any more and
\* that is failed has had every attempt it is entitled to.
THEOREM RetriesAreUsed == ASSUME Calm PROVE Spec => []QuietRetriesUsed
<1>1. CalmInv => QuietRetriesUsed
  BY CalmParts DEF AttemptsCounted, Quiet, QuietRetriesUsed, Runner
<1> QED
  BY <1>1, CalmInvariance, PTL

\* A step never starts a review of a finished commit.
LEMMA OnceStep ==
  ASSUME Calm, CalmInv, [Next]_vars
  PROVE  [\A r \in Runner \ Commander :
             pc'[r] = "review" /\ pc[r] # "review" => target[r] \notin finished]_pc
<1> TypeOK /\ WorkersOnly /\ FinishedStands
  BY CalmParts
<1> SUFFICES ASSUME Next, NEW q \in Runner \ Commander, pc'[q] = "review", pc[q] # "review"
             PROVE  target[q] \notin finished
  BY DEF vars
<1>1. ASSUME NEW r \in Worker, StepOf(r), r # q PROVE FALSE
  BY <1>1, OthersStay DEF Same, Runner
<1>2. ASSUME StepOf(q) PROVE pc[q] = "upsert"
  <2>1. q \in Worker
    BY <1>2, IdleRests DEF WorkersOnly
  <2> QED
    BY <1>2, <2>1, Arrivals DEF UpsertClaim
<1>3. pc[q] = "upsert" => target[q] \notin finished
  BY DEF FinishedStands
<1> QED
  BY <1>1, <1>2, <1>3, CalmSteps, UsersStay, ClockStays

\* state.rs, try_claim_sha: undisturbed, a commit that went through the pipeline is
\* not reviewed again, however often its event is delivered and its job retried.
THEOREM CommitsAreReviewedOnce == ASSUME Calm PROVE Spec => ReviewedOnce
<1>1. CalmInv /\ [Next]_vars =>
        [\A r \in Runner \ Commander :
            pc'[r] = "review" /\ pc[r] # "review" => target[r] \notin finished]_pc
  BY OnceStep
<1> QED
  BY <1>1, CalmInvariance, PTL DEF Spec, ReviewedOnce

\* The commit a run posts about is the head, and nobody else is posting about it.
LEMMA PostsOnce ==
  ASSUME Calm, CalmInv, PostsAreFiled, PostedOnce, "lost" \notin Kinds, [Next]_vars
  PROVE  PostsAreFiled' /\ PostedOnce'
<1> TypeOK /\ Located /\ WorkersOnly
  BY CalmParts
<1> TypeOK' /\ WorkersOnly'
  BY StepCalm DEF CalmInv, HeldInv, IInv
<1> DEFINE Filed(c) == (posted[c] > 0 => c \in filed) /\ posted[c] <= 1
<1>1. ASSUME NEW r \in Worker, PostReview(r)
      PROVE  /\ pc[r] = "post" /\ target[r] \in Commit /\ PrOf[target[r]] = on[r]
             /\ posted[target[r]] = 0
             /\ posted' = [posted EXCEPT ![target[r]] = 1]
             /\ filed' = filed \cup {target[r]}
  <2>1. r \in Runner /\ pc[r] = "post" /\ Posted(r)
    BY <1>1 DEF PostReview, Runner
  <2>2. target[r] \in Commit /\ PrOf[target[r]] = on[r] /\ on[r] \in Pr /\ head[on[r]] # NoCommit
    BY <2>1 DEF Located, RunLocated, Reviewing, TypeOK
  <2>3. head[on[r]] \in Commit /\ PrOf[head[on[r]]] = on[r]
    BY <2>2 DEF Located, TypeOK
  <2>4. head[on[r]] = target[r]
    BY <2>2, <2>3, OneCommit
  <2>5. posted[target[r]] = 0
    BY <2>1 DEF PostsAreFiled
  <2>6. OneMore(posted[target[r]], MaxPosted) = 1
    BY <2>5, BoundAssumption DEF OneMore
  <2> QED
    BY <2>1, <2>2, <2>4, <2>5, <2>6 DEF Posted
<1>2. \/ UNCHANGED posted /\ filed \subseteq filed'
      \/ \E r \in Worker : PostReview(r)
  <2>1. ASSUME NEW r \in Worker, StepOf(r)
        PROVE  PostReview(r) \/ (UNCHANGED posted /\ filed \subseteq filed')
    BY <2>1, ControlSteps
    DEF StepOf, ClaimNext, MarkFailed, Requeue, AcquireLock, Fetch, UpsertClaim, ForceClaim,
        PostAnswerLost, Complete, Finish, Release, Runner, github, Spend
  <2> QED
    BY <2>1, CalmSteps
    DEF vars, Push, Enqueue, Redeliver, MarkReady, HumanReview, Toggle, Tick, github
<1>3. ASSUME NEW c \in Commit PROVE Filed(c)'
  <2>1. Filed(c)
    BY DEF PostsAreFiled, PostedOnce
  <2>2. ASSUME NEW r \in Worker, PostReview(r) PROVE Filed(c)'
    BY <1>1, <2>1, <2>2 DEF TypeOK
  <2> QED
    BY <1>2, <2>1, <2>2
<1>4. ASSUME NEW q \in Runner, pc'[q] = "post" PROVE posted'[target'[q]] = 0
  <2> q \in Worker
    BY <1>4 DEF WorkersOnly
  <2>1. ASSUME pc[q] = "post", target'[q] = target[q] PROVE posted'[target'[q]] = 0
    <3>1. posted[target[q]] = 0 /\ target[q] \in Commit
      BY <2>1 DEF PostsAreFiled, Located, RunLocated, Reviewing, TypeOK
    <3>2. ASSUME NEW r \in Worker, PostReview(r) PROVE target[q] # target[r]
      <4>1. pc[r] = "post" /\ target[r] \in Commit /\ PrOf[target[r]] = on[r] /\ pc'[r] = "complete"
        BY <1>1, <3>2 DEF PostReview, Goto, TypeOK, Runner
      <4>2. target[q] # NoCommit /\ PrOf[target[q]] = on[q]
        BY <2>1 DEF Located, RunLocated, Reviewing
      <4>3. on[q] # on[r]
        BY <1>4, <2>1, <4>1, OneRun
      <4> QED
        BY <4>1, <4>2, <4>3
    <3> QED
      BY <1>1, <1>2, <2>1, <3>1, <3>2 DEF TypeOK
  <2>2. ASSUME NEW r \in Worker, StepOf(r), r # q PROVE posted'[target'[q]] = 0
    BY <1>4, <2>1, <2>2, OthersStay DEF Same, Runner
  <2>3. ASSUME StepOf(q) PROVE posted'[target'[q]] = 0
    <3>1. CheckPosted(q)
      BY <1>4, <2>3, Arrivals DEF PostAnswerLost, Spend
    <3>2. target[q] \notin filed /\ UNCHANGED <<target, posted>> /\ pc[q] = "check"
      BY <1>4, <3>1 DEF CheckPosted, Goto, Spend, TypeOK, run, github
    <3>3. target[q] \in Commit
      BY <3>2 DEF Located, RunLocated, Reviewing, TypeOK
    <3>4. ~(posted[target[q]] > 0) /\ posted[target[q]] \in 0..MaxPosted
      BY <3>2, <3>3 DEF PostsAreFiled, TypeOK
    <3> QED
      BY <3>2, <3>4, BoundAssumption
  <2>4. ASSUME UNCHANGED <<pc, target>> PROVE posted'[target'[q]] = 0
    BY <1>4, <2>1, <2>4
  <2> QED
    BY <2>2, <2>3, <2>4, CalmSteps, UsersStay, ClockStays DEF vars
<1> QED
  BY <1>3, <1>4 DEF PostsAreFiled, PostedOnce

\* review.rs, review_exists_for_commit: undisturbed, and with no answer of GitHub
\* lost, GitHub gets at most one review of a commit from all replicas together.
THEOREM ReviewsArePostedOnce == ASSUME Calm, "lost" \notin Kinds PROVE Spec => []PostedOnce
<1>1. Init => PostsAreFiled /\ PostedOnce
  BY DEF Init, PostsAreFiled, PostedOnce
<1>2. CalmInv /\ PostsAreFiled /\ PostedOnce /\ [Next]_vars => (PostsAreFiled /\ PostedOnce)'
  BY PostsOnce
<1> QED
  BY <1>1, <1>2, CalmInvariance, PTL DEF Spec

\* Only a run on a finished commit comes to its end without a failure.
LEMMA DoneStands ==
  ASSUME Calm, CalmInv, DoneIsFinished, "toggle" \notin Kinds, [Next]_vars
  PROVE  DoneIsFinished'
<1> TypeOK /\ Located /\ WorkersOnly /\ CompletedLeaseIsEarned /\ LeasesHeld
  BY CalmParts
<1>1. finished \subseteq finished'
  BY CalmLeaseSteps DEF vars, UpsertClaim, Complete, Release, Tick
<1>2. \A p \in Pr : active'[p] /\ ~draft'[p]
  <2>1. ASSUME NEW r \in Worker, StepOf(r) PROVE UNCHANGED <<active, draft>>
    BY <2>1, ControlSteps
    DEF StepOf, ClaimNext, MarkFailed, Requeue, AcquireLock, Fetch, UpsertClaim, ForceClaim,
        PostReview, PostAnswerLost, Complete, Finish, Release, Runner, github
  <2>2. UNCHANGED <<active, draft>>
    BY <2>1, CalmSteps
    DEF vars, Push, Enqueue, Redeliver, MarkReady, HumanReview, Toggle, Spend, Tick, github,
        DoneIsFinished
  <2> QED
    BY <2>2 DEF DoneIsFinished
<1>3. ASSUME NEW q \in Worker, pc'[q] \in {"finish", "wrapup"} PROVE target'[q] \in finished'
  <2> q \in Runner
    BY DEF Runner
  <2>1. ASSUME pc[q] \in {"finish", "wrapup"}, target'[q] = target[q] PROVE target'[q] \in finished'
    BY <1>1, <2>1 DEF DoneIsFinished
  <2>2. ASSUME NEW r \in Worker, StepOf(r), r # q PROVE target'[q] \in finished'
    BY <1>3, <2>1, <2>2, OthersStay DEF Same, Runner
  <2>3. ASSUME pc[q] \in {"select", "upsert"}, Claimed(leases[on[q]], target[q]) \/ ~Claims(q)
        PROVE  target[q] \in finished
    <3>1. on[q] \in Pr /\ leases[on[q]].commit = target[q]
          /\ leases[on[q]].status \in {"completed", "in_progress"}
      BY <2>3 DEF Claimed, Claims, Located, RunLocated
    <3>2. ASSUME leases[on[q]].status = "in_progress" PROVE FALSE
      <4>1. PICK h \in Worker : HoldsLease(h, on[q])
        BY <3>1, <3>2 DEF LeasesHeld
      <4>2. h = q
        BY <2>3, <4>1, OneRun DEF HoldsLease, Reviewing
      <4> QED
        BY <2>3, <4>1, <4>2 DEF HoldsLease, Reviewing
    <3> QED
      BY <3>1, <3>2 DEF CompletedLeaseIsEarned
  <2>4. ASSUME StepOf(q) PROVE target'[q] \in finished'
    <3>1. CASE SelectClaim(q) \/ WrapUp(q)
      <4>1. \/ pc[q] = "wrapup"
            \/ pc[q] = "select" /\ Claimed(leases[on[q]], target[q])
        BY <1>3, <3>1 DEF SelectClaim, WrapUp, Goto, TypeOK
      <4>2. UNCHANGED <<target, finished>>
        BY <3>1 DEF SelectClaim, WrapUp, run
      <4> QED
        BY <2>1, <2>3, <4>1, <4>2
    <3>2. CASE UpsertClaim(q)
      <4>1. pc[q] = "upsert" /\ ~Claims(q) /\ UNCHANGED <<target, finished>>
        BY <1>3, <3>2 DEF UpsertClaim, Goto, TypeOK
      <4> QED
        BY <2>3, <4>1
    <3>3. CASE Complete(q)
      BY <3>3 DEF Complete, run
    <3>4. ~Fetch(q)
      BY <1>3, KindAssumption DEF Fetch, Skipped, Goto, TypeOK, DoneIsFinished, Located, RunLocated
    <3> QED
      BY <1>3, <2>4, <3>1, <3>2, <3>3, <3>4, Arrivals
  <2>5. ASSUME UNCHANGED <<pc, target>> PROVE target'[q] \in finished'
    BY <1>3, <2>1, <2>5
  <2> QED
    BY <2>2, <2>4, <2>5, CalmSteps, UsersStay, ClockStays DEF vars
<1>4. ASSUME NEW c \in Commit, jobs'[c].status = "done" PROVE c \in finished'
  <2>1. ASSUME jobs[c].status = "done" PROVE c \in finished'
    BY <1>1, <2>1 DEF DoneIsFinished
  <2>2. ASSUME NEW r \in Worker, Finish(r), jobs' = SetStatus(job[r], "done"), c = job[r]
        PROVE  c \in finished'
    <3>1. pc[r] = "finish" /\ target[r] \in finished
      BY <2>2 DEF Finish, DoneIsFinished
    <3>2. target[r] = job[r]
      BY <3>1, TargetIsJob, NoneAssumption DEF TypeOK
    <3> QED
      BY <1>1, <2>2, <3>1, <3>2
  <2>3. ASSUME NEW d, NEW s, jobs' = SetStatus(d, s), c # d \/ s # "done" PROVE jobs[c].status = "done"
    BY <1>4, <2>3 DEF SetStatus, Written, TypeOK
  <2>4. ASSUME NEW d \in Commit, jobs' = [jobs EXCEPT ![d] = Enqueued(d)] PROVE jobs[c].status = "done"
    BY <1>4, <2>4 DEF Enqueued, Written, NewJob, TypeOK
  <2>5. ASSUME NEW r \in Worker, NEW d \in Commit, ClaimNext(r, d) PROVE jobs[c].status = "done"
    BY <1>4, <2>5 DEF ClaimNext, Written, TypeOK
  <2>6. ASSUME Tick PROVE jobs[c].status = "done"
    BY <1>4, <2>6 DEF Tick, TypeOK, Job
  <2>7. ASSUME UNCHANGED jobs PROVE jobs[c].status = "done"
    BY <1>4, <2>7
  <2> QED
    BY <2>1, <2>2, <2>3, <2>4, <2>5, <2>6, <2>7, CalmRows DEF vars
<1> QED
  BY <1>2, <1>3, <1>4 DEF DoneIsFinished

\* worker.rs, mark_done: undisturbed, with no draft and no repository switched off, a
\* job is done only when its commit went through the pipeline; so when all work is
\* over no head commit has been skipped.
THEOREM HeadsAreReviewed ==
  ASSUME Calm, "toggle" \notin Kinds, StartAsDraft = {} PROVE Spec => []QuietHeadReviewed
<1>1. Init => DoneIsFinished
  <2> SUFFICES ASSUME Init PROVE DoneIsFinished
    OBVIOUS
  <2>1. \A p \in Pr : active[p] /\ ~draft[p]
    <3>1. ASSUME NEW p \in Pr PROVE active[p] /\ (draft[p] <=> p \in StartAsDraft)
      BY DEF Init
    <3> QED
      BY <3>1
  <2>2. \A r \in Worker : pc[r] = "idle"
    BY DEF Init, Runner
  <2>3. \A c \in Commit : jobs[c].status = "absent"
    BY DEF Init
  <2> QED
    BY <2>1, <2>2, <2>3 DEF DoneIsFinished
<1>2. CalmInv /\ DoneIsFinished /\ [Next]_vars => DoneIsFinished'
  BY DoneStands
<1>3. DoneIsFinished => QuietHeadReviewed
  BY DEF DoneIsFinished, QuietHeadReviewed
<1> QED
  BY <1>1, <1>2, <1>3, CalmInvariance, PTL DEF Spec
=============================================================================
