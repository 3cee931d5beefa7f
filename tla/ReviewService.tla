--------------------------- MODULE ReviewService ---------------------------
(***************************************************************************)
(* The path of a review, from the webhook to the pull-request review on    *)
(* GitHub: the durable job queue (src/bot/queue.rs), the workers that      *)
(* drain it and the two ways around it, the inline fallback and the slash  *)
(* command (src/bot/worker.rs, src/bot/commands.rs), the SHA leases        *)
(* (src/state.rs) and the skeleton of the review pipeline                  *)
(* (src/bot/review/pipeline.rs).  Every SQL statement is one step, as are  *)
(* the waits between them; the per-PR lock is the abstract mutex that      *)
(* PrLocks is proved to implement.                                         *)
(*                                                                         *)
(* Several replicas share the database.  Time is a set of ages, capped     *)
(* where no comparison can tell a larger value.                            *)
(***************************************************************************)
EXTENDS Integers, FiniteSets

CONSTANTS
    Pr, Commit,         \* pull requests; commits pushed to them (job keys)
    PrOf,               \* PrOf[c] : the pull request of commit c
    Replica,            \* server processes on one database
    Worker,             \* queue workers of all replicas
    Commander,          \* tasks running a slash-command review
    Inline,             \* tasks running a review whose enqueue failed
    Home,               \* Home[r] : the replica of runner r
    Permits,            \* REVIEW_PERMITS of a replica
    MaxAttempts,        \* 3 in the code
    Timeout, Stale,     \* review timeout, stale window of jobs and leases
    MaxPosted,          \* where the count of posted reviews saturates
    StartAsDraft,       \* pull requests opened as drafts
    Kinds, Budget,      \* which disturbances may happen, and how many in all
    NoCommit, NoPr, NoRunner,
    Gone                \* a lease owner that is no longer any live process

Runner == Worker \cup Commander \cup Inline

Disturbance == {"crash", "fault", "redeliver", "force", "lost", "human", "toggle"}

ASSUME KindAssumption ==
    /\ Worker \cap Commander = {} /\ Worker \cap Inline = {} /\ Commander \cap Inline = {}
    /\ PrOf \in [Commit -> Pr]
    /\ Home \in [Runner -> Replica]
    /\ StartAsDraft \subseteq Pr

ASSUME NoneAssumption ==
    /\ NoCommit \notin Commit /\ NoPr \notin Pr /\ NoRunner \notin Runner
    /\ Gone \notin Replica

\* stale_claim_secs and stale_secs: max(timeout + 120, 600) exceeds the timeout.
ASSUME ClockAssumption == Timeout \in Nat /\ Stale \in Nat /\ Timeout < Stale

ASSUME BoundAssumption ==
    /\ Permits \in Nat \ {0} /\ MaxAttempts \in Nat \ {0} /\ MaxPosted \in Nat \ {0, 1}
    /\ Kinds \subseteq Disturbance /\ Budget \in Nat
    /\ IsFiniteSet(Commit)

VARIABLES
    jobs,       \* review_jobs, one row per commit
    leases,     \* reviewed_commits, one row per pull request
    head,       \* GitHub: head commit of each pull request
    active,     \* dashboard: is the repository of the pull request reviewed
    draft,      \* GitHub: is the pull request a draft
    hook,       \* the webhook of each commit: unsent, outstanding or handled
    posted,     \* how many reviews of each commit we posted
    filed,      \* GitHub: commits it lists some review under
    finished,   \* commits a run took through the whole pipeline
    pc, on, job, tries, target, leased, spent,      \* per runner
    permits,    \* permits[i] : runners holding one of replica i's permits
    locks,      \* locks[i][p] : runner inside replica i's lock for p
    left        \* what remains of Budget

github == <<head, active, draft, posted, filed>>
run == <<on, job, tries, target, leased, spent>>    \* all of a run but its pc
held == <<permits, locks>>
vars == <<jobs, leases, head, active, draft, hook, posted, filed, finished,
          pc, on, job, tries, target, leased, spent, permits, locks, left>>

Status == {"absent", "pending", "running", "done", "failed"}
AgeCap == Stale + 1
Job == [status : Status, attempts : 0..MaxAttempts, age : 0..AgeCap, born : Nat]
Lease == [commit : Commit \cup {NoCommit}, status : {"free", "in_progress", "completed"},
          owner : Replica \cup {Gone}, age : 0..AgeCap]
NoLease == [commit |-> NoCommit, status |-> "free", owner |-> Gone, age |-> 0]

\* Inside timeout(review_timeout, ...); the other steps of a run are not timed.
Timed == {"fetch", "select", "upsert", "review", "check", "post", "complete", "wrapup"}
\* Holding the claim, or believing to.
Reviewing == {"review", "check", "post", "complete"}
Pc == Timed \cup {"idle", "permit", "lock", "finish", "release", "markFailed", "requeue"}

TypeOK ==
    /\ jobs \in [Commit -> Job]
    /\ leases \in [Pr -> Lease]
    /\ head \in [Pr -> Commit \cup {NoCommit}]
    /\ active \in [Pr -> BOOLEAN]
    /\ draft \in [Pr -> BOOLEAN]
    /\ hook \in [Commit -> {"unsent", "outstanding", "handled"}]
    /\ posted \in [Commit -> 0..MaxPosted]
    /\ filed \subseteq Commit
    /\ finished \subseteq Commit
    /\ pc \in [Runner -> Pc]
    /\ on \in [Runner -> Pr \cup {NoPr}]
    /\ job \in [Runner -> Commit \cup {NoCommit}]
    /\ tries \in [Runner -> 0..MaxAttempts]
    /\ target \in [Runner -> Commit \cup {NoCommit}]
    /\ leased \in [Runner -> BOOLEAN]
    /\ spent \in [Runner -> 0..Timeout]
    /\ permits \in [Replica -> SUBSET Runner]
    /\ locks \in [Replica -> [Pr -> Runner \cup {NoRunner}]]
    /\ left \in Nat

Init ==
    /\ jobs = [c \in Commit |-> [status |-> "absent", attempts |-> 0, age |-> 0, born |-> 0]]
    /\ leases = [p \in Pr |-> NoLease]
    /\ head = [p \in Pr |-> NoCommit]
    /\ active = [p \in Pr |-> TRUE]
    /\ draft = [p \in Pr |-> p \in StartAsDraft]
    /\ hook = [c \in Commit |-> "unsent"]
    /\ posted = [c \in Commit |-> 0]
    /\ filed = {}
    /\ finished = {}
    /\ pc = [r \in Runner |-> "idle"]
    /\ on = [r \in Runner |-> NoPr]
    /\ job = [r \in Runner |-> NoCommit]
    /\ tries = [r \in Runner |-> 0]
    /\ target = [r \in Runner |-> NoCommit]
    /\ leased = [r \in Runner |-> FALSE]
    /\ spent = [r \in Runner |-> 0]
    /\ permits = [i \in Replica |-> {}]
    /\ locks = [i \in Replica |-> [p \in Pr |-> NoRunner]]
    /\ left = Budget

-----------------------------------------------------------------------------
\* Helpers.

Goto(r, s) == pc' = [pc EXCEPT ![r] = s]

\* Counting, as far as anything can tell.
OneMore(n, cap) == IF n < cap THEN n + 1 ELSE n

Spend(k) == k \in Kinds /\ left > 0 /\ left' = left - 1

\* A statement whose error the code ignores: it runs, or a fault loses it.
Ran(ok) == IF ok THEN UNCHANGED left ELSE Spend("fault")

\* Row j of review_jobs written by an UPDATE: updated_at is now.
Written(j, s, n) == [status |-> s, attempts |-> n, age |-> 0, born |-> j.born]

\* Mutant: the job table spelled like the lease table.
SetLeaseWord(c, s) ==
    [jobs EXCEPT ![c] = Written(@, IF s = "done" THEN "completed" ELSE s, @.attempts)]

SetStatus(c, s) == [jobs EXCEPT ![c] = Written(@, s, @.attempts)]

\* Mutants: a claim that keeps the row's created_at; one that writes 'completed'.
OldLease(r, s) ==
    [commit |-> target[r], status |-> s, owner |-> Home[r], age |-> leases[on[r]].age]
DoneLease(r, s) ==
    [commit |-> target[r], status |-> "completed", owner |-> Home[r], age |-> 0]

OwnLease(r, s) == [commit |-> target[r], status |-> s, owner |-> Home[r], age |-> 0]

\* The future owns its permit and its guard: both go when it ends.
LetGo(r) ==
    /\ permits' = [permits EXCEPT ![Home[r]] = @ \ {r}]
    /\ locks' = [locks EXCEPT ![Home[r]] = [p \in Pr |-> IF @[p] = r THEN NoRunner ELSE @[p]]]

End(r) ==
    /\ Goto(r, "idle")
    /\ on' = [on EXCEPT ![r] = NoPr]
    /\ job' = [job EXCEPT ![r] = NoCommit]
    /\ tries' = [tries EXCEPT ![r] = 0]
    /\ target' = [target EXCEPT ![r] = NoCommit]
    /\ leased' = [leased EXCEPT ![r] = FALSE]
    /\ spent' = [spent EXCEPT ![r] = 0]
    /\ LetGo(r)

-----------------------------------------------------------------------------
\* GitHub and its users.

Push(c) ==
    /\ hook[c] = "unsent"
    /\ hook' = [hook EXCEPT ![c] = "outstanding"]
    /\ head' = [head EXCEPT ![PrOf[c]] = c]
    /\ UNCHANGED <<jobs, leases, active, draft, posted, filed, finished, pc, run, held, left>>

\* reopened: the head commit is sent once more.
Redeliver(p) ==
    /\ head[p] # NoCommit
    /\ hook[head[p]] = "handled"
    /\ Spend("redeliver")
    /\ hook' = [hook EXCEPT ![head[p]] = "outstanding"]
    /\ UNCHANGED <<jobs, leases, github, finished, pc, run, held>>

\* ready_for_review
MarkReady(p) ==
    /\ draft[p] /\ head[p] # NoCommit
    /\ hook[head[p]] = "handled"
    /\ draft' = [draft EXCEPT ![p] = FALSE]
    /\ hook' = [hook EXCEPT ![head[p]] = "outstanding"]
    /\ UNCHANGED <<jobs, leases, head, active, posted, filed, finished, pc, run, held, left>>

\* Somebody else reviews the head commit.
HumanReview(p) ==
    /\ head[p] # NoCommit
    /\ Spend("human")
    /\ filed' = filed \cup {head[p]}
    /\ UNCHANGED <<jobs, leases, head, active, draft, hook, posted, finished, pc, run, held>>

\* An administrator switches the repository off or on.
Toggle(p) ==
    /\ Spend("toggle")
    /\ active' = [active EXCEPT ![p] = ~@]
    /\ UNCHANGED <<jobs, leases, head, draft, hook, posted, filed, finished, pc, run, held>>

\* "@codasaurus review" on p: spawn_review, which waits for a permit first.
Command(r, p) ==
    /\ pc[r] = "idle"
    /\ head[p] # NoCommit
    /\ Spend("force")
    /\ Goto(r, "permit")
    /\ on' = [on EXCEPT ![r] = p]
    /\ UNCHANGED <<jobs, leases, github, hook, finished, job, tries, target, leased, spent, held>>

-----------------------------------------------------------------------------
\* Webhook intake and the job queue.

\* A job created after every job there is.
NewJob ==
    [status |-> "pending", attempts |-> 0, age |-> 0,
     born |-> 1 + Cardinality({c \in Commit : jobs[c].status # "absent"})]

\* Mutant: a redelivered event re-pends whatever job there is.
RependAll(c) ==
    IF jobs[c].status = "absent" THEN NewJob ELSE Written(jobs[c], "pending", jobs[c].attempts)

\* The row enqueue leaves: a new job is pending, a failed one becomes pending
\* again with the attempts it had, any other keeps its status.
Enqueued(c) ==
    LET j == jobs[c]
    IN  IF j.status = "absent" THEN NewJob
        ELSE Written(j, IF j.status = "failed" THEN "pending" ELSE j.status, j.attempts)

\* The task handle_webhook spawns for a pull_request event.
Enqueue(c) ==
    /\ hook[c] = "outstanding"
    /\ hook' = [hook EXCEPT ![c] = "handled"]
    /\ jobs' = IF active[PrOf[c]] THEN [jobs EXCEPT ![c] = Enqueued(c)] ELSE jobs
    /\ UNCHANGED <<leases, github, finished, pc, run, held, left>>

\* The same task when the INSERT fails: the review runs inline, on the pull
\* request as the webhook described it (no target: it was a draft).
EnqueueFails(c, r) ==
    /\ hook[c] = "outstanding"
    /\ pc[r] = "idle" /\ active[PrOf[c]]
    /\ Spend("fault")
    /\ hook' = [hook EXCEPT ![c] = "handled"]
    /\ Goto(r, "permit")
    /\ on' = [on EXCEPT ![r] = PrOf[c]]
    /\ job' = [job EXCEPT ![r] = c]
    /\ target' = [target EXCEPT ![r] = IF draft[PrOf[c]] THEN NoCommit ELSE c]
    /\ UNCHANGED <<jobs, leases, github, finished, tries, leased, spent, held>>

Pending == {c \in Commit : jobs[c].status = "pending"}
\* Mutants of StaleRunning: any running job is stale; none ever is.
AllRunning == {c \in Commit : jobs[c].status = "running"}
NoneStale == {}
StaleRunning == {c \in Commit : jobs[c].status = "running" /\ jobs[c].age > Stale}

\* claim_next: the oldest pending job, or else a stale running one (all as old as
\* the clock can tell).
Claimable(c) ==
    \/ c \in Pending /\ \A d \in Pending : jobs[c].born <= jobs[d].born
    \/ Pending = {} /\ c \in StaleRunning

ClaimNext(r, c) ==
    /\ pc[r] = "idle"
    /\ Claimable(c)
    /\ jobs' = [jobs EXCEPT ![c] = Written(@, "running", OneMore(@.attempts, MaxAttempts))]
    /\ Goto(r, "permit")
    /\ on' = [on EXCEPT ![r] = PrOf[c]]
    /\ job' = [job EXCEPT ![r] = c]
    /\ tries' = [tries EXCEPT ![r] = jobs'[c].attempts]
    /\ UNCHANGED <<leases, github, hook, finished, target, leased, spent, held, left>>

\* The worker finds no GitHub App credentials: the job fails before it starts.
NoCredentials(r) ==
    /\ pc[r] = "permit"
    /\ Spend("fault")
    /\ Goto(r, "markFailed")
    /\ UNCHANGED <<jobs, leases, github, hook, finished, run, held>>

-----------------------------------------------------------------------------
\* A run: permit, lock, then the timed part.

AcquirePermit(r) ==
    /\ pc[r] = "permit"
    /\ Cardinality(permits[Home[r]]) < Permits
    /\ permits' = [permits EXCEPT ![Home[r]] = @ \cup {r}]
    /\ Goto(r, "lock")
    /\ UNCHANGED <<jobs, leases, github, hook, finished, run, locks, left>>

\* Mutant: the lock is taken without waiting for its holder.
BargeIn(r) ==
    /\ pc[r] = "lock"
    /\ locks' = [locks EXCEPT ![Home[r]][on[r]] = r]
    /\ Goto(r, "fetch")
    /\ UNCHANGED <<jobs, leases, github, hook, finished, run, permits, left>>

AcquireLock(r) ==
    /\ pc[r] = "lock"
    /\ locks[Home[r]][on[r]] = NoRunner
    /\ locks' = [locks EXCEPT ![Home[r]][on[r]] = r]
    /\ Goto(r, "fetch")
    /\ UNCHANGED <<jobs, leases, github, hook, finished, run, permits, left>>

Fail(r) ==
    /\ Goto(r, "release")
    /\ UNCHANGED <<jobs, leases, github, hook, finished, run, held, left>>

\* Drafts and inactive repositories are not reviewed; a command forces a draft.
Skipped(r) ==
    \/ ~active[on[r]]
    \/ r \in Worker /\ draft[on[r]]
    \/ r \in Inline /\ target[r] = NoCommit

\* Token and pull request.  The commit reviewed is the head at this moment, not
\* the commit the job was made for; only the inline run takes it from the event.
Fetch(r) ==
    /\ pc[r] = "fetch"
    /\ target' = IF r \in Inline THEN target ELSE [target EXCEPT ![r] = head[on[r]]]
    /\ Goto(r, IF Skipped(r) THEN "finish" ELSE "select")
    /\ UNCHANGED <<jobs, leases, github, hook, finished, on, job, tries, leased, spent, held, left>>

FetchFails(r) == pc[r] = "fetch" /\ Fail(r)

\* Mutant: only a review in progress keeps others away.
ClaimedRunning(l, c) == l.commit = c /\ l.status = "in_progress" /\ l.age < Stale

\* try_claim_sha, first statement: is the commit reviewed, or being reviewed?
Claimed(l, c) ==
    l.commit = c /\ (l.status = "completed" \/ (l.status = "in_progress" /\ l.age < Stale))

SelectClaim(r) ==
    /\ pc[r] = "select" /\ r \notin Commander
    /\ Goto(r, IF Claimed(leases[on[r]], target[r]) THEN "finish" ELSE "upsert")
    /\ UNCHANGED <<jobs, leases, github, hook, finished, run, held, left>>

\* try_claim_sha, second statement: ON CONFLICT ... DO UPDATE ... WHERE.
Claims(r) ==
    LET l == leases[on[r]]
    IN  \/ l.status = "free"
        \/ l.commit # target[r]
        \/ l.status # "in_progress"
        \/ l.owner = Home[r]
        \/ l.age > Stale

UpsertClaim(r) ==
    /\ pc[r] = "upsert"
    /\ IF Claims(r)
       THEN /\ leases' = [leases EXCEPT ![on[r]] = OwnLease(r, "in_progress")]
            /\ leased' = [leased EXCEPT ![r] = TRUE]
            /\ Goto(r, "review")
       ELSE /\ Goto(r, "finish")
            /\ UNCHANGED <<leases, leased>>
    /\ UNCHANGED <<jobs, github, hook, finished, on, job, tries, target, spent, held, left>>

\* force_claim_sha
ForceClaim(r) ==
    /\ pc[r] = "select" /\ r \in Commander
    /\ leases' = [leases EXCEPT ![on[r]] = OwnLease(r, "in_progress")]
    /\ leased' = [leased EXCEPT ![r] = TRUE]
    /\ Goto(r, "review")
    /\ UNCHANGED <<jobs, github, hook, finished, on, job, tries, target, spent, held, left>>

\* "SHA claim failed; continuing": a database error does not stop the review.
ClaimError(r) ==
    /\ pc[r] \in {"select", "upsert"}
    /\ Spend("fault")
    /\ Goto(r, "review")
    /\ UNCHANGED <<jobs, leases, github, hook, finished, run, held>>

-----------------------------------------------------------------------------
\* The pipeline, from the claim to the completed review.

\* Detectors, judge and comment slots: nothing to post, or a review to post.
Analyse(r) ==
    /\ pc[r] = "review"
    /\ \/ Goto(r, "complete")
       \/ Goto(r, "check")
    /\ UNCHANGED <<jobs, leases, github, hook, finished, run, held, left>>

AnalyseFails(r) == pc[r] = "review" /\ Fail(r)

\* Mutants of CheckPosted: no check before the POST; its answer taken backwards.
AlwaysPost(r) ==
    /\ pc[r] = "check"
    /\ Goto(r, "post")
    /\ UNCHANGED <<jobs, leases, github, hook, finished, run, held, left>>
CheckBackwards(r) ==
    /\ pc[r] = "check"
    /\ Goto(r, IF target[r] \in filed THEN "post" ELSE "complete")
    /\ UNCHANGED <<jobs, leases, github, hook, finished, run, held, left>>

\* review_exists_for_commit: any review listed under the commit counts, whoever
\* wrote it, and an error counts as "no".
CheckPosted(r) ==
    /\ pc[r] = "check"
    /\ \E listed \in BOOLEAN :
          /\ IF listed THEN UNCHANGED left ELSE Spend("lost")
          /\ Goto(r, IF listed /\ target[r] \in filed THEN "complete" ELSE "post")
    /\ UNCHANGED <<jobs, leases, github, hook, finished, run, held>>

\* The POST names no commit_id: GitHub files the review under the head commit.
Posted(r) ==
    /\ posted' = [posted EXCEPT ![target[r]] = OneMore(@, MaxPosted)]
    /\ filed' = filed \cup {head[on[r]]}

PostReview(r) ==
    /\ pc[r] = "post"
    /\ Posted(r)
    /\ Goto(r, "complete")
    /\ UNCHANGED <<jobs, leases, head, active, draft, hook, finished, run, held, left>>

\* GitHub took the review but the answer was lost: retry_async posts it again.
PostAnswerLost(r) ==
    /\ pc[r] = "post"
    /\ Spend("lost")
    /\ Posted(r)
    /\ UNCHANGED <<jobs, leases, head, active, draft, hook, finished, pc, run, held>>

\* A failed REQUEST_CHANGES or COMMENT fails the run; a failed APPROVE is logged.
PostFails(r) ==
    /\ pc[r] = "post"
    /\ \/ Goto(r, "release")
       \/ Goto(r, "complete")
    /\ UNCHANGED <<jobs, leases, github, hook, finished, run, held, left>>

\* Mutant: the row is completed for the head commit of the moment.
CompleteHead(r) ==
    /\ pc[r] = "complete"
    /\ finished' = finished \cup {target[r]}
    /\ leases' = [leases EXCEPT ![on[r]] =
                     [OwnLease(r, "completed") EXCEPT !.commit = head[on[r]]]]
    /\ Goto(r, "wrapup")
    /\ UNCHANGED <<jobs, github, hook, run, held, left>>

\* set_reviewed_sha, also behind complete_sha_claim: whatever the row holds.
Complete(r) ==
    /\ pc[r] = "complete"
    /\ finished' = finished \cup {target[r]}
    /\ \E ok \in BOOLEAN :
          /\ Ran(ok)
          /\ leases' = [leases EXCEPT ![on[r]] =
                           IF ok THEN OwnLease(r, "completed") ELSE @]
    /\ Goto(r, "wrapup")
    /\ UNCHANGED <<jobs, github, hook, run, held>>

\* save_review_to_db, check run, labels, summaries: best effort, then Ok.
WrapUp(r) ==
    /\ pc[r] = "wrapup"
    /\ Goto(r, "finish")
    /\ UNCHANGED <<jobs, leases, github, hook, finished, run, held, left>>

TimeOut(r) ==
    /\ pc[r] \in Timed
    /\ spent[r] = Timeout
    /\ Fail(r)

-----------------------------------------------------------------------------
\* What the runner does with the outcome.

\* Ok: a worker marks its job done, whatever the row says by now.
Finish(r) ==
    /\ pc[r] = "finish"
    /\ IF r \in Worker
       THEN \E ok \in BOOLEAN :
               /\ Ran(ok)
               /\ jobs' = IF ok THEN SetStatus(job[r], "done") ELSE jobs
       ELSE UNCHANGED <<jobs, left>>
    /\ End(r)
    /\ UNCHANGED <<leases, github, hook, finished>>

\* release_claim_best_effort: a worker and the inline run name the commit of the
\* job or event, the slash command the commit it fetched.
ReleaseKey(r) == IF r \in Commander THEN target[r] ELSE job[r]

\* Mutant: a release by whoever does not own the lease.
ReleasesOthers(r) ==
    LET l == leases[on[r]]
    IN  /\ l.commit = ReleaseKey(r)
        /\ l.status = "in_progress"
        /\ l.owner # Home[r] \/ l.age > Stale

Releases(r) ==
    LET l == leases[on[r]]
    IN  /\ l.commit = ReleaseKey(r)
        /\ l.status = "in_progress"
        /\ l.owner = Home[r] \/ l.age > Stale

Release(r) ==
    /\ pc[r] = "release"
    /\ \E ok \in BOOLEAN :
          /\ Ran(ok)
          /\ leases' = [leases EXCEPT ![on[r]] = IF ok /\ Releases(r) THEN NoLease ELSE @]
    /\ IF r \in Worker
       THEN Goto(r, "markFailed") /\ UNCHANGED <<run, held>>
       ELSE End(r)
    /\ UNCHANGED <<jobs, github, hook, finished>>

MarkFailed(r) ==
    /\ pc[r] = "markFailed"
    /\ \E ok \in BOOLEAN :
          /\ Ran(ok)
          /\ jobs' = IF ok THEN SetStatus(job[r], "failed") ELSE jobs
    /\ Goto(r, "requeue")
    /\ UNCHANGED <<leases, github, hook, finished, run, held>>

\* Mutant: the last attempt but one is taken for the last.
RequeueTooFew(r) ==
    /\ pc[r] = "requeue"
    /\ jobs' = IF tries[r] + 1 < MaxAttempts /\ jobs[job[r]].status = "failed"
               THEN SetStatus(job[r], "pending") ELSE jobs
    /\ End(r)
    /\ UNCHANGED <<leases, github, hook, finished, left>>

\* requeue_if_retryable, on the attempts the worker saw when it claimed.
Requeue(r) ==
    /\ pc[r] = "requeue"
    /\ \E ok \in BOOLEAN :
          /\ Ran(ok)
          /\ jobs' = IF ok /\ tries[r] < MaxAttempts /\ jobs[job[r]].status = "failed"
                     THEN SetStatus(job[r], "pending") ELSE jobs
    /\ End(r)
    /\ UNCHANGED <<leases, github, hook, finished>>

-----------------------------------------------------------------------------
\* Processes and time.

\* Replica i dies and comes back: its tasks are gone, events it had answered but
\* not enqueued among them; the rows stay.  Its lease owner id (HOSTNAME and
\* process id) is the old one or a new one.
Crash(i) ==
    LET mine == {r \in Runner : Home[r] = i}
    IN  /\ Spend("crash")
        /\ pc' = [r \in Runner |-> IF r \in mine THEN "idle" ELSE pc[r]]
        /\ on' = [r \in Runner |-> IF r \in mine THEN NoPr ELSE on[r]]
        /\ job' = [r \in Runner |-> IF r \in mine THEN NoCommit ELSE job[r]]
        /\ tries' = [r \in Runner |-> IF r \in mine THEN 0 ELSE tries[r]]
        /\ target' = [r \in Runner |-> IF r \in mine THEN NoCommit ELSE target[r]]
        /\ leased' = [r \in Runner |-> leased[r] /\ r \notin mine]
        /\ spent' = [r \in Runner |-> IF r \in mine THEN 0 ELSE spent[r]]
        /\ permits' = [permits EXCEPT ![i] = {}]
        /\ locks' = [locks EXCEPT ![i] = [p \in Pr |-> NoRunner]]
        /\ \E renamed \in BOOLEAN :
              leases' = [p \in Pr |-> IF renamed /\ leases[p].owner = i
                                      THEN [leases[p] EXCEPT !.owner = Gone] ELSE leases[p]]
        /\ \E dropped \in SUBSET {c \in Commit : hook[c] = "outstanding"} :
              hook' = [c \in Commit |-> IF c \in dropped THEN "handled" ELSE hook[c]]
        /\ UNCHANGED <<jobs, github, finished>>

\* Runners with something to do that takes no time to speak of: bookkeeping
\* statements, and permits or locks that are free.
Prompt(r) ==
    \/ pc[r] \in {"finish", "release", "markFailed", "requeue"}
    \/ pc[r] = "permit" /\ Cardinality(permits[Home[r]]) < Permits
    \/ pc[r] = "lock" /\ locks[Home[r]][on[r]] = NoRunner

\* One unit of time.  Bookkeeping is prompt (the stale window leaves it 120 s),
\* and a run's timer fires on time.
Tick ==
    /\ \A r \in Runner : ~Prompt(r) /\ (pc[r] \in Timed => spent[r] < Timeout)
    /\ jobs' = [c \in Commit |->
                  IF jobs[c].status = "running" THEN [jobs[c] EXCEPT !.age = OneMore(@, AgeCap)] ELSE jobs[c]]
    /\ leases' = [p \in Pr |->
                  IF leases[p].status = "in_progress" THEN [leases[p] EXCEPT !.age = OneMore(@, AgeCap)]
                  ELSE leases[p]]
    /\ spent' = [r \in Runner |-> IF pc[r] \in Timed THEN spent[r] + 1 ELSE spent[r]]
    /\ UNCHANGED <<github, hook, finished, pc, on, job, tries, target, leased, held, left>>

-----------------------------------------------------------------------------
Environment ==
    \/ \E c \in Commit : Push(c)
    \/ \E p \in Pr : Redeliver(p) \/ MarkReady(p) \/ HumanReview(p) \/ Toggle(p)
    \/ \E r \in Commander, p \in Pr : Command(r, p)
    \/ \E c \in Commit, r \in Inline : EnqueueFails(c, r)
    \/ \E i \in Replica : Crash(i)

QueueStep(r) ==
    \/ \E c \in Commit : ClaimNext(r, c)
    \/ NoCredentials(r) \/ MarkFailed(r) \/ Requeue(r)

RunStep(r) ==
    \/ AcquirePermit(r) \/ AcquireLock(r)
    \/ Fetch(r) \/ FetchFails(r)
    \/ SelectClaim(r) \/ UpsertClaim(r) \/ ForceClaim(r) \/ ClaimError(r)
    \/ Analyse(r) \/ AnalyseFails(r)
    \/ CheckPosted(r) \/ PostReview(r) \/ PostAnswerLost(r) \/ PostFails(r)
    \/ Complete(r) \/ WrapUp(r) \/ TimeOut(r)
    \/ Finish(r) \/ Release(r)

Next ==
    \/ Environment
    \/ \E c \in Commit : Enqueue(c)
    \/ \E r \in Worker : QueueStep(r)
    \/ \E r \in Runner : RunStep(r)
    \/ Tick

Spec == Init /\ [][Next]_vars

\* Tokio polls every task that can go on, workers poll the queue every two
\* seconds, a crashed replica is restarted, and the clock runs.  Nothing is
\* assumed of GitHub or its users.
Fairness ==
    /\ WF_vars(Tick)
    /\ \A c \in Commit : WF_vars(Enqueue(c))
    /\ \A r \in Worker : WF_vars(QueueStep(r))
    /\ \A r \in Runner : WF_vars(RunStep(r))

FairSpec == Spec /\ Fairness

-----------------------------------------------------------------------------
\* The inductive invariant: TypeOK and what each step of a run relies on.

\* A run is about a pull request with a head commit; the commits it was started
\* for and took for its target are of that pull request.
RunLocated(r) ==
    /\ IF pc[r] = "idle" THEN job[r] = NoCommit /\ target[r] = NoCommit
       ELSE on[r] \in Pr /\ head[on[r]] # NoCommit
    /\ job[r] # NoCommit => PrOf[job[r]] = on[r]
    /\ target[r] # NoCommit => PrOf[target[r]] = on[r]
    /\ pc[r] \in Reviewing \cup {"select", "upsert", "wrapup"} => target[r] # NoCommit

\* So are events and jobs.
Located ==
    /\ \A p \in Pr : head[p] # NoCommit => PrOf[head[p]] = p
    /\ \A c \in Commit : hook[c] # "unsent" => head[PrOf[c]] # NoCommit
    /\ \A c \in Commit : jobs[c].status # "absent" => head[PrOf[c]] # NoCommit
    /\ \A r \in Runner : RunLocated(r)

\* A run holds its replica's lock on its pull request until it has dealt with
\* the lease: claims, completions and releases of one replica do not interleave.
LockHeld ==
    \A r \in Runner :
        pc[r] \in Timed \cup {"finish", "release"} => locks[Home[r]][on[r]] = r

\* Nobody believes to hold a lease before claiming it.
LeasedByClaim ==
    \A r \in Runner :
        pc[r] \in {"idle", "permit", "lock", "fetch", "select", "upsert"} => ~leased[r]

\* A row that still says what a run's claim wrote is no older than the run.
LeaseYoungerThanRun ==
    \A r \in Runner :
        LET l == leases[on[r]]
        IN  (pc[r] \in Reviewing /\ leased[r] /\ l.commit = target[r]
                /\ l.status = "in_progress" /\ l.owner = Home[r])
            => l.age <= spent[r]

-----------------------------------------------------------------------------
\* Properties.

\* While a run that got its lease is reviewing, nobody may take that lease for an
\* abandoned one: the window of state.rs ("must exceed the review timeout or a
\* second worker can reclaim a still-running review") really covers every run,
\* whichever replica, retry, forced review or crash the row went through.
RunningLeaseFresh ==
    \A r \in Runner :
        LET l == leases[on[r]]
        IN  (pc[r] \in Reviewing /\ leased[r] /\ l.commit = target[r]
                /\ l.status = "in_progress" /\ l.owner = Home[r])
            => l.age < Stale

\* A completed row is what makes every later run of the commit skip it; it is
\* only ever left by a run that took that very commit through the pipeline.
CompletedLeaseIsEarned ==
    \A p \in Pr : leases[p].status = "completed" => leases[p].commit \in finished

\* All of the above: inductive, see ReviewServiceProofs.
IInv ==
    /\ TypeOK
    /\ Located
    /\ LockHeld
    /\ LeasedByClaim
    /\ LeaseYoungerThanRun
    /\ CompletedLeaseIsEarned

\* Within a replica no commit is under review by two runs at once, whoever started
\* them: a worker, a slash command, the inline fallback or a reclaim.
OneReviewPerReplica ==
    \A r, s \in Runner :
        /\ pc[r] \in Reviewing /\ pc[s] \in Reviewing
        /\ Home[r] = Home[s] /\ target[r] = target[s]
        => r = s

\* From its claim to its outcome a job is with one worker: nobody reclaims it for
\* stale while its worker lives.
JobHeldOnce ==
    \A r, s \in Worker :
        /\ job[r] # NoCommit /\ job[r] = job[s]
        /\ pc[r] # "requeue" /\ pc[s] # "requeue"
        => r = s

\* A job that succeeded stays so ("Same-SHA review jobs no longer re-queue after
\* success"): no late failure, redelivery or reclaim brings it back.
DoneStaysDone ==
    [][\A c \in Commit : jobs[c].status = "done" => jobs'[c].status = "done"]_jobs

\* The claim's second purpose: a run nobody forced never starts over on a commit
\* that went through the pipeline already.
ReviewedOnce ==
    [][\A r \in Runner \ Commander :
          pc'[r] = "review" /\ pc[r] # "review" => target[r] \notin finished]_pc

\* GitHub gets at most one review per commit, whatever is retried or repeated.
PostedOnce == \A c \in Commit : posted[c] <= 1

\* An in_progress row belongs to a run that is still going: a run that failed
\* has given the commit back ("allows retry").
NoOrphanLease ==
    \A p \in Pr : leases[p].status = "in_progress" =>
        \E r \in Runner : on[r] = p /\ target[r] = leases[p].commit /\ leased[r]

Quiet ==
    /\ \A r \in Runner : pc[r] = "idle"
    /\ \A c \in Commit : hook[c] # "outstanding" /\ jobs[c].status \notin {"pending", "running"}

\* When all work is over, a head commit whose job is done has been reviewed: no
\* review is lost to a skip, a retry or a restart.
QuietHeadReviewed ==
    Quiet => \A p \in Pr : \A c \in Commit :
                head[p] = c /\ active[p] /\ ~draft[p] /\ jobs[c].status = "done" => c \in finished

\* When all work is over, a failed job has used up its attempts.
QuietRetriesUsed ==
    Quiet => \A c \in Commit : jobs[c].status = "failed" => jobs[c].attempts = MaxAttempts

\* Every job comes to an end for good, done or failed, whatever crashed meanwhile:
\* none is forgotten as running, none is retried for ever.
JobsSettle ==
    \A c \in Commit : <>[](jobs[c].status \notin {"pending", "running"})

-----------------------------------------------------------------------------
\* More inductive invariants: when a job stays with one worker, and what an
\* undisturbed service keeps.  See ReviewServiceProofs.

\* A worker that has claimed a job gets its permit and its lock so soon that the
\* review, timeout and all, ends within the job's stale window: with the defaults,
\* 300 s after the claim.  Every wait behind another run of the pull request counts.
WaitsAreShort ==
    \A r \in Worker : pc[r] \in {"permit", "lock"} => jobs[job[r]].age + Timeout <= Stale

\* The timer of a run starts with its lock.
TimerUnstarted == \A r \in Runner : pc[r] \in {"idle", "permit", "lock"} => spent[r] = 0

\* The row of a job in a worker's hand says so, and is not stale.
JobInHand ==
    \A r \in Worker :
        /\ pc[r] # "idle" => job[r] # NoCommit
        /\ pc[r] \notin {"idle", "requeue"} =>
              jobs[job[r]].status = "running" /\ jobs[job[r]].age <= Stale
        /\ pc[r] \in Timed => jobs[job[r]].age + Timeout <= Stale + spent[r]

\* Inductive as long as WaitsAreShort.
HeldInv == IInv /\ TimerUnstarted /\ JobInHand /\ JobHeldOnce

-----------------------------------------------------------------------------
\* An undisturbed service: nothing crashes, no statement fails, nobody forces a
\* review, every pull request has one commit, and a replica has no more workers than
\* permits (the default of start_review_worker).  Pushes, redeliveries, drafts,
\* switched-off repositories, people's reviews, timeouts, failed calls and retries
\* are still there.

WorkersOf(i) == {r \in Worker : Home[r] = i}

Calm ==
    /\ Kinds \cap {"crash", "fault", "force"} = {}
    /\ \A c, d \in Commit : PrOf[c] = PrOf[d] => c = d
    /\ \A i \in Replica : IsFiniteSet(WorkersOf(i)) /\ Cardinality(WorkersOf(i)) <= Permits

WorkersOnly == \A r \in Runner \ Worker : pc[r] = "idle"

PermitsHeld ==
    \A i \in Replica : permits[i] \subseteq {r \in WorkersOf(i) : pc[r] \notin {"idle", "permit"}}

LocksHeld ==
    \A i \in Replica, p \in Pr :
        locks[i][p] # NoRunner =>
            /\ Home[locks[i][p]] = i /\ on[locks[i][p]] = p
            /\ pc[locks[i][p]] \notin {"idle", "permit", "lock"}

\* No time passes between a claim and the lock.
ClaimsAreFresh == \A r \in Worker : pc[r] \in {"permit", "lock"} => jobs[job[r]].age = 0

\* The worker that has the lease of p.
HoldsLease(r, p) ==
    /\ on[r] = p /\ target[r] = leases[p].commit /\ target[r] # NoCommit
    /\ leased[r] /\ leases[p].owner = Home[r]
    /\ pc[r] \in Reviewing \cup {"release"}

LeasesHeld ==
    \A p \in Pr : leases[p].status = "in_progress" => \E r \in Worker : HoldsLease(r, p)

\* What went through the pipeline keeps its completed row, so nobody claims it again.
FinishedStands ==
    /\ \A c \in finished : leases[PrOf[c]].status = "completed" /\ leases[PrOf[c]].commit = c
    /\ \A r \in Runner : pc[r] = "upsert" => target[r] \notin finished

\* The worker counts attempts as the row does, and requeues what has some left.
AttemptsCounted ==
    /\ \A r \in Worker : pc[r] \notin {"idle", "requeue"} => tries[r] = jobs[job[r]].attempts
    /\ \A c \in Commit : jobs[c].status = "failed" =>
          \/ jobs[c].attempts = MaxAttempts
          \/ \E r \in Worker : pc[r] = "requeue" /\ job[r] = c /\ tries[r] < MaxAttempts

\* Inductive when Calm.
CalmInv ==
    /\ HeldInv
    /\ WorkersOnly /\ PermitsHeld /\ LocksHeld /\ ClaimsAreFresh
    /\ LeasesHeld /\ FinishedStands /\ AttemptsCounted

\* A posted review is filed under its commit, and not posted when it is.
PostsAreFiled ==
    /\ \A c \in Commit : posted[c] > 0 => c \in filed
    /\ \A r \in Runner : pc[r] = "post" => posted[target[r]] = 0

\* With no draft and no repository switched off, only a finished commit is skipped.
DoneIsFinished ==
    /\ \A p \in Pr : active[p] /\ ~draft[p]
    /\ \A r \in Worker : pc[r] \in {"finish", "wrapup"} => target[r] \in finished
    /\ \A c \in Commit : jobs[c].status = "done" => c \in finished
=============================================================================
