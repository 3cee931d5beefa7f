------------------------------ MODULE PrLocks ------------------------------
(***************************************************************************)
(* PR_LOCKS (src/bot/mod.rs): a map from a pull request to a reference-    *)
(* counted mutex.  The map is itself behind a mutex, so a lookup and a     *)
(* prune are each one step; between them a review task acquires the inner  *)
(* mutex, runs, drops the guard, prunes, and only then drops its own       *)
(* reference when the function returns (process_queued_review,             *)
(* run_webhook_review_inline, spawn_review all have this shape).           *)
(*                                                                         *)
(* Mutex objects are drawn from a finite set LockId; a new one is any      *)
(* object that neither the map nor a task refers to, as an allocator may   *)
(* hand out again an address whose last reference is gone.                 *)
(***************************************************************************)
CONSTANTS Task, Pr, LockId, NoTask, NoPr, NoLock,
          Panicky     \* the tasks whose review may panic

ASSUME NoneAssumption == NoTask \notin Task /\ NoPr \notin Pr /\ NoLock \notin LockId

VARIABLES
    entry,      \* entry[p] : the object the map holds for p, or NoLock
    on,         \* on[t]    : the pull request task t works on, or NoPr
    arc,        \* arc[t]   : the object t's local `lock` refers to, or NoLock
    guard,      \* guard[l] : the task that holds mutex l, or NoTask
    pc          \* pc[t]    : where t is in the function

vars == <<entry, on, arc, guard, pc>>

Step == {"outside", "waiting", "inside", "pruning", "returning"}

TypeOK ==
    /\ entry \in [Pr -> LockId \cup {NoLock}]
    /\ on \in [Task -> Pr \cup {NoPr}]
    /\ arc \in [Task -> LockId \cup {NoLock}]
    /\ guard \in [LockId -> Task \cup {NoTask}]
    /\ pc \in [Task -> Step]
    /\ \A t \in Task : on[t] = NoPr <=> pc[t] = "outside"
    /\ \A t \in Task : arc[t] = NoLock <=> pc[t] = "outside"

Init ==
    /\ entry = [p \in Pr |-> NoLock]
    /\ on = [t \in Task |-> NoPr]
    /\ arc = [t \in Task |-> NoLock]
    /\ guard = [l \in LockId |-> NoTask]
    /\ pc = [t \in Task |-> "outside"]

-----------------------------------------------------------------------------
Referenced(l) == (\E p \in Pr : entry[p] = l) \/ (\E t \in Task : arc[t] = l)

\* Arc::strong_count(lock) == 1: the map's reference is the only one.
OnlyTheMapRefers(l) == \A t \in Task : arc[t] # l

\* pr_lock: the entry of p, inserted if absent, cloned to the caller.
PrLock(t, p) ==
    /\ pc[t] = "outside"
    /\ \E l \in LockId :
          /\ IF entry[p] = NoLock THEN ~Referenced(l) ELSE l = entry[p]
          /\ entry' = [entry EXCEPT ![p] = l]
          /\ arc' = [arc EXCEPT ![t] = l]
    /\ on' = [on EXCEPT ![t] = p]
    /\ pc' = [pc EXCEPT ![t] = "waiting"]
    /\ UNCHANGED guard

\* lock.lock().await
Acquire(t) ==
    /\ pc[t] = "waiting"
    /\ guard[arc[t]] = NoTask
    /\ guard' = [guard EXCEPT ![arc[t]] = t]
    /\ pc' = [pc EXCEPT ![t] = "inside"]
    /\ UNCHANGED <<entry, on, arc>>

\* Mutant of DropGuard: the guard is leaked (std::mem::forget).
LeakGuard(t) ==
    /\ pc[t] = "inside"
    /\ pc' = [pc EXCEPT ![t] = "pruning"]
    /\ UNCHANGED <<entry, on, arc, guard>>

\* drop(_guard): after the outcome of the review has been dealt with.
DropGuard(t) ==
    /\ pc[t] = "inside"
    /\ guard' = [guard EXCEPT ![arc[t]] = NoTask]
    /\ pc' = [pc EXCEPT ![t] = "pruning"]
    /\ UNCHANGED <<entry, on, arc>>

\* Mutant of Prune: the strong_count test is dropped.
PruneAlways(t) ==
    /\ pc[t] = "pruning"
    /\ entry' = [entry EXCEPT ![on[t]] = NoLock]
    /\ pc' = [pc EXCEPT ![t] = "returning"]
    /\ UNCHANGED <<on, arc, guard>>

\* prune_pr_lock, called while the caller's own `lock` is still in scope.
Prune(t) ==
    LET p == on[t]
        idle == entry[p] # NoLock /\ OnlyTheMapRefers(entry[p])
    IN  /\ pc[t] = "pruning"
        /\ entry' = [entry EXCEPT ![p] = IF idle THEN NoLock ELSE @]
        /\ pc' = [pc EXCEPT ![t] = "returning"]
        /\ UNCHANGED <<on, arc, guard>>

\* Mutant of Return: the reference outlives the function.
ReturnKeepingArc(t) ==
    /\ pc[t] = "returning"
    /\ on' = [on EXCEPT ![t] = NoPr]
    /\ pc' = [pc EXCEPT ![t] = "outside"]
    /\ UNCHANGED <<entry, arc, guard>>

\* The function returns: `lock` goes out of scope.
Return(t) ==
    /\ pc[t] = "returning"
    /\ arc' = [arc EXCEPT ![t] = NoLock]
    /\ on' = [on EXCEPT ![t] = NoPr]
    /\ pc' = [pc EXCEPT ![t] = "outside"]
    /\ UNCHANGED <<entry, guard>>

\* A panic unwinds the spawned task: guard and reference go, nothing is pruned.
Unwind(t) ==
    /\ t \in Panicky
    /\ pc[t] = "inside"
    /\ guard' = [guard EXCEPT ![arc[t]] = NoTask]
    /\ arc' = [arc EXCEPT ![t] = NoLock]
    /\ on' = [on EXCEPT ![t] = NoPr]
    /\ pc' = [pc EXCEPT ![t] = "outside"]
    /\ UNCHANGED entry

Next ==
    \E t \in Task :
        \/ \E p \in Pr : PrLock(t, p)
        \/ Acquire(t) \/ DropGuard(t) \/ Prune(t) \/ Return(t) \/ Unwind(t)

Spec == Init /\ [][Next]_vars

\* A task that reached its lock goes on: tokio polls it, and its mutex queues
\* waiters first come first served, hence strong fairness of the acquisition.
Fairness ==
    \A t \in Task : /\ SF_vars(Acquire(t))
                    /\ WF_vars(DropGuard(t)) /\ WF_vars(Prune(t)) /\ WF_vars(Return(t))

FairSpec == Spec /\ Fairness

-----------------------------------------------------------------------------
Referring(t) == pc[t] # "outside"

\* A task between lookup and return holds the very object the map holds for its
\* pull request: prune_pr_lock never replaces a lock somebody still uses.  If it
\* did, the next task would lock a fresh object and run the same pull request at
\* the same time ("Per-PR locks to prevent concurrent duplicate reviews").
ArcIsCurrent == \A t \in Task : Referring(t) => arc[t] = entry[on[t]]

\* Two tasks never run the same pull request at once, although each may have
\* reached its mutex through a different life of the map entry.
OneTaskPerPr ==
    \A s, t \in Task :
        pc[s] = "inside" /\ pc[t] = "inside" /\ on[s] = on[t] => s = t

\* Different pull requests never share a mutex, so a long review of one does not
\* hold up another.
EntriesDistinct ==
    \A p, q \in Pr : entry[p] = entry[q] /\ entry[p] # NoLock => p = q

\* The guard of a mutex is with the task inside through it, and with no other.
GuardHeld ==
    \A l \in LockId, t \in Task : guard[l] = t <=> (pc[t] = "inside" /\ arc[t] = l)

\* The inductive invariant: OneTaskPerPr follows, since two tasks inside for one
\* pull request would hold the same object, which has one guard.
IInv == TypeOK /\ ArcIsCurrent /\ EntriesDistinct /\ GuardHeld

\* Every task that looked its lock up gets inside: no schedule of the others
\* keeps it waiting for ever.
WaiterEnters == \A t \in Task : pc[t] = "waiting" ~> pc[t] = "inside"

-----------------------------------------------------------------------------
\* The map of mutexes implements one abstract mutex per pull request.
Reviewing(p) == {t \in Task : pc[t] = "inside" /\ on[t] = p}
M == INSTANCE Mutex WITH inside <- [p \in Pr |-> Reviewing(p)]
ImplementsMutex == M!Spec
=============================================================================
