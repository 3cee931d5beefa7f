------------------------------- MODULE Intake -------------------------------
(***************************************************************************)
(* What becomes of a webhook (src/bot/mod.rs) and which repositories are   *)
(* reviewed (src/db/repos.rs, src/api/repos.rs).  handle_webhook records   *)
(* the delivery's id, only then reads the payload, which it may not be     *)
(* able to, and leaves the event to a spawned task: a pull request is      *)
(* registered, checked and enqueued in separate statements; installations  *)
(* bring repositories and take them away; comments go to the commands      *)
(* (Conversation), reactions and resolved threads to Learning.             *)
(* Maintainers switch, synchronise and delete repositories meanwhile.      *)
(*                                                                         *)
(* GitHub may send a delivery again and in any order; processes die; any   *)
(* statement may fail.                                                     *)
(***************************************************************************)
EXTENDS Integers

CONSTANTS
    None,
    Delivery, Event,    \* Event[d] : what delivery d says
    Task,               \* slots for requests, and for the tasks they spawn
    Repo,               \* repositories by full name
    Listing,            \* Listing[i] : the repositories GitHub lists for installation i
    Replica, Home,      \* the replica whose task slot it is
    MaxSends, MaxFaults, MaxEdits   \* bounds: deliveries, failures, maintainers' acts

Kind(kinds) == {d \in Delivery : Event[d].kind \in kinds}

\* What a row of repos may hold.
Row == [inst : {Event[d].inst : d \in Kind({"pull_request", "created", "added"})}
                  \cup DOMAIN Listing,
        active : BOOLEAN]

ASSUME IntakeAssumption ==
    /\ None \notin Row
    /\ \A d \in Delivery : Event[d] # None
    /\ \A d \in Kind({"pull_request"}) : Event[d].repo \in Repo
    /\ \A d \in Kind({"created", "added"}) : Event[d].repos \subseteq Repo
    /\ \A i \in DOMAIN Listing : Listing[i] \subseteq Repo
    /\ MaxSends \in Nat /\ MaxFaults \in Nat /\ MaxEdits \in Nat

VARIABLES
    recorded,       \* webhook_deliveries
    repos,          \* repos : [inst, active], or None, by full name
    pc, event,      \* per task : its statement and its event
    left,           \* per task : repositories still to save
    queued,         \* as history : reviews enqueued or run inline, [wasActive, excused]
    wasActive,      \* per task, as history : its repository was active at some time
    excused,        \* per task, as history : a statement failed, or the row was deleted
    handled,        \* as history : how often each delivery was let in
    finished,       \* as history : deliveries whose task ran to its end
    unrecorded,     \* as history : deliveries let in without a record
    lost,           \* as history : deliveries whose request or task died
    decided,        \* as history : what was last decided of each repository
    sends, faults, edits

taskVars == <<pc, event, left, wasActive, excused>>
past == <<queued, handled, finished, unrecorded, lost>>
bounds == <<sends, faults, edits>>
vars == <<recorded, repos, taskVars, past, decided, bounds>>

-----------------------------------------------------------------------------
Init ==
    /\ recorded = {}
    /\ repos = [r \in Repo |-> None]
    /\ pc = [t \in Task |-> "idle"]
    /\ event = [t \in Task |-> None]
    /\ left = [t \in Task |-> {}]
    /\ queued = {}
    /\ wasActive = [t \in Task |-> FALSE]
    /\ excused = [t \in Task |-> FALSE]
    /\ handled = [d \in Delivery |-> 0]
    /\ finished = {} /\ unrecorded = {} /\ lost = {}
    /\ decided = [r \in Repo |-> "off"]
    /\ sends = MaxSends /\ faults = MaxFaults /\ edits = MaxEdits

Label(t, label) == pc' = [pc EXCEPT ![t] = label]

Failing == faults > 0 /\ faults' = faults - 1

IsActive(table, r) == table[r] # None /\ table[r].active

\* What the tasks about a repository see of a change of the table.
Saves(table) ==
    /\ repos' = table
    /\ wasActive' = [t \in Task |->
          wasActive[t] \/ (pc[t] \in {"ensure", "insert", "check", "enqueue"}
                           /\ IsActive(table, event[t].repo))]

End(t) ==
    /\ Label(t, "idle")
    /\ event' = [event EXCEPT ![t] = None]
    /\ left' = [left EXCEPT ![t] = {}]
    /\ finished' = finished \cup {event[t].id}

-----------------------------------------------------------------------------
\* handle_webhook: the INSERT of the id decides, and a database that cannot tell lets
\* the event through.

\* Mutant: the event of an uninstallation meets no branch, and its task no end.
StatementForgets(e) ==
    CASE e.kind = "pull_request" -> "ensure"
      [] e.kind \in {"created", "added"} -> "save"
      [] e.kind = "comment" -> "hand_on"
      [] OTHER -> "unknown"

\* What the event's branch spawns, if anything.
Statement(e) ==
    CASE e.kind = "pull_request" -> "ensure"
      [] e.kind \in {"created", "added"} -> "save"
      [] e.kind = "deleted" -> "deactivate"
      [] OTHER -> "hand_on"

\* A request on its way through handle_webhook.
LetIn(t, d) ==
    /\ pc[t] = "idle"
    /\ Label(t, "read")
    /\ event' = [event EXCEPT ![t] = Event[d]]
    /\ handled' = [handled EXCEPT ![d] = @ + 1]

\* Mutant: the id is looked up by whoever asks, and recorded by nobody.
ReceiveUnrecorded(t, d) ==
    /\ sends > 0 /\ sends' = sends - 1
    /\ d \notin recorded /\ LetIn(t, d)
    /\ UNCHANGED <<recorded, repos, left, wasActive, excused, queued, finished, unrecorded,
                   lost, decided, faults, edits>>

Receive(t, d) ==
    /\ sends > 0 /\ sends' = sends - 1
    /\ LetIn(t, d)
    /\ \/ /\ d \notin recorded
          /\ recorded' = recorded \cup {d}
          /\ UNCHANGED <<unrecorded, faults>>
       \/ /\ Failing
          /\ unrecorded' = unrecorded \cup {d}
          /\ UNCHANGED recorded
    /\ UNCHANGED <<repos, left, wasActive, excused, queued, finished, lost, decided, edits>>

\* WebhookPayload: every field but the action may be missing.  What GitHub sends of a push
\* has none.
Reads(e) == e.kind # "push"

\* The payload cannot be read : 400, and nobody forgets the id.
Reject(t) ==
    /\ pc[t] = "read" /\ ~Reads(event[t])
    /\ Label(t, "idle")
    /\ event' = [event EXCEPT ![t] = None]
    /\ UNCHANGED <<recorded, repos, left, wasActive, excused, past, decided, bounds>>

\* The payload is read, and the task of its branch spawned.
TakeOn(t) ==
    /\ pc[t] = "read" /\ Reads(event[t])
    /\ LET e == event[t]
       IN  /\ Label(t, Statement(e))
           /\ left' = [left EXCEPT ![t] =
                 IF e.kind \in {"created", "added"} THEN e.repos ELSE {}]
           /\ wasActive' = [wasActive EXCEPT ![t] =
                 e.kind = "pull_request" /\ IsActive(repos, e.repo)]
           /\ excused' = [excused EXCEPT ![t] = FALSE]
    /\ UNCHANGED <<recorded, repos, event, past, decided, bounds>>

\* GitHub hangs up before the payload is read: the request is dropped at its await.
HangUp(t) ==
    /\ pc[t] = "read" /\ Failing
    /\ Label(t, "idle")
    /\ event' = [event EXCEPT ![t] = None]
    /\ lost' = lost \cup {event[t].id}
    /\ UNCHANGED <<recorded, repos, left, wasActive, excused, queued, handled, finished,
                   unrecorded, decided, sends, edits>>

\* Answered as a duplicate.
Duplicate(d) ==
    /\ sends > 0 /\ sends' = sends - 1
    /\ d \in recorded
    /\ UNCHANGED <<recorded, repos, taskVars, past, decided, faults, edits>>

-----------------------------------------------------------------------------
\* db/repos.rs: the upsert keeps what is active active.

\* Mutant: as if the last word were the upsert's.
UpsertedLast(row, inst, active) == [inst |-> inst, active |-> active]

Upserted(row, inst, active) ==
    [inst |-> inst, active |-> active \/ (row # None /\ row.active)]

Upsert(r, inst, active) == [repos EXCEPT ![r] = Upserted(@, inst, active)]

\* ensure_repo_exists: a row that is there is left alone.
Ensure(t) ==
    /\ pc[t] = "ensure"
    /\ \/ Label(t, IF repos[event[t].repo] # None THEN "check" ELSE "insert")
          /\ UNCHANGED <<faults, excused>>
       \/ Failing /\ Label(t, "insert") /\ excused' = [excused EXCEPT ![t] = TRUE]
    /\ UNCHANGED <<recorded, repos, event, left, wasActive, past, decided, sends, edits>>

InsertRepo(t) ==
    /\ pc[t] = "insert"
    /\ \/ Saves(Upsert(event[t].repo, event[t].inst, FALSE)) /\ UNCHANGED <<faults, excused>>
       \/ /\ Failing
          /\ excused' = [excused EXCEPT ![t] = TRUE]
          /\ UNCHANGED <<repos, wasActive>>
    /\ Label(t, "check")
    /\ UNCHANGED <<recorded, event, left, past, decided, sends, edits>>

\* Mutant: registered is enough, as before repositories were opt-in.
CheckRegistered(t) ==
    /\ pc[t] = "check"
    /\ Label(t, "enqueue")
    /\ UNCHANGED <<recorded, repos, event, left, wasActive, excused, past, decided, bounds>>

\* Only a row that says so stops the review; an error does not.
Check(t) ==
    /\ pc[t] = "check"
    /\ LET row == repos[event[t].repo]
       IN  \/ /\ row # None /\ ~row.active
              /\ End(t)
              /\ UNCHANGED <<faults, excused>>
           \/ /\ row # None => row.active
              /\ Label(t, "enqueue")
              /\ UNCHANGED <<event, left, finished, faults, excused>>
           \/ /\ Failing
              /\ excused' = [excused EXCEPT ![t] = TRUE]
              /\ Label(t, "enqueue")
              /\ UNCHANGED <<event, left, finished>>
    /\ UNCHANGED <<recorded, repos, wasActive, queued, handled, unrecorded,
                   lost, decided, sends, edits>>

\* A job, or the review itself when the INSERT fails (ReviewService has what follows).
Enqueue(t) ==
    /\ pc[t] = "enqueue"
    /\ queued' = queued \cup {[wasActive |-> wasActive[t], excused |-> excused[t]]}
    /\ End(t)
    /\ UNCHANGED <<recorded, repos, wasActive, excused, handled, unrecorded,
                   lost, decided, bounds>>

\* An installed repository is active from the start.
Installed(t, r) == Upsert(r, event[t].inst, TRUE)

\* handle_installation_created, handle_repos_added: one upsert for each repository.
SaveRepo(t) ==
    /\ pc[t] = "save"
    /\ \/ left[t] = {} /\ End(t) /\ UNCHANGED <<repos, wasActive, decided, faults>>
       \/ \E r \in left[t] :
             /\ left' = [left EXCEPT ![t] = @ \ {r}]
             /\ \/ /\ Saves(Installed(t, r))
                   /\ decided' = [decided EXCEPT ![r] = "on"]
                   /\ UNCHANGED faults
                \/ Failing /\ UNCHANGED <<repos, wasActive, decided>>
             /\ UNCHANGED <<pc, event, finished>>
    /\ UNCHANGED <<recorded, excused, queued, handled, unrecorded, lost,
                   sends, edits>>

\* handle_installation_deleted.
Deactivate(t) ==
    /\ pc[t] = "deactivate"
    /\ LET gone == {r \in Repo : repos[r] # None /\ repos[r].inst = event[t].inst}
       IN  \/ /\ Saves([r \in Repo |->
                    IF r \in gone THEN [repos[r] EXCEPT !.active = FALSE] ELSE repos[r]])
              /\ decided' = [r \in Repo |-> IF r \in gone THEN "off" ELSE decided[r]]
              /\ UNCHANGED faults
           \/ Failing /\ UNCHANGED <<repos, wasActive, decided>>
    /\ End(t)
    /\ UNCHANGED <<recorded, excused, queued, handled, unrecorded, lost,
                   sends, edits>>

\* Everything else is somebody else's.
HandOn(t) ==
    /\ pc[t] = "hand_on" /\ End(t)
    /\ UNCHANGED <<recorded, repos, wasActive, excused, queued, handled, unrecorded, lost, decided,
                   bounds>>

Step(t) ==
    \/ Reject(t) \/ TakeOn(t) \/ HandOn(t) \/ Ensure(t) \/ InsertRepo(t) \/ Check(t) \/ Enqueue(t)
    \/ SaveRepo(t) \/ Deactivate(t)

\* A process dies: its requests and tasks are gone, whatever is recorded.
Crash(p) ==
    /\ Failing
    /\ LET dead == {t \in Task : Home[t] = p /\ pc[t] # "idle"}
       IN  /\ dead # {}
           /\ pc' = [t \in Task |-> IF t \in dead THEN "idle" ELSE pc[t]]
           /\ event' = [t \in Task |-> IF t \in dead THEN None ELSE event[t]]
           /\ left' = [t \in Task |-> IF t \in dead THEN {} ELSE left[t]]
           /\ lost' = lost \cup {event[t].id : t \in dead}
    /\ UNCHANGED <<recorded, repos, wasActive, excused, queued,
                   handled, finished, unrecorded, decided, sends, edits>>

-----------------------------------------------------------------------------
\* Maintainers, on the dashboard.

Edit == edits > 0 /\ edits' = edits - 1

\* update_repo.
Switch ==
    /\ Edit
    /\ \E r \in Repo, on \in BOOLEAN :
          /\ repos[r] # None
          /\ Saves([repos EXCEPT ![r].active = on])
          /\ decided' = [decided EXCEPT ![r] = IF on THEN "on" ELSE "off"]
    /\ UNCHANGED <<recorded, pc, event, left, excused, past, sends, faults>>

\* sync_repos, a repository at a time.
SyncRepo ==
    /\ Edit
    /\ \E i \in DOMAIN Listing : \E r \in Listing[i] : Saves(Upsert(r, i, FALSE))
    /\ UNCHANGED <<recorded, pc, event, left, excused, past, decided, sends, faults>>

\* delete_repo.
DeleteRepo ==
    /\ Edit
    /\ \E r \in Repo :
          /\ repos[r] # None
          /\ Saves([repos EXCEPT ![r] = None])
          /\ decided' = [decided EXCEPT ![r] = "off"]
          /\ excused' = [t \in Task |-> excused[t] \/ (event[t] # None
                            /\ event[t].kind = "pull_request" /\ event[t].repo = r)]
    /\ UNCHANGED <<recorded, pc, event, left, past, sends, faults>>

Next ==
    \/ \E t \in Task, d \in Delivery : Receive(t, d)
    \/ \E d \in Delivery : Duplicate(d)
    \/ \E t \in Task : Step(t) \/ HangUp(t)
    \/ \E p \in Replica : Crash(p)
    \/ Switch \/ SyncRepo \/ DeleteRepo

\* The runtime goes on with every request and every task.
Fairness == \A t \in Task : WF_vars(Step(t))

Spec == Init /\ [][Next]_vars /\ Fairness
-----------------------------------------------------------------------------
\* Properties.

\* is_duplicate_delivery: whoever receives it, in whatever order and how often, a
\* delivery is let in once, and again only where its id could not be recorded.
NotRepeated ==
    \A d \in Delivery : d \notin unrecorded => handled[d] <= 1

\* db/repos.rs 51-52, "Reactivate on reinstall; never deactivate an already-active repo
\* via upsert": a repository is reviewed exactly if that is what a maintainer or an
\* installation decided last; registering it on the way and synchronising decide nothing.
DecisionsStand == \A r \in Repo : IsActive(repos, r) <=> decided[r] = "on"

\* bot/mod.rs 547 "Opt-in": an event leads to a review only of a repository that was
\* active at some time while the event was handled, unless a statement failed or the
\* repository was deleted under it.
InactiveStaysQuiet == \A q \in queued : q.wasActive \/ q.excused

\* bot/mod.rs 495-504: a delivery whose id is recorded is handled to its end, although
\* its event is read and its task spawned only afterwards, unless the process dies or
\* GitHub hangs up, or the payload has no action; then nobody will ever handle it.
Handled ==
    \A d \in Delivery : Reads(Event[d]) => (d \in recorded ~> (d \in finished \/ d \in lost))

\* bot/mod.rs 609, "Incremental symbol-index: re-parse files touched by the push": a push
\* is handled as everything else is.
PushesHandled ==
    \A d \in Kind({"push"}) : (d \in recorded) ~> (d \in finished \/ d \in lost)
=============================================================================
