----------------------------- MODULE IntakeProofs -----------------------------
(***************************************************************************)
(* Proofs about the intake of webhooks, for any deliveries, repositories,  *)
(* installations, tasks and replicas: no delivery is taken on twice, what  *)
(* was decided of a repository last stands, and events of repositories     *)
(* that are switched off lead to no review.  And about what a push sets    *)
(* going: the index keeps to the last version of each file.                *)
(***************************************************************************)
EXTENDS Intake, SymbolIndex, TLAPS

Reviewing == {"ensure", "insert", "check", "enqueue"}
Labels == Reviewing \cup {"idle", "read", "save", "deactivate", "hand_on"}

Table == [Repo -> Row \cup {None}]

TypeOK ==
    /\ repos \in Table
    /\ pc \in [Task -> Labels]
    /\ event \in [Task -> {Event[d] : d \in Delivery} \cup {None}]
    /\ left \in [Task -> SUBSET Repo]
    /\ wasActive \in [Task -> BOOLEAN]
    /\ excused \in [Task -> BOOLEAN]
    /\ handled \in [Delivery -> Nat]
    /\ decided \in [Repo -> {"on", "off"}]

\* A request is about a delivery, and a task at a statement of its event's branch.
Located ==
    \A t \in Task :
        /\ pc[t] = "read" => \E d \in Delivery : event[t] = Event[d]
        /\ pc[t] \in Reviewing => \E d \in Kind({"pull_request"}) : event[t] = Event[d]
        /\ pc[t] = "save" => \E d \in Kind({"created", "added"}) : event[t] = Event[d]

\* What nobody recorded, and nobody took on for want of a record, was not taken on.
FreshDeliveries ==
    \A d \in Delivery : d \notin recorded /\ d \notin unrecorded => handled[d] = 0

\* A task whose repository is active has seen it so.
SeenActive ==
    \A t \in Task : pc[t] \in Reviewing /\ IsActive(repos, event[t].repo) => wasActive[t]

\* A task finds no row only where a statement failed or the row was deleted.
MissingExcused ==
    \A t \in Task : pc[t] = "check" /\ repos[event[t].repo] = None => excused[t]

\* What is about to be enqueued may be.
Entitled == \A t \in Task : pc[t] = "enqueue" => wasActive[t] \/ excused[t]

-----------------------------------------------------------------------------
LEMMA AboutARepo ==
    ASSUME Located, NEW t \in Task, pc[t] \in Reviewing
    PROVE  /\ event[t].repo \in Repo /\ event[t].kind = "pull_request" /\ event[t] # None
           /\ \A active \in BOOLEAN : [inst |-> event[t].inst, active |-> active] \in Row
BY IntakeAssumption DEF Located, Kind, Row

LEMMA AboutAnInstallation ==
    ASSUME Located, NEW t \in Task, pc[t] = "save"
    PROVE  \A active \in BOOLEAN : [inst |-> event[t].inst, active |-> active] \in Row
BY DEF Located, Kind, Row

\* An upsert leaves a row, active if it was or if it is told to be, and no other row changed.
LEMMA UpsertRow ==
    ASSUME NEW r \in Repo, NEW inst, NEW active \in BOOLEAN, repos \in Table,
           \A on \in BOOLEAN : [inst |-> inst, active |-> on] \in Row
    PROVE  /\ Upsert(r, inst, active) \in Table
           /\ Upsert(r, inst, active)[r] # None
           /\ Upsert(r, inst, active)[r].active <=> (active \/ IsActive(repos, r))
           /\ \A q \in Repo \ {r} : Upsert(r, inst, active)[q] = repos[q]
<1>1. (active \/ (repos[r] # None /\ repos[r].active)) \in BOOLEAN
  BY DEF Table, Row
<1>2. Upserted(repos[r], inst, active) \in Row
  BY <1>1 DEF Upserted
<1>3. Upserted(repos[r], inst, active) # None
  BY <1>2, IntakeAssumption
<1>. QED BY <1>2, <1>3 DEF Upsert, Upserted, Table, IsActive

\* Nothing becomes active by an upsert but what it makes so.
LEMMA UpsertActive ==
    ASSUME NEW r \in Repo, NEW inst, NEW active \in BOOLEAN, repos \in Table,
           \A on \in BOOLEAN : [inst |-> inst, active |-> on] \in Row,
           repos' = Upsert(r, inst, active)
    PROVE  \A q \in Repo : IsActive(repos', q) <=> ((active /\ q = r) \/ IsActive(repos, q))
<1> SUFFICES ASSUME NEW q \in Repo
             PROVE  IsActive(repos', q) <=> ((active /\ q = r) \/ IsActive(repos, q))
  OBVIOUS
<1>1. CASE q = r
  BY <1>1, UpsertRow DEF IsActive
<1>2. CASE q # r
  BY <1>2, UpsertRow DEF IsActive
<1>. QED BY <1>1, <1>2

\* An upsert takes no row away.
LEMMA UpsertKeepsRows ==
    ASSUME NEW r \in Repo, NEW inst, NEW active \in BOOLEAN, repos \in Table,
           \A on \in BOOLEAN : [inst |-> inst, active |-> on] \in Row,
           repos' = Upsert(r, inst, active)
    PROVE  repos'[r] # None /\ \A q \in Repo : repos[q] # None => repos'[q] # None
<1> SUFFICES ASSUME NEW q \in Repo, q = r \/ repos[q] # None PROVE repos'[q] # None
  OBVIOUS
<1>1. CASE q = r
  BY <1>1, UpsertRow
<1>2. CASE q # r
  BY <1>2, UpsertRow
<1>. QED BY <1>1, <1>2

\* Every table a step leaves is one of rows.
LEMMA TablesStay ==
    ASSUME TypeOK, Located, Next PROVE repos' \in Table
<1>1. ASSUME NEW t \in Task, InsertRepo(t) PROVE repos' \in Table
  <2>1. Upsert(event[t].repo, event[t].inst, FALSE) \in Table
    BY <1>1, AboutARepo, UpsertRow DEF TypeOK, InsertRepo, Reviewing
  <2>. QED BY <1>1, <2>1 DEF InsertRepo, Saves, TypeOK
<1>2. ASSUME NEW t \in Task, SaveRepo(t) PROVE repos' \in Table
  <2>1. \A r \in left[t] : Installed(t, r) \in Table
    BY <1>2, AboutAnInstallation, UpsertRow DEF TypeOK, SaveRepo, Installed
  <2>. QED BY <1>2, <2>1 DEF SaveRepo, Saves, TypeOK
<1>3. ASSUME NEW t \in Task, Deactivate(t) PROVE repos' \in Table
  <2>1. \A r \in Repo : repos[r] # None => [repos[r] EXCEPT !.active = FALSE] \in Row
    BY DEF TypeOK, Table, Row
  <2>2. CASE UNCHANGED repos
    BY <2>2 DEF TypeOK
  <2>3. CASE \E gone \in SUBSET {r \in Repo : repos[r] # None} :
               repos' = [r \in Repo |-> IF r \in gone THEN [repos[r] EXCEPT !.active = FALSE]
                                        ELSE repos[r]]
    BY <2>1, <2>3 DEF TypeOK, Table
  <2>. QED BY <1>3, <2>2, <2>3 DEF Deactivate, Saves
<1>4. ASSUME Switch PROVE repos' \in Table
  <2>1. PICK r \in Repo, on \in BOOLEAN :
            repos[r] # None /\ repos' = [repos EXCEPT ![r].active = on]
    BY <1>4 DEF Switch, Saves
  <2>2. repos[r] \in Row
    BY <2>1 DEF TypeOK, Table
  <2>3. [repos[r] EXCEPT !.active = on] \in Row
    BY <2>2 DEF Row
  <2>. QED BY <2>1, <2>3 DEF TypeOK, Table
<1>5. ASSUME SyncRepo PROVE repos' \in Table
  <2>0. PICK i \in DOMAIN Listing : \E r \in Listing[i] : Saves(Upsert(r, i, FALSE))
    BY <1>5 DEF SyncRepo
  <2>1. PICK r \in Listing[i] : Saves(Upsert(r, i, FALSE))
    BY <2>0
  <2>2. r \in Repo /\ \A on \in BOOLEAN : [inst |-> i, active |-> on] \in Row
    BY IntakeAssumption DEF Row
  <2>. QED BY <2>1, <2>2, UpsertRow DEF Saves, TypeOK
<1>6. ASSUME DeleteRepo PROVE repos' \in Table
  BY <1>6 DEF DeleteRepo, Saves, TypeOK, Table
<1>7. ASSUME NEW t \in Task, \/ Reject(t) \/ TakeOn(t) \/ HangUp(t)
                            \/ Ensure(t) \/ Check(t) \/ Enqueue(t) \/ HandOn(t)
      PROVE  repos' \in Table
  BY <1>7 DEF Reject, TakeOn, HangUp, Ensure, Check, Enqueue, HandOn, TypeOK
<1>8. ASSUME NEW t \in Task, NEW d \in Delivery, Receive(t, d) PROVE repos' \in Table
  BY <1>8 DEF Receive, TypeOK
<1>9. ASSUME NEW p \in Replica, Crash(p) PROVE repos' \in Table
  BY <1>9 DEF Crash, TypeOK
<1>10. ASSUME NEW d \in Delivery, Duplicate(d) PROVE repos' \in Table
  BY <1>10 DEF Duplicate, TypeOK
<1>. QED BY <1>1, <1>2, <1>3, <1>4, <1>5, <1>6, <1>7, <1>8, <1>9, <1>10 DEF Next, Step

\* What a task is at the end of its branch.
LEMMA Ended ==
    ASSUME TypeOK, NEW t \in Task, End(t)
    PROVE  /\ pc' = [pc EXCEPT ![t] = "idle"] /\ event' = [event EXCEPT ![t] = None]
           /\ left' = [left EXCEPT ![t] = {}]
BY DEF End, Label

\* Where the tasks are, and what they are about.
LEMMA TasksStay ==
    ASSUME TypeOK, Located, Next
    PROVE  /\ pc' \in [Task -> Labels]
           /\ event' \in [Task -> {Event[d] : d \in Delivery} \cup {None}]
           /\ left' \in [Task -> SUBSET Repo]
           /\ Located'
<1> DEFINE Ok == /\ pc' \in [Task -> Labels]
                 /\ event' \in [Task -> {Event[d] : d \in Delivery} \cup {None}]
                 /\ left' \in [Task -> SUBSET Repo]
                 /\ Located'
<1>1. ASSUME NEW t \in Task, TakeOn(t) PROVE Ok
  <2>1. PICK d \in Delivery : event[t] = Event[d]
    BY <1>1 DEF TakeOn, Located
  <2>2. pc' = [pc EXCEPT ![t] = Statement(Event[d])] /\ UNCHANGED event
    BY <1>1, <2>1 DEF TakeOn, Label
  <2>3. left' \in [Task -> SUBSET Repo]
    BY <1>1, <2>1, IntakeAssumption DEF TakeOn, TypeOK, Kind
  <2>4. /\ Statement(Event[d]) \in Labels \ {"read"}
        /\ Statement(Event[d]) \in Reviewing => d \in Kind({"pull_request"})
        /\ Statement(Event[d]) = "save" => d \in Kind({"created", "added"})
    BY DEF Statement, Labels, Reviewing, Kind
  <2>5. Located'
    BY <2>1, <2>2, <2>4 DEF TypeOK, Located
  <2>. QED BY <2>2, <2>3, <2>4, <2>5 DEF TypeOK
<1>2. ASSUME NEW t \in Task, End(t) PROVE Ok
  BY <1>2, Ended DEF TypeOK, Located, Labels, Reviewing
<1>3. ASSUME NEW t \in Task, NEW l \in Reviewing, pc[t] \in Reviewing,
             pc' = [pc EXCEPT ![t] = l], UNCHANGED <<event, left>>
      PROVE  Ok
  BY <1>3 DEF TypeOK, Located, Labels, Reviewing
<1>4. ASSUME UNCHANGED <<pc, event, left>> PROVE Ok
  BY <1>4 DEF TypeOK, Located
<1>5. ASSUME NEW t \in Task, Ensure(t) PROVE Ok
  <2>1. PICK l \in {"check", "insert"} : pc' = [pc EXCEPT ![t] = l]
    BY <1>5 DEF Ensure, Label
  <2>. QED BY <1>3, <1>5, <2>1 DEF Ensure, Reviewing
<1>6. ASSUME NEW t \in Task, InsertRepo(t) PROVE Ok
  BY <1>3, <1>6 DEF InsertRepo, Label, Reviewing
<1>7. ASSUME NEW t \in Task, Check(t) PROVE Ok
  <2>1. CASE End(t)
    BY <1>2, <2>1
  <2>2. CASE Label(t, "enqueue") /\ UNCHANGED <<event, left>>
    BY <1>3, <1>7, <2>2 DEF Check, Label, Reviewing
  <2>. QED BY <1>7, <2>1, <2>2 DEF Check
<1>8. ASSUME NEW t \in Task, SaveRepo(t) PROVE Ok
  <2>1. CASE End(t)
    BY <1>2, <2>1
  <2>2. CASE UNCHANGED <<pc, event>> /\ \E r \in left[t] : left' = [left EXCEPT ![t] = @ \ {r}]
    BY <2>2 DEF TypeOK, Located
  <2>. QED BY <1>8, <2>1, <2>2 DEF SaveRepo
<1>9. ASSUME NEW t \in Task, Enqueue(t) \/ Deactivate(t) \/ HandOn(t) PROVE Ok
  BY <1>2, <1>9 DEF Enqueue, Deactivate, HandOn
<1>10. ASSUME NEW p \in Replica, Crash(p) PROVE Ok
  BY <1>10 DEF Crash, TypeOK, Located, Labels, Reviewing
<1>11. ASSUME Switch \/ SyncRepo \/ DeleteRepo PROVE Ok
  BY <1>4, <1>11 DEF Switch, SyncRepo, DeleteRepo
<1>12. ASSUME NEW d \in Delivery, Duplicate(d) PROVE Ok
  BY <1>4, <1>12 DEF Duplicate, taskVars
<1>13. ASSUME NEW t \in Task, NEW d \in Delivery, Receive(t, d) PROVE Ok
  <2>1. /\ pc' = [pc EXCEPT ![t] = "read"] /\ event' = [event EXCEPT ![t] = Event[d]]
        /\ UNCHANGED left
    BY <1>13 DEF Receive, LetIn, Label
  <2>. QED BY <2>1 DEF TypeOK, Located, Labels, Reviewing
<1>14. ASSUME NEW t \in Task, Reject(t) \/ HangUp(t) PROVE Ok
  <2>1. /\ pc' = [pc EXCEPT ![t] = "idle"] /\ event' = [event EXCEPT ![t] = None]
        /\ UNCHANGED left
    BY <1>14 DEF Reject, HangUp, Label
  <2>. QED BY <2>1 DEF TypeOK, Located, Labels, Reviewing
<1>. QED BY <1>1, <1>5, <1>6, <1>7, <1>8, <1>9, <1>10, <1>11, <1>12, <1>13, <1>14
         DEF Next, Step

\* What is kept beside the tables.
LEMMA HistoryStays ==
    ASSUME TypeOK, Located, Next
    PROVE  /\ wasActive' \in [Task -> BOOLEAN] /\ excused' \in [Task -> BOOLEAN]
           /\ handled' \in [Delivery -> Nat] /\ decided' \in [Repo -> {"on", "off"}]
<1> DEFINE Ok == /\ wasActive' \in [Task -> BOOLEAN] /\ excused' \in [Task -> BOOLEAN]
                 /\ handled' \in [Delivery -> Nat] /\ decided' \in [Repo -> {"on", "off"}]
<1>1. \A table \in Table : Saves(table) => wasActive' \in [Task -> BOOLEAN]
  <2> SUFFICES ASSUME NEW table \in Table, Saves(table), NEW t \in Task
               PROVE  (wasActive[t] \/ (pc[t] \in {"ensure", "insert", "check", "enqueue"}
                                         /\ IsActive(table, event[t].repo))) \in BOOLEAN
    BY DEF Saves
  <2>. QED OBVIOUS
<1>2. \A table : Saves(table) => repos' = table
  BY DEF Saves
<1>3. repos' \in Table
  BY TablesStay
<1>4. (\E table : Saves(table)) => wasActive' \in [Task -> BOOLEAN]
  BY <1>1, <1>2, <1>3
<1>5. ASSUME NEW t \in Task, TakeOn(t) PROVE Ok
  <2>1. (event[t].kind = "pull_request" /\ IsActive(repos, event[t].repo)) \in BOOLEAN
    OBVIOUS
  <2>2. wasActive' \in [Task -> BOOLEAN]
    BY <1>5, <2>1 DEF TakeOn, TypeOK
  <2>3. excused' \in [Task -> BOOLEAN]
    BY <1>5 DEF TakeOn, TypeOK
  <2>4. handled' \in [Delivery -> Nat] /\ decided' \in [Repo -> {"on", "off"}]
    BY <1>5 DEF TakeOn, TypeOK, past
  <2>. QED BY <2>2, <2>3, <2>4
<1>6. ASSUME NEW t \in Task, InsertRepo(t) PROVE Ok
  BY <1>4, <1>6 DEF InsertRepo, TypeOK, past
<1>7. ASSUME NEW t \in Task, SaveRepo(t) PROVE Ok
  BY <1>4, <1>7 DEF SaveRepo, TypeOK
<1>8. ASSUME NEW t \in Task, Deactivate(t) PROVE Ok
  BY <1>4, <1>8 DEF Deactivate, TypeOK
<1>9. ASSUME NEW t \in Task, Ensure(t) PROVE Ok
  BY <1>9 DEF Ensure, TypeOK, past
<1>10. ASSUME NEW t \in Task, Check(t) PROVE Ok
  BY <1>10 DEF Check, TypeOK
<1>11. ASSUME NEW t \in Task, Enqueue(t) \/ HandOn(t) PROVE Ok
  BY <1>11 DEF Enqueue, HandOn, TypeOK
<1>12. ASSUME NEW p \in Replica, Crash(p) PROVE Ok
  BY <1>12 DEF Crash, TypeOK
<1>13. ASSUME Switch PROVE Ok
  BY <1>4, <1>13 DEF Switch, TypeOK, past
<1>14. ASSUME SyncRepo PROVE Ok
  BY <1>4, <1>14 DEF SyncRepo, TypeOK, past
<1>15. ASSUME DeleteRepo PROVE Ok
  BY <1>4, <1>15 DEF DeleteRepo, TypeOK, past
<1>16. ASSUME NEW d \in Delivery, Duplicate(d) PROVE Ok
  BY <1>16 DEF Duplicate, TypeOK, taskVars, past
<1>17. ASSUME NEW t \in Task, NEW d \in Delivery, Receive(t, d) PROVE Ok
  BY <1>17 DEF Receive, LetIn, TypeOK
<1>18. ASSUME NEW t \in Task, Reject(t) \/ HangUp(t) PROVE Ok
  BY <1>18 DEF Reject, HangUp, TypeOK, past
<1>. QED BY <1>5, <1>6, <1>7, <1>8, <1>9, <1>10, <1>11, <1>12, <1>13, <1>14, <1>15, <1>16,
            <1>17, <1>18
         DEF Next, Step

LEMMA TypeStays ==
    ASSUME TypeOK /\ Located, [Next]_vars PROVE TypeOK' /\ Located'
<1>1. CASE Next
  BY <1>1, TablesStay, TasksStay, HistoryStays DEF TypeOK
<1>2. CASE UNCHANGED vars
  BY <1>2 DEF vars, taskVars, past, bounds, TypeOK, Located
<1>. QED BY <1>1, <1>2

LEMMA InitTyped == Init => TypeOK /\ Located
<1> SUFFICES ASSUME Init PROVE TypeOK /\ Located
  OBVIOUS
<1>1. repos \in Table /\ pc \in [Task -> Labels] /\ left \in [Task -> SUBSET Repo]
  BY DEF Init, Table, Labels
<1>2. event \in [Task -> {Event[d] : d \in Delivery} \cup {None}]
  BY DEF Init
<1>3. handled \in [Delivery -> Nat] /\ decided \in [Repo -> {"on", "off"}]
  BY DEF Init
<1>4. wasActive \in [Task -> BOOLEAN] /\ excused \in [Task -> BOOLEAN]
  BY DEF Init
<1>5. Located
  BY DEF Init, Located, Reviewing
<1>. QED BY <1>1, <1>2, <1>3, <1>4, <1>5 DEF TypeOK

-----------------------------------------------------------------------------
\* Taking a delivery on either records it or is remembered as unrecorded.
LEMMA OnceStays ==
    ASSUME TypeOK, FreshDeliveries, NotRepeated, [Next]_vars
    PROVE  FreshDeliveries' /\ NotRepeated'
<1>1. ASSUME NEW t \in Task, NEW d \in Delivery, Receive(t, d)
      PROVE  FreshDeliveries' /\ NotRepeated'
  <2>1. handled' = [handled EXCEPT ![d] = @ + 1]
    BY <1>1 DEF Receive, LetIn
  <2>2. \/ d \notin recorded /\ recorded' = recorded \cup {d} /\ unrecorded' = unrecorded
        \/ unrecorded' = unrecorded \cup {d} /\ recorded' = recorded
    BY <1>1 DEF Receive
  <2>. QED BY <2>1, <2>2 DEF TypeOK, FreshDeliveries, NotRepeated
<1>2. ASSUME UNCHANGED <<recorded, unrecorded, handled>> PROVE FreshDeliveries' /\ NotRepeated'
  BY <1>2 DEF FreshDeliveries, NotRepeated
<1>3. ASSUME NEW t \in Task, Step(t) \/ HangUp(t)
      PROVE  UNCHANGED <<recorded, unrecorded, handled>>
  BY <1>3 DEF HangUp, Step, Reject, TakeOn, HandOn, Ensure, InsertRepo, Check, Enqueue, SaveRepo, Deactivate, past
<1>4. ASSUME NEW p \in Replica, Crash(p) PROVE UNCHANGED <<recorded, unrecorded, handled>>
  BY <1>4 DEF Crash
<1>5. ASSUME Switch \/ SyncRepo \/ DeleteRepo PROVE UNCHANGED <<recorded, unrecorded, handled>>
  BY <1>5 DEF Switch, SyncRepo, DeleteRepo, past
<1>6. ASSUME NEW d \in Delivery, Duplicate(d) PROVE UNCHANGED <<recorded, unrecorded, handled>>
  BY <1>6 DEF Duplicate, past
<1>7. CASE UNCHANGED vars
  BY <1>2, <1>7 DEF vars, past
<1>. QED BY <1>1, <1>2, <1>3, <1>4, <1>5, <1>6, <1>7 DEF Next

\* A delivery is taken on once, in whatever order and how often it comes, and by however
\* many replicas, unless its id could not be recorded (bot/mod.rs is_duplicate_delivery).
THEOREM TakenOnOnce == Spec => []NotRepeated
<1>1. Init => TypeOK /\ Located /\ FreshDeliveries /\ NotRepeated
  BY InitTyped DEF Init, FreshDeliveries, NotRepeated
<1>2. TypeOK /\ Located /\ FreshDeliveries /\ NotRepeated /\ [Next]_vars
        => (TypeOK /\ Located /\ FreshDeliveries /\ NotRepeated)'
  BY TypeStays, OnceStays
<1>. QED BY <1>1, <1>2, PTL DEF Spec
-----------------------------------------------------------------------------
\* Whoever writes a row decides, or keeps whether it is active.
LEMMA DecisionsStay ==
    ASSUME TypeOK, Located, DecisionsStand, [Next]_vars PROVE DecisionsStand'
<1>1. ASSUME UNCHANGED <<repos, decided>> PROVE DecisionsStand'
  BY <1>1 DEF DecisionsStand, IsActive
<1>2. ASSUME NEW t \in Task, InsertRepo(t) PROVE DecisionsStand'
  <2>1. CASE UNCHANGED repos
    BY <1>1, <1>2, <2>1 DEF InsertRepo
  <2>2. CASE Saves(Upsert(event[t].repo, event[t].inst, FALSE))
    <3>1. event[t].repo \in Repo
          /\ \A on \in BOOLEAN : [inst |-> event[t].inst, active |-> on] \in Row
      BY <1>2, AboutARepo DEF InsertRepo, Reviewing
    <3>2. repos \in Table /\ repos' = Upsert(event[t].repo, event[t].inst, FALSE)
      BY <2>2 DEF Saves, TypeOK
    <3>3. \A r \in Repo : IsActive(repos', r) <=> IsActive(repos, r)
      BY <3>1, <3>2, UpsertActive
    <3>. QED BY <1>2, <3>3 DEF InsertRepo, DecisionsStand
  <2>. QED BY <1>2, <2>1, <2>2 DEF InsertRepo
<1>3. ASSUME NEW t \in Task, SaveRepo(t) PROVE DecisionsStand'
  <2>1. CASE UNCHANGED <<repos, decided>>
    BY <1>1, <2>1
  <2>2. CASE \E r \in left[t] : Saves(Installed(t, r)) /\ decided' = [decided EXCEPT ![r] = "on"]
    <3>1. PICK r \in Repo : repos' = Upsert(r, event[t].inst, TRUE)
                            /\ decided' = [decided EXCEPT ![r] = "on"]
      BY <2>2 DEF Saves, Installed, TypeOK
    <3>2. \A on \in BOOLEAN : [inst |-> event[t].inst, active |-> on] \in Row
      BY <1>3, AboutAnInstallation DEF SaveRepo
    <3>3. \A q \in Repo : IsActive(repos', q) <=> (q = r \/ IsActive(repos, q))
      BY <3>1, <3>2, UpsertActive DEF TypeOK
    <3>. QED BY <3>1, <3>3 DEF DecisionsStand, IsActive, TypeOK
  <2>. QED BY <1>3, <2>1, <2>2 DEF SaveRepo
<1>4. ASSUME NEW t \in Task, Deactivate(t) PROVE DecisionsStand'
  <2>1. CASE UNCHANGED <<repos, decided>>
    BY <1>1, <2>1
  <2>2. CASE \E gone \in SUBSET {r \in Repo : repos[r] # None} :
               /\ repos' = [r \in Repo |-> IF r \in gone THEN [repos[r] EXCEPT !.active = FALSE]
                                           ELSE repos[r]]
               /\ decided' = [r \in Repo |-> IF r \in gone THEN "off" ELSE decided[r]]
    <3>1. \A r \in Repo : repos[r] # None => ~[repos[r] EXCEPT !.active = FALSE].active
      BY DEF TypeOK, Table, Row
    <3>. QED BY <2>2, <3>1 DEF DecisionsStand, IsActive, TypeOK
  <2>. QED BY <1>4, <2>1, <2>2 DEF Deactivate, Saves
<1>5. ASSUME Switch PROVE DecisionsStand'
  <2>1. PICK r \in Repo, on \in BOOLEAN :
            /\ repos[r] # None /\ repos' = [repos EXCEPT ![r].active = on]
            /\ decided' = [decided EXCEPT ![r] = IF on THEN "on" ELSE "off"]
    BY <1>5 DEF Switch, Saves
  <2>2. repos[r] \in Row /\ [repos[r] EXCEPT !.active = on] \in Row
    BY <2>1 DEF TypeOK, Table, Row
  <2>3. repos'[r] = [repos[r] EXCEPT !.active = on] /\ repos'[r] # None
    BY <2>1, <2>2, IntakeAssumption DEF TypeOK, Table
  <2>4. IsActive(repos', r) <=> on
    BY <2>2, <2>3 DEF IsActive, Row
  <2>5. \A q \in Repo \ {r} : repos'[q] = repos[q] /\ decided'[q] = decided[q]
    BY <2>1 DEF TypeOK, Table
  <2>. QED BY <2>1, <2>4, <2>5 DEF DecisionsStand, IsActive, TypeOK
<1>6. ASSUME SyncRepo PROVE DecisionsStand'
  <2>0. PICK i \in DOMAIN Listing : \E r \in Listing[i] : Saves(Upsert(r, i, FALSE))
    BY <1>6 DEF SyncRepo
  <2>1. PICK r \in Listing[i] : Saves(Upsert(r, i, FALSE))
    BY <2>0
  <2>2. r \in Repo /\ \A on \in BOOLEAN : [inst |-> i, active |-> on] \in Row
    BY IntakeAssumption DEF Row
  <2>3. \A q \in Repo : IsActive(repos', q) <=> IsActive(repos, q)
    BY <2>1, <2>2, UpsertActive DEF Saves, TypeOK
  <2>. QED BY <1>6, <2>3 DEF SyncRepo, DecisionsStand
<1>7. ASSUME DeleteRepo PROVE DecisionsStand'
  BY <1>7 DEF DeleteRepo, Saves, DecisionsStand, IsActive, TypeOK, Table
<1>8. ASSUME NEW t \in Task, \/ Reject(t) \/ TakeOn(t) \/ HangUp(t)
                            \/ Ensure(t) \/ Check(t) \/ Enqueue(t) \/ HandOn(t)
      PROVE  DecisionsStand'
  BY <1>1, <1>8 DEF Reject, TakeOn, HangUp, Ensure, Check, Enqueue, HandOn
<1>9. ASSUME NEW t \in Task, NEW d \in Delivery, Receive(t, d) PROVE DecisionsStand'
  BY <1>1, <1>9 DEF Receive
<1>10. ASSUME NEW d \in Delivery, Duplicate(d) PROVE DecisionsStand'
  BY <1>1, <1>10 DEF Duplicate
<1>11. ASSUME NEW p \in Replica, Crash(p) PROVE DecisionsStand'
  BY <1>1, <1>11 DEF Crash
<1>12. CASE UNCHANGED vars
  BY <1>1, <1>12 DEF vars
<1>. QED BY <1>2, <1>3, <1>4, <1>5, <1>6, <1>7, <1>8, <1>9, <1>10, <1>11, <1>12
         DEF Next, Step

\* A repository is active exactly if that was decided last, by a maintainer or an
\* installation, whoever registers or synchronises it beside them (db/repos.rs upsert_repo,
\* bot/mod.rs ensure_repo_exists): those keep what they find, in the one statement.
THEOREM LastWordStands == Spec => []DecisionsStand
<1>1. Init => TypeOK /\ Located /\ DecisionsStand
  BY InitTyped DEF Init, DecisionsStand, IsActive
<1>2. TypeOK /\ Located /\ DecisionsStand /\ [Next]_vars
        => (TypeOK /\ Located /\ DecisionsStand)'
  BY TypeStays, DecisionsStay
<1>. QED BY <1>1, <1>2, PTL DEF Spec
-----------------------------------------------------------------------------
OptIn == SeenActive /\ MissingExcused /\ Entitled /\ InactiveStaysQuiet

\* Whoever changes the table is noticed by the tasks about its repositories.
LEMMA Noticed ==
    ASSUME TypeOK, SeenActive, Saves(repos') \/ UNCHANGED <<repos, wasActive>>,
           NEW u \in Task, pc[u] \in Reviewing, event'[u] = event[u]
    PROVE  /\ IsActive(repos', event'[u].repo) => wasActive'[u]
           /\ wasActive[u] => wasActive'[u]
<1>1. CASE Saves(repos')
  <2>1. wasActive'[u] = (wasActive[u] \/ (pc[u] \in {"ensure", "insert", "check", "enqueue"}
                                           /\ IsActive(repos', event[u].repo)))
    BY <1>1 DEF Saves
  <2>. QED BY <2>1 DEF Reviewing
<1>2. CASE UNCHANGED <<repos, wasActive>>
  BY <1>2 DEF SeenActive, IsActive
<1>. QED BY <1>1, <1>2

\* A step that moves no task about a pull request keeps it all, if a row that goes
\* excuses those who will miss it.
LEMMA BystandersStay ==
    ASSUME TypeOK, OptIn, Saves(repos') \/ UNCHANGED <<repos, wasActive>>,
           \A u \in Task : pc'[u] \in Reviewing =>
               /\ pc'[u] = pc[u] /\ event'[u] = event[u] /\ (excused[u] => excused'[u])
               /\ repos'[event[u].repo] = None =>
                      repos[event[u].repo] = None \/ excused'[u],
           UNCHANGED queued
    PROVE  OptIn'
<1>1. SeenActive'
  BY Noticed DEF SeenActive, OptIn
<1>2. MissingExcused'
  BY DEF MissingExcused, OptIn, Reviewing
<1>3. Entitled'
  <2> SUFFICES ASSUME NEW u \in Task, pc'[u] = "enqueue" PROVE wasActive'[u] \/ excused'[u]
    BY DEF Entitled
  <2>1. pc[u] = "enqueue" /\ event'[u] = event[u] /\ (excused[u] => excused'[u])
    BY DEF Reviewing
  <2>2. wasActive[u] => wasActive'[u]
    BY <2>1, Noticed DEF Reviewing, OptIn
  <2>. QED BY <2>1, <2>2 DEF Entitled, OptIn
<1>4. InactiveStaysQuiet'
  BY DEF InactiveStaysQuiet, OptIn
<1>. QED BY <1>1, <1>2, <1>3, <1>4 DEF OptIn

\* A request on its way is about no repository yet.
LEMMA RequestOptsIn ==
    ASSUME TypeOK, OptIn, NEW t \in Task,
           Reject(t) \/ HangUp(t) \/ \E d \in Delivery : Receive(t, d)
    PROVE  OptIn'
<1>1. /\ \E l \in {"idle", "read"} : pc' = [pc EXCEPT ![t] = l]
      /\ \E e : event' = [event EXCEPT ![t] = e]
      /\ UNCHANGED <<repos, wasActive, excused, queued>>
  BY DEF Reject, HangUp, Receive, LetIn, Label, past
<1>2. \A u \in Task : pc'[u] \in Reviewing => pc'[u] = pc[u] /\ event'[u] = event[u]
  BY <1>1 DEF TypeOK, Reviewing
<1>. QED BY <1>1, <1>2, BystandersStay

\* The task of a new delivery begins with whether its repository is active now.
LEMMA TakeOnOptsIn ==
    ASSUME TypeOK, Located, OptIn, NEW t \in Task, TakeOn(t)
    PROVE  OptIn'
<1>0. PICK d \in Delivery : event[t] = Event[d]
  BY DEF TakeOn, Located
<1>1. /\ pc' = [pc EXCEPT ![t] = Statement(Event[d])] /\ UNCHANGED event
      /\ wasActive' = [wasActive EXCEPT ![t] =
             Event[d].kind = "pull_request" /\ IsActive(repos, Event[d].repo)]
      /\ excused' = [excused EXCEPT ![t] = FALSE]
      /\ UNCHANGED <<repos, queued>>
  BY <1>0 DEF TakeOn, Label, past
<1>2. /\ Statement(Event[d]) \in Reviewing => Statement(Event[d]) = "ensure"
                                              /\ Event[d].kind = "pull_request"
  BY DEF Statement, Reviewing
<1>3. \A u \in Task \ {t} : pc'[u] = pc[u] /\ event'[u] = event[u]
                             /\ wasActive'[u] = wasActive[u] /\ excused'[u] = excused[u]
  BY <1>1 DEF TypeOK
<1>4. SeenActive'
  <2> SUFFICES ASSUME NEW u \in Task, pc'[u] \in Reviewing, IsActive(repos', event'[u].repo)
               PROVE  wasActive'[u]
    BY DEF SeenActive
  <2>1. CASE u = t
    <3>1. Event[d].kind = "pull_request" /\ IsActive(repos, Event[d].repo)
      BY <1>0, <1>1, <1>2, <2>1 DEF TypeOK, IsActive
    <3>. QED BY <1>1, <2>1, <3>1 DEF TypeOK
  <2>2. CASE u # t
    BY <1>1, <1>3, <2>2 DEF OptIn, SeenActive, IsActive
  <2>. QED BY <2>1, <2>2
<1>5. MissingExcused' /\ Entitled'
  <2>1. pc'[t] \notin {"check", "enqueue"}
    BY <1>1, <1>2 DEF TypeOK, Reviewing
  <2>. QED BY <1>1, <1>3, <2>1 DEF OptIn, MissingExcused, Entitled
<1>6. InactiveStaysQuiet'
  BY <1>1 DEF OptIn, InactiveStaysQuiet
<1>. QED BY <1>4, <1>5, <1>6 DEF OptIn

\* A step of one task about a pull request, to a statement where it finds a row or is
\* excused, and is entitled to what it is about to do.
LEMMA StatementOptsIn ==
    ASSUME TypeOK, Located, OptIn, Saves(repos') \/ UNCHANGED <<repos, wasActive>>,
           NEW t \in Task, pc[t] \in Reviewing, NEW l \in Reviewing,
           pc' = [pc EXCEPT ![t] = l], UNCHANGED <<event, queued>>,
           \A u \in Task : excused[u] => excused'[u],
           l = "check" => repos'[event[t].repo] # None \/ excused'[t],
           l = "enqueue" => wasActive[t] \/ excused'[t],
           \A q \in Repo : repos[q] # None => repos'[q] # None
    PROVE  OptIn'
<1>1. SeenActive'
  <2> SUFFICES ASSUME NEW u \in Task, pc'[u] \in Reviewing, IsActive(repos', event'[u].repo)
               PROVE  wasActive'[u]
    BY DEF SeenActive
  <2>1. pc[u] \in Reviewing
    BY DEF TypeOK
  <2>. QED BY <2>1, Noticed DEF OptIn
<1>2. MissingExcused'
  <2> SUFFICES ASSUME NEW u \in Task, pc'[u] = "check", repos'[event[u].repo] = None
               PROVE  excused'[u]
    BY DEF MissingExcused
  <2>1. CASE u = t
    BY <2>1 DEF TypeOK
  <2>2. CASE u # t
    <3>1. pc[u] = "check"
      BY <2>2 DEF TypeOK
    <3>2. event[u].repo \in Repo
      BY <3>1, AboutARepo DEF Reviewing
    <3>. QED BY <3>1, <3>2 DEF OptIn, MissingExcused
  <2>. QED BY <2>1, <2>2
<1>3. Entitled'
  <2> SUFFICES ASSUME NEW u \in Task, pc'[u] = "enqueue" PROVE wasActive'[u] \/ excused'[u]
    BY DEF Entitled
  <2>1. pc[u] \in Reviewing
    BY DEF TypeOK, Reviewing
  <2>2. wasActive[u] => wasActive'[u]
    BY <2>1, Noticed DEF OptIn
  <2>3. CASE u = t
    BY <2>2, <2>3 DEF TypeOK
  <2>4. CASE u # t
    BY <2>2, <2>4 DEF TypeOK, OptIn, Entitled
  <2>. QED BY <2>3, <2>4
<1>4. InactiveStaysQuiet'
  BY DEF InactiveStaysQuiet, OptIn
<1>. QED BY <1>1, <1>2, <1>3, <1>4 DEF OptIn

\* The steps of a pull request's branch, one by one.
LEMMA BranchOptsIn ==
    ASSUME TypeOK, Located, OptIn, NEW t \in Task,
           Ensure(t) \/ InsertRepo(t) \/ Check(t) \/ Enqueue(t)
    PROVE  OptIn'
<1>1. \A u \in Task : End(t) => /\ pc'[u] \in Reviewing => pc'[u] = pc[u] /\ event'[u] = event[u]
  BY Ended DEF TypeOK, Reviewing
<1>2. CASE Ensure(t)
  <2>1. pc[t] \in Reviewing /\ UNCHANGED <<repos, wasActive, event, queued>>
    BY <1>2 DEF Ensure, Reviewing, past
  <2>2. \A u \in Task : excused[u] => excused'[u]
    BY <1>2 DEF Ensure, TypeOK
  <2>3. \/ repos[event[t].repo] # None /\ pc' = [pc EXCEPT ![t] = "check"]
        \/ pc' = [pc EXCEPT ![t] = "insert"]
    BY <1>2 DEF Ensure, Label
  <2>. QED BY <2>1, <2>2, <2>3, StatementOptsIn DEF Reviewing
<1>3. CASE InsertRepo(t)
  <2>1. /\ pc[t] \in Reviewing /\ UNCHANGED <<event, queued>>
        /\ pc' = [pc EXCEPT ![t] = "check"]
    BY <1>3 DEF InsertRepo, Reviewing, Label, past
  <2>2. CASE Saves(Upsert(event[t].repo, event[t].inst, FALSE)) /\ UNCHANGED excused
    <3>1. repos' = Upsert(event[t].repo, event[t].inst, FALSE) /\ Saves(repos')
      BY <2>2 DEF Saves
    <3>2. event[t].repo \in Repo
          /\ \A on \in BOOLEAN : [inst |-> event[t].inst, active |-> on] \in Row
      BY <2>1, AboutARepo
    <3>3. repos'[event[t].repo] # None /\ \A q \in Repo : repos[q] # None => repos'[q] # None
      BY <3>1, <3>2, UpsertKeepsRows DEF TypeOK
    <3>. QED BY <2>1, <2>2, <3>1, <3>3, StatementOptsIn DEF Reviewing
  <2>3. CASE excused' = [excused EXCEPT ![t] = TRUE] /\ UNCHANGED <<repos, wasActive>>
    <3>1. excused'[t] /\ \A u \in Task : excused[u] => excused'[u]
      BY <2>3 DEF TypeOK
    <3>. QED BY <2>1, <2>3, <3>1, StatementOptsIn DEF Reviewing
  <2>. QED BY <1>3, <2>2, <2>3 DEF InsertRepo
<1>4. CASE Check(t)
  <2>1. pc[t] = "check" /\ UNCHANGED <<repos, wasActive, queued>>
    BY <1>4 DEF Check
  <2>2. CASE End(t) /\ UNCHANGED excused
    BY <1>1, <2>1, <2>2, BystandersStay
  <2>3. CASE /\ repos[event[t].repo] # None => repos[event[t].repo].active
             /\ Label(t, "enqueue") /\ UNCHANGED <<event, excused>>
    <3>1. wasActive[t] \/ excused[t]
      BY <2>1, <2>3 DEF OptIn, SeenActive, MissingExcused, IsActive, Reviewing
    <3>. QED BY <2>1, <2>3, <3>1, StatementOptsIn DEF Label, Reviewing
  <2>4. CASE excused' = [excused EXCEPT ![t] = TRUE] /\ Label(t, "enqueue") /\ UNCHANGED event
    <3>1. excused'[t] /\ \A u \in Task : excused[u] => excused'[u]
      BY <2>4 DEF TypeOK
    <3>. QED BY <2>1, <2>4, <3>1, StatementOptsIn DEF Label, Reviewing
  <2>. QED BY <1>4, <2>2, <2>3, <2>4 DEF Check
<1>5. CASE Enqueue(t)
  <2>1. /\ pc[t] = "enqueue" /\ End(t) /\ UNCHANGED <<repos, wasActive, excused>>
        /\ queued' = queued \cup {[wasActive |-> wasActive[t], excused |-> excused[t]]}
    BY <1>5 DEF Enqueue
  <2>2. SeenActive' /\ MissingExcused' /\ Entitled'
    BY <1>1, <2>1 DEF OptIn, SeenActive, MissingExcused, Entitled, IsActive, Reviewing
  <2>3. InactiveStaysQuiet'
    BY <2>1 DEF OptIn, Entitled, InactiveStaysQuiet
  <2>. QED BY <2>2, <2>3 DEF OptIn
<1>. QED BY <1>2, <1>3, <1>4, <1>5

LEMMA OptInStays == ASSUME TypeOK, Located, OptIn, [Next]_vars PROVE OptIn'
<1>1. ASSUME NEW t \in Task, SaveRepo(t) \/ Deactivate(t) \/ HandOn(t) PROVE OptIn'
  <2>1. /\ UNCHANGED excused /\ UNCHANGED queued
        /\ Saves(repos') \/ UNCHANGED <<repos, wasActive>>
    BY <1>1 DEF SaveRepo, Deactivate, HandOn, Saves
  <2>2. \A u \in Task : pc'[u] \in Reviewing => pc'[u] = pc[u] /\ event'[u] = event[u]
    BY <1>1, Ended DEF SaveRepo, Deactivate, HandOn, TypeOK, Reviewing
  <2>3. \A u \in Task : pc'[u] \in Reviewing =>
            (repos'[event[u].repo] = None => repos[event[u].repo] = None)
    <3>1. \A q \in Repo : repos[q] # None => repos'[q] # None
      <4>1. CASE UNCHANGED repos
        BY <4>1
      <4>2. ASSUME SaveRepo(t), NEW r \in left[t], repos' = Installed(t, r)
            PROVE  \A q \in Repo : repos[q] # None => repos'[q] # None
        <5>1. r \in Repo /\ \A on \in BOOLEAN : [inst |-> event[t].inst, active |-> on] \in Row
          BY <4>2, AboutAnInstallation DEF SaveRepo, TypeOK
        <5>. QED BY <4>2, <5>1, UpsertKeepsRows DEF Installed, TypeOK
      <4>3. ASSUME NEW gone \in SUBSET {r \in Repo : repos[r] # None},
                   repos' = [r \in Repo |-> IF r \in gone THEN [repos[r] EXCEPT !.active = FALSE]
                                            ELSE repos[r]]
            PROVE  \A q \in Repo : repos[q] # None => repos'[q] # None
        <5>1. \A r \in Repo : repos[r] # None => [repos[r] EXCEPT !.active = FALSE] \in Row
          BY DEF TypeOK, Table, Row
        <5>. QED BY <4>3, <5>1, IntakeAssumption
      <4>. QED BY <1>1, <4>1, <4>2, <4>3 DEF SaveRepo, Deactivate, HandOn, Saves
    <3>. QED BY <2>2, <3>1, AboutARepo
  <2>. QED BY <2>1, <2>2, <2>3, BystandersStay
<1>2. ASSUME UNCHANGED <<repos, wasActive, pc, event, excused, queued>> PROVE OptIn'
  BY <1>2, BystandersStay
<1>3. ASSUME NEW p \in Replica, Crash(p) PROVE OptIn'
  <2>1. \A u \in Task : pc'[u] \in Reviewing => pc'[u] = pc[u] /\ event'[u] = event[u]
    BY <1>3 DEF Crash, Reviewing
  <2>2. UNCHANGED <<repos, wasActive>> /\ UNCHANGED queued /\ UNCHANGED excused
    BY <1>3 DEF Crash
  <2>3. \A u \in Task : pc'[u] \in Reviewing =>
            /\ pc'[u] = pc[u] /\ event'[u] = event[u] /\ (excused[u] => excused'[u])
            /\ repos'[event[u].repo] = None => repos[event[u].repo] = None \/ excused'[u]
    BY <2>1, <2>2
  <2>. QED BY <2>2, <2>3, BystandersStay
<1>4. ASSUME Switch PROVE OptIn'
  <2>1. PICK r \in Repo, on \in BOOLEAN :
            repos[r] # None /\ repos' = [repos EXCEPT ![r].active = on]
    BY <1>4 DEF Switch, Saves
  <2>2. [repos[r] EXCEPT !.active = on] \in Row
    BY <2>1 DEF TypeOK, Table, Row
  <2>3. \A q \in Repo : repos[q] # None => repos'[q] # None
    BY <2>1, <2>2, IntakeAssumption DEF TypeOK, Table
  <2>. QED BY <1>4, <2>3, AboutARepo, BystandersStay DEF Switch, Saves, past
<1>5. ASSUME SyncRepo PROVE OptIn'
  <2>0. PICK i \in DOMAIN Listing : \E r \in Listing[i] : Saves(Upsert(r, i, FALSE))
    BY <1>5 DEF SyncRepo
  <2>1. PICK r \in Listing[i] : Saves(Upsert(r, i, FALSE))
    BY <2>0
  <2>2. r \in Repo /\ \A on \in BOOLEAN : [inst |-> i, active |-> on] \in Row
    BY IntakeAssumption DEF Row
  <2>3. \A q \in Repo : repos[q] # None => repos'[q] # None
    BY <2>1, <2>2, UpsertKeepsRows DEF Saves, TypeOK
  <2>4. Saves(repos')
    BY <2>1 DEF Saves
  <2>. QED BY <1>5, <2>3, <2>4, AboutARepo, BystandersStay DEF SyncRepo, past
<1>6. ASSUME DeleteRepo PROVE OptIn'
  <2>1. PICK r \in Repo :
            /\ Saves([repos EXCEPT ![r] = None])
            /\ excused' = [t \in Task |-> excused[t] \/ (event[t] # None
                              /\ event[t].kind = "pull_request" /\ event[t].repo = r)]
    BY <1>6 DEF DeleteRepo
  <2>2. Saves(repos') /\ repos' = [repos EXCEPT ![r] = None]
    BY <2>1 DEF Saves
  <2>3. ASSUME NEW u \in Task, pc'[u] \in Reviewing
        PROVE  /\ pc'[u] = pc[u] /\ event'[u] = event[u] /\ (excused[u] => excused'[u])
               /\ repos'[event[u].repo] = None =>
                      repos[event[u].repo] = None \/ excused'[u]
    <3>1. UNCHANGED <<pc, event>>
      BY <1>6 DEF DeleteRepo
    <3>2. event[u].repo \in Repo /\ event[u].kind = "pull_request" /\ event[u] # None
      BY <2>3, <3>1, AboutARepo
    <3>. QED BY <2>1, <2>2, <3>1, <3>2 DEF TypeOK, Table
  <2>. QED BY <1>6, <2>2, <2>3, BystandersStay DEF DeleteRepo, past
<1>7. ASSUME NEW d \in Delivery, Duplicate(d) PROVE OptIn'
  BY <1>2, <1>7 DEF Duplicate, taskVars, past
<1>8. CASE UNCHANGED vars
  BY <1>2, <1>8 DEF vars, taskVars, past
<1>. QED BY <1>1, <1>3, <1>4, <1>5, <1>6, <1>7, <1>8, RequestOptsIn, TakeOnOptsIn, BranchOptsIn
         DEF Next, Step

\* No interleaving of registration, installation, switching and synchronising lets an event
\* of a repository through that was inactive all the time it was handled, failures and
\* deletions aside (bot/mod.rs, the active check).
THEOREM InactiveIsQuiet == Spec => []InactiveStaysQuiet
<1>1. Init => TypeOK /\ Located /\ OptIn
  BY InitTyped DEF Init, OptIn, SeenActive, MissingExcused, Entitled, InactiveStaysQuiet, IsActive,
                   Reviewing
<1>2. TypeOK /\ Located /\ OptIn /\ [Next]_vars => (TypeOK /\ Located /\ OptIn)'
  BY TypeStays, OptInStays
<1>3. OptIn => InactiveStaysQuiet
  BY DEF OptIn
<1>. QED BY <1>1, <1>2, <1>3, PTL DEF Spec

-----------------------------------------------------------------------------
\* The index of symbols.

\* What an edge goes by is the file's path or one of its symbols.
LEMMA EdgesGoByNames ==
    ASSUME NEW p \in Path, NEW v \in Version, Tree[v][p] # Nothing,
           NEW e \in Edges(p, Tree[v][p])
    PROVE  e[1] = <<p>> \/ \E r \in Symbols(p, Tree[v][p]) : e[1] = r.name
<1> DEFINE tree == Tree[v][p]
           name == Qualified(tree)
           of(kinds) == {i \in 1..Len(tree) : tree[i].kind \in kinds}
<1> HIDE DEF name
<1>1. ASSUME NEW i \in 1..Len(tree), tree[i].kind \in Definitions
      PROVE  \E r \in Symbols(p, tree) : name[i] = r.name
  <2>1. [path |-> p, name |-> name[i], line |-> tree[i].line] \in Symbols(p, tree)
    BY <1>1 DEF Symbols, name
  <2>2. QED  BY <2>1
<1>2. \/ e \in {<< <<p>>, name[i], "DEFINES">> : i \in of(Definitions)}
      \/ e \in {<< <<p>>, name[i], "IMPORTS">> : i \in of({"import"})}
      \/ e \in {<<name[tree[i].in], <<tree[i].name>>, "CALLS">> :
                    i \in {j \in of({"call"}) : tree[j].in # 0}}
      \/ e \in UNION {{<<name[i], <<b>>, "EXTENDS">> : b \in tree[i].bases} : i \in of({"class"})}
  BY DEF Edges, name
<1>3. CASE e \in {<< <<p>>, name[i], "DEFINES">> : i \in of(Definitions)}
  BY <1>3
<1>4. CASE e \in {<< <<p>>, name[i], "IMPORTS">> : i \in of({"import"})}
  BY <1>4
<1>5. CASE e \in {<<name[tree[i].in], <<tree[i].name>>, "CALLS">> :
                     i \in {j \in of({"call"}) : tree[j].in # 0}}
  <2>1. PICK i \in of({"call"}) : tree[i].in # 0 /\ e[1] = name[tree[i].in]
    BY <1>5
  <2>2. tree[i].in \in 1..Len(tree) /\ tree[tree[i].in].kind \in Definitions
    BY <2>1, IndexAssumption DEF Definitions
  <2>3. QED  BY <1>1, <2>1, <2>2
<1>6. CASE e \in UNION {{<<name[i], <<b>>, "EXTENDS">> : b \in tree[i].bases} : i \in of({"class"})}
  <2>1. PICK i \in of({"class"}) : e[1] = name[i]
    BY <1>6
  <2>2. QED  BY <1>1, <2>1 DEF Definitions
<1>7. QED  BY <1>2, <1>3, <1>4, <1>5, <1>6

\* The rows of a file are its own.
LEMMA SymbolsOfPath ==
    ASSUME NEW p, NEW tree
    PROVE  \A r \in Symbols(p, tree) : r.path = p
BY DEF Symbols

LEMMA NamesOfVersion ==
    ASSUME NEW p \in Path, NEW v \in Version, Tree[v][p] # Nothing
    PROVE  /\ <<p>> \in Names(p)
           /\ \A r \in Symbols(p, Tree[v][p]) : r.name \in Names(p)
           /\ \A e \in Edges(p, Tree[v][p]) : e[1] \in Names(p)
<1>1. <<p>> \in Names(p) /\ \A r \in Symbols(p, Tree[v][p]) : r.name \in Names(p)
  BY DEF Names
<1>2. \A e \in Edges(p, Tree[v][p]) : e[1] \in Names(p)
  BY <1>1, EdgesGoByNames
<1>3. QED  BY <1>1, <1>2

\* An indexed file is there in the version it was indexed at.
LEMMA PresentHas ==
    ASSUME IndexTypeOK, NEW p \in Present
    PROVE  /\ p \in Path /\ fetched[p] \in Version
           /\ Indexed(p) # Nothing /\ Tree[fetched[p]][p] # Nothing
BY DEF IndexTypeOK, Present, Indexed

LEMMA RowsOfExact ==
    ASSUME IndexTypeOK, SymbolsExact, NEW p \in Path
    PROVE  /\ p \in Present => RowsOf(p, symbols) = Symbols(p, Indexed(p))
           /\ p \notin Present => RowsOf(p, symbols) = {}
           /\ symbols \ RowsOf(p, symbols) =
                 UNION {Symbols(q, Indexed(q)) : q \in Present \ {p}}
<1> DEFINE of(q) == Symbols(q, Indexed(q))
<1>1. symbols = UNION {of(q) : q \in Present}
  BY DEF SymbolsExact
<1>2. \A q : \A r \in of(q) : r.path = q
  BY SymbolsOfPath
<1> HIDE DEF of
<1>3. /\ p \in Present => RowsOf(p, symbols) = of(p)
      /\ p \notin Present => RowsOf(p, symbols) = {}
      /\ symbols \ RowsOf(p, symbols) = UNION {of(q) : q \in Present \ {p}}
  BY <1>1, <1>2 DEF RowsOf
<1>4. QED  BY <1>3 DEF of

-----------------------------------------------------------------------------
\* The steps that leave the tables and the transactions alone.

LEMMA RestKeeps ==
    ASSUME IndexInv, NEW t \in Indexer,
           UNCHANGED <<symbols, edges, fetched, clash>>,
           NEW label \in {"idle", "fetch", "delete", "embed"}, Proceed(t, label),
           todo' \in [Indexer -> SUBSET (Path \X Version)],
           NEW f \in Trees \cup {Nothing}, file' = [file EXCEPT ![t] = f],
           label \in {"delete", "embed"} => f \in Trees,
           DOMAIN seenSymbols' = Indexer, DOMAIN seenEdges' = Indexer,
           \A u \in Indexer \ {t} : seenSymbols'[u] = seenSymbols[u] /\ seenEdges'[u] = seenEdges[u]
    PROVE  IndexInv'
<1>1. IndexTypeOK'
  BY DEF IndexInv, IndexTypeOK, Proceed, Present, Indexed
<1>2. UnderWay'
  BY DEF IndexInv, IndexTypeOK, UnderWay, Proceed
<1>3. /\ Present' = Present /\ \A p : Indexed(p)' = Indexed(p)
      /\ \A p \in Path, u \in Indexer : Rewrites(u, p)' => u # t /\ Rewrites(u, p)
  BY DEF Present, Indexed, Rewrites, Proceed, IndexInv, IndexTypeOK
<1>4. ASSUME clash' = {}
      PROVE  /\ OneRewrites' /\ SymbolsSeen' /\ EdgesSeen'
             /\ SymbolsExact' /\ EdgesOwned' /\ EdgesThere'
  <2>1. /\ OneRewrites /\ SymbolsSeen /\ EdgesSeen
        /\ SymbolsExact /\ EdgesOwned /\ EdgesThere
    BY <1>4 DEF IndexInv
  <2>2. OneRewrites' /\ SymbolsSeen' /\ EdgesSeen'
    BY <1>3, <2>1 DEF OneRewrites, SymbolsSeen, EdgesSeen
  <2>3. SymbolsExact' /\ EdgesThere'
    BY <1>3, <2>1 DEF SymbolsExact, EdgesThere
  <2>4. EdgesOwned'
    BY <1>3, <2>1 DEF EdgesOwned, Present
  <2>5. QED  BY <2>2, <2>3, <2>4
<1>5. QED  BY <1>1, <1>2, <1>4 DEF IndexInv

LEMMA NextFileKeeps ==
    ASSUME IndexInv, NEW t \in Indexer, UNCHANGED <<symbols, edges, fetched, clash>>,
           NEW rest \in SUBSET (Path \X Version), NextFile(t, rest)
    PROVE  IndexInv'
<1> DEFINE label == IF rest = {} THEN "idle" ELSE "fetch"
<1>1. Proceed(t, label) /\ label \in {"idle", "fetch"}
  BY DEF NextFile
<1>2. /\ todo' \in [Indexer -> SUBSET (Path \X Version)]
      /\ file' = [file EXCEPT ![t] = Nothing]
      /\ DOMAIN seenSymbols' = Indexer /\ DOMAIN seenEdges' = Indexer
      /\ \A u \in Indexer \ {t} : seenSymbols'[u] = seenSymbols[u] /\ seenEdges'[u] = seenEdges[u]
  BY DEF NextFile, IndexInv, IndexTypeOK
<1> HIDE DEF label
<1>3. QED  BY <1>1, <1>2, RestKeeps

LEMMA StartKeeps ==
    ASSUME IndexInv, NEW t \in Indexer, NEW v \in Version, StartPush(t, v)
    PROVE  IndexInv'
<1>1. /\ Proceed(t, "fetch") /\ UNCHANGED <<symbols, edges, fetched, clash, seenSymbols, seenEdges>>
      /\ file' = [file EXCEPT ![t] = file[t]]
      /\ file[t] \in Trees \cup {Nothing}
      /\ DOMAIN seenSymbols' = Indexer /\ DOMAIN seenEdges' = Indexer
  BY DEF StartPush, tables, IndexInv, IndexTypeOK
<1>2. todo' \in [Indexer -> SUBSET (Path \X Version)]
  <2>1. {<<p, v>> : p \in Touched[v]} \in SUBSET (Path \X Version)
    BY IndexAssumption
  <2>2. QED  BY <2>1 DEF StartPush, IndexInv, IndexTypeOK
<1>3. QED  BY <1>1, <1>2, RestKeeps

LEMMA FetchKeeps ==
    ASSUME IndexInv, NEW t \in Indexer, Fetch(t)
    PROVE  IndexInv'
<1>1. PICK f \in todo[t] :
         IF Tree[f[2]][f[1]] # Nothing
         THEN /\ file' = [file EXCEPT ![t] = f]
              /\ Proceed(t, "delete")
              /\ UNCHANGED <<todo, seenSymbols, seenEdges>>
         ELSE NextFile(t, todo[t] \ {f})
  BY DEF Fetch
<1>2. /\ UNCHANGED <<symbols, edges, fetched, clash>>
      /\ f \in Path \X Version /\ todo[t] \ {f} \in SUBSET (Path \X Version)
  BY DEF Fetch, tables, IndexInv, IndexTypeOK
<1>3. CASE Tree[f[2]][f[1]] # Nothing
  <2>1. f \in Trees
    BY <1>2, <1>3 DEF Trees
  <2>2. /\ todo' \in [Indexer -> SUBSET (Path \X Version)]
        /\ DOMAIN seenSymbols' = Indexer /\ DOMAIN seenEdges' = Indexer
        /\ UNCHANGED <<seenSymbols, seenEdges>>
    BY <1>1, <1>3 DEF IndexInv, IndexTypeOK
  <2>3. QED  BY <1>1, <1>2, <1>3, <2>1, <2>2, RestKeeps
<1>4. CASE Tree[f[2]][f[1]] = Nothing
  BY <1>1, <1>2, <1>4, NextFileKeeps
<1>5. QED  BY <1>3, <1>4

LEMMA EmbedKeeps ==
    ASSUME IndexInv, NEW t \in Indexer, Embed(t) \/ IndexFails(t) \/ IndexerDies(t)
    PROVE  IndexInv'
<1>1. UNCHANGED <<symbols, edges, fetched, clash>>
  BY DEF Embed, IndexFails, IndexerDies, tables
<1>2. PICK rest \in SUBSET (Path \X Version) : NextFile(t, rest)
  <2>1. todo[t] \in SUBSET (Path \X Version)
    BY DEF IndexInv, IndexTypeOK
  <2>2. \/ NextFile(t, todo[t] \ {file[t]}) \/ NextFile(t, {})
        \/ \E f \in todo[t] : NextFile(t, todo[t] \ {f})
    BY DEF Embed, IndexFails, IndexerDies
  <2>3. QED  BY <2>1, <2>2
<1>3. QED  BY <1>1, <1>2, NextFileKeeps

-----------------------------------------------------------------------------
\* The transaction that rewrites a file.

\* Who rewrites a file when the DELETEs of a task are done: it, and nobody else if no
\* transactions overlap.
LEMMA DeleteKeeps ==
    ASSUME IndexInv, NEW t \in Indexer, Delete(t)
    PROVE  IndexInv'
<1> DEFINE p == file[t][1]
<1>1. /\ at[t] = "delete" /\ at' = [at EXCEPT ![t] = "insert"]
      /\ UNCHANGED <<symbols, edges, todo, file, fetched>>
      /\ seenSymbols' = [seenSymbols EXCEPT ![t] = RowsOf(p, symbols)]
      /\ seenEdges' = [seenEdges EXCEPT ![t] = EdgesFrom(p)]
      /\ clash' = clash \cup {q \in {p} : \E u \in Indexer \ {t} :
                                 at[u] = "insert" /\ file[u][1] = q}
  BY DEF Delete, Proceed, tables
<1>2. file[t] \in Trees /\ p \in Path
  BY <1>1 DEF IndexInv, UnderWay, Trees
<1>3. IndexTypeOK' /\ UnderWay'
  <2>1. IndexTypeOK'
    BY <1>1 DEF IndexInv, IndexTypeOK, Present, Indexed
  <2>2. UnderWay'
    BY <1>1, <1>2 DEF IndexInv, IndexTypeOK, UnderWay
  <2>3. QED  BY <2>1, <2>2
<1> HIDE DEF p
<1>4. ASSUME clash' = {}
      PROVE  /\ OneRewrites' /\ SymbolsSeen' /\ EdgesSeen'
             /\ SymbolsExact' /\ EdgesOwned' /\ EdgesThere'
  <2>1. /\ IndexTypeOK /\ OneRewrites /\ SymbolsSeen /\ EdgesSeen
        /\ SymbolsExact /\ EdgesOwned /\ EdgesThere
    BY <1>1, <1>4 DEF IndexInv
  <2>2. \A u \in Indexer \ {t} : ~Rewrites(u, p)
    BY <1>1, <1>4 DEF Rewrites
  <2>3. \A u \in Indexer, q \in Path :
           Rewrites(u, q)' <=> (u = t /\ q = p) \/ (u # t /\ Rewrites(u, q))
    BY <1>1, <2>1 DEF Rewrites, IndexTypeOK, p
  <2>4. /\ seenSymbols'[t] = RowsOf(p, symbols) /\ seenEdges'[t] = EdgesFrom(p)
        /\ \A u \in Indexer \ {t} : seenSymbols'[u] = seenSymbols[u] /\ seenEdges'[u] = seenEdges[u]
    BY <1>1, <2>1 DEF IndexTypeOK
  <2>5. Present' = Present /\ \A q : Indexed(q)' = Indexed(q)
    BY <1>1 DEF Present, Indexed
  <2>6. OneRewrites'
    BY <2>1, <2>2, <2>3 DEF OneRewrites
  <2>7. SymbolsSeen'
    BY <1>1, <2>1, <2>3, <2>4 DEF SymbolsSeen, RowsOf
  <2>8. \A e \in EdgesFrom(p) : e[1] \in Names(p)
    <3>1. \A r \in RowsOf(p, symbols) : r.name \in Names(p)
      <4>1. CASE p \in Present
        BY <1>2, <2>1, <4>1, RowsOfExact, PresentHas, NamesOfVersion DEF Indexed
      <4>2. CASE p \notin Present
        BY <1>2, <2>1, <4>2, RowsOfExact
      <4>3. QED  BY <4>1, <4>2
    <3>2. <<p>> \in Names(p)
      BY DEF Names
    <3>3. QED  BY <3>1, <3>2 DEF EdgesFrom
  <2>9. EdgesSeen'
    BY <2>1, <2>3, <2>4, <2>8 DEF EdgesSeen, Names
  <2>10. SymbolsExact' /\ EdgesThere'
    BY <1>1, <2>1, <2>5 DEF SymbolsExact, EdgesThere
  <2>11. EdgesOwned'
    <3>1. SUFFICES ASSUME NEW e \in edges
                   PROVE  \E q \in Present :
                             /\ e \in Edges(q, Indexed(q))
                             /\ \A u \in Indexer : Rewrites(u, q)' => e \in seenEdges'[u]
      BY <1>1, <2>5 DEF EdgesOwned, Present
    <3>2. PICK q \in Present : /\ e \in Edges(q, Indexed(q))
                              /\ \A u \in Indexer : Rewrites(u, q) => e \in seenEdges[u]
      BY <2>1 DEF EdgesOwned
    <3>3. q \in Path /\ fetched[q] \in Version /\ Tree[fetched[q]][q] # Nothing
      BY <2>1, PresentHas
    <3>4. CASE q # p
      BY <2>3, <2>4, <3>2, <3>3, <3>4
    <3>5. CASE q = p
      <4>1. e[1] = <<p>> \/ \E r \in Symbols(p, Indexed(p)) : e[1] = r.name
        BY <3>2, <3>3, <3>5, EdgesGoByNames DEF Indexed
      <4>2. e \in EdgesFrom(p)
        BY <1>2, <2>1, <3>5, <4>1, RowsOfExact DEF EdgesFrom
      <4>3. QED  BY <2>2, <2>3, <2>4, <3>2, <3>3, <3>5, <4>2
    <3>6. QED  BY <3>4, <3>5
  <2>12. QED  BY <2>6, <2>7, <2>9, <2>10, <2>11
<1>5. QED  BY <1>3, <1>4 DEF IndexInv

LEMMA CommitKeeps ==
    ASSUME IndexInv, NEW t \in Indexer, Commit(t)
    PROVE  IndexInv'
<1>1. at[t] = "insert" /\ file[t] \in Trees
  BY DEF Commit, IndexInv, UnderWay
<1>2. PICK f \in Trees : file[t] = f
  BY <1>1
<1> DEFINE p == f[1]
           v == f[2]
           tree == Tree[v][p]
<1>3. /\ UNCHANGED clash
      /\ symbols' = (symbols \ seenSymbols[t]) \cup Symbols(p, tree)
      /\ edges' = (edges \ seenEdges[t]) \cup Edges(p, tree)
      /\ fetched' = [fetched EXCEPT ![p] = v]
  BY <1>2 DEF Commit
<1>4. p \in Path /\ v \in Version /\ tree # Nothing
  BY DEF Trees
<1>5. /\ at' \in [Indexer -> {"idle", "fetch", "delete", "insert", "embed"}]
      /\ at'[t] \in {"idle", "fetch", "embed"} /\ \A u \in Indexer \ {t} : at'[u] = at[u]
      /\ todo' \in [Indexer -> SUBSET (Path \X Version)]
      /\ file' \in [Indexer -> Trees \cup {Nothing}]
      /\ \A u \in Indexer \ {t} : file'[u] = file[u]
      /\ at'[t] = "embed" => file'[t] \in Trees
      /\ DOMAIN seenSymbols' = Indexer /\ DOMAIN seenEdges' = Indexer
      /\ \A u \in Indexer \ {t} : seenSymbols'[u] = seenSymbols[u] /\ seenEdges'[u] = seenEdges[u]
  <2>1. CASE Semantic
    BY <1>1, <2>1 DEF Commit, Proceed, IndexInv, IndexTypeOK
  <2>2. CASE ~Semantic
    BY <2>2 DEF Commit, NextFile, Proceed, IndexInv, IndexTypeOK
  <2>3. QED  BY <2>1, <2>2
<1> HIDE DEF p, v, tree
<1>6. /\ Present' = Present \cup {p} /\ Indexed(p)' = tree
      /\ \A q \in Path \ {p} : Indexed(q)' = Indexed(q)
  <2>1. \A q \in Path : fetched'[q] = IF q = p THEN v ELSE fetched[q]
    BY <1>3, <1>4 DEF IndexInv, IndexTypeOK
  <2>2. QED  BY <1>4, <2>1, IndexAssumption DEF Present, Indexed, tree
<1>7. IndexTypeOK' /\ UnderWay'
  <2>1. fetched' \in [Path -> Version \cup {Nothing}]
    BY <1>3, <1>4 DEF IndexInv, IndexTypeOK
  <2>2. \A q \in Present' : Indexed(q)' # Nothing
    BY <1>4, <1>6 DEF IndexInv, IndexTypeOK, Present
  <2>3. IndexTypeOK'
    BY <1>5, <2>1, <2>2 DEF IndexTypeOK
  <2>4. UnderWay'
    BY <1>5 DEF IndexInv, UnderWay
  <2>5. QED  BY <2>3, <2>4
<1>8. \A u \in Indexer, q \in Path : Rewrites(u, q)' => u # t /\ Rewrites(u, q)
  BY <1>5 DEF Rewrites
<1>9. Rewrites(t, p)
  BY <1>1, <1>2 DEF Rewrites, p
<1>10. ASSUME clash' = {}
      PROVE  /\ OneRewrites' /\ SymbolsSeen' /\ EdgesSeen'
             /\ SymbolsExact' /\ EdgesOwned' /\ EdgesThere'
  <2>1. /\ IndexTypeOK /\ OneRewrites /\ SymbolsSeen /\ EdgesSeen
        /\ SymbolsExact /\ EdgesOwned /\ EdgesThere
    BY <1>3, <1>10 DEF IndexInv
  <2>2. \A u \in Indexer : ~Rewrites(u, p)'
    BY <1>4, <1>8, <1>9, <2>1 DEF OneRewrites
  <2>3. seenSymbols[t] = RowsOf(p, symbols)
    BY <1>4, <1>9, <2>1 DEF SymbolsSeen
  <2>4. OneRewrites'
    BY <1>8, <2>1 DEF OneRewrites
  <2>5. SymbolsSeen'
    <3>1. ASSUME NEW q \in Path, q # p  PROVE RowsOf(q, symbols)' = RowsOf(q, symbols)
      <4>1. \A r \in RowsOf(p, symbols) : r.path = p
        BY DEF RowsOf
      <4>2. \A r \in Symbols(p, tree) : r.path = p
        BY SymbolsOfPath
      <4>3. QED  BY <1>3, <2>3, <3>1, <4>1, <4>2 DEF RowsOf
    <3>2. QED  BY <1>5, <1>8, <2>1, <2>2, <3>1 DEF SymbolsSeen
  <2>6. EdgesSeen'
    BY <1>5, <1>8, <2>1 DEF EdgesSeen, Names
  <2>7. SymbolsExact'
    <3>1. symbols' = (UNION {Symbols(q, Indexed(q)) : q \in Present \ {p}}) \cup Symbols(p, tree)
      <4>1. symbols \ RowsOf(p, symbols) = UNION {Symbols(q, Indexed(q)) : q \in Present \ {p}}
        BY <1>4, <2>1, RowsOfExact
      <4>2. QED  BY <1>3, <2>3, <4>1
    <3>2. {Symbols(q, Indexed(q)) : q \in Present \ {p}} =
             {Symbols(q, Indexed(q)') : q \in Present \ {p}}
      BY <1>6 DEF Present
    <3>3. \A r : r \in symbols' <=> \E q \in Present' : r \in Symbols(q, Indexed(q)')
      <4>1. ASSUME NEW r
            PROVE  r \in symbols' <=> \/ \E q \in Present \ {p} : r \in Symbols(q, Indexed(q)')
                                      \/ r \in Symbols(p, tree)
        BY <3>1, <3>2
      <4>2. QED  BY <1>6, <4>1
    <3>4. QED  BY <3>3 DEF SymbolsExact
  <2>8. EdgesOwned'
    <3>1. SUFFICES ASSUME NEW e \in edges'
                   PROVE  \E q \in Present' :
                             /\ e \in Edges(q, Indexed(q)')
                             /\ \A u \in Indexer : Rewrites(u, q)' => e \in seenEdges'[u]
      BY DEF EdgesOwned
    <3>2. CASE e \in Edges(p, tree)
      BY <1>6, <2>2, <3>2
    <3>3. CASE e \notin Edges(p, tree)
      <4>1. e \in edges /\ e \notin seenEdges[t]
        BY <1>3, <3>3
      <4>2. PICK q \in Present : /\ e \in Edges(q, Indexed(q))
                                /\ \A u \in Indexer : Rewrites(u, q) => e \in seenEdges[u]
        BY <2>1, <4>1 DEF EdgesOwned
      <4>3. q # p /\ q \in Path /\ q \in Present'
        BY <1>6, <1>9, <4>1, <4>2 DEF Present
      <4>4. QED  BY <1>5, <1>6, <1>8, <4>2, <4>3
    <3>4. QED  BY <3>2, <3>3
  <2>9. EdgesThere'
    <3>1. SUFFICES ASSUME NEW q \in Present', NEW e \in Edges(q, Indexed(q)'), ~Shared(e[1])
                   PROVE  e \in edges'
      BY DEF EdgesThere, Shared, Names
    <3>2. CASE q = p
      BY <1>3, <1>6, <3>1, <3>2
    <3>3. CASE q # p
      <4>1. q \in Present /\ q \in Path /\ Indexed(q)' = Indexed(q)
        BY <1>6, <3>3 DEF Present
      <4>2. e \in edges
        BY <2>1, <3>1, <4>1 DEF EdgesThere
      <4>3. e[1] \in Names(q)
        BY <2>1, <3>1, <4>1, PresentHas, NamesOfVersion DEF Indexed
      <4>4. e[1] \notin Names(p)
        BY <1>4, <3>1, <3>3, <4>1, <4>3 DEF Shared
      <4>5. e \notin seenEdges[t]
        BY <1>4, <1>9, <2>1, <4>4 DEF EdgesSeen
      <4>6. QED  BY <1>3, <4>2, <4>5
    <3>4. QED  BY <3>2, <3>3
  <2>10. QED  BY <2>4, <2>5, <2>6, <2>7, <2>8, <2>9
<1>11. QED  BY <1>7, <1>10 DEF IndexInv

\* index/store.rs 30-56, index/mod.rs: for any files, versions and pushes, any statements that
\* fail and tasks that die, the index says of every file what its last version says.
THEOREM IndexStaysExact == IndexSpec => []IndexExact
<1>1. IndexInit => IndexInv
  <2> SUFFICES ASSUME IndexInit PROVE IndexInv
    OBVIOUS
  <2>1. Present = {} /\ \A t \in Indexer, p \in Path : ~Rewrites(t, p)
    BY DEF IndexInit, Present, Rewrites
  <2>2. IndexTypeOK /\ UnderWay
    BY <2>1 DEF IndexInit, IndexTypeOK, UnderWay
  <2>3. /\ OneRewrites /\ SymbolsSeen /\ EdgesSeen
        /\ SymbolsExact /\ EdgesOwned /\ EdgesThere
    BY <2>1 DEF IndexInit, OneRewrites, SymbolsSeen, EdgesSeen, SymbolsExact, EdgesOwned, EdgesThere
  <2>4. QED  BY <2>2, <2>3 DEF IndexInv
<1>2. IndexInv /\ [IndexNext]_indexVars => IndexInv'
  <2> SUFFICES ASSUME IndexInv, [IndexNext]_indexVars PROVE IndexInv'
    OBVIOUS
  <2>1. ASSUME NEW t \in Indexer, NEW v \in Version, StartPush(t, v)  PROVE IndexInv'
    BY <2>1, StartKeeps
  <2>2. ASSUME NEW t \in Indexer, IndexStep(t) \/ IndexFails(t) \/ IndexerDies(t)  PROVE IndexInv'
    BY <2>2, FetchKeeps, DeleteKeeps, CommitKeeps, EmbedKeeps DEF IndexStep
  <2>3. CASE UNCHANGED indexVars
    BY <2>3 DEF indexVars, IndexInv, IndexTypeOK, UnderWay, OneRewrites, SymbolsSeen, EdgesSeen,
       SymbolsExact, EdgesOwned, EdgesThere, Present, Indexed, Rewrites, RowsOf, Names, Shared
  <2>4. QED  BY <2>1, <2>2, <2>3 DEF IndexNext
<1>3. IndexInv => IndexExact
  BY DEF IndexInv, IndexExact, EdgesOwned
<1>4. QED  BY <1>1, <1>2, <1>3, PTL DEF IndexSpec
=============================================================================
