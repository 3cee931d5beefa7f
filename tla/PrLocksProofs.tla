--------------------------- MODULE PrLocksProofs ---------------------------
(***************************************************************************)
(* Proofs about PrLocks for any number of tasks, pull requests and lock    *)
(* objects: the invariant IInv is inductive, it gives mutual exclusion per *)
(* pull request, and every step of PrLocks is a step of Mutex or leaves    *)
(* alone who is inside for which pull request.                             *)
(*                                                                         *)
(* And about RateLimit, what else a process keeps by key: for any limit    *)
(* and window, in no span of that length does twice the limit get through. *)
(*                                                                         *)
(* And about Migrations, what a process does before it serves: for any     *)
(* number of replicas, no migration below the recorded version is missing. *)
(***************************************************************************)
EXTENDS PrLocks, RateLimit, Migrations, WellFoundedInduction, TLAPS

USE NoneAssumption DEF Step

\* The invariant holds when no task is in any function.
LEMMA InitIInv == Init => IInv
BY DEF Init, IInv, TypeOK, ArcIsCurrent, EntriesDistinct, GuardHeld, Referring

\* Looking a lock up gives the map's object to the caller, fresh if p had none.
LEMMA PrLockIInv ==
    ASSUME IInv, NEW t \in Task, NEW p \in Pr, PrLock(t, p)
    PROVE  IInv'
<1> USE DEF IInv, TypeOK, ArcIsCurrent, EntriesDistinct, GuardHeld, Referring
<1>1. PICK l \in LockId :
          /\ IF entry[p] = NoLock THEN ~Referenced(l) ELSE l = entry[p]
          /\ entry' = [entry EXCEPT ![p] = l]
          /\ arc' = [arc EXCEPT ![t] = l]
    BY DEF PrLock
<1>2. /\ pc[t] = "outside"
      /\ on' = [on EXCEPT ![t] = p]
      /\ pc' = [pc EXCEPT ![t] = "waiting"]
      /\ guard' = guard
    BY DEF PrLock
<1>3. TypeOK'
    BY <1>1, <1>2
<1>4. ArcIsCurrent'
    \* A task already referring to p has the old entry, so the entry was not empty.
    BY <1>1, <1>2
<1>5. EntriesDistinct'
    BY <1>1, <1>2 DEF Referenced
<1>6. GuardHeld'
    BY <1>1, <1>2
<1> QED BY <1>3, <1>4, <1>5, <1>6

\* Taking a free mutex: the object locked is the map's object for that pull request.
LEMMA AcquireIInv ==
    ASSUME IInv, NEW t \in Task, Acquire(t)
    PROVE  IInv'
<1> USE DEF Acquire, IInv, TypeOK, Referring
<1>1. arc[t] \in LockId /\ on[t] \in Pr
    OBVIOUS
<1>2. TypeOK'
    BY <1>1
<1>3. ArcIsCurrent' /\ EntriesDistinct'
    BY <1>1 DEF ArcIsCurrent, EntriesDistinct
<1>4. GuardHeld'
    BY <1>1 DEF GuardHeld
<1> QED BY <1>2, <1>3, <1>4

\* Dropping the guard frees the mutex it guards and no other.
LEMMA DropGuardIInv ==
    ASSUME IInv, NEW t \in Task, DropGuard(t)
    PROVE  IInv'
<1> USE DEF DropGuard, IInv, TypeOK, Referring
<1>1. arc[t] \in LockId /\ on[t] \in Pr
    OBVIOUS
<1>2. TypeOK'
    BY <1>1
<1>3. ArcIsCurrent' /\ EntriesDistinct'
    BY <1>1 DEF ArcIsCurrent, EntriesDistinct
<1>4. GuardHeld'
    BY <1>1 DEF GuardHeld
<1> QED BY <1>2, <1>3, <1>4

\* The caller still refers to the entry it prunes, so the test never succeeds.
LEMMA PruneKeepsEntry ==
    ASSUME IInv, NEW t \in Task, Prune(t)
    PROVE  entry' = entry
BY DEF Prune, OnlyTheMapRefers, IInv, TypeOK, ArcIsCurrent, Referring

\* So a prune leaves the map alone.
LEMMA PruneIInv ==
    ASSUME IInv, NEW t \in Task, Prune(t)
    PROVE  IInv'
<1>1. entry' = entry
    BY PruneKeepsEntry
<1>2. TypeOK'
    BY <1>1 DEF Prune, IInv, TypeOK
<1>3. ArcIsCurrent' /\ EntriesDistinct'
    BY <1>1 DEF Prune, IInv, TypeOK, ArcIsCurrent, EntriesDistinct, Referring
<1>4. GuardHeld'
    BY <1>1 DEF Prune, IInv, TypeOK, GuardHeld
<1> QED BY <1>2, <1>3, <1>4 DEF IInv

\* The reference goes with the task; nothing else refers through it.
LEMMA ReturnIInv ==
    ASSUME IInv, NEW t \in Task, Return(t)
    PROVE  IInv'
BY DEF Return, IInv, TypeOK, ArcIsCurrent, EntriesDistinct, GuardHeld, Referring

\* A panic drops guard and reference together.
LEMMA UnwindIInv ==
    ASSUME IInv, NEW t \in Task, Unwind(t)
    PROVE  IInv'
<1> USE DEF Unwind, IInv, TypeOK, Referring
<1>1. arc[t] \in LockId /\ on[t] \in Pr
    OBVIOUS
<1>2. TypeOK'
    BY <1>1
<1>3. ArcIsCurrent' /\ EntriesDistinct'
    BY <1>1 DEF ArcIsCurrent, EntriesDistinct
<1>4. GuardHeld'
    BY <1>1 DEF GuardHeld
<1> QED BY <1>2, <1>3, <1>4

\* Every step, and every stutter, keeps the invariant.
LEMMA NextIInv == IInv /\ [Next]_vars => IInv'
<1> SUFFICES ASSUME IInv, [Next]_vars PROVE IInv'
    OBVIOUS
<1>1. CASE UNCHANGED vars
    BY <1>1 DEF vars, IInv, TypeOK, ArcIsCurrent, EntriesDistinct, GuardHeld, Referring
<1>2. CASE Next
    <2> PICK t \in Task :
            \/ \E p \in Pr : PrLock(t, p)
            \/ Acquire(t) \/ DropGuard(t) \/ Prune(t) \/ Return(t) \/ Unwind(t)
        BY <1>2 DEF Next
    <2> QED BY PrLockIInv, AcquireIInv, DropGuardIInv, PruneIInv, ReturnIInv, UnwindIInv
<1> QED BY <1>1, <1>2

\* The inductive invariant holds in every reachable state.
THEOREM Invariance == Spec => []IInv
BY InitIInv, NextIInv, PTL DEF Spec

\* The shape of the state: where a task is determines what it refers to.
THEOREM TypeCorrect == Spec => []TypeOK
<1>1. IInv => TypeOK
    BY DEF IInv
<1> QED BY <1>1, Invariance, PTL

\* The per-PR locks do what their comment says ("prevent concurrent duplicate
\* reviews"), whatever tasks come, go, prune and panic: one task per pull request.
THEOREM MutualExclusion == Spec => []OneTaskPerPr
<1>1. ASSUME IInv, NEW s \in Task, NEW t \in Task,
             pc[s] = "inside", pc[t] = "inside", on[s] = on[t]
      PROVE  s = t
    <2>1. arc[s] = arc[t]
        BY <1>1 DEF IInv, ArcIsCurrent, Referring
    <2>2. arc[t] \in LockId
        BY <1>1 DEF IInv, TypeOK
    <2>3. guard[arc[t]] = s /\ guard[arc[t]] = t
        BY <1>1, <2>1, <2>2 DEF IInv, GuardHeld
    <2> QED BY <2>3
<1>2. IInv => OneTaskPerPr
    BY <1>1 DEF OneTaskPerPr
<1> QED BY <1>2, Invariance, PTL

\* What prune_pr_lock comes to: an entry once made is there for good, since every
\* caller of it still holds a reference of its own.
THEOREM EntriesStay ==
    Spec => [][\A p \in Pr : entry[p] # NoLock => entry'[p] = entry[p]]_vars
<1>1. ASSUME IInv, [Next]_vars
      PROVE  [\A p \in Pr : entry[p] # NoLock => entry'[p] = entry[p]]_vars
    <2>1. ASSUME NEW t \in Task, NEW q \in Pr, PrLock(t, q), NEW p \in Pr, entry[p] # NoLock
          PROVE  entry'[p] = entry[p]
        BY <1>1, <2>1 DEF PrLock, IInv, TypeOK
    <2>2. ASSUME NEW t \in Task, Acquire(t) \/ DropGuard(t) \/ Prune(t) \/ Return(t) \/ Unwind(t)
          PROVE  entry' = entry
        BY <1>1, <2>2, PruneKeepsEntry DEF Acquire, DropGuard, Return, Unwind
    <2> QED BY <1>1, <2>1, <2>2 DEF Next
<1> QED BY <1>1, Invariance, PTL DEF Spec

-----------------------------------------------------------------------------
\* Refinement: the value substituted for Mutex's variable.
insides == [p \in Pr |-> Reviewing(p)]

\* Getting inside is Mutex's Enter: nobody else was inside for that pull request,
\* since its object has one guard, and the task was inside for none.
LEMMA AcquireEnters ==
    ASSUME IInv, NEW t \in Task, Acquire(t)
    PROVE  M!Enter(t, on[t])
<1>1. on[t] \in Pr /\ pc[t] = "waiting" /\ on' = on /\ pc' = [pc EXCEPT ![t] = "inside"]
    BY DEF Acquire, IInv, TypeOK
<1>2. \A q \in Pr : t \notin insides[q]
    BY <1>1 DEF insides, Reviewing
<1>3. insides[on[t]] = {}
    <2>1. SUFFICES ASSUME NEW s \in Task, pc[s] = "inside", on[s] = on[t] PROVE FALSE
        BY <1>1 DEF insides, Reviewing
    <2>2. arc[s] = arc[t] /\ arc[t] \in LockId
        BY <1>1, <2>1 DEF IInv, TypeOK, ArcIsCurrent, Referring
    <2>3. guard[arc[t]] = s
        BY <2>1, <2>2 DEF IInv, GuardHeld
    <2> QED BY <2>3 DEF Acquire
<1>4. ASSUME NEW q \in Pr PROVE insides'[q] = IF q = on[t] THEN {t} ELSE insides[q]
    <2>1. \A s \in Task : pc'[s] = IF s = t THEN "inside" ELSE pc[s]
        BY <1>1 DEF IInv, TypeOK
    <2>2. Reviewing(q)' = IF q = on[t] THEN Reviewing(q) \cup {t} ELSE Reviewing(q)
        BY <1>1, <2>1 DEF Reviewing
    <2> QED BY <1>1, <1>3, <2>2 DEF insides
<1>5. insides' = [insides EXCEPT ![on[t]] = {t}]
    BY <1>1, <1>4 DEF insides
<1> QED BY <1>2, <1>3, <1>5 DEF M!Enter, insides

\* Leaving, by dropping the guard or by unwinding, is Mutex's Exit: the task was
\* the only one inside.
LEMMA LeavingExits ==
    ASSUME IInv, NEW t \in Task, DropGuard(t) \/ Unwind(t)
    PROVE  M!Exit(t, on[t])
<1>1. on[t] \in Pr /\ pc[t] = "inside" /\ pc'[t] # "inside"
    BY DEF DropGuard, Unwind, IInv, TypeOK
<1>2. \A s \in Task \ {t} : pc'[s] = pc[s] /\ on'[s] = on[s]
    BY DEF DropGuard, Unwind, IInv, TypeOK
<1>3. \A s \in Task : pc[s] = "inside" /\ on[s] = on[t] => s = t
    <2>1. SUFFICES ASSUME NEW s \in Task, pc[s] = "inside", on[s] = on[t] PROVE s = t
        OBVIOUS
    <2>2. arc[s] = arc[t] /\ arc[t] \in LockId
        BY <1>1, <2>1 DEF IInv, TypeOK, ArcIsCurrent, Referring
    <2> QED BY <1>1, <2>1, <2>2 DEF IInv, GuardHeld
<1>4. ASSUME NEW q \in Pr PROVE insides'[q] = IF q = on[t] THEN {} ELSE insides[q]
    <2>1. Reviewing(q)' = IF q = on[t] THEN {} ELSE Reviewing(q)
        BY <1>1, <1>2, <1>3 DEF Reviewing
    <2> QED BY <2>1 DEF insides
<1>5. insides' = [insides EXCEPT ![on[t]] = {}]
    BY <1>1, <1>4 DEF insides
<1>6. t \in insides[on[t]]
    BY <1>1 DEF insides, Reviewing
<1> QED BY <1>5, <1>6 DEF M!Exit, insides

\* The steps outside the lock change nothing of who is inside.
LEMMA OutsideStutters ==
    ASSUME IInv, NEW t \in Task,
           (\E p \in Pr : PrLock(t, p)) \/ Prune(t) \/ Return(t)
    PROVE  insides' = insides
<1>1. /\ \A s \in Task \ {t} : pc'[s] = pc[s] /\ on'[s] = on[s]
      /\ pc[t] # "inside" /\ pc'[t] # "inside"
    BY DEF PrLock, Prune, Return, IInv, TypeOK
<1>2. ASSUME NEW q \in Pr PROVE Reviewing(q)' = Reviewing(q)
    BY <1>1 DEF Reviewing
<1> QED BY <1>2 DEF insides

\* Every step is a step of Mutex, or none.
LEMMA StepSimulation == IInv /\ [Next]_vars => [M!Next]_insides
<1> SUFFICES ASSUME IInv, [Next]_vars PROVE [M!Next]_insides
    OBVIOUS
<1>1. CASE UNCHANGED vars
    BY <1>1 DEF vars, insides, Reviewing
<1>2. ASSUME NEW t \in Task, Acquire(t) \/ DropGuard(t) \/ Unwind(t) PROVE M!Next
    <2>1. on[t] \in Pr
        BY <1>2 DEF Acquire, DropGuard, Unwind, IInv, TypeOK
    <2> QED BY <1>2, <2>1, AcquireEnters, LeavingExits DEF M!Next
<1> QED BY <1>1, <1>2, OutsideStutters DEF Next

\* The reference-counted map of mutexes, with its lookups, prunes and panics,
\* implements one plain mutex per pull request: what ReviewService relies on.
THEOREM Refinement == Spec => ImplementsMutex
<1>1. Init => M!Init
    BY DEF Init, M!Init, Reviewing
<1>2. M!Init /\ [][M!Next]_insides => M!Spec
    BY DEF M!Spec, insides
<1> QED BY <1>1, <1>2, Invariance, StepSimulation, PTL DEF Spec, ImplementsMutex

-----------------------------------------------------------------------------
\* The rate limiters.

\* What LimitInv says of one key.
Bounded(k) ==
    IF Limit = 0 THEN \A n \in Span : allowed[k][n] = 0
    ELSE /\ Cumulative(k)
         /\ IF hits[k].age < Window THEN OpenWindow(k) ELSE OverWindow(k)

LEMMA LimitBegins == LimitInit => LimitInv
<1> SUFFICES ASSUME LimitInit PROVE LimitInv
  OBVIOUS
<1> USE LimitAssumption DEF Span
<1>1. /\ hits = [k \in Key |-> NoWindow] /\ allowed = [k \in Key |-> [n \in Span |-> 0]]
      /\ cookie = [c \in Client |-> None]
  BY DEF LimitInit
<1>2. LimitTypeOK
  BY <1>1 DEF LimitTypeOK, NoWindow
<1>3. ASSUME NEW k \in Key PROVE Bounded(k)
  BY <1>1, <1>3 DEF Bounded, Cumulative, OverWindow, NoWindow
<1>4. QED  BY <1>2, <1>3 DEF LimitInv, Bounded

\* A request, whoever it is counted by: the window it opens or is counted in
\* stays within the limit, and so does what came before.
LEMMA CheckIsBounded ==
    ASSUME LimitInv, NEW k \in Key, Check(k), UNCHANGED cookie
    PROVE  LimitInv'
<1> USE LimitAssumption
<1> DEFINE w == Current(k)
           more == [n \in Span |-> allowed[k][n] + 1]
<1>1. /\ hits \in [Key -> [count : 0..Limit, age : 0..Window]]
      /\ allowed \in [Key -> [Span -> Nat]] /\ Bounded(k)
  BY DEF LimitInv, LimitTypeOK, Bounded
<1>2. /\ w \in [count : 0..Limit, age : 0..Window]
      /\ \/ hits[k].age < Window /\ w = hits[k]
         \/ hits[k].age = Window /\ w.count = 0 /\ w.age = 0
  <2>1. hits[k] \in [count : 0..Limit, age : 0..Window]
    BY <1>1
  <2>2. hits[k].age < Window \/ hits[k].age = Window
    BY <2>1
  <2>3. CASE hits[k].age < Window
    BY <2>1, <2>3 DEF Current
  <2>4. CASE hits[k].age = Window
    <3>1. w = [count |-> 0, age |-> 0]
      BY <2>4 DEF Current
    <3>2. 0 \in 0..Limit /\ 0 \in 0..Window
      OBVIOUS
    <3> HIDE DEF w
    <3>3. QED  BY <2>4, <3>1, <3>2
  <2>5. QED  BY <2>2, <2>3, <2>4
<1>3. \/ w.count >= Limit /\ hits' = [hits EXCEPT ![k] = w] /\ allowed' = allowed
      \/ /\ w.count < Limit /\ hits' = [hits EXCEPT ![k] = [w EXCEPT !.count = @ + 1]]
         /\ allowed' = [allowed EXCEPT ![k] = more]
  BY <1>1, <1>2 DEF Check
<1> HIDE DEF w
<1>4. ASSUME NEW v \in [count : 0..Limit, age : 0..Window], NEW a \in [Span -> Nat],
             hits' = [hits EXCEPT ![k] = v], allowed' = [allowed EXCEPT ![k] = a],
             IF Limit = 0 THEN \A n \in Span : a[n] = 0
             ELSE /\ \A m, n \in Span : m <= n => a[m] <= a[n]
                  /\ v.age < Window
                  /\ a[v.age] = v.count /\ v.count > 0
                  /\ v.age > 0 => a[v.age - 1] < v.count
                  /\ a[Window - 1] < v.count + Limit
      PROVE  LimitInv'
  <2>1. LimitTypeOK' /\ hits'[k] = v /\ allowed'[k] = a
    BY <1>1, <1>4 DEF LimitInv, LimitTypeOK
  <2>2. \A j \in Key \ {k} : hits'[j] = hits[j] /\ allowed'[j] = allowed[j]
    BY <1>1, <1>4
  <2>3. Bounded(k)'
    BY <1>4, <2>1 DEF Bounded, Cumulative, OpenWindow
  <2>4. \A j \in Key \ {k} : Bounded(j)'
    BY <2>2 DEF LimitInv, Bounded, Cumulative, OpenWindow, OverWindow
  <2>5. QED  BY <2>1, <2>3, <2>4 DEF LimitInv, Bounded
<1>5. CASE w.count >= Limit /\ hits' = [hits EXCEPT ![k] = w] /\ allowed' = allowed
  <2>1. allowed' = [allowed EXCEPT ![k] = allowed[k]] /\ allowed[k] \in [Span -> Nat]
    BY <1>1, <1>5
  <2>2. Limit # 0 => w = hits[k] /\ w.age < Window
    BY <1>1, <1>2, <1>5
  <2>3. QED  BY <1>1, <1>2, <1>4, <1>5, <2>1, <2>2 DEF Bounded, Cumulative, OpenWindow
<1>6. CASE /\ w.count < Limit /\ hits' = [hits EXCEPT ![k] = [w EXCEPT !.count = @ + 1]]
           /\ allowed' = [allowed EXCEPT ![k] = more]
  <2> DEFINE v == [count |-> w.count + 1, age |-> w.age]
  <2>1. v \in [count : 0..Limit, age : 0..Window] /\ v = [w EXCEPT !.count = @ + 1]
    BY <1>2, <1>6
  <2>2. more \in [Span -> Nat] /\ \A n \in Span : more[n] = allowed[k][n] + 1
    BY <1>1
  <2>3. v.count = w.count + 1 /\ v.age = w.age
    OBVIOUS
  <2> HIDE DEF v, more
  <2>4. /\ \A m, n \in Span : m <= n => allowed[k][m] <= allowed[k][n]
        /\ allowed[k] \in [Span -> Nat] /\ w.age < Window /\ w.age \in Nat /\ w.count \in Nat
        /\ allowed[k][w.age] = w.count
        /\ w.age > 0 => allowed[k][w.age - 1] < w.count
        /\ allowed[k][Window - 1] < w.count + Limit
    BY <1>1, <1>2, <1>6 DEF Bounded, Cumulative, OpenWindow, OverWindow
  <2>5. /\ \A m, n \in Span : m <= n => more[m] <= more[n]
        /\ more[v.age] = v.count /\ v.count > 0
        /\ v.age > 0 => more[v.age - 1] < v.count
        /\ more[Window - 1] < v.count + Limit /\ v.age < Window
    <3>1. \A n \in Span : allowed[k][n] \in Nat
      BY <2>4
    <3>2. \A m, n \in Span : m <= n => more[m] <= more[n]
      BY <2>2, <2>4, <3>1
    <3>3. v.age \in Span /\ Window - 1 \in Span /\ (v.age > 0 => v.age - 1 \in Span)
      <4>1. v.age \in Nat /\ v.age < Window
        BY <2>3, <2>4
      <4>2. \A n \in Nat : n < Window => n \in Span /\ (n > 0 => n - 1 \in Span)
        BY DEF Span
      <4>3. QED  BY <4>1, <4>2 DEF Span
    <3>4. more[v.age] = v.count /\ v.count > 0 /\ v.age < Window
      BY <2>2, <2>3, <2>4, <3>3
    <3>5. v.age > 0 => more[v.age - 1] < v.count
      BY <2>2, <2>3, <2>4, <3>1, <3>3
    <3>6. more[Window - 1] < v.count + Limit
      BY <2>2, <2>3, <2>4, <3>1, <3>3
    <3>7. QED  BY <3>2, <3>4, <3>5, <3>6
  <2>6. hits' = [hits EXCEPT ![k] = v] /\ Limit # 0
    BY <1>2, <1>6, <2>1
  <2>7. QED  BY <1>4, <1>6, <2>1, <2>2, <2>5, <2>6
<1>7. QED  BY <1>3, <1>5, <1>6

\* A window grows older; as it ends its first tick is out of sight.
LEMMA TickIsBounded ==
    ASSUME LimitInv, Tick
    PROVE  LimitInv'
<1> USE LimitAssumption
<1>1. /\ hits \in [Key -> [count : 0..Limit, age : 0..Window]]
      /\ allowed \in [Key -> [Span -> Nat]] /\ cookie' = cookie
  BY DEF LimitInv, LimitTypeOK, Tick
<1>2. ASSUME NEW k \in Key
      PROVE  /\ hits'[k] \in [count : 0..Limit, age : 0..Window]
             /\ hits[k].age < Window =>
                   hits'[k].age = hits[k].age + 1 /\ hits'[k].count = hits[k].count
             /\ hits[k].age = Window => hits'[k].age = Window
             /\ allowed'[k] \in [Span -> Nat] /\ allowed'[k][0] = 0
             /\ \A n \in Span \ {0} : n - 1 \in Span /\ allowed'[k][n] = allowed[k][n - 1]
  <2>1. allowed'[k] = [n \in Span |-> IF n = 0 THEN 0 ELSE allowed[k][n - 1]]
    BY <1>2 DEF Tick
  <2>2. /\ \A n \in Span \ {0} : n - 1 \in Span /\ n \in Span
        /\ 0 \in Span /\ allowed[k] \in [Span -> Nat]
    BY <1>1, <1>2 DEF Span
  <2>3. /\ allowed'[k] \in [Span -> Nat] /\ allowed'[k][0] = 0
        /\ \A n \in Span \ {0} : n - 1 \in Span /\ allowed'[k][n] = allowed[k][n - 1]
    BY <2>1, <2>2
  <2>4. hits[k] \in [count : 0..Limit, age : 0..Window]
    BY <1>1, <1>2
  <2>5. hits'[k] = IF hits[k].age < Window THEN [hits[k] EXCEPT !.age = @ + 1] ELSE NoWindow
    BY <1>2 DEF Tick
  <2>6. CASE hits[k].age < Window
    BY <2>3, <2>4, <2>5, <2>6
  <2>7. CASE hits[k].age = Window
    BY <2>3, <2>4, <2>5, <2>7 DEF NoWindow
  <2>8. QED  BY <2>4, <2>6, <2>7
<1>3. LimitTypeOK'
  <2>1. /\ hits' = [k \in Key |-> hits'[k]] /\ allowed' = [k \in Key |-> allowed'[k]]
    BY DEF Tick
  <2>2. QED  BY <1>1, <1>2, <2>1 DEF LimitInv, LimitTypeOK
<1>4. ASSUME NEW k \in Key, Limit # 0 PROVE Bounded(k)'
  <2> DEFINE age == hits[k].age
             count == hits[k].count
  <2>1. /\ Cumulative(k) /\ (IF age < Window THEN OpenWindow(k) ELSE OverWindow(k))
        /\ age \in 0..Window /\ count \in 0..Limit
    BY <1>1, <1>4 DEF LimitInv
  <2>2. PICK a \in [Span -> Nat], b \in [Span -> Nat] :
           /\ a = allowed[k] /\ b = allowed'[k] /\ b[0] = 0
           /\ \A n \in Span \ {0} : n - 1 \in Span /\ b[n] = a[n - 1]
    BY <1>1, <1>2, <1>4
  <2>3. /\ \A m, n \in Span : m <= n => a[m] <= a[n]
        /\ \A n \in Span : a[n] \in Nat /\ b[n] \in Nat
        /\ 0 \in Span /\ Window - 1 \in Span
    BY <2>1, <2>2 DEF Cumulative, Span
  <2>4. \A m, n \in Span : m <= n => b[m] <= b[n]
    <3> SUFFICES ASSUME NEW m \in Span, NEW n \in Span, m <= n PROVE b[m] <= b[n]
      OBVIOUS
    <3>1. CASE m = 0
      BY <2>2, <2>3, <3>1
    <3>2. CASE m # 0
      <4>1. n # 0 /\ m - 1 <= n - 1 /\ m \in Span \ {0} /\ n \in Span \ {0}
        BY <3>2 DEF Span
      <4>2. QED  BY <2>2, <2>3, <4>1
    <3>3. QED  BY <3>1, <3>2
  <2>5. b[Window - 1] <= a[Window - 1]
    <3>1. CASE Window = 1
      BY <2>2, <2>3, <3>1
    <3>2. CASE Window # 1
      <4>1. Window - 1 \in Span \ {0} /\ b[Window - 1] = a[Window - 1 - 1]
        BY <2>2, <2>3, <3>2
      <4>2. Window - 1 - 1 \in Span /\ Window - 1 - 1 <= Window - 1
        BY <3>2 DEF Span
      <4>3. QED  BY <2>3, <4>1, <4>2
    <3>3. QED  BY <3>1, <3>2
  <2>6. Cumulative(k)'
    BY <2>2, <2>4 DEF Cumulative
  <2>7. CASE age + 1 < Window
    <3>1. hits'[k].age = age + 1 /\ hits'[k].count = count
      BY <1>2, <1>4, <2>1, <2>7
    <3>2. /\ a[age] = count /\ count > 0 /\ (age > 0 => a[age - 1] < count)
          /\ a[Window - 1] < count + Limit
      BY <2>1, <2>2, <2>7 DEF OpenWindow
    <3> HIDE DEF age, count
    <3>3. age + 1 \in Span \ {0} /\ age \in Span /\ (age # 0 => age \in Span \ {0})
      BY <2>1, <2>7 DEF Span
    <3>4. b[age + 1] = a[age + 1 - 1] /\ age + 1 - 1 = age
      BY <2>1, <2>2, <3>3
    <3>5. b[age] < count
      <4>1. CASE age = 0
        BY <2>2, <3>2, <4>1
      <4>2. CASE age # 0
        BY <2>1, <2>2, <3>2, <3>3, <4>2
      <4>3. QED  BY <4>1, <4>2
    <3>6. b[Window - 1] < count + Limit
      BY <2>1, <2>3, <2>5, <3>2
    <3>7. OpenWindow(k)'
      BY <2>1, <2>2, <3>1, <3>2, <3>4, <3>5, <3>6 DEF OpenWindow
    <3>8. QED  BY <1>4, <2>6, <2>7, <3>1, <3>7 DEF Bounded
  <2>8. CASE age + 1 = Window
    <3>1. hits'[k].age = Window
      BY <1>2, <1>4, <2>1, <2>8
    <3>2. count > 0 /\ (age > 0 => a[age - 1] < count) /\ age = Window - 1
      BY <2>1, <2>2, <2>8 DEF OpenWindow
    <3>3. b[Window - 1] < Limit
      <4>1. CASE age = 0
        BY <1>4, <2>2, <3>2, <4>1
      <4>2. CASE age # 0
        <5>1. age \in Span \ {0} /\ b[age] = a[age - 1]
          BY <2>1, <2>2, <2>3, <3>2, <4>2
        <5>2. age - 1 \in Span /\ a[age - 1] \in Nat
          BY <2>3, <2>2, <5>1
        <5>3. QED  BY <2>1, <3>2, <4>2, <5>1, <5>2
      <4>3. QED  BY <4>1, <4>2
    <3>4. QED  BY <1>4, <2>2, <2>6, <3>1, <3>3 DEF Bounded, OverWindow
  <2>9. CASE age = Window
    <3>1. OverWindow(k)'
      BY <2>1, <2>2, <2>3, <2>5, <2>9 DEF OverWindow
    <3>2. QED  BY <1>2, <1>4, <2>6, <2>9, <3>1 DEF Bounded
  <2>10. QED  BY <2>1, <2>7, <2>8, <2>9
<1>5. ASSUME NEW k \in Key, Limit = 0 PROVE Bounded(k)'
  BY <1>1, <1>2, <1>5 DEF LimitInv, Bounded
<1>6. QED  BY <1>3, <1>4, <1>5 DEF LimitInv, Bounded

LEMMA LimitStep ==
    ASSUME LimitInv, [LimitNext]_limitVars
    PROVE  LimitInv'
<1>1. ASSUME NEW c \in Client, ApiRateLimit(c) \/ CheckWebhook(c) \/ CheckAuthRateLimit(c)
      PROVE  LimitInv'
  <2>1. cookie[c] \in Session \cup {None} /\ \A f \in BOOLEAN : ClientIp(c, f) \in Key
    BY <1>1 DEF LimitInv, LimitTypeOK, ClientIp, Key
  <2>2. PICK k \in Key : Check(k) /\ UNCHANGED cookie
    BY <1>1, <2>1 DEF ApiRateLimit, CheckWebhook, CheckAuthRateLimit, Key
  <2>3. QED  BY <2>2, CheckIsBounded
<1>2. ASSUME NEW c \in Client, SetCookie(c) PROVE LimitInv'
  BY <1>2 DEF SetCookie, LimitInv, LimitTypeOK, Cumulative, OpenWindow, OverWindow
<1>3. CASE UNCHANGED limitVars
  BY <1>3 DEF limitVars, LimitInv, LimitTypeOK, Cumulative, OpenWindow, OverWindow
<1>4. QED  BY <1>1, <1>2, <1>3, TickIsBounded DEF LimitNext

\* In any span as long as a window fewer than twice the limit get through
\* (src/src/api/rate_limit.rs, RateLimiter::check; src/src/api/auth.rs,
\* check_auth_rate_limit), for any limit, window and clients.
THEOREM LimitIsKept == LimitSpec => []TwiceTheLimit
<1>1. LimitInv => TwiceTheLimit
  BY LimitAssumption
     DEF LimitInv, TwiceTheLimit, LimitTypeOK, Span, OpenWindow, OverWindow
<1>2. QED  BY <1>1, LimitBegins, LimitStep, PTL DEF LimitSpec

-----------------------------------------------------------------------------
\* The newest version is the greatest.
LEMMA NewestIsGreatest ==
    ASSUME NEW vs, vs \subseteq 8..26, vs # {}
    PROVE  Newest(vs) \in vs /\ \A w \in vs : w <= Newest(vs)
<1>1. \E v \in vs : \A w \in vs : w <= v
  <2> DEFINE T == {n \in Nat : \E v \in vs : v + n = 26}
             R == {p \in Nat \X Nat : p[1] < p[2]}
  <2>1. \A v \in vs : v \in Int /\ v <= 26
    OBVIOUS
  <2>2. T \subseteq Nat /\ T # {}
    <3>1. PICK v \in vs : v \in Int /\ v <= 26
      BY <2>1
    <3>2. 26 - v \in T
      BY <3>1
    <3>3. QED  BY <3>2
  <2>3. \A x, y \in Nat : x < y => <<x, y>> \in R
    OBVIOUS
  <2>4. IsWellFoundedOn(R, Nat)
    BY NatLessThanWellFounded, Zenon DEF OpToRel
  <2> HIDE DEF R
  <2>5. PICK x \in T : \A y \in T : ~(<<y, x>> \in R)
    BY <2>2, <2>4, WFMin
  <2> HIDE DEF T
  <2>6. x \in Nat /\ \A y \in T : y \in Nat /\ x <= y
    <3> SUFFICES ASSUME NEW y \in T PROVE x \in Nat /\ y \in Nat /\ x <= y
      BY <2>5
    <3>1. x \in Nat /\ y \in Nat
      BY <2>2, <2>5
    <3>2. ~(y < x)
      BY <2>3, <2>5, <3>1
    <3>3. QED  BY <3>1, <3>2
  <2>7. PICK v \in vs : v + x = 26
    BY <2>5 DEF T
  <2>8. ASSUME NEW w \in vs PROVE w <= v
    <3>1. 26 - w \in T
      BY <2>1 DEF T
    <3>2. QED  BY <2>1, <2>6, <2>7, <3>1
  <2>9. QED  BY <2>8
<1>2. QED  BY <1>1 DEF Newest

\* What the guard of a migration learns from it.
LEMMA NewestAtLeast ==
    ASSUME MigrationsTypeOK, NEW n \in Nat, n > 0
    PROVE  /\ Newest(versions) >= n => \E v \in versions : v >= n
           /\ ~(Newest(versions) >= n) => \A v \in versions : v < n
<1>1. CASE versions = {}
  BY <1>1 DEF Newest
<1>2. CASE versions # {}
  <2>1. versions \subseteq 8..26
    BY DEF MigrationsTypeOK
  <2>2. Newest(versions) \in versions /\ \A w \in versions : w <= Newest(versions)
    BY <1>2, <2>1, NewestIsGreatest
  <2>3. \A w \in versions : w \in Int
    BY <2>1
  <2> DEFINE m == Newest(versions)
  <2>4. m \in versions /\ m \in Int /\ \A w \in versions : w <= m
    BY <2>2, <2>3
  <2> HIDE DEF m
  <2>5. m >= n => \E v \in versions : v >= n
    BY <2>4
  <2>6. ~(m >= n) => \A v \in versions : v < n
    BY <2>3, <2>4
  <2>7. QED  BY <2>5, <2>6 DEF m
<1>3. QED  BY <1>1, <1>2

\* Where a start of r goes, and what that leaves of the others.
Goes(r, at) ==
    /\ start' \in [Replica -> Progress]
    /\ \A s \in Replica \ {r} :
          /\ start'[s].pc = start[s].pc /\ start'[s].stage = start[s].stage
          /\ start'[s].step = start[s].step
          /\ start[s].met => start'[s].met
    /\ start'[r].pc = at.pc /\ start'[r].stage = at.stage /\ start'[r].step = at.step
    /\ at.met => start'[r].met

\* Goto does that, and whoever is under way beside another has met it.
LEMMA GotoGoes ==
    ASSUME MigrationsTypeOK, Met, NEW r \in Replica, NEW at \in Progress, Goto(r, at)
    PROVE  Goes(r, at) /\ Met'
<1> DEFINE moved == [start EXCEPT ![r] = at]
           under == {s \in Replica : moved[s].pc \in {"connecting", "migrating"}}
<1>1. moved \in [Replica -> Progress] /\ moved[r] = at
      /\ \A s \in Replica \ {r} : moved[s] = start[s]
  BY DEF MigrationsTypeOK
<1>2. start' = [s \in Replica |-> IF s \in under THEN [moved[s] EXCEPT !.met = @ \/ under # {s}]
                                   ELSE moved[s]]
  BY DEF Goto
<1> HIDE DEF moved
<1>3. ASSUME NEW s \in Replica
      PROVE  /\ start'[s] \in Progress
             /\ start'[s].pc = moved[s].pc /\ start'[s].stage = moved[s].stage
             /\ start'[s].step = moved[s].step
             /\ moved[s].met => start'[s].met
             /\ s \in under /\ under # {s} => start'[s].met
  <2>1. moved[s] \in Progress
    BY <1>1
  <2>2. CASE s \in under
    <3> DEFINE b == (under # {s})
    <3>1. start'[s] = [moved[s] EXCEPT !.met = moved[s].met \/ b]
      BY <1>2, <2>2
    <3>2. b \in BOOLEAN
      OBVIOUS
    <3> HIDE DEF b
    <3>3. QED  BY <2>1, <3>1, <3>2 DEF Progress, b
  <2>3. CASE s \notin under
    BY <1>2, <2>1, <2>3
  <2>4. QED  BY <2>2, <2>3
<1>4. start' \in [Replica -> Progress]
  BY <1>2, <1>3
<1>5. Met'
  <2> SUFFICES ASSUME NEW s \in Replica, NEW q \in Replica, Under(s)', Under(q)', s # q
               PROVE  start'[s].met
    BY DEF Met
  <2>1. s \in under /\ q \in under
    BY <1>3 DEF Under
  <2>2. QED  BY <1>3, <2>1
<1>6. QED  BY <1>1, <1>3, <1>4, <1>5 DEF Goes

\* The other starts stay where they are, with what they have dropped and passed.
LEMMA OthersStand ==
    ASSUME NEW r, NEW at, Goes(r, at), NEW q \in Replica \ {r}
    PROVE  /\ \A o : InGap(q, o)' <=> InGap(q, o)
           /\ \A n, i : Past(q, n, i)' <=> Past(q, n, i)
BY DEF Goes, InGap, Past

\* Where a start goes on to: past the statement it is at.
Onward(at, n, i) ==
    \/ /\ i < Len(Program[n])
       /\ at.pc = "migrating" /\ at.stage = n /\ at.step = i + 1
    \/ /\ i = Len(Program[n]) \/ n = 22
       /\ n < 26 /\ at.pc = "migrating" /\ at.stage = n + 1 /\ at.step = 0
    \/ i = Len(Program[n]) /\ n = 26 /\ at.pc = "serving"

\* What a start is before it begins and after it ends.
LEMMA OffIsProgress ==
    /\ Off \in Progress /\ Off.pc = "down"
    /\ [Off EXCEPT !.pc = "serving"] \in Progress /\ [Off EXCEPT !.pc = "serving"].pc = "serving"
BY DEF Progress, Off

\* The next migration.
LEMMA StageMoves ==
    ASSUME NEW r, start[r] \in Progress, NEW m \in Stage,
           NextStage(r) = [start[r] EXCEPT !.stage = m, !.step = 0]
    PROVE  /\ NextStage(r) \in Progress /\ NextStage(r).pc = start[r].pc
           /\ NextStage(r).stage = m /\ NextStage(r).step = 0
           /\ NextStage(r).met = start[r].met
<1>1. PICK y : y = NextStage(r)
  OBVIOUS
<1>2. y = [start[r] EXCEPT !.stage = m, !.step = 0]
  BY <1>1
<1>3. /\ y \in Progress /\ y.pc = start[r].pc /\ y.stage = m /\ y.step = 0
      /\ y.met = start[r].met
  BY <1>2 DEF Progress
<1>4. QED  BY <1>1, <1>3

\* A start that migrates is at a statement of the program, or before a migration.
LEMMA WhereItIs ==
    ASSUME MigrationsTypeOK, ProgramAssumption, NEW r \in Replica, start[r].pc = "migrating"
    PROVE  /\ start[r] \in Progress /\ start[r].stage \in Stage /\ start[r].step \in Nat
           /\ start[r].step = 0 => start[r].stage > 10
           /\ start[r].step > 0 => start[r].step \in Places(start[r].stage)
           /\ Len(Program[start[r].stage]) \in Nat
<1>1. start[r] \in Progress /\ start[r].stage \in Stage
      /\ start[r].step \in Places(start[r].stage) \cup {0}
      /\ (start[r].step = 0 => start[r].stage > 10)
  BY DEF MigrationsTypeOK
<1>2. start[r].step \in Nat
  BY <1>1 DEF Progress
<1>3. Len(Program[start[r].stage]) \in Nat
  BY <1>1 DEF ProgramAssumption, VersionsLast
<1>4. QED  BY <1>1, <1>2, <1>3

\* The next step of a start goes past the statement it is at.
LEMMA NextIsOnward ==
    ASSUME MigrationsTypeOK, ProgramAssumption, NEW r \in Replica, start[r].pc = "migrating",
           NEW n, n = start[r].stage, NEW i, i = start[r].step
    PROVE  /\ NextStage(r) \in Progress
           /\ n < 26 =>
                 /\ NextStage(r).pc = "migrating" /\ NextStage(r).stage = n + 1
                 /\ NextStage(r).step = 0 /\ NextStage(r).met = start[r].met
           /\ n = 26 => NextStage(r).pc = "serving"
           /\ i > 0 =>
                 /\ NextStep(r) \in Progress /\ Onward(NextStep(r), n, i)
                 /\ NextStep(r).pc = "migrating" => NextStep(r).met = start[r].met
           /\ n = 22 => Onward(NextStage(r), 22, i)
<1>1. start[r] \in Progress /\ n \in Stage /\ i \in Nat /\ Len(Program[n]) \in Nat
      /\ (i > 0 => i \in Places(n))
  BY WhereItIs
<1>2. n \in Int /\ n <= 26 /\ (n # 26 => n + 1 \in Stage /\ n < 26)
  <2>1. n \in Stage
    BY <1>1
  <2>2. QED  BY <2>1 DEF Stage
<1>3. i + 1 \in Nat /\ (i > 0 => i \in 1..Len(Program[n]))
  BY <1>1 DEF Places
<1>4. /\ NextStage(r) \in Progress
      /\ n < 26 =>
            /\ NextStage(r).pc = "migrating" /\ NextStage(r).stage = n + 1
            /\ NextStage(r).step = 0 /\ NextStage(r).met = start[r].met
      /\ n = 26 => NextStage(r).pc = "serving"
  <2>1. CASE n = 26
    <3>1. NextStage(r) = [Off EXCEPT !.pc = "serving"]
      BY <2>1 DEF NextStage
    <3>2. QED  BY <2>1, <3>1, OffIsProgress
  <2>2. CASE n # 26
    <3>1. PICK m \in Stage : m = n + 1
      BY <1>2, <2>2
    <3>2. NextStage(r) = [start[r] EXCEPT !.stage = m, !.step = 0]
      BY <2>2, <3>1 DEF NextStage
    <3>3. /\ NextStage(r) \in Progress /\ NextStage(r).pc = start[r].pc
          /\ NextStage(r).stage = m /\ NextStage(r).step = 0
          /\ NextStage(r).met = start[r].met
      BY <1>1, <3>2, StageMoves
    <3>4. QED  BY <2>2, <3>1, <3>3
  <2>3. QED  BY <2>1, <2>2
<1>5. ASSUME i > 0
      PROVE  /\ NextStep(r) \in Progress /\ Onward(NextStep(r), n, i)
             /\ NextStep(r).pc = "migrating" => NextStep(r).met = start[r].met
  <2>1. CASE i = Len(Program[n])
    <3>1. NextStep(r) = NextStage(r)
      BY <2>1 DEF NextStep
    <3>2. n < 26 \/ n = 26
      BY <1>2
    <3>3. NextStage(r).pc = "migrating" => NextStage(r).met = start[r].met
      BY <1>4, <3>2
    <3>4. Onward(NextStage(r), n, i)
      BY <1>4, <2>1, <3>2 DEF Onward
    <3>5. QED  BY <1>4, <3>1, <3>3, <3>4
  <2>2. CASE i # Len(Program[n])
    <3>1. NextStep(r) = [start[r] EXCEPT !.step = i + 1]
      BY <2>2 DEF NextStep
    <3>2. i < Len(Program[n])
      BY <1>1, <1>3, <1>5, <2>2
    <3>3. /\ NextStep(r) \in Progress /\ NextStep(r).pc = "migrating" /\ NextStep(r).stage = n
          /\ NextStep(r).step = i + 1 /\ NextStep(r).met = start[r].met
      BY <1>1, <1>3, <3>1 DEF Progress
    <3>4. QED  BY <3>2, <3>3 DEF Onward
  <2>3. QED  BY <2>1, <2>2
<1>6. n = 22 => Onward(NextStage(r), 22, i)
  BY <1>4 DEF Onward
<1>7. QED  BY <1>4, <1>5, <1>6

\* A start that goes on past a statement leaves what the statement is for.
LEMMA SureIsThere ==
    ASSUME ProgramAssumption, NEW n \in Stage, NEW i \in Places(n), NEW s, s = Program[n][i],
           Takes(s), NEW o \in Sure(s)
    PROVE  o \in schema'
<1>1. s.unless \subseteq s.adds /\ \A a, b \in s.unless : a = b
  BY DEF ProgramAssumption, CreatesWhatIsAbsent
<1>2. CASE Idle(s)
  <2>1. PICK a \in s.unless : a \in schema
    BY <1>2 DEF Idle
  <2>2. o \in s.unless
    BY <2>1 DEF Sure
  <2>3. o = a
    BY <1>1, <2>1, <2>2
  <2>4. schema' = schema
    BY <1>2 DEF Takes
  <2>5. QED  BY <2>1, <2>3, <2>4
<1>3. CASE ~Idle(s)
  <2>1. schema' = (schema \ s.drops) \cup s.adds
    BY <1>3 DEF Takes
  <2>2. o \in s.adds
    BY <1>1 DEF Sure
  <2>3. QED  BY <2>1, <2>2
<1>4. QED  BY <1>2, <1>3

\* What a start has dropped no other statement than its next is sure to leave.
LEMMA GapsAreTheirs ==
    ASSUME MigrationsTypeOK, ProgramAssumption, NEW r \in Replica, NEW o, InGap(r, o),
           NEW m \in Stage \ {22}, NEW j \in Places(m), o \in Sure(Program[m][j])
    PROVE  /\ m = start[r].stage /\ j = start[r].step /\ m > 10
           /\ Program[m][j].unless = {} /\ o \in Program[m][j].adds
           /\ j > 1 /\ o \in Program[m][j - 1].drops
<1> DEFINE n == start[r].stage
           i == start[r].step
<1>1. /\ n \in Stage /\ i \in Nat /\ i > 1 /\ i \in Places(n) /\ Len(Program[n]) \in Nat
      /\ o \in Program[n][i - 1].drops /\ o \in Program[n][i].adds
  BY WhereItIs DEF InGap
<1> HIDE DEF n, i
<1>2. i - 1 \in Places(n)
  BY <1>1 DEF Places
<1>3. m = n /\ n > 10 /\ j = i - 1 + 1 /\ Program[n][j].unless = {}
  BY <1>1, <1>2 DEF ProgramAssumption, DropsAreRestored
<1>4. j = i
  BY <1>1, <1>3
<1>5. QED  BY <1>1, <1>3, <1>4 DEF n, i

\* A start that takes its statement and goes on: what is claimed stays laid.
LEMMA LaidForward ==
    ASSUME MigrationsTypeOK, ProgramAssumption, Laid,
           NEW r \in Replica, start[r].pc = "migrating",
           NEW n \in Stage, n = start[r].stage, NEW i \in Places(n), i = start[r].step,
           NEW s, s = Program[n][i], Takes(s),
           NEW at, Goes(r, at), Onward(at, n, i)
    PROVE  Laid'
<1> SUFFICES ASSUME NEW m \in Stage \ {22}, NEW j \in Places(m), Claimed(m, j)',
                    NEW o \in Sure(Program[m][j])
             PROVE  o \in schema' \/ \E q \in Replica : InGap(q, o)'
  BY DEF Laid
<1>1. /\ n \in Int /\ m \in Int /\ i \in Int /\ j \in Int /\ Len(Program[n]) \in Nat
      /\ i <= Len(Program[n]) /\ i > 0 /\ j > 0 /\ j <= Len(Program[m]) /\ m # 22
  <2>1. n \in Int /\ m \in Int /\ m # 22
    BY DEF Stage
  <2>2. Len(Program[n]) \in Nat /\ Len(Program[m]) \in Nat
    BY DEF ProgramAssumption, VersionsLast
  <2>3. QED  BY <2>1, <2>2 DEF Places
<1>2. /\ s.version \in {0, n} /\ (s.version # 0 => i = Len(Program[n]))
  BY DEF ProgramAssumption, VersionsLast
<1>3. m < n \/ (m = n /\ j < i) => Claimed(m, j)
  <2>1. m < n \/ (m = n /\ j < i) => Past(r, m, j)
    BY <1>1 DEF Past
  <2>2. QED  BY <2>1 DEF Claimed
<1>4. Claimed(m, j) \/ (m = n /\ j = i)
  <2>1. ASSUME m > 10, NEW v \in versions', v >= m
        PROVE  Claimed(m, j) \/ (m = n /\ j = i)
    <3>1. CASE v \in versions
      BY <2>1, <3>1 DEF Claimed
    <3>2. CASE v \notin versions
      <4>1. v = n /\ i = Len(Program[n])
        <5>1. s.version # 0 /\ versions' = versions \cup (IF s.version = 10 THEN {8, 9, 10} ELSE {s.version})
          BY <2>1, <3>2 DEF Takes
        <5>2. s.version = n /\ i = Len(Program[n])
          BY <1>2, <5>1
        <5>3. v \in IF n = 10 THEN {8, 9, 10} ELSE {n}
          BY <3>2, <5>1, <5>2
        <5>4. n # 10
          BY <1>1, <2>1, <5>3
        <5>5. QED  BY <5>2, <5>3, <5>4
      <4>2. m < n \/ (m = n /\ j < i) \/ (m = n /\ j = i)
        BY <1>1, <2>1, <4>1
      <4>3. QED  BY <1>3, <4>2
    <3>3. QED  BY <3>1, <3>2
  <2>2. ASSUME NEW q \in Replica, Past(q, m, j)'
        PROVE  Claimed(m, j) \/ (m = n /\ j = i)
    <3>1. CASE q # r
      <4>1. Past(q, m, j)
        BY <2>2, <3>1, OthersStand
      <4>2. QED  BY <4>1 DEF Claimed
    <3>2. CASE q = r
      <4>1. at.pc = "migrating" /\ (at.stage > m \/ (at.stage = m /\ at.step > j))
        BY <2>2, <3>2 DEF Past, Goes
      <4>2. \/ i < Len(Program[n]) /\ at.stage = n /\ at.step = i + 1
            \/ (i = Len(Program[n]) \/ n = 22) /\ at.stage = n + 1 /\ at.step = 0
        BY <4>1 DEF Onward
      <4>3. m < n \/ (m = n /\ j < i) \/ (m = n /\ j = i)
        BY <1>1, <4>1, <4>2
      <4>4. QED  BY <1>3, <4>3
    <3>3. QED  BY <3>1, <3>2
  <2>3. QED  BY <2>1, <2>2 DEF Claimed
<1>5. CASE m = n /\ j = i
  BY <1>5, SureIsThere
<1>6. CASE Claimed(m, j)
  <2>1. o \in schema \/ \E q \in Replica : InGap(q, o)
    BY <1>6 DEF Laid
  <2>2. CASE o \in schema /\ o \notin schema'
    <3>1. ~Idle(s) /\ o \in s.drops
      BY <2>2 DEF Takes
    <3>2. m = n /\ n > 10 /\ j = i + 1 /\ Program[n][j].unless = {}
      BY <3>1 DEF ProgramAssumption, DropsAreRestored
    <3>3. o \in Program[n][i + 1].adds /\ o \in Program[n][i + 1 - 1].drops
      <4>1. o \in Program[n][j].adds
        BY <3>2 DEF Sure
      <4>2. i + 1 - 1 = i
        BY <1>1
      <4>3. QED  BY <3>1, <3>2, <4>1, <4>2
    <3>4. start'[r].pc = "migrating" /\ start'[r].stage = n /\ start'[r].step = i + 1
      BY <1>1, <3>2 DEF Onward, Goes
    <3>5. InGap(r, o)'
      BY <1>1, <3>3, <3>4 DEF InGap
    <3>6. QED  BY <3>5
  <2>3. ASSUME NEW q \in Replica, InGap(q, o)
        PROVE  o \in schema' \/ InGap(q, o)'
    <3>1. CASE q # r
      BY <2>3, <3>1, OthersStand
    <3>2. CASE q = r
      <4>1. s.unless = {} /\ o \in s.adds
        BY <2>3, <3>2, GapsAreTheirs
      <4>2. schema' = (schema \ s.drops) \cup s.adds
        BY <4>1 DEF Takes, Idle
      <4>3. QED  BY <4>1, <4>2
    <3>3. QED  BY <3>1, <3>2
  <2>4. QED  BY <2>1, <2>2, <2>3
<1>7. QED  BY <1>4, <1>5, <1>6

\* A step that changes neither schema nor versions, and claims nothing new.
LEMMA LaidStill ==
    ASSUME Laid, NEW r \in Replica, NEW at, Goes(r, at),
           versions' = versions, schema' = schema,
           at.pc = "migrating" => \A m \in Stage \ {22} : \A j \in Places(m) :
               at.stage > m \/ (at.stage = m /\ at.step > j) => Claimed(m, j),
           \A o : \A m \in Stage \ {22} : \A j \in Places(m) :
               InGap(r, o) /\ o \in Sure(Program[m][j]) /\ Claimed(m, j)' => o \in schema
    PROVE  Laid'
<1> SUFFICES ASSUME NEW m \in Stage \ {22}, NEW j \in Places(m), Claimed(m, j)',
                    NEW o \in Sure(Program[m][j])
             PROVE  o \in schema \/ \E q \in Replica : InGap(q, o)'
  BY DEF Laid
<1>1. Claimed(m, j)
  <2>1. ASSUME NEW q \in Replica, Past(q, m, j)' PROVE Claimed(m, j)
    <3>1. CASE q # r
      <4>1. Past(q, m, j)
        BY <2>1, <3>1, OthersStand
      <4>2. QED  BY <4>1 DEF Claimed
    <3>2. CASE q = r
      BY <2>1, <3>2 DEF Past, Goes
    <3>3. QED  BY <3>1, <3>2
  <2>2. QED  BY <2>1 DEF Claimed
<1>2. o \in schema \/ \E q \in Replica : InGap(q, o)
  BY <1>1 DEF Laid
<1>3. ASSUME NEW q \in Replica, InGap(q, o) PROVE o \in schema \/ InGap(q, o)'
  BY <1>3, OthersStand
<1>4. QED  BY <1>2, <1>3

\* A start that stops before or after its statement, and has met no other.
LEMMA LaidAbandoned ==
    ASSUME MigrationsTypeOK, ProgramAssumption, Laid, Met, Alone,
           NEW r \in Replica, start[r].pc = "migrating", ~start[r].met,
           NEW n \in Stage, n = start[r].stage, NEW i \in Places(n), i = start[r].step,
           NEW s, s = Program[n][i],
           Takes(s) \/ (schema' = schema /\ versions' = versions),
           NEW at, Goes(r, at), at.pc = "down"
    PROVE  Laid'
<1> SUFFICES ASSUME NEW m \in Stage \ {22}, NEW j \in Places(m), Claimed(m, j)',
                    NEW o \in Sure(Program[m][j])
             PROVE  o \in schema'
  BY DEF Laid
<1>1. /\ n \in Int /\ m \in Int /\ i \in Int /\ j \in Int /\ Len(Program[n]) \in Nat
      /\ i <= Len(Program[n]) /\ i > 0 /\ j > 0 /\ j <= Len(Program[m])
  <2>1. n \in Int /\ m \in Int
    BY DEF Stage
  <2>2. Len(Program[n]) \in Nat /\ Len(Program[m]) \in Nat
    BY DEF ProgramAssumption, VersionsLast
  <2>3. QED  BY <2>1, <2>2 DEF Places
<1>2. s.version \in {0, n} /\ (s.version # 0 => i = Len(Program[n]))
  BY DEF ProgramAssumption, VersionsLast
<1>3. ASSUME NEW q \in Replica \ {r} PROVE start[q].pc # "migrating"
  BY <1>3 DEF Met, Under
<1>4. m > 10 /\ \E v \in versions' : v >= m
  <2>1. ASSUME NEW q \in Replica, Past(q, m, j)' PROVE FALSE
    <3>1. q # r
      BY <2>1 DEF Past, Goes
    <3>2. Past(q, m, j)
      BY <2>1, <3>1, OthersStand
    <3>3. QED  BY <1>3, <3>1, <3>2 DEF Past
  <2>2. QED  BY <2>1 DEF Claimed
<1>5. PICK v \in versions' : v >= m
  BY <1>4
<1>6. ~(m = n /\ \E w \in versions : w >= m)
  <2>1. SUFFICES ASSUME m = n, NEW w \in versions, w >= m PROVE FALSE
    OBVIOUS
  <2>2. w \in Int
    BY DEF MigrationsTypeOK
  <2>3. w < n
    BY <1>1, <1>4, <2>1 DEF Alone
  <2>4. QED  BY <1>1, <2>1, <2>2, <2>3
<1>7. CASE v \in versions
  <2>1. Claimed(m, j)
    BY <1>4, <1>5, <1>7 DEF Claimed
  <2>2. m # n
    BY <1>5, <1>6, <1>7
  <2>3. ~InGap(r, o)
    BY <2>2, GapsAreTheirs
  <2>4. o \in schema
    <3>1. o \in schema \/ \E q \in Replica : InGap(q, o)
      BY <2>1 DEF Laid
    <3>2. QED  BY <1>3, <2>3, <3>1 DEF InGap
  <2>5. o \notin s.drops
    BY <2>2 DEF ProgramAssumption, DropsAreRestored
  <2>6. QED  BY <2>4, <2>5 DEF Takes
<1>8. CASE v \notin versions
  <2>1. Takes(s) /\ s.version # 0 /\ versions' = versions \cup (IF s.version = 10 THEN {8, 9, 10} ELSE {s.version})
    BY <1>5, <1>8 DEF Takes
  <2>2. s.version = n /\ i = Len(Program[n])
    BY <1>2, <2>1
  <2>3. v \in IF n = 10 THEN {8, 9, 10} ELSE {n}
    BY <1>5, <1>8, <2>1, <2>2
  <2>4. n # 10
    BY <1>1, <1>4, <1>5, <2>3
  <2>5. m < n \/ (m = n /\ j < i) \/ (m = n /\ j = i)
    BY <1>1, <1>5, <2>2, <2>3, <2>4
  <2>6. CASE m = n /\ j = i
    BY <2>1, <2>6, SureIsThere
  <2>7. CASE m < n \/ (m = n /\ j < i)
    <3>1. Past(r, m, j)
      BY <1>1, <2>7 DEF Past
    <3>2. ~InGap(r, o)
      BY <1>1, <2>7, GapsAreTheirs
    <3>3. o \in schema
      <4>1. o \in schema \/ \E q \in Replica : InGap(q, o)
        BY <3>1 DEF Laid, Claimed
      <4>2. QED  BY <1>3, <3>2, <4>1 DEF InGap
    <3>4. o \notin s.drops
      <4>1. SUFFICES ASSUME o \in s.drops PROVE FALSE
        OBVIOUS
      <4>2. m = n /\ j = i + 1
        BY <4>1 DEF ProgramAssumption, DropsAreRestored
      <4>3. QED  BY <1>1, <2>2, <4>2
    <3>5. QED  BY <2>1, <3>3, <3>4 DEF Takes
  <2>8. QED  BY <2>5, <2>6, <2>7
<1>9. QED  BY <1>7, <1>8

\* A statement that restores what the one before it dropped is refused only
\* where that is there.
LEMMA RefusedWhereThere ==
    ASSUME MigrationsTypeOK, ProgramAssumption, Laid, Cleared,
           NEW r \in Replica, start[r].pc = "migrating", ~Accepted(Due(r)),
           NEW o, InGap(r, o), NEW m \in Stage \ {22}, NEW j \in Places(m),
           o \in Sure(Program[m][j])
    PROVE  o \in schema
<1> DEFINE s == Program[m][j]
<1>1. /\ m = start[r].stage /\ j = start[r].step /\ j > 1
      /\ o \in Program[m][j - 1].drops \cap s.adds
  BY GapsAreTheirs
<1>2. Due(r) = s
  BY <1>1 DEF Due
<1>3. j \in Places(m) \ {1}
  BY <1>1
<1>4. /\ s.unless = {} /\ ~s.strict
      /\ \A f \in s.clash \ {o} : f \in Program[m][j - 1].drops /\ NeverAdded(f)
      /\ \A k \in s.needs :
            /\ NeverDropped(k)
            /\ \E a \in Stage \ {22} : \E b \in Places(a) :
                  (a < m \/ (a = m /\ b < j)) /\ k \in Sure(Program[a][b])
  BY <1>1, <1>3 DEF ProgramAssumption, RestoresAreAccepted
<1>5. s.needs \subseteq schema
  <2> SUFFICES ASSUME NEW k \in s.needs PROVE k \in schema
    OBVIOUS
  <2> PICK a \in Stage \ {22} : \E b \in Places(a) :
            (a < m \/ (a = m /\ b < j)) /\ k \in Sure(Program[a][b])
    BY <1>4
  <2>1. PICK b \in Places(a) : (a < m \/ (a = m /\ b < j)) /\ k \in Sure(Program[a][b])
    OBVIOUS
  <2>2. Past(r, a, b)
    <3>1. a \in Int /\ m \in Int
      BY DEF Stage
    <3>2. b \in Int /\ j \in Int
      BY DEF Places
    <3>3. QED  BY <1>1, <2>1, <3>1, <3>2 DEF Past
  <2>3. k \in schema \/ \E q \in Replica : InGap(q, k)
    BY <2>1, <2>2 DEF Laid, Claimed
  <2>4. ASSUME NEW q \in Replica, InGap(q, k) PROVE FALSE
    <3>1. start[q].stage \in Stage /\ start[q].step - 1 \in Places(start[q].stage)
      <4>1. start[q].stage \in Stage /\ start[q].step \in Places(start[q].stage)
            /\ start[q].step \in Nat /\ start[q].step > 1 /\ Len(Program[start[q].stage]) \in Nat
        BY <2>4, WhereItIs DEF InGap
      <4>2. QED  BY <4>1 DEF Places
    <3>2. QED  BY <1>4, <2>4, <3>1 DEF NeverDropped, InGap
  <2>5. QED  BY <2>3, <2>4
<1>6. s.clash \cap schema # {}
  BY <1>2, <1>4, <1>5 DEF Accepted
<1>7. PICK f \in s.clash : f \in schema
  BY <1>6
<1>8. CASE f # o
  <2>1. f \in Program[m][j - 1].drops /\ NeverAdded(f)
    BY <1>4, <1>8
  <2>2. QED  BY <1>1, <1>7, <2>1 DEF Cleared
<1>9. QED  BY <1>7, <1>8

\* What no statement adds does not come back.
LEMMA ClearedStays ==
    ASSUME MigrationsTypeOK, ProgramAssumption, Cleared, NEW r \in Replica, NEW at, Goes(r, at),
           \/ schema' = schema /\ (at.pc = "migrating" => at.step <= 1)
           \/ \E n \in Stage : \E i \in Places(n) :
                 /\ Takes(Program[n][i])
                 /\ at.pc = "migrating" /\ at.step > 1 => at.stage = n /\ at.step = i + 1
    PROVE  Cleared'
<1> SUFFICES ASSUME NEW q \in Replica, start'[q].pc = "migrating", start'[q].step > 1,
                    NEW o \in Program[start'[q].stage][start'[q].step - 1].drops, NeverAdded(o)
             PROVE  o \notin schema'
  BY DEF Cleared, NeverAdded
<1>1. ASSUME o \notin schema PROVE o \notin schema'
  <2>1. CASE schema' = schema
    BY <1>1, <2>1
  <2>2. ASSUME NEW n \in Stage, NEW i \in Places(n), Takes(Program[n][i])
        PROVE  o \notin schema'
    <3>1. o \notin Program[n][i].adds
      BY DEF NeverAdded
    <3>2. QED  BY <1>1, <2>2, <3>1 DEF Takes
  <2>3. QED  BY <2>1, <2>2
<1>2. CASE q # r
  BY <1>1, <1>2 DEF Goes, Cleared
<1>3. CASE q = r
  <2>1. at.pc = "migrating" /\ at.step > 1 /\ start'[r].stage = at.stage /\ start'[r].step = at.step
    BY <1>3 DEF Goes
  <2>2. at.step \in Nat
    <3>1. start'[r] \in Progress
      BY DEF Goes
    <3>2. start'[r].step \in Nat
      BY <3>1 DEF Progress
    <3>3. QED  BY <2>1, <3>2
  <2>3. ~(at.step <= 1)
    BY <2>1, <2>2
  <2>4. PICK n \in Stage : \E i \in Places(n) :
            Takes(Program[n][i]) /\ at.stage = n /\ at.step = i + 1
    BY <2>1, <2>3
  <2>5. PICK i \in Places(n) : Takes(Program[n][i]) /\ at.stage = n /\ at.step = i + 1
    BY <2>4
  <2>6. i \in Nat
    BY DEF Places
  <2>7. o \in Program[n][i].drops
    <3>1. at.step - 1 = i
      BY <2>5, <2>6
    <3>2. QED  BY <1>3, <2>1, <2>5, <3>1
  <2>8. Program[n][i].unless = {}
    BY <2>7 DEF ProgramAssumption, CreatesWhatIsAbsent
  <2>9. schema' = (schema \ Program[n][i].drops) \cup Program[n][i].adds
    BY <2>5, <2>8 DEF Takes, Idle
  <2>10. o \notin Program[n][i].adds
    BY DEF NeverAdded
  <2>11. QED  BY <2>7, <2>9, <2>10
<1>4. QED  BY <1>2, <1>3

\* Who has met nobody is the only one to record versions.
LEMMA AloneStays ==
    ASSUME Alone, Met, NEW r \in Replica, NEW at, Goes(r, at),
           versions' = versions \/ start[r].pc = "migrating",
           at.pc = "migrating" /\ ~at.met /\ at.stage > 10 /\ at.step > 0 =>
               \A v \in versions' : v < at.stage
    PROVE  Alone'
<1> SUFFICES ASSUME NEW q \in Replica, start'[q].pc = "migrating", ~start'[q].met,
                    start'[q].stage > 10, start'[q].step > 0
             PROVE  \A v \in versions' : v < start'[q].stage
  BY DEF Alone
<1>1. CASE q = r
  BY <1>1 DEF Goes
<1>2. CASE q # r
  <2>1. /\ start[q].pc = "migrating" /\ ~start[q].met /\ start[q].stage > 10
        /\ start[q].step > 0 /\ start'[q].stage = start[q].stage
    BY <1>2 DEF Goes
  <2>2. versions' = versions
    BY <1>2, <2>1 DEF Met, Under
  <2>3. QED  BY <2>1, <2>2 DEF Alone
<1>3. QED  BY <1>1, <1>2

\* The place of a start that moved is one of the program.
LEMMA TypeStays ==
    ASSUME MigrationsTypeOK, NEW r \in Replica, NEW at, Goes(r, at), versions' \subseteq 8..26,
           at.pc = "migrating" =>
               /\ at.stage \in Stage /\ at.step \in Places(at.stage) \cup {0}
               /\ at.step = 0 => at.stage > 10
    PROVE  MigrationsTypeOK'
<1>1. start' \in [Replica -> Progress]
  BY DEF Goes
<1>2. ASSUME NEW q \in Replica, start'[q].pc = "migrating"
      PROVE  /\ start'[q].stage \in Stage /\ start'[q].step \in Places(start'[q].stage) \cup {0}
             /\ start'[q].step = 0 => start'[q].stage > 10
  <2>1. CASE q = r
    BY <1>2, <2>1 DEF Goes
  <2>2. CASE q # r
    BY <1>2, <2>2 DEF Goes, MigrationsTypeOK
  <2>3. QED  BY <2>1, <2>2
<1>3. QED  BY <1>1, <1>2 DEF MigrationsTypeOK

\* A step that looks only, and is not between a DROP and what follows.
LEMMA LooksOnly ==
    ASSUME MigrationsInv, ProgramAssumption, NEW r \in Replica, NEW at \in Progress, Goto(r, at),
           schema' = schema, versions' = versions,
           start[r].pc = "migrating" => start[r].step <= 1,
           at.pc = "migrating" =>
               /\ at.stage \in Stage /\ at.step \in {0, 1} /\ at.step \in Places(at.stage) \cup {0}
               /\ at.step = 0 => at.stage > 10
               /\ \A m \in Stage \ {22} : at.stage > m => \A j \in Places(m) : Claimed(m, j)
               /\ ~at.met /\ at.stage > 10 /\ at.step > 0 => \A v \in versions : v < at.stage
    PROVE  MigrationsInv'
<1>1. Goes(r, at) /\ Met'
  BY GotoGoes DEF MigrationsInv
<1>2. MigrationsTypeOK'
  <2>1. versions' \subseteq 8..26
    BY DEF MigrationsInv, MigrationsTypeOK
  <2>2. QED  BY <1>1, <2>1, TypeStays DEF MigrationsInv
<1>3. Alone'
  BY <1>1, AloneStays DEF MigrationsInv
<1>4. Cleared'
  BY <1>1, ClearedStays DEF MigrationsInv
<1>5. \A o : ~InGap(r, o)
  <2>1. start[r].pc = "migrating" => start[r].step \in Nat
    BY WhereItIs DEF MigrationsInv
  <2>2. QED  BY <2>1 DEF InGap
<1>6. at.pc = "migrating" => \A m \in Stage \ {22} : \A j \in Places(m) :
          at.stage > m \/ (at.stage = m /\ at.step > j) => Claimed(m, j)
  <2> SUFFICES ASSUME at.pc = "migrating", NEW m \in Stage \ {22}, NEW j \in Places(m),
                      at.stage = m /\ at.step > j
               PROVE  FALSE
    OBVIOUS
  <2>1. j \in Nat /\ j >= 1
    BY DEF Places
  <2>2. QED  BY <2>1
<1>7. Laid'
  BY <1>1, <1>5, <1>6, LaidStill DEF MigrationsInv
<1>8. QED  BY <1>1, <1>2, <1>3, <1>4, <1>7 DEF MigrationsInv

\* The steps before the first statement.
LEMMA Unstarted ==
    ASSUME MigrationsInv, ProgramAssumption, StartAssumption, NEW r \in Replica,
           Start(r) \/ Connect(r) \/ ConnectFails(r)
    PROVE  MigrationsInv'
<1>1. schema' = schema /\ versions' = versions /\ start[r].pc # "migrating" /\ start[r] \in Progress
  BY DEF Start, Connect, ConnectFails, MigrationsInv, MigrationsTypeOK
<1>2. CASE Start(r)
  <2>1. PICK at : at = [Off EXCEPT !.pc = "connecting", !.tries = Attempts]
    OBVIOUS
  <2>2. at \in Progress /\ at.pc = "connecting"
    BY <2>1 DEF Off, Progress, StartAssumption
  <2>3. Goto(r, at)
    BY <1>2, <2>1 DEF Start
  <2>4. QED  BY <1>1, <2>2, <2>3, LooksOnly
<1>3. CASE Connect(r)
  <2>1. PICK at : at = [start[r] EXCEPT !.pc = "migrating", !.stage = 10, !.step = 1]
    OBVIOUS
  <2>2. 10 \in Stage
    BY DEF Stage
  <2>3. at \in Progress /\ at.stage = 10 /\ at.step = 1
    BY <1>1, <2>1, <2>2 DEF Progress
  <2>4. Goto(r, at)
    BY <1>3, <2>1 DEF Connect
  <2>5. 1 \in Places(10)
    BY <2>2 DEF Places, ProgramAssumption, VersionsLast
  <2>6. ASSUME NEW m \in Stage PROVE ~(at.stage > m)
    BY <2>3 DEF Stage
  <2>7. QED  BY <1>1, <2>2, <2>3, <2>4, <2>5, <2>6, LooksOnly
<1>4. CASE ConnectFails(r)
  <2>1. PICK at : at = IF start[r].tries > 1 THEN [start[r] EXCEPT !.tries = @ - 1] ELSE Off
    OBVIOUS
  <2>2. at \in Progress /\ at.pc # "migrating"
    <3>1. CASE start[r].tries > 1
      <4>1. start[r].tries - 1 \in Nat
        BY <1>1, <3>1 DEF Progress
      <4>2. PICK k \in Nat : k = start[r].tries - 1
        BY <4>1
      <4>3. at = [start[r] EXCEPT !.tries = k]
        BY <2>1, <3>1, <4>2
      <4>4. at \in Progress /\ at.pc = start[r].pc
        BY <1>1, <4>3 DEF Progress
      <4>5. QED  BY <1>1, <4>4
    <3>2. CASE ~(start[r].tries > 1)
      BY <2>1, <3>2, OffIsProgress
    <3>3. QED  BY <3>1, <3>2
  <2>3. Goto(r, at)
    BY <1>4, <2>1 DEF ConnectFails
  <2>4. QED  BY <1>1, <2>2, <2>3, LooksOnly
<1>5. QED  BY <1>2, <1>3, <1>4

\* A start claims the migrations behind it.
LEMMA PastStages ==
    ASSUME MigrationsInv, ProgramAssumption, NEW r \in Replica, start[r].pc = "migrating",
           NEW m \in Stage \ {22}, start[r].stage > m, NEW j \in Places(m)
    PROVE  Claimed(m, j)
BY DEF Claimed, Past

\* SELECT MAX(version): a migration is skipped only where a version claims it.
LEMMA GuardInv ==
    ASSUME MigrationsInv, ProgramAssumption, NEW r \in Replica, Guard(r)
    PROVE  MigrationsInv'
<1> DEFINE n == start[r].stage
<1>1. /\ schema' = schema /\ versions' = versions /\ start[r].pc = "migrating" /\ start[r].step = 0
      /\ MigrationsTypeOK
  BY DEF Guard, MigrationsInv
<1>2. start[r] \in Progress /\ n \in Stage /\ n > 10 /\ Len(Program[n]) \in Nat \ {0}
  <2>1. start[r] \in Progress /\ n \in Stage /\ n > 10
    BY <1>1, WhereItIs
  <2>2. QED  BY <2>1 DEF ProgramAssumption, VersionsLast
<1>3. n \in Nat /\ n > 0 /\ n <= 26
  BY <1>2 DEF Stage
<1>4. CASE Newest(versions) >= n
  <2>1. \E v \in versions : v >= n
    BY <1>1, <1>3, <1>4, NewestAtLeast
  <2>2. PICK at : at = NextStage(r)
    OBVIOUS
  <2>3. Goto(r, at)
    BY <1>4, <2>2 DEF Guard
  <2>4. CASE n = 26
    <3>1. at \in Progress /\ at.pc = "serving"
      BY <1>1, <2>2, <2>4, NextIsOnward
    <3>2. QED  BY <1>1, <2>3, <3>1, LooksOnly
  <2>5. CASE n # 26
    <3>1. at \in Progress /\ at.pc = "migrating" /\ at.stage = n + 1 /\ at.step = 0
      BY <1>1, <1>3, <2>2, <2>5, NextIsOnward
    <3>2. n + 1 \in Stage
      <4>1. n \in Int /\ n > 10 /\ n < 26
        BY <1>2, <1>3, <2>5
      <4>2. QED  BY <4>1 DEF Stage
    <3>3. ASSUME NEW m \in Stage \ {22}, at.stage > m, NEW j \in Places(m) PROVE Claimed(m, j)
      <4>1. m \in Int
        BY DEF Stage
      <4>2. CASE m < n
        BY <1>1, <4>2, PastStages
      <4>3. CASE m = n
        BY <1>2, <2>1, <4>3 DEF Claimed
      <4>4. QED  BY <1>3, <3>1, <3>3, <4>1, <4>2, <4>3
    <3>4. at.stage > 10
      BY <1>2, <1>3, <3>1
    <3>5. QED  BY <1>1, <2>3, <3>1, <3>2, <3>3, <3>4, LooksOnly
  <2>6. QED  BY <2>4, <2>5
<1>5. CASE ~(Newest(versions) >= n)
  <2>1. \A v \in versions : v < n
    BY <1>1, <1>3, <1>5, NewestAtLeast
  <2>2. PICK at : at = [start[r] EXCEPT !.step = 1]
    OBVIOUS
  <2>3. at \in Progress /\ at.pc = "migrating" /\ at.stage = n /\ at.step = 1
    BY <1>1, <1>2, <2>2 DEF Progress
  <2>4. Goto(r, at)
    BY <1>5, <2>2 DEF Guard
  <2>5. 1 \in Places(n)
    BY <1>2 DEF Places
  <2>6. QED  BY <1>1, <1>2, <2>1, <2>3, <2>4, <2>5, PastStages, LooksOnly
<1>6. QED  BY <1>4, <1>5

\* v22 is left out: nothing is claimed of it.
LEMMA SkipInv ==
    ASSUME MigrationsInv, ProgramAssumption, NEW r \in Replica, NEW at, at = NextStage(r), Goto(r, at),
           Extension(r), start[r].pc = "migrating", schema' = schema, versions' = versions
    PROVE  MigrationsInv'
<1>1. start[r].stage = 22 /\ start[r].step = 1 /\ MigrationsTypeOK
  BY DEF Extension, MigrationsInv
<1>2. at \in Progress /\ at.pc = "migrating" /\ at.stage = 23 /\ at.step = 0
  BY <1>1, NextIsOnward
<1>3. 23 \in Stage
  BY DEF Stage
<1>4. ASSUME NEW m \in Stage \ {22}, at.stage > m, NEW j \in Places(m) PROVE Claimed(m, j)
  <2>1. start[r].stage > m
    BY <1>1, <1>2, <1>4 DEF Stage
  <2>2. QED  BY <2>1, PastStages
<1>5. QED  BY <1>1, <1>2, <1>3, <1>4, LooksOnly

\* Versions are those of migrations.
LEMMA VersionsRecorded ==
    ASSUME MigrationsTypeOK, ProgramAssumption, NEW n \in Stage, NEW i \in Places(n),
           Takes(Program[n][i])
    PROVE  versions' \subseteq 8..26
<1>1. Program[n][i].version \in {0, n}
  BY DEF ProgramAssumption, VersionsLast
<1>2. n \in 8..26
  BY DEF Stage
<1>3. versions \subseteq 8..26
  BY DEF MigrationsTypeOK
<1>4. CASE versions' = versions
  BY <1>3, <1>4
<1>5. CASE versions' # versions
  <2>1. Program[n][i].version = n /\ versions' = versions \cup (IF n = 10 THEN {8, 9, 10} ELSE {n})
    BY <1>1, <1>5 DEF Takes
  <2>2. (IF n = 10 THEN {8, 9, 10} ELSE {n}) \subseteq 8..26
    BY <1>2
  <2>3. QED  BY <1>3, <2>1, <2>2
<1>6. QED  BY <1>4, <1>5

\* A statement is taken, and the start goes on.
LEMMA TakesAndGoesOn ==
    ASSUME MigrationsInv, ProgramAssumption, NEW r \in Replica, start[r].pc = "migrating",
           NEW n \in Stage, n = start[r].stage, NEW i \in Places(n), i = start[r].step,
           Takes(Program[n][i]), NEW at \in Progress, Goto(r, at), Onward(at, n, i),
           at.pc = "migrating" => at.met = start[r].met
    PROVE  MigrationsInv'
<1>1. Goes(r, at) /\ Met' /\ MigrationsTypeOK
  BY GotoGoes DEF MigrationsInv
<1>2. /\ n \in Int /\ n >= 10 /\ n <= 26 /\ i \in Int /\ i > 0 /\ Len(Program[n]) \in Nat
  <2>1. n \in Int /\ n >= 10 /\ n <= 26
    BY DEF Stage
  <2>2. Len(Program[n]) \in Nat
    BY DEF ProgramAssumption, VersionsLast
  <2>3. QED  BY <2>1, <2>2 DEF Places
<1>3. ASSUME at.pc = "migrating"
      PROVE  /\ at.stage \in Stage /\ at.step \in Places(at.stage) \cup {0}
             /\ at.step = 0 => at.stage > 10
             /\ at.step > 0 => at.stage = n /\ at.step = i + 1 /\ i < Len(Program[n])
  <2>1. CASE i < Len(Program[n]) /\ at.stage = n /\ at.step = i + 1
    <3>1. at.step \in Places(n) /\ at.step # 0
      BY <1>2, <2>1 DEF Places
    <3>2. QED  BY <2>1, <3>1
  <2>2. CASE n < 26 /\ at.stage = n + 1 /\ at.step = 0
    <3>1. n + 1 \in Stage /\ n + 1 > 10
      <4>1. n \in Int /\ n >= 10 /\ n < 26
        BY <1>2, <2>2
      <4>2. QED  BY <4>1 DEF Stage
    <3>2. QED  BY <2>2, <3>1
  <2>3. QED  BY <1>3, <2>1, <2>2 DEF Onward
<1>4. MigrationsTypeOK'
  BY <1>1, <1>3, VersionsRecorded, TypeStays
<1>5. Laid'
  BY <1>1, LaidForward DEF MigrationsInv
<1>6. Cleared'
  <2>1. at.pc = "migrating" /\ at.step > 1 => at.stage = n /\ at.step = i + 1
    <3>1. SUFFICES ASSUME at.pc = "migrating", at.step > 1 PROVE at.stage = n /\ at.step = i + 1
      OBVIOUS
    <3>2. at.step # 0
      BY <3>1
    <3>3. QED  BY <1>2, <3>1, <3>2 DEF Onward
  <2>2. QED  BY <1>1, <2>1, ClearedStays DEF MigrationsInv
<1>7. ASSUME at.pc = "migrating", ~at.met, at.stage > 10, at.step > 0
      PROVE  \A v \in versions' : v < at.stage
  <2>1. at.stage = n /\ i < Len(Program[n])
    BY <1>3, <1>7
  <2>2. \A v \in versions : v < n
    BY <1>7, <1>2, <2>1 DEF MigrationsInv, Alone
  <2>3. Program[n][i].version = 0
    BY <1>2, <2>1 DEF ProgramAssumption, VersionsLast
  <2>4. QED  BY <2>1, <2>2, <2>3 DEF Takes
<1>8. Alone'
  BY <1>1, <1>7, AloneStays DEF MigrationsInv
<1>9. QED  BY <1>1, <1>4, <1>5, <1>6, <1>8 DEF MigrationsInv

\* The statement a start is at.
LEMMA AtStatement ==
    ASSUME MigrationsInv, ProgramAssumption, NEW r \in Replica,
           start[r].pc = "migrating", start[r].step > 0
    PROVE  \E n \in Stage : \E i \in Places(n) :
               n = start[r].stage /\ i = start[r].step /\ Due(r) = Program[n][i]
BY WhereItIs DEF MigrationsInv, Due

\* A statement succeeds.
LEMMA ExecuteInv ==
    ASSUME MigrationsInv, ProgramAssumption, NEW r \in Replica, Execute(r)
    PROVE  MigrationsInv'
<1>1. start[r].pc = "migrating" /\ start[r].step > 0 /\ Takes(Due(r)) /\ MigrationsTypeOK
  BY DEF Execute, MigrationsInv
<1>2. PICK n \in Stage : \E i \in Places(n) :
          n = start[r].stage /\ i = start[r].step /\ Due(r) = Program[n][i]
  BY <1>1, AtStatement
<1>3. PICK i \in Places(n) : n = start[r].stage /\ i = start[r].step /\ Due(r) = Program[n][i]
  BY <1>2
<1>4. PICK at : at = NextStep(r)
  OBVIOUS
<1>5. Goto(r, at)
  BY <1>4 DEF Execute
<1>6. at \in Progress /\ Onward(at, n, i) /\ (at.pc = "migrating" => at.met = start[r].met)
  BY <1>1, <1>3, <1>4, NextIsOnward
<1>7. Takes(Program[n][i])
  BY <1>1, <1>3
<1>8. QED  BY <1>1, <1>3, <1>5, <1>6, <1>7, TakesAndGoesOn

\* A start stops at its statement, which is taken or is not.
LEMMA StopsInv ==
    ASSUME MigrationsInv, ProgramAssumption, NEW r \in Replica, Goto(r, Off),
           start[r].pc = "migrating", start[r].step > 0,
           \/ ~start[r].met /\ Takes(Due(r))
           \/ /\ schema' = schema /\ versions' = versions
              /\ ~start[r].met \/ ~Accepted(Due(r))
    PROVE  MigrationsInv'
<1>1. Off \in Progress /\ Off.pc = "down" /\ MigrationsTypeOK
  BY OffIsProgress DEF MigrationsInv
<1>2. Goes(r, Off) /\ Met'
  BY <1>1, GotoGoes DEF MigrationsInv
<1>3. PICK n \in Stage : \E i \in Places(n) :
          n = start[r].stage /\ i = start[r].step /\ Due(r) = Program[n][i]
  BY AtStatement
<1>4. PICK i \in Places(n) : n = start[r].stage /\ i = start[r].step /\ Due(r) = Program[n][i]
  BY <1>3
<1>5. MigrationsTypeOK' /\ Alone' /\ Cleared'
  <2>1. versions' \subseteq 8..26
    BY <1>1, <1>4, VersionsRecorded DEF MigrationsTypeOK
  <2>2. MigrationsTypeOK'
    BY <1>1, <1>2, <2>1, TypeStays
  <2>3. Alone'
    BY <1>1, <1>2, AloneStays DEF MigrationsInv
  <2>4. schema' = schema \/ Takes(Program[n][i])
    BY <1>4
  <2>5. Cleared'
    BY <1>1, <1>2, <2>4, ClearedStays DEF MigrationsInv
  <2>6. QED  BY <2>2, <2>3, <2>5
<1>6. CASE ~start[r].met
  <2>1. Takes(Program[n][i]) \/ (schema' = schema /\ versions' = versions)
    BY <1>4
  <2>2. Laid'
    BY <1>1, <1>2, <1>4, <1>6, <2>1, LaidAbandoned DEF MigrationsInv
  <2>3. QED  BY <1>2, <1>5, <2>2 DEF MigrationsInv
<1>7. CASE start[r].met
  <2>1. schema' = schema /\ versions' = versions /\ ~Accepted(Due(r))
    BY <1>7
  <2>2. \A o : \A m \in Stage \ {22} : \A j \in Places(m) :
            InGap(r, o) /\ o \in Sure(Program[m][j]) => o \in schema
    BY <2>1, RefusedWhereThere DEF MigrationsInv
  <2>3. Laid'
    BY <1>1, <1>2, <2>1, <2>2, LaidStill DEF MigrationsInv
  <2>4. QED  BY <1>2, <1>5, <2>3 DEF MigrationsInv
<1>8. QED  BY <1>6, <1>7

\* A statement is refused, fails, or the process dies.
LEMMA FailsInv ==
    ASSUME MigrationsInv, ProgramAssumption, ~TornStarts, NEW r \in Replica,
           SkipEmbeddings(r) \/ Reject(r) \/ StatementFails(r) \/ Crash(r)
    PROVE  MigrationsInv'
<1>1. CASE SkipEmbeddings(r)
  <2>1. PICK at : at = NextStage(r)
    OBVIOUS
  <2>2. QED  BY <1>1, <2>1, SkipInv DEF SkipEmbeddings
<1>2. CASE Reject(r)
  BY <1>2, StopsInv DEF Reject
<1>3. CASE StatementFails(r)
  <2>1. /\ start[r].pc = "migrating" /\ start[r].step > 0 /\ ~start[r].met
        /\ (schema' = schema /\ versions' = versions) \/ Takes(Due(r))
    BY <1>3 DEF StatementFails, MayDie
  <2>2. CASE Extension(r)
    <3>1. PICK at : at = NextStage(r)
      OBVIOUS
    <3>2. Goto(r, at)
      BY <1>3, <2>2, <3>1 DEF StatementFails
    <3>3. CASE schema' = schema /\ versions' = versions
      BY <2>1, <2>2, <3>1, <3>2, <3>3, SkipInv
    <3>4. CASE Takes(Due(r))
      <4>1. PICK n \in Stage : \E i \in Places(n) :
                n = start[r].stage /\ i = start[r].step /\ Due(r) = Program[n][i]
        BY <2>1, AtStatement
      <4>2. PICK i \in Places(n) : n = start[r].stage /\ i = start[r].step /\ Due(r) = Program[n][i]
        BY <4>1
      <4>3. n = 22
        BY <2>2, <4>2 DEF Extension
      <4>4. /\ NextStage(r) \in Progress /\ Onward(NextStage(r), 22, i)
            /\ 22 < 26 => NextStage(r).met = start[r].met
        <5>1. MigrationsTypeOK
          BY DEF MigrationsInv
        <5>2. 22 = start[r].stage
          BY <4>2, <4>3
        <5>3. QED  BY <2>1, <4>2, <5>1, <5>2, NextIsOnward
      <4>5. Takes(Program[n][i])
        BY <3>4, <4>2
      <4>6. at \in Progress /\ Onward(at, n, i) /\ at.met = start[r].met
        BY <3>1, <4>3, <4>4
      <4>7. QED  BY <2>1, <3>2, <4>2, <4>5, <4>6, TakesAndGoesOn
    <3>5. QED  BY <2>1, <3>3, <3>4
  <2>3. CASE ~Extension(r)
    <3>1. Goto(r, Off)
      BY <1>3, <2>3 DEF StatementFails
    <3>2. QED  BY <2>1, <3>1, StopsInv
  <2>4. QED  BY <2>2, <2>3
<1>4. CASE Crash(r)
  <2>1. Goto(r, Off) /\ ~start[r].met /\ schema' = schema /\ versions' = versions
    BY <1>4 DEF Crash, MayDie
  <2>2. CASE start[r].pc = "migrating" /\ start[r].step > 0
    BY <2>1, <2>2, StopsInv
  <2>3. CASE start[r].pc = "migrating" => start[r].step <= 1
    BY <2>1, <2>3, OffIsProgress, LooksOnly
  <2>4. start[r].pc = "migrating" => start[r].step \in Nat
    BY WhereItIs DEF MigrationsInv
  <2>5. QED  BY <2>2, <2>3, <2>4
<1>5. QED  BY <1>1, <1>2, <1>3, <1>4

\* A fresh database, or one that a release left.
LEMMA MigrationsBegin == MigrationsInit => MigrationsInv
<1> SUFFICES ASSUME MigrationsInit PROVE MigrationsInv
  OBVIOUS
<1>1. start = [r \in Replica |-> Off] /\ Off \in Progress /\ Off.pc = "down"
  BY OffIsProgress DEF MigrationsInit
<1>2. \A r \in Replica : start[r].pc = "down"
  BY <1>1
<1>3. \/ schema = {} /\ versions = {}
      \/ \E release \in Releases \ {0} :
            /\ schema = Before(release) \ (IF vector THEN {} ELSE WithoutVector)
            /\ versions = Recorded(release, vector)
  BY DEF MigrationsInit
<1>4. vector \in BOOLEAN
  BY DEF MigrationsInit
<1>5. versions \subseteq 8..26
  BY <1>3, <1>4, ReleaseAssumption
<1>6. MigrationsTypeOK
  BY <1>1, <1>2, <1>5 DEF MigrationsTypeOK
<1>7. Laid
  <2> SUFFICES ASSUME NEW m \in Stage \ {22}, NEW j \in Places(m), Claimed(m, j)
               PROVE  Sure(Program[m][j]) \subseteq schema
    BY DEF Laid
  <2>1. m > 10 /\ \E v \in versions : v >= m
    BY <1>2 DEF Claimed, Past
  <2>2. m \in Stage \ {10, 22}
    BY <2>1
  <2>3. QED  BY <1>3, <1>4, <2>1, <2>2, ReleaseAssumption
<1>8. Met /\ Alone /\ Cleared
  BY <1>2 DEF Met, Alone, Cleared, Under
<1>9. QED  BY <1>6, <1>7, <1>8 DEF MigrationsInv

\* Every step keeps the invariant, if no start dies beside another.
LEMMA MigrationsStep ==
    ASSUME ~TornStarts, MigrationsInv, [MigrationsNext]_migrationVars
    PROVE  MigrationsInv'
<1>1. CASE UNCHANGED <<schema, versions, start>>
  BY <1>1 DEF MigrationsInv, MigrationsTypeOK, Met, Alone, Laid, Cleared, Under, Claimed, Past, InGap
<1>2. InstallVector \/ OldReplicaDismisses \/ UNCHANGED migrationVars => UNCHANGED <<schema, versions, start>>
  BY Zenon DEF InstallVector, OldReplicaDismisses, migrationVars
<1>3. ASSUME NEW r \in Replica, StartStep(r) \/ ConnectFails(r) \/ StatementFails(r) \/ Crash(r)
      PROVE  MigrationsInv'
  BY <1>3, ProgramAssumption, StartAssumption, Unstarted, GuardInv, ExecuteInv, FailsInv, Zenon
     DEF StartStep
<1>4. QED  BY <1>1, <1>2, <1>3, Zenon DEF MigrationsNext

\* What the migrations up to the highest recorded version were to add is there
\* when no start is under way (src/src/db/migrations.rs, run_migrations), for any
\* number of replicas that start at once, crashes and failing statements, from a
\* fresh database or any release that left what it had recorded.
THEOREM NothingIsSkipped ==
    ASSUME ~TornStarts
    PROVE  MigrationsSpec => []NothingSkipped
<1>1. MigrationsInv => NothingSkipped
  <2> SUFFICES ASSUME MigrationsInv, \A r \in Replica : ~Under(r),
                      NEW n \in 11..Newest(versions), n # 22, NEW o \in Gives(n)
               PROVE  o \in schema
    BY DEF NothingSkipped
  <2>1. versions \subseteq 8..26 /\ MigrationsTypeOK
    BY DEF MigrationsInv, MigrationsTypeOK
  <2>2. n \in Int /\ n >= 11 /\ n > 0 /\ Newest(versions) >= n
    OBVIOUS
  <2>3. PICK v \in versions : v >= n
    BY <2>1, <2>2, NewestAtLeast
  <2>4. n \in Stage \ {10, 22}
    BY <2>1, <2>2, <2>3 DEF Stage
  <2>5. PICK i \in Places(n) : o \in Sure(Program[n][i])
    BY <2>4, ProgramAssumption DEF GivenForSure
  <2>6. Claimed(n, i)
    BY <2>2, <2>3 DEF Claimed
  <2>7. o \in schema \/ \E q \in Replica : InGap(q, o)
    BY <2>4, <2>5, <2>6 DEF MigrationsInv, Laid
  <2>8. QED  BY <2>7 DEF InGap, Under
<1>2. QED  BY <1>1, MigrationsBegin, MigrationsStep, PTL DEF MigrationsSpec
=============================================================================
