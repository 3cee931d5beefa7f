----------------------------- MODULE ConfigCache -----------------------------
(***************************************************************************)
(* The settings of a deployment (src/db/config.rs): one table app_config   *)
(* and, in each replica, a cache with a lifetime.  A request looks into    *)
(* the cache of its replica, asks the database when it must, and then      *)
(* fills the cache; a change writes the table first and the cache after    *)
(* it.  Statement and cache update are separate steps, since the handler   *)
(* awaits the database in between.  A replica that starts copies settings  *)
(* of its environment that the table lacks into it (src/serve.rs).         *)
(*                                                                         *)
(* Left out: the copies in the process environment, the values' formats,   *)
(* and invalidate_config_cache, which only tests call.                     *)
(***************************************************************************)
EXTENDS Integers

CONSTANTS
    Replica, Key, Value,
    Task,           \* requests that may be under way at once
    Absent,         \* what the table holds of a key without a row
    SyncKeys,       \* the keys of SYNC_KEYS and ENV_MIRROR_KEYS that the
    MirrorKeys,     \*   environment of the deployment sets
    Host,           \* Host[k] : the value it sets
    TTL,            \* lifetime of what is cached, 0 for no cache
    Flight,         \* the longest a statement may take to be answered
    MaxWrites,      \* bound on the changes users make
    MaxRestarts     \* bound on the restarts

Held == Value \cup {Absent}
AgedCap == TTL + 2 * Flight + 1
Seeds == {"sync"} \X SyncKeys \cup {"mirror"} \X MirrorKeys

ASSUME ReplicaAssumption == Replica # {}
ASSUME ValueAssumption == Absent \notin Value /\ Host \in [Key -> Value]
ASSUME KeysAssumption == SyncKeys \subseteq Key /\ MirrorKeys \subseteq Key
ASSUME TimeAssumption == TTL \in Nat /\ Flight \in Nat
ASSUME BoundAssumption == MaxWrites \in Nat /\ MaxRestarts \in Nat

VARIABLES
    table,      \* table[k] : the row of app_config
    aged,       \* aged[k][v] : ticks since table[k] last was v (history)
    cache,      \* cache[r][k] : what replica r has cached of k, and its age
    full,       \* full[r] : age of its last snapshot of the whole table
    todo, up,   \* what a starting replica has yet to copy; does it serve?
    req,        \* the requests under way
    writes, restarts

vars == <<table, aged, cache, full, todo, up, req, writes, restarts>>

Ages == 0 .. TTL + 1
Entry == [value : Held, age : Ages]
\* No entry is as good as an expired one of an absent key: neither is a hit,
\* and a fresh snapshot answers None for both.
NoEntry == [value |-> Absent, age |-> TTL + 1]

Kind == {"get", "all", "set", "seed", "blind", "warm"}
Pc == {"idle", "read", "fill", "write", "through"}
\* rows : what the statement read, or is to write, of the keys it is about
Req == [pc : Pc, kind : Kind, at : Replica, keys : SUBSET Key, rows : [Key -> Held],
        flight : 0 .. Flight]
NoRows == [k \in Key |-> Absent]

Busy(t) == req[t].pc # "idle"
NoReq == [pc |-> "idle", kind |-> "get", at |-> CHOOSE r \in Replica : TRUE, keys |-> {},
          rows |-> NoRows, flight |-> 0]

TypeOK ==
    /\ table \in [Key -> Held]
    /\ aged \in [Key -> [Held -> 0 .. AgedCap]]
    /\ cache \in [Replica -> [Key -> Entry]]
    /\ full \in [Replica -> Ages]
    /\ todo \in [Replica -> SUBSET Seeds]
    /\ up \in [Replica -> BOOLEAN]
    /\ req \in [Task -> Req]
    /\ writes \in 0 .. MaxWrites
    /\ restarts \in 0 .. MaxRestarts

Init ==
    /\ table = NoRows
    /\ aged = [k \in Key |-> [v \in Held |-> IF v = Absent THEN 0 ELSE AgedCap]]
    /\ cache = [r \in Replica |-> [k \in Key |-> NoEntry]]
    /\ full = [r \in Replica |-> TTL + 1]
    /\ todo = [r \in Replica |-> Seeds]
    /\ up = [r \in Replica |-> FALSE]
    /\ req = [t \in Task |-> NoReq]
    /\ writes = 0
    /\ restarts = 0

-----------------------------------------------------------------------------
(* The cache of a replica.                                                 *)

Fresh(age) == TTL > 0 /\ age <= TTL
\* a fresh snapshot answers for every key, the keys without an entry included
Hit(r, k) == Fresh(full[r]) \/ Fresh(cache[r][k].age)
Lookup(r, k) == cache[r][k].value
HitAll(r) == Fresh(full[r])

Put(r, keys, rows) ==
    /\ cache' = IF TTL = 0 THEN cache
                ELSE [cache EXCEPT ![r] = [k \in Key |->
                        IF k \in keys THEN [value |-> rows[k], age |-> 0] ELSE cache[r][k]]]
    /\ UNCHANGED full

\* Mutant: a snapshot leaves older entries where they are
PutAllKeeping(r, rows) ==
    IF TTL = 0 THEN UNCHANGED <<cache, full>>
    ELSE /\ cache' = [cache EXCEPT ![r] = [k \in Key |->
                        IF rows[k] = Absent THEN cache[r][k] ELSE [value |-> rows[k], age |-> 0]]]
         /\ full' = [full EXCEPT ![r] = 0]

\* The snapshot takes the place of every entry there was.
PutAll(r, rows) ==
    IF TTL = 0 THEN UNCHANGED <<cache, full>>
    ELSE /\ cache' = [cache EXCEPT ![r] = [k \in Key |->
                        IF rows[k] = Absent THEN NoEntry ELSE [value |-> rows[k], age |-> 0]]]
         /\ full' = [full EXCEPT ![r] = 0]

-----------------------------------------------------------------------------
(* Requests and what they begin with.  A lookup that hits is answered at   *)
(* once and changes nothing, so there is no step for it.                   *)

Issue(t, r, pc, kind, keys, rows) ==
    req' = [req EXCEPT ![t] = [pc |-> pc, kind |-> kind, at |-> r, keys |-> keys,
                               rows |-> rows, flight |-> 0]]

GetConfig(t, r, k) ==
    /\ up[r] /\ ~Busy(t) /\ ~Hit(r, k)
    /\ Issue(t, r, "read", "get", {k}, NoRows)
    /\ UNCHANGED <<table, aged, cache, full, todo, up, writes, restarts>>

GetAllConfig(t, r) ==
    /\ up[r] /\ ~Busy(t) /\ ~HitAll(r)
    /\ Issue(t, r, "read", "all", Key, NoRows)
    /\ UNCHANGED <<table, aged, cache, full, todo, up, writes, restarts>>

\* Mutant: a change goes into the cache without waiting for the table
SetConfigCacheFirst(t, r, k, v) ==
    /\ up[r] /\ ~Busy(t) /\ writes < MaxWrites
    /\ Issue(t, r, "through", "set", {k}, [NoRows EXCEPT ![k] = v])
    /\ writes' = writes + 1
    /\ UNCHANGED <<table, aged, cache, full, todo, up, restarts>>

\* set_config, or delete_config when v is Absent
SetConfig(t, r, k, v) ==
    /\ up[r] /\ ~Busy(t) /\ writes < MaxWrites
    /\ Issue(t, r, "write", "set", {k}, [NoRows EXCEPT ![k] = v])
    /\ writes' = writes + 1
    /\ UNCHANGED <<table, aged, cache, full, todo, up, restarts>>

\* A starting replica serves nobody and takes one step of its list at a time.
Starting(t, r) == ~up[r] /\ ~Busy(t) /\ \A u \in Task : Busy(u) => req[u].at # r

\* Mutant: a seed looks at the environment only
SeedAlways(t, r, s) ==
    /\ Starting(t, r) /\ s \in todo[r]
    /\ todo' = [todo EXCEPT ![r] = @ \ {s}]
    /\ Issue(t, r, "write", "seed", {s[2]}, [NoRows EXCEPT ![s[2]] = Host[s[2]]])
    /\ UNCHANGED <<table, aged, cache, full, up, writes, restarts>>

Seed(t, r, s) ==
    /\ Starting(t, r) /\ s \in todo[r]
    /\ todo' = [todo EXCEPT ![r] = @ \ {s}]
    /\ IF ~Hit(r, s[2]) THEN Issue(t, r, "read", "seed", {s[2]}, NoRows)
       ELSE IF Lookup(r, s[2]) = Absent
            THEN Issue(t, r, "write", "seed", {s[2]}, [NoRows EXCEPT ![s[2]] = Host[s[2]]])
            ELSE UNCHANGED req
    /\ UNCHANGED <<table, aged, cache, full, up, writes, restarts>>

\* apply_db_to_env fetches the whole table; there is no snapshot to hit yet.
ApplyDbToEnv(t, r) ==
    /\ Starting(t, r) /\ todo[r] = {}
    /\ Issue(t, r, "read", "warm", Key, NoRows)
    /\ UNCHANGED <<table, aged, cache, full, todo, up, writes, restarts>>

-----------------------------------------------------------------------------
(* The statements and what follows their answers.                          *)

\* the request of t ends; a starting replica serves after its last fetch
Done(t) ==
    /\ req' = [req EXCEPT ![t] = NoReq]
    /\ up' = IF req[t].kind = "warm" THEN [up EXCEPT ![req[t].at] = TRUE] ELSE up

SeedNow(t, kind) ==
    /\ Issue(t, req[t].at, "write", kind, req[t].keys,
             [k \in Key |-> IF k \in req[t].keys THEN Host[k] ELSE Absent])
    /\ UNCHANGED up

Select(t) ==
    /\ req[t].pc = "read"
    /\ req' = [req EXCEPT ![t].pc = "fill",
                          ![t].rows = [k \in Key |-> IF k \in req[t].keys THEN table[k] ELSE Absent]]
    /\ UNCHANGED <<table, aged, cache, full, todo, up, writes, restarts>>

Fill(t) ==
    /\ req[t].pc = "fill"
    /\ IF req[t].kind \in {"all", "warm"} THEN PutAll(req[t].at, req[t].rows)
       ELSE Put(req[t].at, req[t].keys, req[t].rows)
    /\ IF req[t].kind = "seed" /\ \A k \in req[t].keys : req[t].rows[k] = Absent
       THEN SeedNow(t, "seed") ELSE Done(t)
    /\ UNCHANGED <<table, aged, todo, writes, restarts>>

\* An error ends the request, but a seed takes it for a missing key.  A
\* client that hangs up ends its request like an error.
SelectFails(t) ==
    /\ req[t].pc = "read"
    /\ IF req[t].kind = "seed" THEN SeedNow(t, "blind") ELSE Done(t)
    /\ UNCHANGED <<table, aged, cache, full, todo, writes, restarts>>

Upsert(t) ==
    /\ req[t].pc = "write"
    /\ table' = [k \in Key |-> IF k \in req[t].keys THEN req[t].rows[k] ELSE table[k]]
    /\ aged' = [k \in Key |-> [aged[k] EXCEPT ![table'[k]] = 0]]
    /\ req' = [req EXCEPT ![t].pc = "through"]
    /\ UNCHANGED <<cache, full, todo, up, writes, restarts>>

WriteThrough(t) ==
    /\ req[t].pc = "through"
    /\ Put(req[t].at, req[t].keys, req[t].rows)
    /\ Done(t)
    /\ UNCHANGED <<table, aged, todo, writes, restarts>>

\* The statement fails, or it took effect and its answer is lost.
UpsertFails(t) ==
    /\ req[t].pc \in {"write", "through"}
    /\ Done(t)
    /\ UNCHANGED <<table, aged, cache, full, todo, writes, restarts>>

-----------------------------------------------------------------------------
Restart(r) ==
    /\ restarts < MaxRestarts
    /\ restarts' = restarts + 1
    /\ cache' = [cache EXCEPT ![r] = [k \in Key |-> NoEntry]]
    /\ full' = [full EXCEPT ![r] = TTL + 1]
    /\ todo' = [todo EXCEPT ![r] = Seeds]
    /\ up' = [up EXCEPT ![r] = FALSE]
    /\ req' = [t \in Task |-> IF req[t].at = r THEN NoReq ELSE req[t]]
    /\ UNCHANGED <<table, aged, writes>>

Older(age, cap) == IF age < cap THEN age + 1 ELSE age

\* Time passes, unless a statement is due.
Tick ==
    /\ \A t \in Task : Busy(t) => req[t].flight < Flight
    /\ aged' = [k \in Key |-> [v \in Held |->
                   IF v = table[k] THEN 0 ELSE Older(aged[k][v], AgedCap)]]
    /\ cache' = [r \in Replica |-> [k \in Key |-> [cache[r][k] EXCEPT !.age = Older(@, TTL + 1)]]]
    /\ full' = [r \in Replica |-> Older(full[r], TTL + 1)]
    /\ req' = [t \in Task |-> IF Busy(t) THEN [req[t] EXCEPT !.flight = @ + 1] ELSE req[t]]
    /\ UNCHANGED <<table, todo, up, writes, restarts>>

Begin(t) == \E r \in Replica :
    \/ \E k \in Key : GetConfig(t, r, k) \/ (\E v \in Held : SetConfig(t, r, k, v))
    \/ GetAllConfig(t, r)
    \/ \E s \in Seeds : Seed(t, r, s)
    \/ ApplyDbToEnv(t, r)
Answer(t) == Select(t) \/ Fill(t) \/ SelectFails(t) \/ Upsert(t) \/ WriteThrough(t) \/ UpsertFails(t)

Next ==
    \/ \E t \in Task : Begin(t) \/ Answer(t)
    \/ \E r \in Replica : Restart(r)
    \/ Tick

Spec == Init /\ [][Next]_vars

-----------------------------------------------------------------------------
(* Properties.                                                             *)

\* Bounded staleness ("a write on another replica becomes visible here within
\* this window"): what any lookup answers was in the table at most one lifetime
\* and one statement ago, whatever fills, snapshots, deletions and restarts
\* raced; None is no exception.
FreshEnough == \A r \in Replica, k \in Key : Hit(r, k) => aged[k][Lookup(r, k)] <= TTL + Flight

\* A starting replica copies its environment over a setting, unless its read
\* failed, only if the table lacked the setting a moment ago: the check and the
\* write are two statements, and the check may have come from the cache.
SeedsWhatWasMissing ==
    \A t \in Task : req[t].pc = "write" /\ req[t].kind = "seed" =>
        \A k \in req[t].keys : aged[k][Absent] <= TTL + 2 * Flight

\* A replica that sees the current value of a setting keeps seeing it until it
\* is changed ("Write-through so this process sees the change immediately").
StaysSeen ==
    [][\A r \in Replica, k \in Key :
          Hit(r, k) /\ Lookup(r, k) = table[k] /\ table'[k] = table[k] /\ Hit(r, k)'
              => Lookup(r, k)' = table'[k]]_vars

(* The inductive invariant, by parts.                                      *)

NowIsNew == \A k \in Key : aged[k][table[k]] = 0
\* an entry was current when the statement that filled it was under way
EntriesFresh == \A r \in Replica, k \in Key :
    Fresh(cache[r][k].age) => aged[k][Lookup(r, k)] <= cache[r][k].age + Flight
\* a key without an entry was absent then; no entry is older than the snapshot
SnapshotsFresh == \A r \in Replica, k \in Key : Fresh(full[r]) =>
    IF Lookup(r, k) = Absent THEN aged[k][Absent] <= full[r] + Flight
    ELSE cache[r][k].age <= full[r]
\* what a request is about to cache was current since it was issued
AnswersFresh == \A t \in Task : req[t].pc \in {"fill", "through"} =>
    \A k \in req[t].keys : aged[k][req[t].rows[k]] <= req[t].flight
SeedsFresh == \A t \in Task : req[t].pc = "write" /\ req[t].kind = "seed" =>
    \A k \in req[t].keys : aged[k][Absent] <= TTL + Flight + req[t].flight
WholeSnapshots == \A t \in Task : req[t].kind \in {"all", "warm"} =>
    req[t].keys = Key /\ req[t].pc \in {"read", "fill"}

\* What get_config, get_all_config, set_config and delete_config maintain between
\* them: values, entries and answers are as recent as their ages say.
IInv == TypeOK /\ NowIsNew /\ EntriesFresh /\ SnapshotsFresh /\ AnswersFresh /\ SeedsFresh
        /\ WholeSnapshots
=============================================================================
