-------------------------- MODULE ConfigCacheProofs --------------------------
(***************************************************************************)
(* Proofs about ConfigCache, for any replicas, keys, values, requests and  *)
(* lifetimes: IInv is inductive, and with it whatever a lookup answers is  *)
(* at most one lifetime and one statement old.                             *)
(*                                                                         *)
(* And about AppSetup, what owners switch off in the settings: SetupInv is *)
(* inductive.  A replica where the App was deleted has no id left to find, *)
(* and one that was to be offline has the table, or the environment, or    *)
(* its own flag to say so, whatever step of its start it has come to.      *)
(***************************************************************************)
EXTENDS ConfigCache, AppSetup, TLAPS

\* What IInv says of one request, given the ages a of the values.
Sane(q, a) ==
    /\ q \in Req
    /\ q.pc \in {"fill", "through"} => \A k \in q.keys : a[k][q.rows[k]] <= q.flight
    /\ q.pc = "write" /\ q.kind = "seed" =>
          \A k \in q.keys : a[k][Absent] <= TTL + Flight + q.flight
    /\ q.kind \in {"all", "warm"} => q.keys = Key /\ q.pc \in {"read", "fill"}

\* What IInv says of table and caches.
CachesFresh == NowIsNew /\ EntriesFresh /\ SnapshotsFresh

\* The invariant, request by request.
LEMMA Split ==
  IInv <=> TypeOK /\ CachesFresh /\ \A t \in Task : Sane(req[t], aged)
BY DEF IInv, CachesFresh, Sane, AnswersFresh, SeedsFresh, WholeSnapshots, TypeOK

LEMMA Joined ==
  ASSUME TypeOK', CachesFresh', \A t \in Task : Sane(req'[t], aged')
  PROVE  IInv'
BY DEF IInv, CachesFresh, Sane, AnswersFresh, SeedsFresh, WholeSnapshots

\* Bounded staleness follows: a fresh snapshot makes the entries in it fresh.
LEMMA FreshFollows == IInv => FreshEnough
<1> SUFFICES ASSUME IInv, NEW r \in Replica, NEW k \in Key, Hit(r, k)
             PROVE  aged[k][Lookup(r, k)] <= TTL + Flight
  BY DEF FreshEnough
<1> USE TimeAssumption
<1>1. /\ full[r] \in Nat /\ cache[r][k].age \in Nat /\ Lookup(r, k) \in Held
      /\ aged[k][Lookup(r, k)] \in Nat
  BY DEF IInv, TypeOK, Ages, Entry, Lookup, AgedCap
<1>2. CASE Fresh(cache[r][k].age)
  BY <1>1, <1>2 DEF IInv, EntriesFresh, Fresh
<1>3. CASE Fresh(full[r]) /\ Lookup(r, k) = Absent
  BY <1>1, <1>3 DEF IInv, SnapshotsFresh, Fresh
<1>4. CASE Fresh(full[r]) /\ Lookup(r, k) # Absent
  <2>1. Fresh(cache[r][k].age)
    BY <1>1, <1>4 DEF IInv, SnapshotsFresh, Fresh
  <2> QED
    BY <2>1, <1>2
<1> QED
  BY <1>2, <1>3, <1>4 DEF Hit

-----------------------------------------------------------------------------
\* Steps of one request.

\* The other requests keep what IInv says of them when no value gets older.
LEMMA OthersSane ==
  ASSUME IInv, NEW t \in Task, NEW q, Sane(q, aged'), req' = [req EXCEPT ![t] = q],
         aged' \in [Key -> [Held -> 0 .. AgedCap]],
         \A k \in Key, v \in Held : aged'[k][v] <= aged[k][v]
  PROVE  /\ req' \in [Task -> Req]
         /\ \A u \in Task : Sane(req'[u], aged')
<1> USE TimeAssumption
<1>1. req \in [Task -> Req] /\ aged \in [Key -> [Held -> 0 .. AgedCap]]
  BY DEF IInv, TypeOK
<1>2. req' \in [Task -> Req]
  BY <1>1 DEF Sane
<1>3. ASSUME NEW u \in Task PROVE Sane(req'[u], aged')
  <2>1. CASE u = t
    BY <2>1, <1>1
  <2>2. CASE u # t
    <3>1. req'[u] = req[u] /\ Sane(req[u], aged) /\ req[u] \in Req
      BY <2>2, <1>1, Split
    <3>2. /\ req[u].keys \subseteq Key /\ req[u].rows \in [Key -> Held] /\ Absent \in Held
          /\ req[u].flight \in Nat
      BY <3>1 DEF Req, Held
    <3>3. \A k \in Key, v \in Held : aged[k][v] \in Nat /\ aged'[k][v] \in Nat
      BY <1>1 DEF AgedCap
    <3>4. ASSUME req[u].pc \in {"fill", "through"}, NEW k \in req[u].keys
          PROVE  aged'[k][req[u].rows[k]] <= req[u].flight
      <4>1. k \in Key /\ req[u].rows[k] \in Held /\ aged[k][req[u].rows[k]] <= req[u].flight
        BY <3>1, <3>2, <3>4 DEF Sane
      <4> QED
        BY <4>1, <3>2, <3>3
    <3>5. ASSUME req[u].pc = "write", req[u].kind = "seed", NEW k \in req[u].keys
          PROVE  aged'[k][Absent] <= TTL + Flight + req[u].flight
      <4>1. k \in Key /\ aged[k][Absent] <= TTL + Flight + req[u].flight
        BY <3>1, <3>2, <3>5 DEF Sane
      <4> QED
        BY <4>1, <3>2, <3>3
    <3> QED
      BY <3>1, <3>4, <3>5 DEF Sane
  <2> QED
    BY <2>1, <2>2
<1> QED
  BY <1>2, <1>3

\* A request that has ended claims nothing.
LEMMA EndSane == ASSUME NEW a PROVE Sane(NoReq, a)
BY TimeAssumption, ReplicaAssumption DEF Sane, NoReq, Req, Pc, Kind, NoRows, Held

\* A request that is issued has nothing to claim unless it is a seed.
LEMMA IssueSane ==
  ASSUME NEW t \in Task, NEW r \in Replica, NEW pc \in {"read", "write"}, NEW kind \in Kind,
         NEW keys \in SUBSET Key, NEW answer \in [Key -> Held], NEW a, Issue(t, r, pc, kind, keys, answer),
         kind \in {"all", "warm"} => pc = "read" /\ keys = Key,
         pc = "write" /\ kind = "seed" => \A k \in keys : a[k][Absent] <= TTL + Flight,
         \A k \in Key : a[k][Absent] \in Nat
  PROVE  \E q : Sane(q, a) /\ req' = [req EXCEPT ![t] = q]
<1> DEFINE q == [pc |-> pc, kind |-> kind, at |-> r, keys |-> keys, rows |-> answer, flight |-> 0]
<1>1. q \in Req
  BY TimeAssumption DEF Req, Pc
<1>2. Sane(q, a)
  BY <1>1, TimeAssumption DEF Sane
<1> QED
  BY <1>2 DEF Issue

\* Caches that are left alone stay fresh.
LEMMA CachesStay ==
  ASSUME CachesFresh, UNCHANGED <<table, aged, cache, full>>
  PROVE  CachesFresh'
BY DEF CachesFresh, NowIsNew, EntriesFresh, SnapshotsFresh, Fresh, Lookup

-----------------------------------------------------------------------------
\* Filling a cache.

\* Rows at most one statement old keep a cache fresh.
LEMMA PutFresh ==
  ASSUME IInv, UNCHANGED <<table, aged>>, NEW r \in Replica, NEW keys \in SUBSET Key,
         NEW answer \in [Key -> Held], Put(r, keys, answer),
         \A k \in keys : aged[k][answer[k]] <= Flight
  PROVE  /\ cache' \in [Replica -> [Key -> Entry]] /\ full' \in [Replica -> Ages]
         /\ CachesFresh'
<1> USE TimeAssumption
<1>1. CASE TTL = 0
  <2>1. UNCHANGED <<table, aged, cache, full>>
    BY <1>1 DEF Put
  <2> QED
    BY <2>1, CachesStay, Split DEF IInv, TypeOK
<1>2. CASE TTL # 0
  <2> DEFINE new == [k \in Key |-> IF k \in keys THEN [value |-> answer[k], age |-> 0] ELSE cache[r][k]]
  <2>0. /\ cache \in [Replica -> [Key -> Entry]] /\ full \in [Replica -> Ages]
        /\ aged \in [Key -> [Held -> 0 .. AgedCap]]
    BY DEF IInv, TypeOK
  <2>1. cache' = [cache EXCEPT ![r] = new] /\ full' = full
    BY <1>2 DEF Put
  <2>2. new \in [Key -> Entry]
    BY <2>0 DEF Entry, Ages
  <2>3. cache' \in [Replica -> [Key -> Entry]]
    BY <2>0, <2>1, <2>2
  <2>4. ASSUME NEW s \in Replica, NEW k \in Key
        PROVE  \/ cache'[s][k] = cache[s][k]
               \/ s = r /\ k \in keys /\ cache'[s][k] = [value |-> answer[k], age |-> 0]
    BY <2>0, <2>1
  <2>5. EntriesFresh'
    <3> SUFFICES ASSUME NEW s \in Replica, NEW k \in Key, Fresh(cache'[s][k].age)
                 PROVE  aged[k][cache'[s][k].value] <= cache'[s][k].age + Flight
      BY DEF EntriesFresh, Lookup, Fresh
    <3>1. CASE cache'[s][k] = cache[s][k]
      BY <3>1 DEF IInv, EntriesFresh, Lookup
    <3>2. CASE s = r /\ k \in keys /\ cache'[s][k] = [value |-> answer[k], age |-> 0]
      BY <3>2
    <3> QED
      BY <3>1, <3>2, <2>4
  <2>6. SnapshotsFresh'
    <3> SUFFICES ASSUME NEW s \in Replica, NEW k \in Key, Fresh(full[s])
                 PROVE  IF cache'[s][k].value = Absent THEN aged[k][Absent] <= full[s] + Flight
                        ELSE cache'[s][k].age <= full[s]
      BY <2>1 DEF SnapshotsFresh, Lookup, Fresh
    <3>0. full[s] \in Nat
      BY <2>0 DEF Ages
    <3>1. CASE cache'[s][k] = cache[s][k]
      BY <3>1 DEF IInv, SnapshotsFresh, Lookup
    <3>2. CASE s = r /\ k \in keys /\ cache'[s][k] = [value |-> answer[k], age |-> 0]
      <4>1. aged[k][answer[k]] \in Nat /\ aged[k][answer[k]] <= Flight
        BY <3>2, <2>0 DEF AgedCap
      <4> QED
        BY <3>0, <3>2, <4>1
    <3> QED
      BY <3>1, <3>2, <2>4
  <2> QED
    BY <2>0, <2>1, <2>3, <2>5, <2>6 DEF CachesFresh, IInv, NowIsNew
<1> QED
  BY <1>1, <1>2

\* So does a snapshot at most one statement old, since nothing else is left.
LEMMA PutAllFresh ==
  ASSUME IInv, UNCHANGED <<table, aged>>, NEW r \in Replica,
         NEW answer \in [Key -> Held], PutAll(r, answer),
         \A k \in Key : aged[k][answer[k]] <= Flight
  PROVE  /\ cache' \in [Replica -> [Key -> Entry]] /\ full' \in [Replica -> Ages]
         /\ CachesFresh'
<1> USE TimeAssumption
<1>1. CASE TTL = 0
  <2>1. UNCHANGED <<table, aged, cache, full>>
    BY <1>1 DEF PutAll
  <2> QED
    BY <2>1, CachesStay, Split DEF IInv, TypeOK
<1>2. CASE TTL # 0
  <2> DEFINE new == [k \in Key |-> IF answer[k] = Absent THEN NoEntry ELSE [value |-> answer[k], age |-> 0]]
  <2>0. /\ cache \in [Replica -> [Key -> Entry]] /\ full \in [Replica -> Ages]
        /\ aged \in [Key -> [Held -> 0 .. AgedCap]]
    BY DEF IInv, TypeOK
  <2>1. cache' = [cache EXCEPT ![r] = new] /\ full' = [full EXCEPT ![r] = 0]
    BY <1>2 DEF PutAll
  <2>2. new \in [Key -> Entry]
    BY <2>0 DEF Entry, Ages, NoEntry, Held
  <2>3. cache' \in [Replica -> [Key -> Entry]] /\ full' \in [Replica -> Ages]
    BY <2>0, <2>1, <2>2 DEF Ages
  <2>4. ASSUME NEW s \in Replica, NEW k \in Key
        PROVE  \/ cache'[s][k] = cache[s][k] /\ full'[s] = full[s]
               \/ full'[s] = 0 /\ answer[k] = Absent /\ cache'[s][k] = NoEntry
               \/ full'[s] = 0 /\ answer[k] # Absent /\ cache'[s][k] = [value |-> answer[k], age |-> 0]
    BY <2>0, <2>1
  <2>5. EntriesFresh'
    <3> SUFFICES ASSUME NEW s \in Replica, NEW k \in Key, Fresh(cache'[s][k].age)
                 PROVE  aged[k][cache'[s][k].value] <= cache'[s][k].age + Flight
      BY DEF EntriesFresh, Lookup, Fresh
    <3>1. CASE cache'[s][k] = cache[s][k]
      BY <3>1 DEF IInv, EntriesFresh, Lookup
    <3>2. CASE cache'[s][k] = [value |-> answer[k], age |-> 0]
      BY <3>2
    <3>3. cache'[s][k] # NoEntry
      BY DEF Fresh, NoEntry
    <3> QED
      BY <3>1, <3>2, <3>3, <2>4
  <2>6. SnapshotsFresh'
    <3> SUFFICES ASSUME NEW s \in Replica, NEW k \in Key, Fresh(full'[s])
                 PROVE  IF cache'[s][k].value = Absent THEN aged[k][Absent] <= full'[s] + Flight
                        ELSE cache'[s][k].age <= full'[s]
      BY DEF SnapshotsFresh, Lookup, Fresh
    <3>1. CASE cache'[s][k] = cache[s][k] /\ full'[s] = full[s]
      BY <3>1 DEF IInv, SnapshotsFresh, Lookup
    <3>2. CASE full'[s] = 0 /\ answer[k] = Absent /\ cache'[s][k] = NoEntry
      BY <3>2 DEF NoEntry
    <3>3. CASE full'[s] = 0 /\ answer[k] # Absent /\ cache'[s][k] = [value |-> answer[k], age |-> 0]
      BY <3>3
    <3> QED
      BY <3>1, <3>2, <3>3, <2>4
  <2> QED
    BY <2>0, <2>1, <2>3, <2>5, <2>6 DEF CachesFresh, IInv, NowIsNew
<1> QED
  BY <1>1, <1>2

-----------------------------------------------------------------------------
\* The steps of the specification.

\* What a step that begins a request leaves: a sane request, the rest untouched.
LEMMA BeginKeeps ==
  ASSUME IInv, NEW t \in Task, Begin(t)
  PROVE  IInv'
<1> USE TimeAssumption, KeysAssumption, ValueAssumption
<1>a. TypeOK /\ CachesFresh /\ \A u \in Task : Sane(req[u], aged)
  BY Split
<1>b. req \in [Task -> Req] /\ aged \in [Key -> [Held -> 0 .. AgedCap]] /\ Absent \in Held
  BY <1>a DEF TypeOK, Held
<1>c. \A k \in Key : aged[k][Absent] \in Nat
  BY <1>b DEF AgedCap
<1>0. /\ req \in [Task -> Req] /\ aged \in [Key -> [Held -> 0 .. AgedCap]] /\ Absent \in Held
      /\ TypeOK /\ CachesFresh /\ \A k \in Key : aged[k][Absent] \in Nat
  BY <1>a, <1>b, <1>c
<1>1. ASSUME UNCHANGED <<table, aged, cache, full, up, restarts>>,
             todo' \in [Replica -> SUBSET Seeds], writes' \in 0 .. MaxWrites,
             \/ UNCHANGED req
             \/ \E q : Sane(q, aged) /\ req' = [req EXCEPT ![t] = q]
      PROVE  IInv'
  <2>1. req' \in [Task -> Req] /\ \A u \in Task : Sane(req'[u], aged')
    <3>1. CASE UNCHANGED req
      BY <3>1, <1>0, <1>1, Split
    <3>2. CASE \E q : Sane(q, aged) /\ req' = [req EXCEPT ![t] = q]
      <4>1. PICK q : Sane(q, aged) /\ req' = [req EXCEPT ![t] = q]
        BY <3>2
      <4>2. \A k \in Key, v \in Held : aged'[k][v] <= aged[k][v]
        BY <1>0, <1>1 DEF AgedCap
      <4> QED
        BY <4>1, <4>2, <1>0, <1>1, OthersSane
    <3> QED
      BY <3>1, <3>2, <1>1
  <2>2. CachesFresh'
    BY <1>0, <1>1, CachesStay
  <2>3. TypeOK'
    BY <2>1, <1>0, <1>1 DEF TypeOK
  <2> QED
    BY <2>1, <2>2, <2>3, Joined
<1>2. todo \in [Replica -> SUBSET Seeds] /\ writes \in 0 .. MaxWrites /\ NoRows \in [Key -> Held]
  BY <1>0 DEF TypeOK, NoRows
<1>3. ASSUME NEW r \in Replica, NEW k \in Key, GetConfig(t, r, k) PROVE IInv'
  <2>1. \E q : Sane(q, aged) /\ req' = [req EXCEPT ![t] = q]
    BY <1>0, <1>2, <1>3, IssueSane DEF GetConfig, Kind
  <2> QED
    BY <2>1, <1>1, <1>2, <1>3 DEF GetConfig
<1>4. ASSUME NEW r \in Replica, GetAllConfig(t, r) PROVE IInv'
  <2>1. \E q : Sane(q, aged) /\ req' = [req EXCEPT ![t] = q]
    BY <1>0, <1>2, <1>4, IssueSane DEF GetAllConfig, Kind
  <2> QED
    BY <2>1, <1>1, <1>2, <1>4 DEF GetAllConfig
<1>5. ASSUME NEW r \in Replica, NEW k \in Key, NEW v \in Held, SetConfig(t, r, k, v) PROVE IInv'
  <2>1. [NoRows EXCEPT ![k] = v] \in [Key -> Held]
    BY <1>2
  <2>a. Issue(t, r, "write", "set", {k}, [NoRows EXCEPT ![k] = v])
    BY <1>5 DEF SetConfig
  <2>2. \E q : Sane(q, aged) /\ req' = [req EXCEPT ![t] = q]
    <3> DEFINE answer == [NoRows EXCEPT ![k] = v]
    <3>1. Issue(t, r, "write", "set", {k}, answer) /\ answer \in [Key -> Held] /\ "set" \in Kind
      BY <2>1, <2>a DEF Kind
    <3> HIDE DEF answer
    <3> QED
      BY <3>1, <1>0, IssueSane
  <2>3. writes' \in 0 .. MaxWrites
    BY <1>2, <1>5, BoundAssumption DEF SetConfig
  <2> QED
    BY <2>2, <2>3, <1>1, <1>2, <1>5 DEF SetConfig
<1>6. ASSUME NEW r \in Replica, NEW s \in Seeds, Seed(t, r, s) PROVE IInv'
  <2>1. PICK k \in Key : k = s[2]
    BY DEF Seeds
  <2>2. [NoRows EXCEPT ![k] = Host[k]] \in [Key -> Held]
    BY <1>2, <2>1 DEF Held
  <2>3. todo' \in [Replica -> SUBSET Seeds]
    BY <1>2, <1>6 DEF Seed
  <2>4. CASE ~Hit(r, k)
    <3>1. Issue(t, r, "read", "seed", {k}, NoRows)
      BY <2>1, <2>4, <1>6 DEF Seed
    <3>2. \E q : Sane(q, aged) /\ req' = [req EXCEPT ![t] = q]
      BY <3>1, <1>0, <1>2, IssueSane DEF Kind
    <3> QED
      BY <3>2, <2>3, <1>1, <1>2, <1>6 DEF Seed
  <2>5. CASE Hit(r, k) /\ Lookup(r, k) = Absent
    <3>1. Issue(t, r, "write", "seed", {k}, [NoRows EXCEPT ![k] = Host[k]])
      BY <2>1, <2>5, <1>6 DEF Seed
    <3>2. aged[k][Absent] <= TTL + Flight
      BY <2>5, FreshFollows DEF FreshEnough
    <3>3. \E q : Sane(q, aged) /\ req' = [req EXCEPT ![t] = q]
      <4> DEFINE answer == [NoRows EXCEPT ![k] = Host[k]]
      <4>1. Issue(t, r, "write", "seed", {k}, answer) /\ answer \in [Key -> Held] /\ "seed" \in Kind
        BY <3>1, <2>2 DEF Kind
      <4>2. \A j \in {k} : aged[j][Absent] <= TTL + Flight
        BY <3>2
      <4> HIDE DEF answer
      <4> QED
        BY <4>1, <4>2, <1>0, IssueSane
    <3> QED
      BY <3>3, <2>3, <1>1, <1>2, <1>6 DEF Seed
  <2>6. CASE Hit(r, k) /\ Lookup(r, k) # Absent
    BY <2>1, <2>6, <2>3, <1>1, <1>2, <1>6 DEF Seed
  <2> QED
    BY <2>4, <2>5, <2>6
<1>7. ASSUME NEW r \in Replica, ApplyDbToEnv(t, r) PROVE IInv'
  <2>1. \E q : Sane(q, aged) /\ req' = [req EXCEPT ![t] = q]
    BY <1>0, <1>2, <1>7, IssueSane DEF ApplyDbToEnv, Kind
  <2> QED
    BY <2>1, <1>1, <1>2, <1>7 DEF ApplyDbToEnv
<1> QED
  BY <1>3, <1>4, <1>5, <1>6, <1>7 DEF Begin

\* What seed does after its read: it writes what the environment has.
LEMMA SeedNowSane ==
  ASSUME IInv, NEW t \in Task, NEW kind \in {"seed", "blind"}, SeedNow(t, kind),
         kind = "seed" => \A k \in req[t].keys : aged[k][Absent] <= TTL + Flight
  PROVE  /\ up' = up
         /\ \E q : Sane(q, aged) /\ req' = [req EXCEPT ![t] = q]
<1> DEFINE answer == [k \in Key |-> IF k \in req[t].keys THEN Host[k] ELSE Absent]
<1>1. req[t] \in Req /\ \A k \in Key : aged[k][Absent] \in Nat
  BY TimeAssumption DEF IInv, TypeOK, Held, AgedCap
<1>2. req[t].at \in Replica /\ req[t].keys \in SUBSET Key /\ kind \in Kind
  BY <1>1 DEF Req, Kind
<1>3. answer \in [Key -> Held]
  BY ValueAssumption DEF Held
<1>4. Issue(t, req[t].at, "write", kind, req[t].keys, answer) /\ up' = up
  BY DEF SeedNow
<1>5. PICK r \in Replica, keys \in SUBSET Key : r = req[t].at /\ keys = req[t].keys
  BY <1>2
<1> HIDE DEF answer
<1>6. Issue(t, r, "write", kind, keys, answer) /\ kind \notin {"all", "warm"}
  BY <1>4, <1>5
<1>7. kind = "seed" => \A k \in keys : aged[k][Absent] <= TTL + Flight
  BY <1>5
<1>8. \E q : Sane(q, aged) /\ req' = [req EXCEPT ![t] = q]
  BY <1>1, <1>2, <1>3, <1>6, <1>7, IssueSane
<1> QED
  BY <1>4, <1>8

\* A request that ends.
LEMMA DoneSane ==
  ASSUME IInv, NEW t \in Task, Done(t)
  PROVE  /\ up' \in [Replica -> BOOLEAN]
         /\ \E q : Sane(q, aged) /\ req' = [req EXCEPT ![t] = q]
<1>1. up' \in [Replica -> BOOLEAN]
  BY DEF IInv, TypeOK, Done
<1> QED
  BY <1>1, EndSane DEF Done

LEMMA AnswerKeeps ==
  ASSUME IInv, NEW t \in Task, Answer(t)
  PROVE  IInv'
<1> USE TimeAssumption
<1>1. TypeOK /\ CachesFresh /\ \A u \in Task : Sane(req[u], aged)
  BY Split
<1>2. /\ req \in [Task -> Req] /\ aged \in [Key -> [Held -> 0 .. AgedCap]] /\ Absent \in Held
      /\ table \in [Key -> Held]
  BY <1>1 DEF TypeOK, Held
<1>3. /\ req[t] \in Req /\ Sane(req[t], aged) /\ req[t].keys \in SUBSET Key /\ req[t].at \in Replica
      /\ req[t].rows \in [Key -> Held] /\ req[t].flight \in 0 .. Flight
  BY <1>1, <1>2 DEF Req
<1>4. ASSUME UNCHANGED <<table, aged, todo, writes, restarts>>,
             cache' \in [Replica -> [Key -> Entry]], full' \in [Replica -> Ages],
             CachesFresh', up' \in [Replica -> BOOLEAN],
             \E q : Sane(q, aged) /\ req' = [req EXCEPT ![t] = q]
      PROVE  IInv'
  <2>1. PICK q : Sane(q, aged) /\ req' = [req EXCEPT ![t] = q]
    BY <1>4
  <2>2. \A k \in Key, v \in Held : aged'[k][v] <= aged[k][v]
    BY <1>2, <1>4 DEF AgedCap
  <2>3. req' \in [Task -> Req] /\ \A u \in Task : Sane(req'[u], aged')
    BY <2>1, <2>2, <1>2, <1>4, OthersSane
  <2>4. TypeOK'
    BY <2>3, <1>1, <1>4 DEF TypeOK
  <2> QED
    BY <2>3, <2>4, <1>4, Joined
<1>5. CASE Select(t)
  <2> DEFINE answer == [k \in Key |-> IF k \in req[t].keys THEN table[k] ELSE Absent]
  <2> DEFINE q == [req[t] EXCEPT !.pc = "fill", !.rows = answer]
  <2>1. req' = [req EXCEPT ![t] = q]
    BY <1>5, <1>2 DEF Select
  <2>2. answer \in [Key -> Held]
    BY <1>2
  <2>3. q \in Req /\ q.pc = "fill" /\ q.kind = req[t].kind /\ q.keys = req[t].keys /\ q.rows = answer
        /\ q.flight = req[t].flight
    BY <1>3, <2>2 DEF Req, Pc
  <2>4. \A k \in q.keys : aged[k][answer[k]] <= q.flight
    BY <2>3, <1>1, <1>3 DEF CachesFresh, NowIsNew
  <2> HIDE DEF q
  <2>5. Sane(q, aged)
    BY <2>3, <2>4, <1>3 DEF Sane
  <2>6. CachesFresh'
    BY <1>1, <1>5, CachesStay DEF Select
  <2> QED
    BY <2>1, <2>5, <2>6, <1>1, <1>4, <1>5 DEF Select, TypeOK
<1>6. CASE Fill(t)
  <2>1. \A k \in req[t].keys : aged[k][req[t].rows[k]] <= Flight
    <3> SUFFICES ASSUME NEW k \in req[t].keys PROVE aged[k][req[t].rows[k]] <= Flight
      OBVIOUS
    <3>1. aged[k][req[t].rows[k]] <= req[t].flight /\ aged[k][req[t].rows[k]] \in Nat
      BY <1>2, <1>3, <1>6 DEF Fill, Sane, AgedCap
    <3> QED
      BY <3>1, <1>3
  <2>2. /\ cache' \in [Replica -> [Key -> Entry]] /\ full' \in [Replica -> Ages]
        /\ CachesFresh'
    <3>1. CASE req[t].kind \in {"all", "warm"}
      <4>1. req[t].keys = Key /\ PutAll(req[t].at, req[t].rows)
        BY <3>1, <1>3, <1>6 DEF Sane, Fill
      <4> QED
        BY <4>1, <2>1, <1>3, <1>6, PutAllFresh DEF Fill
    <3>2. CASE req[t].kind \notin {"all", "warm"}
      <4>1. Put(req[t].at, req[t].keys, req[t].rows)
        BY <3>2, <1>6 DEF Fill
      <4> QED
        BY <4>1, <2>1, <1>3, <1>6, PutFresh DEF Fill
    <3> QED
      BY <3>1, <3>2
  <2>3. CASE req[t].kind = "seed" /\ \A k \in req[t].keys : req[t].rows[k] = Absent
    <3>1. SeedNow(t, "seed")
      BY <2>3, <1>6 DEF Fill
    <3>2. \A k \in req[t].keys : aged[k][Absent] <= TTL + Flight
      <4> SUFFICES ASSUME NEW k \in req[t].keys PROVE aged[k][Absent] <= TTL + Flight
        OBVIOUS
      <4>1. aged[k][Absent] <= Flight /\ aged[k][Absent] \in Nat
        BY <2>1, <2>3, <1>2, <1>3 DEF AgedCap
      <4> QED
        BY <4>1
    <3>3. up' = up /\ \E q : Sane(q, aged) /\ req' = [req EXCEPT ![t] = q]
      BY <3>1, <3>2, SeedNowSane
    <3> QED
      BY <3>3, <2>2, <1>1, <1>4, <1>6 DEF Fill, TypeOK
  <2>4. CASE ~(req[t].kind = "seed" /\ \A k \in req[t].keys : req[t].rows[k] = Absent)
    <3>1. Done(t)
      BY <2>4, <1>6 DEF Fill
    <3> QED
      BY <3>1, <2>2, <1>4, <1>6, DoneSane DEF Fill
  <2> QED
    BY <2>3, <2>4
<1>7. CASE SelectFails(t)
  <2>1. UNCHANGED <<table, aged, cache, full, todo, writes, restarts>>
    BY <1>7 DEF SelectFails
  <2>2. CachesFresh'
    BY <2>1, <1>1, CachesStay
  <2>3. up' \in [Replica -> BOOLEAN] /\ \E q : Sane(q, aged) /\ req' = [req EXCEPT ![t] = q]
    <3>1. CASE SeedNow(t, "blind")
      BY <3>1, <1>1, SeedNowSane DEF TypeOK
    <3>2. CASE Done(t)
      BY <3>2, DoneSane
    <3> QED
      BY <3>1, <3>2, <1>7 DEF SelectFails
  <2> QED
    BY <2>1, <2>2, <2>3, <1>1, <1>4 DEF TypeOK
<1>8. CASE Upsert(t)
  <2>1. table' \in [Key -> Held]
    BY <1>2, <1>3, <1>8 DEF Upsert
  <2>2. aged' \in [Key -> [Held -> 0 .. AgedCap]]
    BY <1>2, <2>1, <1>8 DEF Upsert, AgedCap
  <2>3. \A k \in Key, v \in Held : aged'[k][v] <= aged[k][v] /\ aged'[k][v] \in Nat /\ aged[k][v] \in Nat
    BY <1>2, <2>2, <1>8 DEF Upsert, AgedCap
  <2>4. \A k \in Key : aged'[k][table'[k]] = 0
    BY <1>2, <2>1, <1>8 DEF Upsert
  <2> DEFINE q == [req[t] EXCEPT !.pc = "through"]
  <2>5. req' = [req EXCEPT ![t] = q] /\ req[t].pc = "write"
    BY <1>8, <1>2 DEF Upsert
  <2>6. q \in Req /\ q.pc = "through" /\ q.kind = req[t].kind /\ q.keys = req[t].keys
        /\ q.rows = req[t].rows /\ q.flight = req[t].flight
    BY <1>3 DEF Req, Pc
  <2>7. \A k \in q.keys : aged'[k][q.rows[k]] <= q.flight
    <3> SUFFICES ASSUME NEW k \in req[t].keys PROVE aged'[k][req[t].rows[k]] <= req[t].flight
      BY <2>6
    <3>1. k \in Key /\ table'[k] = req[t].rows[k]
      BY <1>3, <1>8 DEF Upsert
    <3>2. aged'[k][req[t].rows[k]] = 0
      BY <3>1, <2>4
    <3> QED
      BY <3>2, <1>3
  <2> HIDE DEF q
  <2>8. Sane(q, aged')
    BY <2>5, <2>6, <2>7, <1>3 DEF Sane
  <2>9. req' \in [Task -> Req] /\ \A u \in Task : Sane(req'[u], aged')
    BY <2>2, <2>3, <2>5, <2>8, OthersSane
  <2>10. CachesFresh'
    <3>1. cache' = cache /\ full' = full /\ cache \in [Replica -> [Key -> Entry]]
          /\ full \in [Replica -> Ages]
      BY <1>1, <1>8 DEF Upsert, TypeOK
    <3>2. EntriesFresh'
      <4> SUFFICES ASSUME NEW r \in Replica, NEW k \in Key, Fresh(cache[r][k].age)
                   PROVE  aged'[k][cache[r][k].value] <= cache[r][k].age + Flight
        BY <3>1 DEF EntriesFresh, Lookup, Fresh
      <4>1. cache[r][k].value \in Held /\ cache[r][k].age \in Nat
        BY <3>1 DEF Entry, Ages
      <4>2. aged[k][cache[r][k].value] <= cache[r][k].age + Flight
        BY <1>1 DEF CachesFresh, EntriesFresh, Lookup
      <4> QED
        BY <4>1, <4>2, <2>3
    <3>3. SnapshotsFresh'
      <4> SUFFICES ASSUME NEW r \in Replica, NEW k \in Key, Fresh(full[r])
                   PROVE  IF cache[r][k].value = Absent THEN aged'[k][Absent] <= full[r] + Flight
                          ELSE cache[r][k].age <= full[r]
        BY <3>1 DEF SnapshotsFresh, Lookup, Fresh
      <4>1. IF cache[r][k].value = Absent THEN aged[k][Absent] <= full[r] + Flight
            ELSE cache[r][k].age <= full[r]
        BY <1>1 DEF CachesFresh, SnapshotsFresh, Lookup
      <4>2. full[r] \in Nat /\ aged'[k][Absent] <= aged[k][Absent]
            /\ aged'[k][Absent] \in Nat /\ aged[k][Absent] \in Nat
        BY <3>1, <2>3, <1>2 DEF Ages
      <4> QED
        BY <4>1, <4>2
    <3> QED
      BY <3>2, <3>3, <2>4 DEF CachesFresh, NowIsNew
  <2>11. TypeOK'
    BY <2>1, <2>2, <2>9, <1>1, <1>8 DEF TypeOK, Upsert
  <2> QED
    BY <2>9, <2>10, <2>11, Joined
<1>9. CASE WriteThrough(t)
  <2>1. \A k \in req[t].keys : aged[k][req[t].rows[k]] <= Flight
    <3> SUFFICES ASSUME NEW k \in req[t].keys PROVE aged[k][req[t].rows[k]] <= Flight
      OBVIOUS
    <3>1. aged[k][req[t].rows[k]] <= req[t].flight /\ aged[k][req[t].rows[k]] \in Nat
      BY <1>2, <1>3, <1>9 DEF WriteThrough, Sane, AgedCap
    <3> QED
      BY <3>1, <1>3
  <2>2. /\ cache' \in [Replica -> [Key -> Entry]] /\ full' \in [Replica -> Ages]
        /\ CachesFresh'
    BY <2>1, <1>3, <1>9, PutFresh DEF WriteThrough
  <2> QED
    BY <2>2, <1>4, <1>9, DoneSane DEF WriteThrough
<1>10. CASE UpsertFails(t)
  <2>1. UNCHANGED <<table, aged, cache, full, todo, writes, restarts>> /\ Done(t)
    BY <1>10 DEF UpsertFails
  <2>2. CachesFresh'
    BY <2>1, <1>1, CachesStay
  <2> QED
    BY <2>1, <2>2, <1>1, <1>4, DoneSane DEF TypeOK
<1> QED
  BY <1>5, <1>6, <1>7, <1>8, <1>9, <1>10 DEF Answer

\* A restart empties the cache and ends the requests of a replica.
LEMMA RestartKeeps ==
  ASSUME IInv, NEW r \in Replica, Restart(r)
  PROVE  IInv'
<1> USE TimeAssumption
<1>1. TypeOK /\ CachesFresh /\ \A u \in Task : Sane(req[u], aged)
  BY Split
<1>2. UNCHANGED <<table, aged, writes>> /\ restarts' \in 0 .. MaxRestarts
      /\ todo' \in [Replica -> SUBSET Seeds] /\ up' \in [Replica -> BOOLEAN]
  BY <1>1, BoundAssumption DEF Restart, TypeOK
<1>3. /\ cache \in [Replica -> [Key -> Entry]] /\ full \in [Replica -> Ages]
      /\ req \in [Task -> Req]
  BY <1>1 DEF TypeOK
<1>4. /\ cache' \in [Replica -> [Key -> Entry]] /\ full' \in [Replica -> Ages]
  BY <1>3 DEF Restart, Entry, Ages, NoEntry, Held
<1>5. ASSUME NEW s \in Replica, NEW k \in Key
      PROVE  \/ cache'[s][k] = cache[s][k] /\ full'[s] = full[s]
             \/ cache'[s][k] = NoEntry /\ full'[s] = TTL + 1
  BY <1>3 DEF Restart
<1>6. ~Fresh(TTL + 1) /\ ~Fresh(NoEntry.age)
  BY DEF Fresh, NoEntry
<1>7. EntriesFresh'
  <2> SUFFICES ASSUME NEW s \in Replica, NEW k \in Key, Fresh(cache'[s][k].age)
               PROVE  aged[k][cache'[s][k].value] <= cache'[s][k].age + Flight
    BY <1>2 DEF EntriesFresh, Lookup, Fresh
  <2>1. cache'[s][k] = cache[s][k]
    BY <1>5, <1>6
  <2> QED
    BY <2>1, <1>1 DEF CachesFresh, EntriesFresh, Lookup
<1>8. SnapshotsFresh'
  <2> SUFFICES ASSUME NEW s \in Replica, NEW k \in Key, Fresh(full'[s])
               PROVE  IF cache'[s][k].value = Absent THEN aged[k][Absent] <= full'[s] + Flight
                      ELSE cache'[s][k].age <= full'[s]
    BY <1>2 DEF SnapshotsFresh, Lookup, Fresh
  <2>1. cache'[s][k] = cache[s][k] /\ full'[s] = full[s]
    BY <1>5, <1>6
  <2> QED
    BY <2>1, <1>1 DEF CachesFresh, SnapshotsFresh, Lookup
<1>9. ASSUME NEW u \in Task PROVE req'[u] \in Req /\ Sane(req'[u], aged')
  <2>1. req'[u] = NoReq \/ req'[u] = req[u]
    BY DEF Restart
  <2>2. NoReq \in Req
    BY EndSane DEF Sane
  <2> QED
    BY <2>1, <2>2, <1>1, <1>2, <1>3, EndSane
<1>10. req' \in [Task -> Req]
  BY <1>9 DEF Restart
<1>11. TypeOK'
  BY <1>1, <1>2, <1>4, <1>10 DEF TypeOK
<1>12. CachesFresh'
  BY <1>1, <1>2, <1>7, <1>8 DEF CachesFresh, NowIsNew
<1> QED
  BY <1>9, <1>11, <1>12, Joined

\* A tick ages values, entries, snapshots and statements alike.
LEMMA TickKeeps ==
  ASSUME IInv, Tick
  PROVE  IInv'
<1> USE TimeAssumption
<1>1. TypeOK /\ CachesFresh /\ \A u \in Task : Sane(req[u], aged)
  BY Split
<1>2. /\ cache \in [Replica -> [Key -> Entry]] /\ full \in [Replica -> Ages] /\ req \in [Task -> Req]
      /\ aged \in [Key -> [Held -> 0 .. AgedCap]] /\ table \in [Key -> Held]
      /\ AgedCap \in Nat /\ TTL + 1 \in Nat
  BY <1>1 DEF TypeOK, AgedCap
<1>3. ASSUME NEW k \in Key, NEW v \in Held
      PROVE  /\ aged'[k][v] \in 0 .. AgedCap /\ aged[k][v] \in Nat /\ aged'[k][v] \in Nat
             /\ aged'[k][v] <= aged[k][v] + 1
             /\ v = table[k] => aged'[k][v] = 0
  <2>1. aged'[k][v] = IF v = table[k] THEN 0 ELSE Older(aged[k][v], AgedCap)
    BY DEF Tick
  <2>2. aged[k][v] \in 0 .. AgedCap
    BY <1>2
  <2> QED
    BY <2>1, <2>2, <1>2 DEF Older
<1>4. aged' \in [Key -> [Held -> 0 .. AgedCap]]
  <2>1. aged' = [k \in Key |-> [v \in Held |-> aged'[k][v]]]
    BY DEF Tick
  <2> QED
    BY <2>1, <1>3
<1>5. ASSUME NEW s \in Replica, NEW k \in Key
      PROVE  /\ cache'[s][k] \in Entry /\ cache'[s][k].value = cache[s][k].value
             /\ cache[s][k].value \in Held /\ cache[s][k].age \in Nat
             /\ cache'[s][k].age = Older(cache[s][k].age, TTL + 1)
             /\ Fresh(cache'[s][k].age) => cache'[s][k].age = cache[s][k].age + 1
             /\ Fresh(cache'[s][k].age) => Fresh(cache[s][k].age)
  <2>1. cache[s][k] \in Entry
    BY <1>2
  <2>2. cache'[s][k] = [cache[s][k] EXCEPT !.age = Older(cache[s][k].age, TTL + 1)]
    BY DEF Tick
  <2>3. cache[s][k].age \in 0 .. TTL + 1
    BY <2>1 DEF Entry, Ages
  <2>4. Older(cache[s][k].age, TTL + 1) \in 0 .. TTL + 1
    BY <2>3 DEF Older
  <2> QED
    BY <2>1, <2>2, <2>3, <2>4 DEF Entry, Ages, Fresh, Older
<1>6. cache' \in [Replica -> [Key -> Entry]]
  <2>1. cache' = [s \in Replica |-> [k \in Key |-> cache'[s][k]]]
    BY DEF Tick
  <2> QED
    BY <2>1, <1>5
<1>7. ASSUME NEW s \in Replica
      PROVE  /\ full'[s] \in Ages /\ full[s] \in Nat
             /\ Fresh(full'[s]) => full'[s] = full[s] + 1 /\ Fresh(full[s])
  BY <1>2 DEF Tick, Ages, Older, Fresh
<1>8. full' \in [Replica -> Ages]
  <2>1. full' = [s \in Replica |-> full'[s]]
    BY DEF Tick
  <2> QED
    BY <2>1, <1>7
<1>9. EntriesFresh'
  <2> SUFFICES ASSUME NEW s \in Replica, NEW k \in Key, Fresh(cache'[s][k].age)
               PROVE  aged'[k][cache'[s][k].value] <= cache'[s][k].age + Flight
    BY DEF EntriesFresh, Lookup, Fresh
  <2>1. aged[k][cache[s][k].value] <= cache[s][k].age + Flight
    BY <1>1, <1>5 DEF CachesFresh, EntriesFresh, Lookup
  <2> QED
    BY <2>1, <1>3, <1>5
<1>10. SnapshotsFresh'
  <2> SUFFICES ASSUME NEW s \in Replica, NEW k \in Key, Fresh(full'[s])
               PROVE  IF cache'[s][k].value = Absent THEN aged'[k][Absent] <= full'[s] + Flight
                      ELSE cache'[s][k].age <= full'[s]
    BY DEF SnapshotsFresh, Lookup, Fresh
  <2>1. IF cache[s][k].value = Absent THEN aged[k][Absent] <= full[s] + Flight
        ELSE cache[s][k].age <= full[s]
    BY <1>1, <1>7 DEF CachesFresh, SnapshotsFresh, Lookup
  <2>2. cache'[s][k].age <= cache[s][k].age + 1 /\ cache'[s][k].age \in Nat
    BY <1>5 DEF Older, Entry, Ages
  <2>3. Absent \in Held
    BY DEF Held
  <2> QED
    BY <2>1, <2>2, <2>3, <1>3, <1>5, <1>7
<1>11. ASSUME NEW u \in Task PROVE req'[u] \in Req /\ Sane(req'[u], aged')
  <2>1. req[u] \in Req /\ Sane(req[u], aged)
    BY <1>1, <1>2
  <2>2. CASE ~Busy(u)
    BY <2>1, <2>2 DEF Tick, Busy, Sane
  <2>3. CASE Busy(u)
    <3> DEFINE q == [req[u] EXCEPT !.flight = @ + 1]
    <3>1. req'[u] = q /\ req[u].flight < Flight
      BY <2>3, <1>2 DEF Tick
    <3>2. /\ q \in Req /\ q.pc = req[u].pc /\ q.kind = req[u].kind /\ q.keys = req[u].keys
          /\ q.rows = req[u].rows /\ q.flight = req[u].flight + 1 /\ req[u].flight \in Nat
      BY <2>1, <3>1 DEF Req
    <3>3. req[u].keys \subseteq Key /\ req[u].rows \in [Key -> Held] /\ Absent \in Held
      BY <2>1 DEF Req, Held
    <3> HIDE DEF q
    <3>4. ASSUME q.pc \in {"fill", "through"}, NEW k \in q.keys
          PROVE  aged'[k][q.rows[k]] <= q.flight
      <4>1. k \in Key /\ req[u].rows[k] \in Held /\ aged[k][req[u].rows[k]] <= req[u].flight
        BY <3>2, <3>3, <3>4, <2>1 DEF Sane
      <4> QED
        BY <4>1, <3>2, <1>3
    <3>5. ASSUME q.pc = "write", q.kind = "seed", NEW k \in q.keys
          PROVE  aged'[k][Absent] <= TTL + Flight + q.flight
      <4>1. k \in Key /\ aged[k][Absent] <= TTL + Flight + req[u].flight
        BY <3>2, <3>3, <3>5, <2>1 DEF Sane
      <4> QED
        BY <4>1, <3>2, <3>3, <1>3
    <3> QED
      BY <3>1, <3>2, <3>4, <3>5, <2>1 DEF Sane
  <2> QED
    BY <2>2, <2>3
<1>12. req' \in [Task -> Req]
  BY <1>11 DEF Tick
<1>13. TypeOK'
  BY <1>1, <1>4, <1>6, <1>8, <1>12 DEF TypeOK, Tick
<1>14. CachesFresh'
  BY <1>2, <1>3, <1>9, <1>10 DEF CachesFresh, NowIsNew, Tick
<1> QED
  BY <1>11, <1>13, <1>14, Joined

-----------------------------------------------------------------------------
\* The theorems.

LEMMA InitSound == Init => IInv
<1> USE TimeAssumption
<1> SUFFICES ASSUME Init PROVE IInv
  OBVIOUS
<1>1. TypeOK
  <2>1. table \in [Key -> Held] /\ aged \in [Key -> [Held -> 0 .. AgedCap]]
    BY DEF Init, NoRows, Held, AgedCap
  <2>2. cache \in [Replica -> [Key -> Entry]] /\ full \in [Replica -> Ages]
    BY DEF Init, NoEntry, Entry, Ages, Held
  <2>3. req \in [Task -> Req]
    BY EndSane DEF Init, Sane
  <2> QED
    BY <2>1, <2>2, <2>3, BoundAssumption DEF TypeOK, Init
<1>2. CachesFresh
  <2>1. NowIsNew
    BY DEF NowIsNew, Init, NoRows, Held
  <2>2. EntriesFresh
    BY DEF EntriesFresh, Init, NoEntry, Fresh
  <2>3. SnapshotsFresh
    BY DEF SnapshotsFresh, Init, Fresh
  <2> QED
    BY <2>1, <2>2, <2>3 DEF CachesFresh
<1>3. \A t \in Task : Sane(req[t], aged)
  BY EndSane DEF Init
<1> QED
  BY <1>1, <1>2, <1>3, Split

LEMMA NextKeeps == IInv /\ [Next]_vars => IInv'
<1> SUFFICES ASSUME IInv, [Next]_vars PROVE IInv'
  OBVIOUS
<1>1. CASE UNCHANGED vars
  BY <1>1 DEF vars, IInv, TypeOK, NowIsNew, EntriesFresh, SnapshotsFresh, AnswersFresh, SeedsFresh,
     WholeSnapshots, Fresh, Lookup
<1>2. ASSUME NEW t \in Task, Begin(t) PROVE IInv'
  BY <1>2, BeginKeeps
<1>3. ASSUME NEW t \in Task, Answer(t) PROVE IInv'
  BY <1>3, AnswerKeeps
<1>4. ASSUME NEW r \in Replica, Restart(r) PROVE IInv'
  BY <1>4, RestartKeeps
<1>5. CASE Tick
  BY <1>5, TickKeeps
<1> QED
  BY <1>1, <1>2, <1>3, <1>4, <1>5 DEF Next

\* The inductive invariant, for any number of replicas, keys and requests:
\* cached rows, snapshots and answers under way are as recent as their ages say.
THEOREM Invariance == Spec => []IInv
<1> QED
  BY InitSound, NextKeeps, PTL DEF Spec

\* Bounded staleness of the settings cache (get_config, get_all_config): no
\* lookup answers what the table has not held for a lifetime and one statement.
THEOREM BoundedStaleness == Spec => []FreshEnough
<1> QED
  BY Invariance, FreshFollows, PTL

\* The seeding of settings at start (sync_env_to_db, sync_env_mirrors_to_db)
\* overwrites only what was missing a lifetime and two statements ago, unless
\* its read failed.
THEOREM SeedsTheMissing == Spec => []SeedsWhatWasMissing
<1>1. IInv => SeedsWhatWasMissing
  <2> SUFFICES ASSUME IInv, NEW t \in Task, req[t].pc = "write", req[t].kind = "seed",
                      NEW k \in req[t].keys
               PROVE  aged[k][Absent] <= TTL + 2 * Flight
    BY DEF SeedsWhatWasMissing
  <2>1. req[t] \in Req /\ aged \in [Key -> [Held -> 0 .. AgedCap]]
    BY DEF IInv, TypeOK
  <2>2. k \in Key /\ req[t].flight \in 0 .. Flight /\ aged[k][Absent] \in Nat
    BY <2>1, TimeAssumption DEF Req, Held, AgedCap
  <2>3. aged[k][Absent] <= TTL + Flight + req[t].flight
    BY DEF IInv, SeedsFresh
  <2> QED
    BY <2>2, <2>3, TimeAssumption
<1> QED
  BY <1>1, Invariance, PTL

-----------------------------------------------------------------------------
\* The App and the offline mode.

\* What the invariant says of one replica.
Sound(r) ==
    /\ InItsTime(r) /\ NoIdLeft(r) /\ StaysSwitched(r)
    /\ cleared[r] = "gone" => live[r] = {}

\* A step leaves what the replica itself holds.
Spared(s) ==
    /\ boot'[s] = boot[s] /\ held'[s] = held[s] /\ page'[s] = page[s] /\ live'[s] = live[s]
    /\ mirror'[s] = mirror[s] /\ offline'[s] = offline[s] /\ reader'[s] = reader[s]
    /\ owner'[s] = owner[s]

\* What a write of another replica does to it.
WrittenElsewhere(s, k, v) ==
    /\ rows' = [rows EXCEPT ![k] = v]
    /\ cleared'[s] = IF k \in Cred /\ v # "none" THEN "no" ELSE cleared[s]
    /\ switched'[s] = (switched[s] /\ (k = "offline" => v = "on"))

LEMMA Bystanders ==
    ASSUME SetupInv, NEW s \in Watched, Spared(s), host' = host,
           mishaps' \in Int, mishaps' >= mishaps,
           \/ rows' = rows /\ cleared'[s] = cleared[s] /\ switched'[s] = switched[s]
           \/ \E k \in Keys, v \in Values : WrittenElsewhere(s, k, v)
    PROVE  Sound(s)'
<1>1. /\ rows \in [Keys -> Values] /\ InItsTime(s) /\ NoIdLeft(s) /\ StaysSwitched(s)
      /\ cleared[s] = "gone" => live[s] = {}
      /\ mishaps \in Int /\ MaxMishaps \in Int /\ switched[s] \in BOOLEAN
  BY SetupAssumption DEF SetupInv, SetupTypeOK
<1>2. InItsTime(s)'
  <2>1. switched'[s] => switched[s]
    BY <1>1 DEF WrittenElsewhere
  <2>2. QED  BY <1>1, <2>1 DEF InItsTime, Spared
<1>3. /\ cleared'[s] # "no" => cleared'[s] = cleared[s] /\ (rows["id"] = "none" => rows'["id"] = "none")
      /\ switched'[s] => switched[s] /\ (rows["offline"] = "on" => rows'["offline"] = "on")
  BY <1>1 DEF WrittenElsewhere, Keys, Cred
<1>4. NoIdLeft(s)' /\ (cleared'[s] = "gone" => live'[s] = {})
  BY <1>1, <1>3 DEF NoIdLeft, Spared
<1>5. StaysSwitched(s)'
  BY <1>1, <1>3 DEF StaysSwitched, Spared
<1>6. QED  BY <1>2, <1>4, <1>5 DEF Sound

\* A write, at the replica that does it.
LEMMA SetAt ==
    ASSUME SetupTypeOK, NEW r \in Watched \cup {Elsewhere}, NEW k \in Keys, NEW v \in Values,
           CachedSet(r, k, v)
    PROVE  /\ rows' \in [Keys -> Values] /\ held' \in [Watched -> [Keys -> Values \cup {"unknown"}]]
           /\ cleared' \in [Watched -> {"no", "going", "gone"}] /\ switched' \in [Watched -> BOOLEAN]
           /\ rows'[k] = v /\ \A j \in Keys \ {k} : rows'[j] = rows[j]
           /\ \A s \in Watched \ {r} : held'[s] = held[s] /\ WrittenElsewhere(s, k, v)
           /\ r \in Watched => /\ held'[r][k] = v
                               /\ \A j \in Keys \ {k} : held'[r][j] = held[r][j]
                               /\ switched'[r] = (switched[r] /\ (k = "offline" => v = "on"))
                               /\ k \in Cred /\ v # "none" => cleared'[r] = "no"
                               /\ k = "offline" => cleared'[r] = cleared[r]
                               /\ k \in {"pem", "secret"} /\ v = "none" => cleared'[r] = cleared[r]
                               /\ k = "id" /\ v = "none" =>
                                     cleared'[r] = IF page[r] = NoPage /\ reader[r] = Quiet
                                                   THEN "going" ELSE "no"
<1>1. rows' \in [Keys -> Values] /\ rows'[k] = v /\ \A j \in Keys \ {k} : rows'[j] = rows[j]
  BY DEF CachedSet, SetupTypeOK
<1>2. /\ held' \in [Watched -> [Keys -> Values \cup {"unknown"}]]
      /\ \A s \in Watched \ {r} : held'[s] = held[s]
      /\ r \in Watched => held'[r][k] = v /\ \A j \in Keys \ {k} : held'[r][j] = held[r][j]
  BY SetupAssumption DEF CachedSet, SetupTypeOK
<1>3. /\ \A s \in Watched : cleared'[s] =
            IF k \in Cred /\ v # "none" THEN "no"
            ELSE IF s = r /\ k = "id"
            THEN IF page[r] = NoPage /\ reader[r] = Quiet THEN "going" ELSE "no"
            ELSE cleared[s]
      /\ \A s \in Watched : switched'[s] = (switched[s] /\ (k = "offline" => v = "on"))
      /\ cleared' \in [Watched -> {"no", "going", "gone"}] /\ switched' \in [Watched -> BOOLEAN]
  BY DEF CachedSet, SetupTypeOK
<1>4. \A s \in Watched \ {r} : WrittenElsewhere(s, k, v)
  BY <1>1, <1>3 DEF WrittenElsewhere, CachedSet
<1>5. k = "offline" \/ k = "id" \/ k \in {"pem", "secret"}
  BY DEF Keys, Cred
<1>6. QED  BY <1>1, <1>2, <1>3, <1>4, <1>5 DEF Cred

\* A read: what it finds, and what is cached of it.
LEMMA GetAt ==
    ASSUME SetupTypeOK, NEW r \in Watched, NEW k \in Keys, NEW found \in Values,
           CachedGet(r, k, found)
    PROVE  /\ held' \in [Watched -> [Keys -> Values \cup {"unknown"}]]
           /\ mishaps' \in 0..MaxMishaps /\ mishaps' >= mishaps
           /\ \A s \in Watched \ {r} : held'[s] = held[s]
           /\ \A j \in Keys \ {k} : held'[r][j] = held[r][j]
           /\ held'[r][k] \in {held[r][k], rows[k]}
           /\ \/ found = held[r][k] /\ held[r][k] # "unknown"
              \/ found = rows[k] /\ held[r][k] = "unknown"
              \/ found = "none" /\ mishaps < MaxMishaps
<1>1. mishaps \in 0..MaxMishaps /\ MaxMishaps \in Nat
  BY SetupAssumption DEF SetupTypeOK
<1>2. /\ mishaps' = mishaps \/ (mishaps < MaxMishaps /\ mishaps' = mishaps + 1)
      /\ held' = held \/ (held' = [held EXCEPT ![r][k] = found] /\ found = rows[k])
      /\ \/ found = held[r][k] /\ held[r][k] # "unknown"
         \/ found = rows[k] /\ held[r][k] = "unknown"
         \/ found = "none" /\ mishaps < MaxMishaps
  BY DEF CachedGet, Mishap
<1>3. mishaps' \in 0..MaxMishaps /\ mishaps' >= mishaps
  BY <1>1, <1>2
<1>4. CASE held' = held
  BY <1>2, <1>3, <1>4 DEF SetupTypeOK
<1>5. CASE held' = [held EXCEPT ![r][k] = found] /\ found = rows[k]
  BY <1>2, <1>3, <1>5 DEF SetupTypeOK
<1>6. QED  BY <1>2, <1>4, <1>5

LEMMA MishapCounts ==
    ASSUME SetupTypeOK, Mishap \/ UNCHANGED mishaps
    PROVE  mishaps' \in 0..MaxMishaps /\ mishaps' >= mishaps
BY SetupAssumption DEF SetupTypeOK, Mishap

LEMMA ListsShrink ==
    /\ Order # << >> /\ Head(Order) = "id" /\ Tail(Order) = <<"pem", "secret">>
    /\ <<"pem", "secret">> # << >> /\ Head(<<"pem", "secret">>) = "pem"
    /\ Tail(<<"pem", "secret">>) = <<"secret">> /\ <<"secret">> # << >>
    /\ Head(<<"secret">>) = "secret" /\ Tail(<<"secret">>) = << >>
    /\ <<"offline">> # << >> /\ Head(<<"offline">>) = "offline" /\ Tail(<<"offline">>) = << >>
    /\ <<"offline">> \notin Rests /\ Order # <<"secret">> /\ Order # <<"pem", "secret">>
    /\ <<"pem", "secret">> # <<"secret">>
BY DEF Order, Rests

\* A step of one replica keeps the invariant if it keeps it there, and types.
LEMMA OneKeeps ==
    ASSUME SetupInv, SetupTypeOK', host' = host, mishaps' >= mishaps,
           NEW r \in Watched \cup {Elsewhere},
           \A s \in Watched \ {r} :
              /\ Spared(s)
              /\ \/ rows' = rows /\ cleared'[s] = cleared[s] /\ switched'[s] = switched[s]
                 \/ \E k \in Keys, v \in Values : WrittenElsewhere(s, k, v),
           r \in Watched => Sound(r)'
    PROVE  SetupInv'
<1>1. mishaps' \in Int
  BY SetupAssumption DEF SetupTypeOK
<1>2. \A s \in Watched \ {r} : Sound(s)'
  BY <1>1, Bystanders
<1>3. \A s \in Watched : Sound(s)'
  BY <1>2
<1>4. QED  BY <1>3 DEF Sound, SetupInv

-----------------------------------------------------------------------------
\* The steps of a start.

LEMMA StartIsSound ==
    ASSUME SetupInv, NEW r \in Watched, Start(r)
    PROVE  SetupInv'
<1>1. /\ boot[r] = "down" /\ boot' = [boot EXCEPT ![r] = "id"]
      /\ switched' = [switched EXCEPT ![r] = rows["offline"] = "on"]
      /\ UNCHANGED <<host, rows, held, page, live, mirror, offline, reader, owner, cleared, mishaps>>
  BY DEF Start
<1>2. SetupTypeOK' /\ mishaps' >= mishaps
  BY <1>1, SetupAssumption DEF SetupInv, SetupTypeOK
<1>3. \A s \in Watched \ {r} : Spared(s) /\ cleared'[s] = cleared[s] /\ switched'[s] = switched[s]
  BY <1>1 DEF Spared, SetupInv, SetupTypeOK
<1>4. InItsTime(r) /\ NoIdLeft(r) /\ (cleared[r] = "gone" => live[r] = {})
  BY DEF SetupInv
<1>5. boot'[r] = "id" /\ (switched'[r] => rows["offline"] = "on")
  BY <1>1 DEF SetupInv, SetupTypeOK
<1>6. InItsTime(r)' /\ NoIdLeft(r)' /\ (cleared'[r] = "gone" => live'[r] = {})
  BY <1>1, <1>4, <1>5 DEF InItsTime, NoIdLeft
<1>7. StaysSwitched(r)'
  BY <1>1, <1>4, <1>5 DEF InItsTime, StaysSwitched, Unknown, Nobody, Keys
<1>8. QED  BY <1>1, <1>2, <1>3, <1>6, <1>7, OneKeeps DEF Sound

LEMMA SyncIsSound ==
    ASSUME SetupInv, NEW r \in Watched, Sync(r)
    PROVE  SetupInv'
<1> DEFINE k == IF boot[r] = "mirrors" THEN "offline" ELSE boot[r]
           next == CASE boot[r] = "id" -> "secret" [] boot[r] = "secret" -> "mirrors"
                     [] boot[r] = "mirrors" -> "apply"
<1>1. /\ boot[r] \in {"id", "secret", "mirrors"} /\ boot' = [boot EXCEPT ![r] = next]
      /\ UNCHANGED <<host, page, live, mirror, offline, reader, owner>>
      /\ Mishap \/ UNCHANGED mishaps
      /\ \/ UNCHANGED <<rows, held, cleared, switched>>
         \/ host[k] # "none" /\ CachedSet(r, k, host[k])
         \/ held' = [held EXCEPT ![r][k] = rows[k]] /\ UNCHANGED <<rows, cleared, switched>>
  BY DEF Sync
<1>2. k \in Keys /\ next \in {"secret", "mirrors", "apply"} /\ (host[k] # "none" => host[k] \in Values)
  BY <1>1 DEF Keys, Cred, Values, SetupInv, SetupTypeOK
<1>3. PICK j \in Keys : j = k
  BY <1>2
<1>4. PICK n \in {"secret", "mirrors", "apply"} : n = next
  BY <1>2
<1> HIDE DEF k, next
<1>5. mishaps' \in 0..MaxMishaps /\ mishaps' >= mishaps
  BY <1>1, MishapCounts DEF SetupInv
<1>6. boot'[r] = n /\ \A s \in Watched \ {r} : boot'[s] = boot[s]
  BY <1>1, <1>4 DEF SetupInv, SetupTypeOK
<1>7. /\ InItsTime(r) /\ NoIdLeft(r) /\ StaysSwitched(r) /\ cleared[r] = "no"
      /\ host["offline"] \in {"none", "on"}
  BY <1>1 DEF SetupInv, SetupTypeOK, NoIdLeft
<1>8. ASSUME /\ rows' \in [Keys -> Values] /\ held' \in [Watched -> [Keys -> Values \cup {"unknown"}]]
             /\ cleared' \in [Watched -> {"no", "going", "gone"}] /\ switched' \in [Watched -> BOOLEAN],
             \A s \in Watched \ {r} :
                /\ held'[s] = held[s]
                /\ \/ rows' = rows /\ cleared'[s] = cleared[s] /\ switched'[s] = switched[s]
                   \/ \E i \in Keys, v \in Values : WrittenElsewhere(s, i, v),
             cleared'[r] = "no",
             switched'[r] => switched[r] /\ rows'["offline"] = "on" /\ held'[r]["offline"] \in {"on", "unknown"}
      PROVE  SetupInv'
  <2>1. SetupTypeOK'
    BY <1>1, <1>4, <1>5, <1>8 DEF SetupInv, SetupTypeOK
  <2>2. \A s \in Watched \ {r} : Spared(s)
    BY <1>1, <1>6, <1>8 DEF Spared
  <2>3. InItsTime(r)' /\ NoIdLeft(r)' /\ (cleared'[r] = "gone" => live'[r] = {})
    BY <1>1, <1>6, <1>7, <1>8 DEF InItsTime, NoIdLeft
  <2>4. StaysSwitched(r)'
    BY <1>1, <1>6, <1>7, <1>8 DEF StaysSwitched, InItsTime, Nobody
  <2>5. QED  BY <1>1, <1>5, <1>8, <2>1, <2>2, <2>3, <2>4, OneKeeps DEF Sound
<1>9. switched[r] => rows["offline"] = "on" /\ held[r]["offline"] \in {"on", "unknown"}
  BY <1>1, <1>7 DEF StaysSwitched
<1>10. CASE UNCHANGED <<rows, held, cleared, switched>>
  BY <1>7, <1>8, <1>9, <1>10 DEF SetupInv, SetupTypeOK
<1>11. CASE host[k] # "none" /\ CachedSet(r, k, host[k])
  <2>1. PICK v \in Values : v = host[k] /\ v # "none"
    BY <1>2, <1>11
  <2>2. /\ CachedSet(r, j, v) /\ SetupTypeOK
        /\ j = "offline" => v = "on"
    BY <1>3, <1>7, <1>11, <2>1 DEF SetupInv
  <2>3. /\ rows' \in [Keys -> Values] /\ held' \in [Watched -> [Keys -> Values \cup {"unknown"}]]
        /\ cleared' \in [Watched -> {"no", "going", "gone"}] /\ switched' \in [Watched -> BOOLEAN]
        /\ rows'[j] = v /\ \A i \in Keys \ {j} : rows'[i] = rows[i]
        /\ \A s \in Watched \ {r} : held'[s] = held[s] /\ WrittenElsewhere(s, j, v)
        /\ held'[r][j] = v /\ \A i \in Keys \ {j} : held'[r][i] = held[r][i]
        /\ switched'[r] = (switched[r] /\ (j = "offline" => v = "on"))
        /\ j \in Cred => cleared'[r] = "no"
        /\ j = "offline" => cleared'[r] = cleared[r]
    BY <2>1, <2>2, SetAt
  <2>4. "offline" \in Keys /\ (j \in Cred \/ j = "offline")
    BY DEF Keys
  <2>5. cleared'[r] = "no"
    BY <1>7, <2>3, <2>4
  <2>6. switched'[r] => switched[r] /\ rows'["offline"] = "on" /\ held'[r]["offline"] \in {"on", "unknown"}
    BY <1>9, <2>2, <2>3, <2>4
  <2>7. QED  BY <1>8, <2>3, <2>5, <2>6
<1>12. CASE held' = [held EXCEPT ![r][k] = rows[k]] /\ UNCHANGED <<rows, cleared, switched>>
  <2>1. held' = [held EXCEPT ![r][j] = rows[j]] /\ rows[j] \in Values
    BY <1>3, <1>12 DEF SetupInv, SetupTypeOK
  <2>2. /\ held' \in [Watched -> [Keys -> Values \cup {"unknown"}]]
        /\ \A s \in Watched \ {r} : held'[s] = held[s]
        /\ held'[r]["offline"] \in {held[r]["offline"], rows["offline"]}
    BY <2>1 DEF SetupInv, SetupTypeOK
  <2>3. QED  BY <1>7, <1>8, <1>9, <1>12, <2>2 DEF SetupInv, SetupTypeOK
<1>13. QED  BY <1>1, <1>10, <1>11, <1>12

\* One failing read of a start is outweighed by the other; two are not.
LEMMA MirrorIsSound ==
    ASSUME SetupInv, NEW r \in Watched, MirrorTable(r)
    PROVE  SetupInv'
<1> DEFINE start == [for |-> "start",
                     left |-> IF host["id"] = "set" /\ host["pem"] = "set"
                              THEN <<"secret">> ELSE Order,
                     got |-> IF host["id"] = "set" /\ host["pem"] = "set"
                             THEN {"id", "pem"} ELSE {}]
           copied == IF mirror[r] = "none" THEN rows["offline"] ELSE mirror[r]
<1>1. /\ boot[r] = "apply" /\ boot' = [boot EXCEPT ![r] = "resolve"]
      /\ reader' = [reader EXCEPT ![r] = start]
      /\ UNCHANGED <<host, rows, page, live, offline, owner, cleared, switched>>
      /\ \/ /\ held' = [held EXCEPT ![r] = rows] /\ mirror' = [mirror EXCEPT ![r] = copied]
            /\ UNCHANGED mishaps
         \/ Mishap /\ UNCHANGED <<held, mirror>>
  BY DEF MirrorTable
<1>2. start \in [for : {"none", "start", "webhook"}, left : Rests, got : SUBSET Cred]
  BY DEF Rests, Cred
<1>3. start.for = "start" /\ start.left # << >>
  BY ListsShrink
<1> HIDE DEF start
<1>4. /\ InItsTime(r) /\ NoIdLeft(r) /\ StaysSwitched(r) /\ cleared[r] = "no"
      /\ mirror[r] = host["offline"] /\ host["offline"] \in {"none", "on"}
      /\ rows["offline"] \in Values
  BY <1>1 DEF SetupInv, SetupTypeOK, NoIdLeft, InItsTime, Keys
<1>5. copied \in Values /\ (rows["offline"] = "on" => copied = "on")
  BY <1>4 DEF Values
<1> HIDE DEF copied
<1>6. mishaps' \in 0..MaxMishaps /\ mishaps' >= mishaps
  BY <1>1, MishapCounts DEF SetupInv
<1>7. /\ held' \in [Watched -> [Keys -> Values \cup {"unknown"}]] /\ mirror' \in [Watched -> Values]
      /\ \A s \in Watched \ {r} : held'[s] = held[s] /\ mirror'[s] = mirror[s]
      /\ held'[r] = held[r] \/ held'[r] = rows
  <2>1. /\ held \in [Watched -> [Keys -> Values \cup {"unknown"}]] /\ mirror \in [Watched -> Values]
        /\ rows \in [Keys -> Values \cup {"unknown"}]
    BY DEF SetupInv, SetupTypeOK
  <2>2. CASE held' = [held EXCEPT ![r] = rows] /\ mirror' = [mirror EXCEPT ![r] = copied]
    BY <1>5, <2>1, <2>2
  <2>3. CASE UNCHANGED <<held, mirror>>
    BY <2>1, <2>3
  <2>4. QED  BY <1>1, <2>2, <2>3
<1>8. SetupTypeOK'
  BY <1>1, <1>2, <1>6, <1>7 DEF SetupInv, SetupTypeOK
<1>9. \A s \in Watched \ {r} : Spared(s) /\ cleared'[s] = cleared[s] /\ switched'[s] = switched[s]
  BY <1>1, <1>7 DEF Spared, SetupInv, SetupTypeOK
<1>10. boot'[r] = "resolve" /\ reader'[r] = start
  BY <1>1 DEF SetupInv, SetupTypeOK
<1>11. InItsTime(r)' /\ NoIdLeft(r)' /\ (cleared'[r] = "gone" => live'[r] = {})
  BY <1>1, <1>3, <1>4, <1>10 DEF InItsTime, NoIdLeft
<1>12. OneFails /\ rows["offline"] = "on" => mirror'[r] = "on" \/ mishaps' >= MaxMishaps
  BY <1>1, <1>5, SetupAssumption DEF SetupInv, SetupTypeOK, Mishap, OneFails
<1>13. StaysSwitched(r)'
  BY <1>1, <1>4, <1>7, <1>10, <1>12 DEF StaysSwitched
<1>14. QED  BY <1>1, <1>6, <1>8, <1>9, <1>11, <1>13, OneKeeps DEF Sound

LEMMA ServeIsSound ==
    ASSUME SetupInv, NEW r \in Watched, Serve(r)
    PROVE  SetupInv'
<1>1. PICK found \in {"none", "on", "off"} :
         CachedGet(r, "offline", found) /\ offline' = [offline EXCEPT ![r] = found = "on" \/ mirror[r] = "on"]
  BY DEF Serve
<1>2. /\ boot[r] = "offline" /\ boot' = [boot EXCEPT ![r] = "serving"]
      /\ UNCHANGED <<host, rows, page, live, mirror, reader, owner, cleared, switched>>
  BY DEF Serve
<1>3. "offline" \in Keys /\ found \in Values /\ SetupTypeOK
  BY DEF Keys, Values, SetupInv
<1>4. /\ held' \in [Watched -> [Keys -> Values \cup {"unknown"}]]
      /\ mishaps' \in 0..MaxMishaps /\ mishaps' >= mishaps
      /\ \A s \in Watched \ {r} : held'[s] = held[s]
      /\ \A j \in Keys \ {"offline"} : held'[r][j] = held[r][j]
      /\ \/ found = held[r]["offline"] /\ held[r]["offline"] # "unknown"
         \/ found = rows["offline"] /\ held[r]["offline"] = "unknown"
         \/ found = "none" /\ mishaps < MaxMishaps
  BY <1>1, <1>3, GetAt
<1>5. InItsTime(r) /\ NoIdLeft(r) /\ StaysSwitched(r) /\ cleared[r] = "no"
  BY <1>2 DEF SetupInv, SetupTypeOK, NoIdLeft
<1>6. SetupTypeOK'
  BY <1>1, <1>2, <1>4 DEF SetupInv, SetupTypeOK
<1>7. \A s \in Watched \ {r} : Spared(s) /\ cleared'[s] = cleared[s] /\ switched'[s] = switched[s]
  BY <1>1, <1>2, <1>4 DEF Spared, SetupInv, SetupTypeOK
<1>8. boot'[r] = "serving" /\ offline'[r] = (found = "on" \/ mirror[r] = "on")
  BY <1>1, <1>2 DEF SetupInv, SetupTypeOK
<1>9. reader[r].left \in Rests
  BY <1>3 DEF SetupTypeOK
<1>10. InItsTime(r)' /\ NoIdLeft(r)' /\ (cleared'[r] = "gone" => live'[r] = {})
  BY <1>2, <1>5, <1>8 DEF InItsTime, NoIdLeft
<1>11. OneFails /\ switched[r] => found = "on" \/ mirror[r] = "on"
  BY <1>2, <1>3, <1>4, <1>5, SetupAssumption DEF StaysSwitched, SetupTypeOK
<1>12. StaysSwitched(r)'
  BY <1>2, <1>5, <1>8, <1>11 DEF StaysSwitched, InItsTime, Nobody
<1>13. QED  BY <1>2, <1>4, <1>6, <1>7, <1>10, <1>12, OneKeeps DEF Sound

\* Where the App was deleted a webhook's first read ends its search.
LEMMA ReadIsSound ==
    ASSUME SetupInv, NEW r \in Watched, Read(r)
    PROVE  SetupInv'
<1>1. PICK found \in {"none", "set"} :
         LET k == Head(reader[r].left)
             has == found = "set" \/ FallsBack(r, k)
             got == reader[r].got \cup (IF has THEN {k} ELSE {})
         IN  /\ CachedGet(r, k, found)
             /\ IF k = "secret" \/ ~has
                THEN /\ reader' = [reader EXCEPT ![r] = Quiet] /\ Takes(r, got)
                     /\ boot' = IF reader[r].for = "start"
                                THEN [boot EXCEPT ![r] = "offline"] ELSE boot
                ELSE /\ reader' = [reader EXCEPT ![r] = [for |-> @.for, left |-> Tail(@.left), got |-> got]]
                     /\ UNCHANGED <<live, boot>>
  BY DEF Read
<1>2. /\ reader[r].left # << >>
      /\ UNCHANGED <<host, rows, page, mirror, offline, owner, cleared, switched>>
  BY DEF Read
<1> DEFINE k == Head(reader[r].left)
           has == found = "set" \/ FallsBack(r, k)
           got == reader[r].got \cup (IF has THEN {k} ELSE {})
<1>3. SetupTypeOK /\ found \in Values
  BY DEF Values, SetupInv
<1>4. /\ k \in Cred /\ Tail(reader[r].left) \in Rests
      /\ reader[r].left = Order => k = "id"
      /\ k # "secret" => Tail(reader[r].left) # << >>
  BY <1>2, <1>3, ListsShrink DEF SetupTypeOK, Rests, Cred
<1>5. PICK j \in Cred : j = k
  BY <1>4
<1>6. /\ CachedGet(r, j, found) /\ got \in SUBSET Cred
      /\ ~has => got = reader[r].got
      /\ \/ /\ reader' = [reader EXCEPT ![r] = Quiet] /\ Takes(r, got)
            /\ boot' = IF reader[r].for = "start" THEN [boot EXCEPT ![r] = "offline"] ELSE boot
         \/ /\ has /\ j # "secret" /\ UNCHANGED <<live, boot>>
            /\ reader' = [reader EXCEPT ![r] = [for |-> @.for, left |-> Tail(@.left), got |-> got]]
  BY <1>1, <1>4, <1>5, <1>3 DEF SetupTypeOK
<1>7. has = (found = "set" \/ FallsBack(r, j))
  BY <1>5
<1> HIDE DEF k, has
<1>8. PICK g \in SUBSET Cred : g = got /\ (~has => g = reader[r].got)
  BY <1>6
<1> HIDE DEF got
<1>9. j \in Keys
  BY DEF Keys
<1>10. /\ held' \in [Watched -> [Keys -> Values \cup {"unknown"}]]
       /\ mishaps' \in 0..MaxMishaps /\ mishaps' >= mishaps
       /\ \A s \in Watched \ {r} : held'[s] = held[s]
       /\ \A i \in Keys \ {j} : held'[r][i] = held[r][i]
       /\ held'[r][j] \in {held[r][j], rows[j]}
       /\ \/ found = held[r][j] /\ held[r][j] # "unknown"
          \/ found = rows[j] /\ held[r][j] = "unknown"
          \/ found = "none" /\ mishaps < MaxMishaps
  BY <1>3, <1>6, <1>9, GetAt
<1>11. InItsTime(r) /\ NoIdLeft(r) /\ StaysSwitched(r) /\ (cleared[r] = "gone" => live[r] = {})
  BY DEF SetupInv
<1>12. /\ live' \in [Watched -> SUBSET Cred]
       /\ \A s \in Watched \ {r} : live'[s] = live[s]
       /\ g = {} /\ reader[r].for # "start" => live'[r] = live[r]
  <2>1. live \in [Watched -> SUBSET Cred] /\ (g = {} => ~(Cred \subseteq g))
    BY <1>3 DEF SetupTypeOK, Cred
  <2>2. live' = live \/ Takes(r, g)
    BY <1>6, <1>8
  <2>3. CASE reader[r].for = "start"
    BY <1>8, <2>1, <2>2, <2>3 DEF Takes
  <2>4. CASE reader[r].for # "start"
    BY <1>8, <2>1, <2>2, <2>4 DEF Takes
  <2>5. QED  BY <2>3, <2>4
<1>13. /\ reader' \in [Watched -> [for : {"none", "start", "webhook"}, left : Rests, got : SUBSET Cred]]
       /\ \A s \in Watched \ {r} : reader'[s] = reader[s]
       /\ \/ reader'[r] = Quiet
          \/ /\ has /\ j # "secret" /\ live' = live /\ boot' = boot
             /\ reader'[r].for = reader[r].for /\ reader'[r].left = Tail(reader[r].left)
  <2>1. CASE reader' = [reader EXCEPT ![r] = Quiet]
    BY <1>3, <2>1 DEF SetupTypeOK, Quiet, Rests
  <2>2. CASE /\ has /\ j # "secret" /\ UNCHANGED <<live, boot>>
             /\ reader' = [reader EXCEPT ![r] = [for |-> @.for, left |-> Tail(@.left), got |-> got]]
    <3> DEFINE now == [for |-> reader[r].for, left |-> Tail(reader[r].left), got |-> g]
    <3>1. /\ reader \in [Watched -> [for : {"none", "start", "webhook"}, left : Rests, got : SUBSET Cred]]
          /\ now \in [for : {"none", "start", "webhook"}, left : Rests, got : SUBSET Cred]
      BY <1>3, <1>4, <1>8 DEF SetupTypeOK
    <3>2. reader' = [reader EXCEPT ![r] = now]
      BY <1>8, <2>2, <3>1
    <3>3. QED  BY <2>2, <3>1, <3>2
  <2>3. QED  BY <1>6, <2>1, <2>2
<1>14. /\ boot' \in [Watched -> {"down", "id", "secret", "mirrors", "apply", "resolve", "offline",
                                 "serving"}]
       /\ \A s \in Watched \ {r} : boot'[s] = boot[s]
       /\ boot'[r] = boot[r] \/ (reader[r].for = "start" /\ boot'[r] = "offline")
       /\ reader'[r] = Quiet /\ reader[r].for = "start" => boot'[r] = "offline"
  <2>1. boot' = boot \/ (reader[r].for = "start" /\ boot' = [boot EXCEPT ![r] = "offline"])
    BY <1>6
  <2>2. reader'[r] = Quiet /\ reader[r].for = "start" => boot' = [boot EXCEPT ![r] = "offline"]
    BY <1>6, <1>13 DEF Quiet
  <2>3. boot \in [Watched -> {"down", "id", "secret", "mirrors", "apply", "resolve", "offline",
                              "serving"}]
    BY <1>3 DEF SetupTypeOK
  <2>4. QED  BY <2>1, <2>2, <2>3
<1>15. SetupTypeOK'
  BY <1>2, <1>3, <1>10, <1>12, <1>13, <1>14 DEF SetupTypeOK
<1>16. \A s \in Watched \ {r} : Spared(s) /\ cleared'[s] = cleared[s] /\ switched'[s] = switched[s]
  BY <1>2, <1>10, <1>12, <1>13, <1>14 DEF Spared
<1>17. InItsTime(r)'
  <2>1. /\ boot[r] # "serving" => owner[r] = Nobody /\ page[r] = NoPage
        /\ reader[r].for = "start" <=> boot[r] = "resolve"
        /\ reader[r].for = "webhook" => boot[r] = "serving" /\ reader[r].left # << >>
        /\ boot[r] \in {"down", "id", "secret", "mirrors", "apply"} => mirror[r] = host["offline"]
        /\ reader[r].for \in {"start", "webhook"}
    BY <1>2, <1>3, <1>11 DEF InItsTime, SetupTypeOK
  <2>2. boot'[r] = boot[r] \/ (boot[r] = "resolve" /\ boot'[r] = "offline")
    BY <1>14, <2>1
  <2>3. boot[r] \in {"resolve", "serving"}
    BY <2>1
  <2>4. CASE reader'[r] = Quiet
    <3>1. boot'[r] \in {"offline", "serving"}
      BY <1>14, <2>1, <2>2, <2>4
    <3>2. QED  BY <1>2, <2>1, <2>2, <2>3, <2>4, <3>1 DEF InItsTime, Quiet
  <2>5. CASE /\ j # "secret" /\ boot' = boot
             /\ reader'[r].for = reader[r].for /\ reader'[r].left = Tail(reader[r].left)
    BY <1>2, <1>4, <1>5, <2>1, <2>3, <2>5 DEF InItsTime
  <2>6. QED  BY <1>13, <2>4, <2>5
<1>18. ASSUME cleared[r] # "no"
       PROVE  reader'[r] = Quiet /\ live'[r] = live[r] /\ boot'[r] = boot[r] /\ j = "id"
  <2>1. j = "id" /\ reader[r].got = {} /\ reader[r].for # "start"
    BY <1>2, <1>4, <1>5, <1>11, <1>18 DEF NoIdLeft, InItsTime
  <2>2. ~has
    BY <1>7, <1>10, <1>11, <1>18, <2>1 DEF FallsBack, NoIdLeft
  <2>3. QED  BY <1>8, <1>12, <1>13, <1>14, <2>1, <2>2
<1>19. NoIdLeft(r)' /\ (cleared'[r] = "gone" => live'[r] = {})
  BY <1>2, <1>10, <1>11, <1>18 DEF NoIdLeft, Quiet
<1>20. "offline" \in Keys \ {j}
  BY DEF Keys, Cred
<1>21. StaysSwitched(r)'
  BY <1>2, <1>3, <1>10, <1>11, <1>14, <1>20, SetupAssumption DEF StaysSwitched, InItsTime, SetupTypeOK
<1>22. QED  BY <1>2, <1>10, <1>15, <1>16, <1>17, <1>19, <1>21, OneKeeps DEF Sound

LEMMA StopIsSound ==
    ASSUME SetupInv, NEW r \in Watched, Stop(r)
    PROVE  SetupInv'
<1>1. /\ boot' = [boot EXCEPT ![r] = "down"] /\ held' = [held EXCEPT ![r] = Unknown]
      /\ page' = [page EXCEPT ![r] = NoPage] /\ live' = [live EXCEPT ![r] = {}]
      /\ mirror' = [mirror EXCEPT ![r] = host["offline"]]
      /\ offline' = [offline EXCEPT ![r] = FALSE] /\ reader' = [reader EXCEPT ![r] = Quiet]
      /\ owner' = [owner EXCEPT ![r] = Nobody] /\ cleared' = [cleared EXCEPT ![r] = "no"]
      /\ switched' = [switched EXCEPT ![r] = FALSE] /\ UNCHANGED <<host, rows>>
      /\ Mishap
  BY DEF Stop
<1>2. mishaps' \in 0..MaxMishaps /\ mishaps' >= mishaps
  BY <1>1, MishapCounts DEF SetupInv
<1>3. /\ host["offline"] \in Values /\ Unknown \in [Keys -> Values \cup {"unknown"}]
      /\ Quiet \in [for : {"none", "start", "webhook"}, left : Rests, got : SUBSET Cred]
      /\ Nobody \in Asked
  BY DEF SetupInv, SetupTypeOK, Values, Unknown, Quiet, Rests, Nobody, Asked
<1>4. SetupTypeOK'
  BY <1>1, <1>2, <1>3 DEF SetupInv, SetupTypeOK
<1>5. \A s \in Watched \ {r} : Spared(s) /\ cleared'[s] = cleared[s] /\ switched'[s] = switched[s]
  BY <1>1, SetupAssumption DEF Spared, SetupInv, SetupTypeOK
<1>6. /\ boot'[r] = "down" /\ held'[r] = Unknown /\ page'[r] = NoPage /\ reader'[r] = Quiet
      /\ owner'[r] = Nobody /\ cleared'[r] = "no" /\ ~switched'[r] /\ mirror'[r] = host["offline"]
  BY <1>1 DEF SetupInv, SetupTypeOK
<1>7. InItsTime(r)' /\ NoIdLeft(r)' /\ StaysSwitched(r)' /\ (cleared'[r] = "gone" => live'[r] = {})
  BY <1>1, <1>6 DEF InItsTime, NoIdLeft, StaysSwitched, Quiet
<1>8. QED  BY <1>1, <1>2, <1>4, <1>5, <1>7, OneKeeps DEF Sound

-----------------------------------------------------------------------------
\* What comes in while a replica serves.

LEMMA CacheIsSound ==
    ASSUME SetupInv, NEW r \in Watched, ShowSettings(r) \/ CachePutAll(r) \/ Forget(r)
    PROVE  SetupInv'
<1>1. UNCHANGED <<host, rows, boot, live, mirror, offline, reader, owner, cleared, switched, mishaps>>
  BY DEF ShowSettings, CachePutAll, Forget
<1>2. \/ boot[r] = "serving" /\ page' = [page EXCEPT ![r] = rows] /\ held' = held
      \/ page[r] # NoPage /\ page' = [page EXCEPT ![r] = NoPage] /\ held' = [held EXCEPT ![r] = page[r]]
      \/ page' = page /\ held' = [held EXCEPT ![r] = Unknown]
  BY DEF ShowSettings, CachePutAll, Forget
<1>3. /\ rows \in [Keys -> Values] /\ held \in [Watched -> [Keys -> Values \cup {"unknown"}]]
      /\ page \in [Watched -> [Keys -> Values] \cup {NoPage}]
      /\ Unknown \in [Keys -> Values \cup {"unknown"}]
      /\ InItsTime(r) /\ NoIdLeft(r) /\ StaysSwitched(r) /\ (cleared[r] = "gone" => live[r] = {})
  BY DEF SetupInv, SetupTypeOK, Unknown
<1>4. /\ held' \in [Watched -> [Keys -> Values \cup {"unknown"}]]
      /\ page' \in [Watched -> [Keys -> Values] \cup {NoPage}]
      /\ \A s \in Watched \ {r} : held'[s] = held[s] /\ page'[s] = page[s]
      /\ \/ boot[r] = "serving" /\ page'[r] = rows /\ held'[r] = held[r]
         \/ page[r] # NoPage /\ page'[r] = NoPage /\ held'[r] = page[r]
         \/ page'[r] = page[r] /\ held'[r] = Unknown
  <2>1. CASE boot[r] = "serving" /\ page' = [page EXCEPT ![r] = rows] /\ held' = held
    BY <1>3, <2>1
  <2>2. CASE /\ page[r] # NoPage /\ page' = [page EXCEPT ![r] = NoPage]
             /\ held' = [held EXCEPT ![r] = page[r]]
    <3>1. page[r] \in [Keys -> Values \cup {"unknown"}]
      BY <1>3, <2>2
    <3>2. QED  BY <1>3, <2>2, <3>1
  <2>3. CASE page' = page /\ held' = [held EXCEPT ![r] = Unknown]
    BY <1>3, <2>3
  <2>4. QED  BY <1>2, <2>1, <2>2, <2>3
<1>5. SetupTypeOK' /\ mishaps' >= mishaps
  BY <1>1, <1>4, SetupAssumption DEF SetupInv, SetupTypeOK
<1>6. \A s \in Watched \ {r} : Spared(s) /\ cleared'[s] = cleared[s] /\ switched'[s] = switched[s]
  BY <1>1, <1>4 DEF Spared
<1>7. Unknown["id"] = "unknown" /\ Unknown["offline"] = "unknown"
  BY DEF Unknown, Keys, Cred
<1>8. InItsTime(r)'
  BY <1>1, <1>3, <1>4 DEF InItsTime, Nobody
<1>9. NoIdLeft(r)' /\ (cleared'[r] = "gone" => live'[r] = {})
  BY <1>1, <1>3, <1>4, <1>7 DEF NoIdLeft
<1>10. boot[r] # "serving" => page[r] = NoPage
  BY <1>3 DEF InItsTime
<1>11. StaysSwitched(r)'
  BY <1>1, <1>3, <1>4, <1>7, <1>10 DEF StaysSwitched
<1>12. QED  BY <1>1, <1>5, <1>6, <1>8, <1>9, <1>11, OneKeeps DEF Sound

LEMMA WebhookIsSound ==
    ASSUME SetupInv, NEW r \in Watched, HandleWebhook(r)
    PROVE  SetupInv'
<1> DEFINE search == [for |-> "webhook", left |-> Order, got |-> {}]
<1>1. /\ boot[r] = "serving" /\ reader[r] = Quiet
      /\ reader' = reader \/ reader' = [reader EXCEPT ![r] = search]
      /\ UNCHANGED <<host, rows, boot, held, page, live, mirror, offline, owner, cleared, switched,
                     mishaps>>
  BY DEF HandleWebhook
<1>2. /\ search \in [for : {"none", "start", "webhook"}, left : Rests, got : SUBSET Cred]
      /\ search.for = "webhook" /\ search.left = Order /\ search.got = {} /\ Order # << >>
  BY ListsShrink DEF Rests
<1> HIDE DEF search
<1>3. /\ reader' \in [Watched -> [for : {"none", "start", "webhook"}, left : Rests, got : SUBSET Cred]]
      /\ \A s \in Watched \ {r} : reader'[s] = reader[s]
      /\ reader'[r] \in {reader[r], search}
  <2>1. reader \in [Watched -> [for : {"none", "start", "webhook"}, left : Rests, got : SUBSET Cred]]
    BY DEF SetupInv, SetupTypeOK
  <2>2. CASE reader' = reader
    BY <2>1, <2>2
  <2>3. CASE reader' = [reader EXCEPT ![r] = search]
    BY <1>2, <2>1, <2>3
  <2>4. QED  BY <1>1, <2>2, <2>3
<1>4. SetupTypeOK' /\ mishaps' >= mishaps
  BY <1>1, <1>3, SetupAssumption DEF SetupInv, SetupTypeOK
<1>5. \A s \in Watched \ {r} : Spared(s) /\ cleared'[s] = cleared[s] /\ switched'[s] = switched[s]
  BY <1>1, <1>3 DEF Spared
<1>6. InItsTime(r) /\ NoIdLeft(r) /\ StaysSwitched(r) /\ (cleared[r] = "gone" => live[r] = {})
  BY DEF SetupInv
<1>7. InItsTime(r)' /\ NoIdLeft(r)' /\ StaysSwitched(r)' /\ (cleared'[r] = "gone" => live'[r] = {})
  BY <1>1, <1>2, <1>3, <1>6 DEF InItsTime, NoIdLeft, StaysSwitched
<1>8. QED  BY <1>1, <1>4, <1>5, <1>7, OneKeeps DEF Sound

-----------------------------------------------------------------------------
\* The requests of owners.

\* A step of a request that leaves o of it.
LEMMA AtOwner ==
    ASSUME SetupInv, NEW r \in Watched, NEW o \in Asked,
           boot[r] = "serving", UNCHANGED <<host, boot, page, reader>>,
           owner' = [owner EXCEPT ![r] = o],
           rows' \in [Keys -> Values], held' \in [Watched -> [Keys -> Values \cup {"unknown"}]],
           live' \in [Watched -> SUBSET Cred], mirror' \in [Watched -> Values],
           offline' \in [Watched -> BOOLEAN], cleared' \in [Watched -> {"no", "going", "gone"}],
           switched' \in [Watched -> BOOLEAN], mishaps' \in 0..MaxMishaps, mishaps' >= mishaps,
           \A s \in Watched \ {r} :
              /\ held'[s] = held[s] /\ live'[s] = live[s] /\ mirror'[s] = mirror[s]
              /\ offline'[s] = offline[s]
              /\ \/ rows' = rows /\ cleared'[s] = cleared[s] /\ switched'[s] = switched[s]
                 \/ \E k \in Keys, v \in Values : WrittenElsewhere(s, k, v),
           cleared'[r] # "no" =>
              /\ rows'["id"] = "none" /\ held'[r]["id"] \in {"none", "unknown"}
              /\ page[r] # NoPage => page[r]["id"] = "none"
              /\ reader[r].left \in {<< >>, Order} /\ reader[r].got = {}
              /\ o.pc = "setup" => o.left = Order,
           cleared'[r] = "gone" => live'[r] = {},
           switched'[r] => /\ rows'["offline"] = "on" /\ (OneFails => offline'[r])
                           /\ o.pc # "disable" /\ o # [pc |-> "off", left |-> << >>]
    PROVE  SetupInv'
<1>1. SetupTypeOK'
  BY DEF SetupInv, SetupTypeOK
<1>2. owner'[r] = o /\ \A s \in Watched \ {r} : owner'[s] = owner[s]
  BY DEF SetupInv, SetupTypeOK
<1>3. \A s \in Watched \ {r} : Spared(s)
  BY <1>2 DEF Spared
<1>4. InItsTime(r)'
  BY DEF SetupInv, InItsTime
<1>5. NoIdLeft(r)' /\ StaysSwitched(r)'
  BY <1>2 DEF NoIdLeft, StaysSwitched
<1>6. QED  BY <1>1, <1>3, <1>4, <1>5, OneKeeps DEF Sound

\* What a request may say, where it is made.
LEMMA WhatIsAsked ==
    ASSUME SetupInv, NEW r \in Watched, owner[r] # Nobody
    PROVE  boot[r] = "serving" /\ owner[r] \in Asked
BY DEF SetupInv, SetupTypeOK, InItsTime

LEMMA AskIsSound ==
    ASSUME SetupInv, NEW r \in Watched \cup {Elsewhere}, NEW of, NEW pc, NEW left,
           Ask(r, of, pc, left), [pc |-> pc, left |-> left] \in Asked,
           pc = "setup" => left = Order, pc \in {"setup", "delete", "on", "off"}, left # << >>
    PROVE  SetupInv'
<1> DEFINE o == [pc |-> pc, left |-> left]
<1>1. /\ owner' = [owner EXCEPT ![r] = o] /\ (r # Elsewhere => boot[r] = "serving")
      /\ UNCHANGED <<host, rows, boot, held, page, live, mirror, offline, reader, cleared,
                     switched, mishaps>>
  BY DEF Ask
<1>2. o \in Asked /\ o.pc = pc /\ o.left = left /\ o # [pc |-> "off", left |-> << >>]
  BY DEF Asked
<1> HIDE DEF o
<1>3. SetupTypeOK /\ mishaps' \in 0..MaxMishaps /\ mishaps' >= mishaps
  BY <1>1, MishapCounts DEF SetupInv
<1>4. CASE r = Elsewhere
  <2>1. SetupTypeOK'
    BY <1>1, <1>2, <1>3 DEF SetupTypeOK
  <2>2. \A s \in Watched \ {r} : Spared(s) /\ cleared'[s] = cleared[s] /\ switched'[s] = switched[s]
    BY <1>1, <1>3 DEF Spared, SetupTypeOK
  <2>3. QED  BY <1>1, <1>3, <1>4, <2>1, <2>2, OneKeeps, SetupAssumption
<1>5. CASE r \in Watched
  <2>1. /\ cleared[r] # "no" =>
              /\ rows["id"] = "none" /\ held[r]["id"] \in {"none", "unknown"}
              /\ page[r] # NoPage => page[r]["id"] = "none"
              /\ reader[r].left \in {<< >>, Order} /\ reader[r].got = {}
        /\ cleared[r] = "gone" => live[r] = {}
        /\ switched[r] => rows["offline"] = "on" /\ (OneFails => offline[r])
    BY <1>1, <1>5, SetupAssumption DEF SetupInv, NoIdLeft, StaysSwitched
  <2>2. o.pc = "setup" => o.left = Order
    BY <1>2
  <2>3. o.pc # "disable"
    BY <1>2
  <2>4. QED  BY <1>1, <1>2, <1>3, <1>5, <2>1, <2>2, <2>3, AtOwner, SetupAssumption DEF SetupTypeOK
<1>6. QED  BY <1>4, <1>5

LEMMA AbandonIsSound ==
    ASSUME SetupInv, NEW r \in Watched \cup {Elsewhere}, Abandon(r) \/ (r = Elsewhere /\ DoneElsewhere)
    PROVE  SetupInv'
<1>1. /\ owner[r] # Nobody /\ owner' = [owner EXCEPT ![r] = Nobody]
      /\ UNCHANGED <<host, rows, boot, held, page, live, mirror, offline, reader, cleared, switched>>
      /\ Mishap \/ UNCHANGED mishaps
  BY DEF Abandon, DoneElsewhere
<1>2. Nobody \in Asked /\ Nobody.pc = "idle"
  BY DEF Nobody, Asked
<1>3. SetupTypeOK /\ mishaps' \in 0..MaxMishaps /\ mishaps' >= mishaps
  BY <1>1, MishapCounts DEF SetupInv
<1>4. CASE r = Elsewhere
  <2>1. SetupTypeOK'
    BY <1>1, <1>2, <1>3 DEF SetupTypeOK
  <2>2. \A s \in Watched \ {r} : Spared(s) /\ cleared'[s] = cleared[s] /\ switched'[s] = switched[s]
    BY <1>1, <1>3 DEF Spared, SetupTypeOK
  <2>3. QED  BY <1>1, <1>3, <1>4, <2>1, <2>2, OneKeeps, SetupAssumption
<1>5. CASE r \in Watched
  <2>1. boot[r] = "serving"
    BY <1>1, <1>5, WhatIsAsked
  <2>2. /\ cleared[r] # "no" =>
              /\ rows["id"] = "none" /\ held[r]["id"] \in {"none", "unknown"}
              /\ page[r] # NoPage => page[r]["id"] = "none"
              /\ reader[r].left \in {<< >>, Order} /\ reader[r].got = {}
        /\ cleared[r] = "gone" => live[r] = {}
        /\ switched[r] => rows["offline"] = "on" /\ (OneFails => offline[r])
    BY <1>5, <2>1 DEF SetupInv, NoIdLeft, StaysSwitched
  <2>3. Nobody # [pc |-> "off", left |-> << >>]
    BY DEF Nobody
  <2>4. QED  BY <1>1, <1>2, <1>3, <1>5, <2>1, <2>2, <2>3, AtOwner DEF SetupTypeOK
<1>6. QED  BY <1>4, <1>5

LEMMA EndsAreSound ==
    ASSUME SetupInv, NEW r \in Watched,
           SetBotConfig(r) \/ ClearBotConfig(r) \/ Deactivate(r)
    PROVE  SetupInv'
<1>1. /\ owner[r] # Nobody /\ boot[r] = "serving"
      /\ UNCHANGED <<host, rows, boot, held, page, mirror, offline, reader, switched, mishaps>>
  <2>1. owner[r].pc \in {"setup", "delete", "deactivate"}
    BY DEF SetBotConfig, ClearBotConfig, Deactivate, Written
  <2>2. owner[r] # Nobody
    BY <2>1 DEF Nobody
  <2>3. QED  BY <2>2, WhatIsAsked DEF SetBotConfig, ClearBotConfig, Deactivate
<1>2. SetupTypeOK /\ mishaps' \in 0..MaxMishaps /\ mishaps' >= mishaps
  BY <1>1, MishapCounts DEF SetupInv
<1>3. /\ cleared[r] # "no" =>
            /\ rows["id"] = "none" /\ held[r]["id"] \in {"none", "unknown"}
            /\ page[r] # NoPage => page[r]["id"] = "none"
            /\ reader[r].left \in {<< >>, Order} /\ reader[r].got = {}
            /\ owner[r].pc = "setup" => owner[r].left = Order
      /\ cleared[r] = "gone" => live[r] = {}
      /\ switched[r] => rows["offline"] = "on" /\ (OneFails => offline[r])
  BY <1>1 DEF SetupInv, NoIdLeft, StaysSwitched
<1>4. \E o \in {Nobody, [pc |-> "deactivate", left |-> << >>]} : owner' = [owner EXCEPT ![r] = o]
  <2>1. CASE ClearBotConfig(r)
    <3>1. owner[r] \in [pc : {"setup", "delete"}, left : Rests] /\ owner[r].left = << >>
      BY <1>1, <2>1, WhatIsAsked DEF ClearBotConfig, Written, Asked
    <3>2. [owner[r] EXCEPT !.pc = "deactivate"] = [pc |-> "deactivate", left |-> << >>]
      BY <3>1
    <3>3. owner' = [owner EXCEPT ![r] = [owner[r] EXCEPT !.pc = "deactivate"]]
      BY <1>2, <2>1 DEF ClearBotConfig, SetupTypeOK
    <3>4. QED  BY <3>2, <3>3
  <2>2. CASE SetBotConfig(r) \/ Deactivate(r)
    BY <2>2 DEF SetBotConfig, Deactivate
  <2>3. QED  BY <2>1, <2>2
<1>5. PICK o \in {Nobody, [pc |-> "deactivate", left |-> << >>]} : owner' = [owner EXCEPT ![r] = o]
  BY <1>4
<1>6. o \in Asked /\ o.pc \in {"idle", "deactivate"} /\ o # [pc |-> "off", left |-> << >>]
  BY <1>5 DEF Nobody, Asked
<1>7. /\ live' \in [Watched -> SUBSET Cred] /\ cleared' \in [Watched -> {"no", "going", "gone"}]
      /\ \A s \in Watched \ {r} : live'[s] = live[s] /\ cleared'[s] = cleared[s]
      /\ cleared'[r] # "no" => cleared[r] # "no"
      /\ cleared'[r] = "gone" => live'[r] = {}
  <2>1. live \in [Watched -> SUBSET Cred] /\ cleared \in [Watched -> {"no", "going", "gone"}]
    BY <1>2 DEF SetupTypeOK
  <2>2. CASE SetBotConfig(r)
    <3>1. owner[r].pc = "setup" /\ owner[r].left = << >> /\ cleared' = cleared
          /\ live' = [live EXCEPT ![r] = Cred]
      BY <2>2 DEF SetBotConfig, Written
    <3>2. cleared[r] = "no"
      BY <1>3, <3>1, ListsShrink
    <3>3. QED  BY <2>1, <3>1, <3>2
  <2>3. CASE ClearBotConfig(r)
    BY <2>1, <2>3 DEF ClearBotConfig
  <2>4. CASE Deactivate(r)
    BY <1>3, <2>1, <2>4 DEF Deactivate
  <2>5. QED  BY <2>2, <2>3, <2>4
<1>8. /\ rows' \in [Keys -> Values] /\ held' \in [Watched -> [Keys -> Values \cup {"unknown"}]]
      /\ mirror' \in [Watched -> Values] /\ offline' \in [Watched -> BOOLEAN]
      /\ switched' \in [Watched -> BOOLEAN]
  BY <1>1, <1>2 DEF SetupTypeOK
<1>9. /\ cleared'[r] # "no" =>
            /\ rows'["id"] = "none" /\ held'[r]["id"] \in {"none", "unknown"}
            /\ page[r] # NoPage => page[r]["id"] = "none"
            /\ reader[r].left \in {<< >>, Order} /\ reader[r].got = {}
            /\ o.pc = "setup" => o.left = Order
      /\ switched'[r] => /\ rows'["offline"] = "on" /\ (OneFails => offline'[r])
                         /\ o.pc # "disable" /\ o # [pc |-> "off", left |-> << >>]
  BY <1>1, <1>3, <1>6, <1>7
<1>10. \A s \in Watched \ {r} :
          /\ held'[s] = held[s] /\ live'[s] = live[s] /\ mirror'[s] = mirror[s]
          /\ offline'[s] = offline[s]
          /\ rows' = rows /\ cleared'[s] = cleared[s] /\ switched'[s] = switched[s]
  BY <1>1, <1>7
<1>11. QED  BY <1>1, <1>2, <1>5, <1>6, <1>7, <1>8, <1>9, <1>10, AtOwner

\* To switch off is not told to who was to be offline still.
LEMMA FlagIsSound ==
    ASSUME SetupInv, NEW r \in Watched, MirrorOffline(r) \/ SetOfflineMode(r)
    PROVE  SetupInv'
<1>1. SetupTypeOK /\ StaysSwitched(r) /\ NoIdLeft(r) /\ (cleared[r] = "gone" => live[r] = {})
  BY DEF SetupInv
<1>2. owner[r].pc \in {"on", "off", "enable", "disable"}
  BY DEF MirrorOffline, SetOfflineMode
<1>3. owner[r] # Nobody /\ boot[r] = "serving" /\ owner[r] \in Asked
  <2>1. owner[r] # Nobody
    BY <1>2 DEF Nobody
  <2>2. QED  BY <2>1, WhatIsAsked
<1>4. UNCHANGED <<host, rows, boot, held, page, live, reader, cleared, mishaps>>
  BY DEF MirrorOffline, SetOfflineMode
<1>5. /\ mishaps' \in 0..MaxMishaps /\ mishaps' >= mishaps
      /\ live' \in [Watched -> SUBSET Cred] /\ cleared' \in [Watched -> {"no", "going", "gone"}]
      /\ rows' \in [Keys -> Values] /\ held' \in [Watched -> [Keys -> Values \cup {"unknown"}]]
  BY <1>1, <1>4, MishapCounts DEF SetupTypeOK
<1>6. /\ cleared'[r] # "no" =>
            /\ rows'["id"] = "none" /\ held'[r]["id"] \in {"none", "unknown"}
            /\ page[r] # NoPage => page[r]["id"] = "none"
            /\ reader[r].left \in {<< >>, Order} /\ reader[r].got = {}
      /\ cleared'[r] = "gone" => live'[r] = {}
  BY <1>1, <1>4 DEF NoIdLeft
<1>7. ASSUME NEW o \in Asked, owner' = [owner EXCEPT ![r] = o], o.pc # "setup",
             mirror' \in [Watched -> Values], offline' \in [Watched -> BOOLEAN],
             switched' \in [Watched -> BOOLEAN],
             \A s \in Watched \ {r} : mirror'[s] = mirror[s] /\ offline'[s] = offline[s]
                                      /\ switched'[s] = switched[s],
             switched'[r] => /\ rows["offline"] = "on" /\ (OneFails => offline'[r])
                             /\ o.pc # "disable" /\ o # [pc |-> "off", left |-> << >>]
      PROVE  SetupInv'
  BY <1>3, <1>4, <1>5, <1>6, <1>7, AtOwner
<1>8. CASE MirrorOffline(r)
  <2> DEFINE o == [pc |-> IF owner[r].pc = "on" THEN "enable" ELSE "disable", left |-> << >>]
  <2>1. /\ owner[r].pc \in {"on", "off"} /\ owner[r].left = << >>
        /\ mirror' = [mirror EXCEPT ![r] = owner[r].pc] /\ UNCHANGED <<offline, switched>>
        /\ owner' = [owner EXCEPT ![r].pc = IF @ = "on" THEN "enable" ELSE "disable"]
    BY <1>8 DEF MirrorOffline
  <2>2. owner[r] \in [pc : {"on", "off"}, left : {<<"offline">>, << >>}]
    BY <1>3, <2>1 DEF Asked
  <2>3. owner[r] = [pc |-> owner[r].pc, left |-> << >>]
    BY <2>1, <2>2
  <2>4. [owner[r] EXCEPT !.pc = IF owner[r].pc = "on" THEN "enable" ELSE "disable"] = o
    BY <2>1, <2>2
  <2>5. owner' = [owner EXCEPT ![r] = o]
    BY <1>1, <2>1, <2>4 DEF SetupTypeOK
  <2>6. o \in Asked /\ o.pc # "setup" /\ o # [pc |-> "off", left |-> << >>]
    BY DEF Asked
  <2>7. switched[r] => rows["offline"] = "on" /\ (OneFails => offline[r]) /\ o.pc # "disable"
    BY <1>1, <1>3, <2>1, <2>3 DEF StaysSwitched
  <2> HIDE DEF o
  <2>8. mirror' \in [Watched -> Values] /\ \A s \in Watched \ {r} : mirror'[s] = mirror[s]
    BY <1>1, <2>1 DEF SetupTypeOK, Values
  <2>9. QED  BY <1>1, <1>7, <2>1, <2>5, <2>6, <2>7, <2>8 DEF SetupTypeOK
<1>9. CASE SetOfflineMode(r)
  <2>1. /\ owner[r].pc \in {"enable", "disable"}
        /\ offline' = [offline EXCEPT ![r] = owner[r].pc = "enable"]
        /\ mirror' = mirror \/ mirror' = [mirror EXCEPT ![r] = "none"]
        /\ switched' = [switched EXCEPT ![r] =
                           @ \/ (owner[r].pc = "enable" /\ rows["offline"] = "on")]
        /\ owner' = [owner EXCEPT ![r] = Nobody]
    BY <1>9 DEF SetOfflineMode
  <2>2. Nobody \in Asked /\ Nobody.pc = "idle" /\ Nobody # [pc |-> "off", left |-> << >>]
    BY DEF Nobody, Asked
  <2>3. mirror' \in [Watched -> Values] /\ \A s \in Watched \ {r} : mirror'[s] = mirror[s]
    BY <1>1, <2>1 DEF SetupTypeOK, Values
  <2>4. /\ offline' \in [Watched -> BOOLEAN] /\ switched' \in [Watched -> BOOLEAN]
        /\ offline'[r] = (owner[r].pc = "enable")
        /\ switched'[r] = (switched[r] \/ (owner[r].pc = "enable" /\ rows["offline"] = "on"))
        /\ \A s \in Watched \ {r} : offline'[s] = offline[s] /\ switched'[s] = switched[s]
    BY <1>1, <2>1 DEF SetupTypeOK
  <2>5. switched'[r] => rows["offline"] = "on" /\ (OneFails => offline'[r])
    BY <1>1, <2>1, <2>4 DEF StaysSwitched
  <2>6. QED  BY <1>7, <2>1, <2>2, <2>3, <2>4, <2>5
<1>10. QED  BY <1>8, <1>9

\* To write the id ends what was said of the deletion, or begins it.
LEMMA WriteIsSound ==
    ASSUME SetupInv, NEW r \in Watched \cup {Elsewhere}, Write(r)
    PROVE  SetupInv'
<1> DEFINE k == Head(owner[r].left)
           v == CASE owner[r].pc = "setup" -> "set" [] owner[r].pc = "delete" -> "none"
                  [] OTHER -> owner[r].pc
<1>1. /\ owner[r].left # << >> /\ CachedSet(r, k, v)
      /\ owner' = [owner EXCEPT ![r].left = Tail(@)]
      /\ UNCHANGED <<host, boot, page, live, mirror, offline, reader, mishaps>>
  BY DEF Write
<1>2. SetupTypeOK /\ owner[r] \in Asked /\ mishaps' \in 0..MaxMishaps /\ mishaps' >= mishaps
  BY <1>1, MishapCounts DEF SetupInv, SetupTypeOK
<1>3. \/ /\ owner[r].pc \in {"setup", "delete"} /\ k \in Cred /\ Tail(owner[r].left) \in Rests
         /\ v = IF owner[r].pc = "setup" THEN "set" ELSE "none"
      \/ /\ owner[r].pc \in {"on", "off"} /\ k = "offline" /\ Tail(owner[r].left) = << >>
         /\ v = owner[r].pc
  BY <1>1, <1>2, ListsShrink DEF Asked, Rests, Cred
<1>4. PICK j \in Keys, u \in Values : j = k /\ u = v
  BY <1>3 DEF Keys, Values, Cred
<1> HIDE DEF k, v
<1>5. PICK o \in Asked : o.pc = owner[r].pc /\ o.left = Tail(owner[r].left)
                         /\ owner' = [owner EXCEPT ![r] = o]
  <2> DEFINE o == [pc |-> owner[r].pc, left |-> Tail(owner[r].left)]
  <2>1. o \in Asked
    BY <1>3 DEF Asked
  <2>2. [owner[r] EXCEPT !.left = Tail(owner[r].left)] = o
    <3>1. owner[r] \in [pc : {"setup", "delete", "on", "off", "idle", "deactivate", "enable", "disable"},
                        left : Rests \cup {<<"offline">>}]
      BY <1>2 DEF Asked, Rests
    <3>2. \A x : [owner[r] EXCEPT !.left = x] = [pc |-> owner[r].pc, left |-> x]
      BY <3>1
    <3>3. QED  BY <3>2
  <2>3. owner' = [owner EXCEPT ![r] = o]
    BY <1>1, <1>2, <2>2 DEF SetupTypeOK
  <2>4. o.pc = owner[r].pc /\ o.left = Tail(owner[r].left)
    OBVIOUS
  <2> HIDE DEF o
  <2>5. QED  BY <2>1, <2>3, <2>4
<1>6. /\ rows' \in [Keys -> Values] /\ held' \in [Watched -> [Keys -> Values \cup {"unknown"}]]
      /\ cleared' \in [Watched -> {"no", "going", "gone"}] /\ switched' \in [Watched -> BOOLEAN]
      /\ rows'[j] = u /\ \A i \in Keys \ {j} : rows'[i] = rows[i]
      /\ \A s \in Watched \ {r} : held'[s] = held[s] /\ WrittenElsewhere(s, j, u)
      /\ r \in Watched => /\ held'[r][j] = u
                          /\ \A i \in Keys \ {j} : held'[r][i] = held[r][i]
                          /\ switched'[r] = (switched[r] /\ (j = "offline" => u = "on"))
                          /\ j \in Cred /\ u # "none" => cleared'[r] = "no"
                          /\ j = "offline" => cleared'[r] = cleared[r]
                          /\ j \in {"pem", "secret"} /\ u = "none" => cleared'[r] = cleared[r]
                          /\ j = "id" /\ u = "none" =>
                                cleared'[r] = IF page[r] = NoPage /\ reader[r] = Quiet
                                              THEN "going" ELSE "no"
  BY <1>1, <1>2, <1>4, SetAt
<1>7. CASE r = Elsewhere
  <2>0. /\ owner' \in [Watched \cup {Elsewhere} -> Asked]
        /\ \A s \in Watched \ {r} : owner'[s] = owner[s]
    BY <1>2, <1>5 DEF SetupTypeOK
  <2>1. SetupTypeOK'
    BY <1>1, <1>2, <1>6, <2>0 DEF SetupTypeOK
  <2>2. \A s \in Watched \ {r} : Spared(s)
    BY <1>1, <1>6, <2>0 DEF Spared
  <2>3. QED  BY <1>1, <1>2, <1>6, <1>7, <2>1, <2>2, OneKeeps, SetupAssumption
<1>8. CASE r \in Watched
  <2>1. owner[r] # Nobody /\ boot[r] = "serving"
    <3>1. owner[r] # Nobody
      BY <1>1 DEF Nobody
    <3>2. QED  BY <1>8, <3>1, WhatIsAsked
  <2>2. NoIdLeft(r) /\ StaysSwitched(r) /\ (cleared[r] = "gone" => live[r] = {})
    BY <1>8 DEF SetupInv
  <2>3. "id" \in Keys /\ "offline" \in Keys /\ "id" \in Cred /\ "offline" \notin Cred
        /\ (j \in Cred => j = "id" \/ j \in {"pem", "secret"})
    BY DEF Keys, Cred
  <2>4. ASSUME cleared'[r] # "no"
        PROVE  /\ rows'["id"] = "none" /\ held'[r]["id"] \in {"none", "unknown"}
               /\ page[r] # NoPage => page[r]["id"] = "none"
               /\ reader[r].left \in {<< >>, Order} /\ reader[r].got = {}
               /\ o.pc # "setup"
               /\ cleared'[r] \in {cleared[r], "going"}
    <3>1. o.pc # "setup"
      BY <1>3, <1>4, <1>5, <1>6, <1>8, <2>4
    <3>2. CASE j = "id"
      <4>1. u = "none"
        BY <1>3, <1>4, <1>5, <2>3, <3>1, <3>2
      <4>2. page[r] = NoPage /\ reader[r] = Quiet /\ cleared'[r] = "going"
        BY <1>6, <1>8, <2>4, <3>2, <4>1
      <4>3. QED  BY <1>6, <1>8, <3>1, <3>2, <4>1, <4>2 DEF Quiet
    <3>3. CASE j # "id"
      <4>1. cleared'[r] = cleared[r]
        BY <1>3, <1>4, <1>5, <1>6, <1>8, <2>3, <3>1, <3>3
      <4>2. QED  BY <1>6, <1>8, <2>2, <2>3, <2>4, <3>1, <3>3, <4>1 DEF NoIdLeft
    <3>4. QED  BY <3>2, <3>3
  <2>5. cleared'[r] = "gone" => live'[r] = {}
    BY <1>1, <2>2, <2>4
  <2>6. ASSUME switched'[r]
        PROVE  /\ rows'["offline"] = "on" /\ (OneFails => offline[r])
               /\ o.pc # "disable" /\ o # [pc |-> "off", left |-> << >>]
    <3>1. switched[r] /\ (j = "offline" => u = "on")
      BY <1>6, <1>8, <2>6
    <3>2. rows'["offline"] = "on"
      BY <1>6, <2>2, <2>3, <3>1 DEF StaysSwitched
    <3>3. o.pc # "off" /\ o.pc # "disable"
      BY <1>3, <1>4, <1>5, <2>3, <3>1
    <3>4. QED  BY <2>1, <2>2, <3>1, <3>2, <3>3 DEF StaysSwitched
  <2>7. /\ live' \in [Watched -> SUBSET Cred] /\ mirror' \in [Watched -> Values]
        /\ offline' \in [Watched -> BOOLEAN]
    BY <1>1, <1>2 DEF SetupTypeOK
  <2>8. \A s \in Watched \ {r} :
           /\ held'[s] = held[s] /\ live'[s] = live[s] /\ mirror'[s] = mirror[s]
           /\ offline'[s] = offline[s]
           /\ \/ rows' = rows /\ cleared'[s] = cleared[s] /\ switched'[s] = switched[s]
              \/ \E i \in Keys, w \in Values : WrittenElsewhere(s, i, w)
    BY <1>1, <1>6
  <2>9. offline'[r] = offline[r] /\ UNCHANGED <<host, boot, page, reader>>
    BY <1>1
  <2>10. rows' \in [Keys -> Values] /\ held' \in [Watched -> [Keys -> Values \cup {"unknown"}]]
         /\ cleared' \in [Watched -> {"no", "going", "gone"}] /\ switched' \in [Watched -> BOOLEAN]
    BY <1>6
  <2>11. cleared'[r] # "no" =>
            /\ rows'["id"] = "none" /\ held'[r]["id"] \in {"none", "unknown"}
            /\ page[r] # NoPage => page[r]["id"] = "none"
            /\ reader[r].left \in {<< >>, Order} /\ reader[r].got = {}
            /\ o.pc = "setup" => o.left = Order
    BY <2>4
  <2>12. switched'[r] => /\ rows'["offline"] = "on" /\ (OneFails => offline'[r])
                         /\ o.pc # "disable" /\ o # [pc |-> "off", left |-> << >>]
    BY <2>6, <2>9
  <2>13. owner' = [owner EXCEPT ![r] = o] /\ mishaps' \in 0..MaxMishaps /\ mishaps' >= mishaps
    BY <1>2, <1>5
  <2>14. QED
    BY <1>8, <2>1, <2>5, <2>7, <2>8, <2>9, <2>10, <2>11, <2>12, <2>13, AtOwner
<1>9. QED  BY <1>7, <1>8

LEMMA SyncElsewhereIsSound ==
    ASSUME SetupInv, SyncElsewhere
    PROVE  SetupInv'
<1>1. /\ \E k \in {"id", "secret", "offline"} :
            host[k] # "none" /\ rows[k] = "none" /\ CachedSet(Elsewhere, k, host[k])
      /\ UNCHANGED <<host, boot, page, live, mirror, offline, reader, owner, mishaps>>
  BY DEF SyncElsewhere
<1>2. PICK k \in Keys, v \in Values : CachedSet(Elsewhere, k, v)
  BY <1>1 DEF SetupInv, SetupTypeOK, Keys, Cred, Values
<1>3. SetupTypeOK /\ mishaps' >= mishaps
  BY <1>1, MishapCounts DEF SetupInv
<1>4. /\ rows' \in [Keys -> Values] /\ held' \in [Watched -> [Keys -> Values \cup {"unknown"}]]
      /\ cleared' \in [Watched -> {"no", "going", "gone"}] /\ switched' \in [Watched -> BOOLEAN]
      /\ \A s \in Watched \ {Elsewhere} : held'[s] = held[s] /\ WrittenElsewhere(s, k, v)
  BY <1>2, <1>3, SetAt
<1>5. SetupTypeOK'
  BY <1>1, <1>3, <1>4 DEF SetupTypeOK
<1>6. \A s \in Watched \ {Elsewhere} : Spared(s)
  BY <1>1, <1>4 DEF Spared
<1>7. QED  BY <1>1, <1>3, <1>4, <1>5, <1>6, OneKeeps, SetupAssumption

-----------------------------------------------------------------------------
LEMMA SetupStep ==
    ASSUME SetupInv, [SetupNext]_setupVars
    PROVE  SetupInv'
<1>1. CASE \E r \in Watched : Serving(r) \/ Stop(r)
  BY <1>1, StartIsSound, SyncIsSound, MirrorIsSound, ReadIsSound, ServeIsSound, StopIsSound DEF Serving
<1>2. CASE \E r \in Watched : ShowSettings(r) \/ CachePutAll(r) \/ Forget(r) \/ HandleWebhook(r)
  BY <1>2, CacheIsSound, WebhookIsSound
<1>3. CASE \E r \in Watched : Working(r)
  BY <1>3, WriteIsSound, EndsAreSound, FlagIsSound DEF Working
<1>4. CASE \E r \in Watched \cup {Elsewhere} :
              SetupGithub(r) \/ GithubCallback(r) \/ DeleteGithubSettings(r) \/ SetOffline(r)
  <2>1. PICK r \in Watched \cup {Elsewhere}, of \in {"app", "offline"},
             pc \in {"setup", "delete", "on", "off"}, left \in {Order, <<"offline">>} :
           Ask(r, of, pc, left) /\ (pc \in {"setup", "delete"} <=> left = Order)
    BY <1>4, ListsShrink DEF SetupGithub, GithubCallback, DeleteGithubSettings, SetOffline, Rests
  <2>2. [pc |-> pc, left |-> left] \in Asked /\ (pc = "setup" => left = Order) /\ left # << >>
    BY <2>1, ListsShrink DEF Asked, Rests
  <2>3. QED  BY <2>1, <2>2, AskIsSound
<1>5. CASE (\E r \in Watched \cup {Elsewhere} : Abandon(r)) \/ DoneElsewhere
  BY <1>5, AbandonIsSound
<1>6. CASE Write(Elsewhere)
  BY <1>6, WriteIsSound
<1>7. CASE SyncElsewhere
  BY <1>7, SyncElsewhereIsSound
<1>8. CASE UNCHANGED setupVars
  BY <1>8 DEF setupVars, SetupInv, SetupTypeOK, InItsTime, NoIdLeft, StaysSwitched
<1>9. QED  BY <1>1, <1>2, <1>3, <1>4, <1>5, <1>6, <1>7, <1>8 DEF SetupNext

LEMMA SetupBegins == SetupInit => SetupInv
<1> SUFFICES ASSUME SetupInit PROVE SetupInv
  OBVIOUS
<1>1. /\ host["offline"] \in {"none", "on"} /\ host \in [Keys -> {"none", "set", "on"}]
  BY DEF SetupInit, Keys
<1>2. /\ Blank \in [Keys -> Values] /\ Unknown \in [Keys -> Values \cup {"unknown"}]
      /\ Quiet \in [for : {"none", "start", "webhook"}, left : Rests, got : SUBSET Cred]
      /\ Nobody \in Asked /\ host["offline"] \in Values
  BY <1>1 DEF Blank, Unknown, Quiet, Nobody, Asked, Rests, Values
<1>3. SetupTypeOK
  BY <1>1, <1>2, SetupAssumption DEF SetupInit, SetupTypeOK
<1>4. ASSUME NEW r \in Watched
      PROVE  InItsTime(r) /\ NoIdLeft(r) /\ StaysSwitched(r) /\ (cleared[r] = "gone" => live[r] = {})
  BY <1>4 DEF SetupInit, InItsTime, NoIdLeft, StaysSwitched, Quiet
<1>5. QED  BY <1>3, <1>4 DEF SetupInv

\* Where the App was deleted no webhook is taken, until something brings it
\* back (src/src/api/setup.rs, delete_github_settings; src/src/bot/mod.rs,
\* reload_bot_config): for any replicas, requests, crashes and failing reads.
THEOREM DeletedAppStaysDeleted == SetupSpec => []ClearedStays
<1>1. SetupInv => ClearedStays
  BY DEF SetupInv, ClearedStays, Accepts
<1>2. QED  BY <1>1, SetupBegins, SetupStep, PTL DEF SetupSpec

\* What was switched off stays off, the App and what offline mode forbids
\* (src/src/serve.rs, serve; src/src/api/settings.rs, set_setting), for any
\* replicas and requests, whatever single read or request fails.
THEOREM SwitchedOffStaysOff ==
    ASSUME OneFails
    PROVE  SetupSpec => []FailsClosed
<1>1. SetupInv => FailsClosed
  BY DEF SetupInv, FailsClosed, ClearedStays, OfflineStands, StaysSwitched, Accepts
<1>2. QED  BY <1>1, SetupBegins, SetupStep, PTL DEF SetupSpec
==============================================================================
