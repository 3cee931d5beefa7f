------------------------------ MODULE Registry ------------------------------
(***************************************************************************)
(* Lookups of packages at registries and at OSV behind the caches of one   *)
(* process (src/src/registry/mod.rs): does a package exist, what is its    *)
(* licence, what vulnerabilities does it have.  One key of one kind of     *)
(* lookup, asked by several tasks at once, while the registry changes its  *)
(* mind, is out of reach for a time, or the process goes offline.          *)
(*                                                                         *)
(* Every kind has two answers, "yes" and "no" (a licence or none, some     *)
(* vulnerabilities or none); "unknown" is a soft failure.  Time passes in  *)
(* ticks; `since` says how long ago an answer was last true.               *)
(***************************************************************************)
EXTENDS Integers

CONSTANTS
    Task,
    Asked,      \* the kinds of lookup looked at
    Ttl,        \* how long an answer is kept
    SoftTtl,    \* how long a failure is
    Flight      \* how long a request may take, retries included

ASSUME RegistryAssumption ==
    /\ Ttl \in Nat \ {0}
    /\ Flight \in Nat
    /\ Asked \subseteq {"exists", "metadata", "osv", "osv_batch"}

VARIABLES
    kind,       \* "exists", "metadata", "osv" or "osv_batch"
    truth,      \* what the registry says
    since,      \* since[v]: ticks since it last said v
    cache,      \* the entry: a value and its age
    offline,
    lookup,     \* per task: a request under way, with what it was told
    answer      \* what the last step returned to its caller, or None

registryVars == <<kind, truth, since, cache, offline, lookup, answer>>

Value == {"yes", "no"}
None  == [val |-> "none", age |-> 0]
Old   == Ttl + Flight + 1       \* ages are not told apart from here on
Quiet == [pc |-> "idle", told |-> "none", age |-> 0]

RegistryInit ==
    /\ kind \in Asked
    /\ truth \in Value
    /\ since = [v \in Value |-> IF v = truth THEN 0 ELSE Old]
    /\ cache = None
    /\ offline = FALSE
    /\ lookup = [t \in Task |-> Quiet]
    /\ answer = None

Older(n) == IF n < Old THEN n + 1 ELSE n

(* Given back now, with how long ago it was true.                          *)
Answers(v) == answer' = [val |-> v, age |-> IF v \in Value THEN since[v] ELSE 0]

Given(v) == cache' = [val |-> v, age |-> 0]

-----------------------------------------------------------------------------
(* check_package_async: within the time to live, and offline whatever its  *)
(* age; a soft failure within its own.                                     *)
ExistsHit ==
    \/ cache.val \in Value /\ (cache.age < Ttl \/ offline)
    \/ cache.val = "unknown" /\ cache.age < SoftTtl

(* get_metadata_async looks at offline first; "unknown" is an answer other *)
(* than 200, and kept as long as a licence is.                             *)
MetadataHit == ~offline /\ cache # None /\ cache.age < Ttl

(* check_osv_async *)
OsvHit == cache # None /\ (cache.age < Ttl \/ offline)

Hit == CASE kind = "exists" -> ExistsHit
         [] kind = "metadata" -> MetadataHit
         [] kind = "osv" -> OsvHit
         [] kind = "osv_batch" -> FALSE

(* What offline stands in for an answer: no advisory is known.             *)
Offline == IF kind \in {"osv", "osv_batch"} THEN "no" ELSE "unknown"

Lookup(t) ==
    /\ lookup[t].pc = "idle"
    /\ CASE Hit -> Answers(cache.val) /\ UNCHANGED lookup
         [] ~Hit /\ offline -> Answers(Offline) /\ UNCHANGED lookup
         [] OTHER -> /\ lookup' = [lookup EXCEPT ![t].pc = "asking"]
                     /\ answer' = None
    /\ UNCHANGED <<kind, truth, since, cache, offline>>

(* The registry answers, or something in between does: an error status, a  *)
(* timeout.                                                                *)
Told(t, v) ==
    /\ lookup[t].pc = "asking"
    /\ lookup' = [lookup EXCEPT ![t].pc = "told", ![t].told = v]
    /\ answer' = None
    /\ UNCHANGED <<kind, truth, since, cache, offline>>

(* check_async of a registry's client: 200 is yes, 404 no, all else        *)
(* unknown.                                                                *)
RegistryAnswers(t) == Told(t, truth)
RegistryFails(t)   == Told(t, "unknown")

(* Mutant of Store: a failure to learn whether a package exists is taken   *)
(* for its absence.                                                        *)
StoreAbsent(v) ==
    CASE kind = "exists" -> Given(IF v = "unknown" THEN "no" ELSE v)
      [] kind = "metadata" -> Given(v) \/ (v = "unknown" /\ UNCHANGED cache)
      [] kind = "osv" -> IF v = "unknown" THEN UNCHANGED cache ELSE Given(v)
      [] kind = "osv_batch" -> UNCHANGED cache

(* What is kept of an answer: of osv errors nothing, of a metadata request *)
(* only an error status; a failure to learn whether a package exists takes *)
(* the place of what was known.                                            *)
Store(v) ==
    CASE kind = "exists" -> Given(v)
      [] kind = "metadata" -> Given(v) \/ (v = "unknown" /\ UNCHANGED cache)
      [] kind = "osv" -> IF v = "unknown" THEN UNCHANGED cache ELSE Given(v)
      [] kind = "osv_batch" -> UNCHANGED cache

Return(t) ==
    /\ lookup[t].pc = "told"
    /\ Store(lookup[t].told)
    /\ Answers(lookup[t].told)
    /\ lookup' = [lookup EXCEPT ![t] = Quiet]
    /\ UNCHANGED <<kind, truth, since, offline>>

(* evict_cache, on behalf of another key: what is past its time, and       *)
(* the oldest half of the rest.                                            *)
Evict ==
    /\ kind # "osv_batch" /\ cache # None
    /\ cache' = None /\ answer' = None
    /\ UNCHANGED <<kind, truth, since, offline, lookup>>

-----------------------------------------------------------------------------
Change ==
    /\ truth' \in Value \ {truth}
    /\ since' = [since EXCEPT ![truth'] = 0]
    /\ answer' = None
    /\ UNCHANGED <<kind, cache, offline, lookup>>

SetOfflineMode ==
    /\ offline' = ~offline /\ answer' = None
    /\ UNCHANGED <<kind, truth, since, cache, lookup>>

(* A tick; requests end within their time.                                 *)
Tick ==
    /\ \A t \in Task : lookup[t].pc = "idle" \/ lookup[t].age < Flight
    /\ since' = [v \in Value |-> IF v = truth THEN 0 ELSE Older(since[v])]
    /\ cache' = IF cache = None THEN None ELSE [cache EXCEPT !.age = Older(@)]
    /\ lookup' = [t \in Task |-> IF lookup[t].pc = "idle" THEN Quiet
                                 ELSE [lookup[t] EXCEPT !.age = @ + 1]]
    /\ answer' = None
    /\ UNCHANGED <<kind, truth, offline>>

RegistryNext ==
    \/ \E t \in Task : Lookup(t) \/ RegistryAnswers(t) \/ RegistryFails(t) \/ Return(t)
    \/ Evict \/ Change \/ SetOfflineMode \/ Tick

RegistrySpec == RegistryInit /\ [][RegistryNext]_registryVars

-----------------------------------------------------------------------------
(* An answer is backed: online, "yes" and "no" were true no longer ago     *)
(* than the time to live and the flight of a request together; a failure   *)
(* is never passed on as an answer, in particular not as the absence of a  *)
(* package, which the detectors report as an invented import.  It takes an *)
(* outage between two lookups, or a slow request that stores an old answer *)
(* after a fast one has stored a new one.  Offline the entry of any age    *)
(* serves, and no advisory is known.                                       *)
AnswersBacked ==
    ~offline /\ answer.val \in Value => answer.age < Ttl + Flight
=============================================================================
