------------------------------- MODULE AppSetup -------------------------------
(***************************************************************************)
(* What an owner switches on and off while replicas run and start: the     *)
(* GitHub App (src/src/api/setup.rs, settings.rs) and the offline mode.    *)
(* Each is kept in app_config, in the environment a process was started    *)
(* with or has mirrored, and in the memory of every replica, BOT_CONFIG    *)
(* and OFFLINE_MODE (src/src/serve.rs, bot/mod.rs).                        *)
(*                                                                         *)
(* Of a credential only its presence is kept; name and slug, which no      *)
(* decision looks at, are left out.  A seed's read and write are one step: *)
(* a row that comes or goes in between makes the two look like one earlier *)
(* or later.  An entry of a replica's cache may be forgotten at any time.  *)
(*                                                                         *)
(* Replicas share nothing but the table, so of those that are not looked   *)
(* at only what they write there matters: they are Elsewhere.              *)
(***************************************************************************)
EXTENDS Integers, Sequences

CONSTANTS
    Watched,        \* the replicas looked at
    Elsewhere,      \* all the others
    Hosts,          \* the credentials an environment may hold, each a set
    MaxOps,         \* bound on the requests of owners
    MaxMishaps      \* bound: failing statements, clients that hang up, crashes

VARIABLES
    facet,      \* what this behaviour is about: "app" or "offline"
    host,       \* the environment of the deployment
    rows,       \* app_config
    active,     \* some repository is active
    boot,       \* per replica: "down", a step of serve(), or "serving"
    held,       \* per replica: what its cache says of each key
    page,       \* per replica: a snapshot of the table on its way to the cache
    live,       \* BOT_CONFIG: the credentials that are not empty
    mirror,     \* per replica: CODASAURUS_OFFLINE in its environment
    offline,    \* OFFLINE_MODE
    reader,     \* per replica: credentials being put together
    owner,      \* per replica and elsewhere: an owner's request under way
    cleared,    \* history: "going" while the credentials are deleted here, then
                \* "gone"; "no" if something may bring them back
    switched,   \* history: offline mode was on when this replica started, or
                \* was switched on here, and has not been switched off since
    ops, mishaps

setupVars == <<facet, host, rows, active, boot, held, page, live, mirror, offline, reader,
               owner, cleared, switched, ops, mishaps>>

Cred  == {"id", "pem", "secret"}
Order == <<"id", "pem", "secret">>
Keys  == Cred \cup {"offline"}

ASSUME SetupAssumption ==
    /\ Elsewhere \notin Watched
    /\ Hosts \subseteq SUBSET Cred
    /\ MaxOps \in Nat /\ MaxMishaps \in Nat

Blank   == [k \in Keys |-> "none"]          \* of a key without a row
Unknown == [k \in Keys |-> "unknown"]       \* of a key that is not cached
NoPage  == <<"no_page">>
Quiet   == [for |-> "none", left |-> << >>, got |-> {}]
Nobody  == [pc |-> "idle", left |-> << >>]

SetupInit ==
    /\ facet \in {"app", "offline"}
    /\ \E creds \in Hosts, off \in {"none", "on"} :
          /\ facet = "app" => off = "none"
          /\ facet = "offline" => creds = {}
          /\ host = [k \in Keys |-> IF k = "offline" THEN off
                                    ELSE IF k \in creds THEN "set" ELSE "none"]
    /\ rows = Blank /\ active = TRUE
    /\ boot = [r \in Watched |-> "down"]
    /\ held = [r \in Watched |-> Unknown]
    /\ page = [r \in Watched |-> NoPage]
    /\ live = [r \in Watched |-> {}]
    /\ mirror = [r \in Watched |-> host["offline"]]
    /\ offline = [r \in Watched |-> FALSE]
    /\ reader = [r \in Watched |-> Quiet]
    /\ owner = [r \in Watched \cup {Elsewhere} |-> Nobody]
    /\ cleared = [r \in Watched |-> "no"]
    /\ switched = [r \in Watched |-> FALSE]
    /\ ops = 0 /\ mishaps = 0

Mishap == mishaps < MaxMishaps /\ mishaps' = mishaps + 1

-----------------------------------------------------------------------------
(* The table behind the cache of a replica.                                *)

(* get_config: what the cache holds, else what the table does; an error    *)
(* counts as absence, and is not cached.                                   *)
CachedGet(r, k, found) ==
    \/ held[r][k] # "unknown" /\ found = held[r][k] /\ UNCHANGED <<held, mishaps>>
    \/ /\ held[r][k] = "unknown" /\ found = rows[k]
       /\ held' = [held EXCEPT ![r][k] = found]
       /\ UNCHANGED mishaps
    \/ held[r][k] = "unknown" /\ found = "none" /\ Mishap /\ UNCHANGED held

(* set_config, or delete_config for "none".  A credential that comes back  *)
(* may be taken up again, and so may what is being read as the deletion    *)
(* begins; offline mode switched off is off for who was to be offline.     *)
CachedSet(r, k, v) ==
    /\ rows' = [rows EXCEPT ![k] = v]
    /\ held' = IF r = Elsewhere THEN held ELSE [held EXCEPT ![r][k] = v]
    /\ cleared' = [s \in Watched |->
                     IF k \in Cred /\ v # "none" THEN "no"
                     ELSE IF s = r /\ k = "id"
                     THEN IF page[r] = NoPage /\ reader[r] = Quiet THEN "going" ELSE "no"
                     ELSE cleared[s]]
    /\ switched' = [s \in Watched |-> switched[s] /\ (k = "offline" => v = "on")]

(* A page that shows the settings fetches them all, and its answer takes   *)
(* the place of all that was cached.                                       *)
ShowSettings(r) ==
    /\ boot[r] = "serving" /\ page[r] = NoPage
    /\ page' = [page EXCEPT ![r] = rows]
    /\ UNCHANGED <<facet, host, rows, active, boot, held, live, mirror, offline, reader,
                   owner, cleared, switched, ops, mishaps>>

CachePutAll(r) ==
    /\ page[r] # NoPage
    /\ held' = [held EXCEPT ![r] = page[r]]
    /\ page' = [page EXCEPT ![r] = NoPage]
    /\ UNCHANGED <<facet, host, rows, active, boot, live, mirror, offline, reader,
                   owner, cleared, switched, ops, mishaps>>

Forget(r) ==
    /\ held[r] # Unknown
    /\ held' = [held EXCEPT ![r] = Unknown]
    /\ UNCHANGED <<facet, host, rows, active, boot, page, live, mirror, offline, reader,
                   owner, cleared, switched, ops, mishaps>>

-----------------------------------------------------------------------------
(* Credentials are put together, one read after the other, when a replica  *)
(* starts, and when a webhook finds it without a secret.  The private key  *)
(* and the secret fall back to the environment, and at a start the id.     *)

(* Mutant of FallsBack: the id falls back too when a webhook reloads.      *)
FallsBackAlways(r, k) == host[k] = "set"

FallsBack(r, k) == host[k] = "set" /\ (k = "id" => reader[r].for = "start")

(* resolve_bot_config takes what it has in the end, reload_bot_config only *)
(* if there is a secret; both nothing without an id or a key.              *)
Takes(r, got) ==
    IF reader[r].for = "start"
    THEN live' = [live EXCEPT ![r] = IF {"id", "pem"} \subseteq got THEN got ELSE {}]
    ELSE live' = [live EXCEPT ![r] = IF Cred \subseteq got THEN got ELSE @]

Read(r) ==
    /\ reader[r].left # << >>
    /\ \E found \in {"none", "set"} :
          LET k == Head(reader[r].left)
              has == found = "set" \/ FallsBack(r, k)
              got == reader[r].got \cup (IF has THEN {k} ELSE {})
          IN  /\ CachedGet(r, k, found)
              /\ IF k = "secret" \/ ~has
                 THEN /\ reader' = [reader EXCEPT ![r] = Quiet] /\ Takes(r, got)
                      /\ boot' = IF reader[r].for = "start"
                                 THEN [boot EXCEPT ![r] = "offline"] ELSE boot
                 ELSE /\ reader' = [reader EXCEPT ![r] = [for |-> @.for, left |-> Tail(@.left), got |-> got]]
                      /\ UNCHANGED <<live, boot>>
    /\ UNCHANGED <<facet, host, rows, active, page, mirror, offline, owner, cleared, switched,
                   ops>>

Accepts(r) == "secret" \in live[r]

(* handle_webhook: reload first if there is no secret, and refuse if there *)
(* is none after that; one that gets through may activate a repository.    *)
HandleWebhook(r) ==
    /\ boot[r] = "serving" /\ reader[r] = Quiet
    /\ IF Accepts(r) THEN active' = TRUE /\ UNCHANGED reader
       ELSE /\ reader' = [reader EXCEPT ![r] = [for |-> "webhook", left |-> Order, got |-> {}]]
            /\ UNCHANGED active
    /\ UNCHANGED <<facet, host, rows, boot, held, page, live, mirror, offline, owner, cleared,
                   switched, ops, mishaps>>

-----------------------------------------------------------------------------
(* serve(): seeds, mirrors, credentials, offline mode, then requests.      *)

Start(r) ==
    /\ boot[r] = "down"
    /\ boot' = [boot EXCEPT ![r] = "id"]
    /\ switched' = [switched EXCEPT ![r] = rows["offline"] = "on"]
    /\ UNCHANGED <<facet, host, rows, active, held, page, live, mirror, offline, reader, owner,
                   cleared, ops, mishaps>>

(* sync_env_to_db, for the id and the secret but not for the key, and      *)
(* sync_env_mirrors_to_db: what the environment has and the table lacks,   *)
(* or seems to lack when the read fails.  A write that fails is let go.    *)
Sync(r) ==
    /\ boot[r] \in {"id", "secret", "mirrors"}
    /\ LET k == IF boot[r] = "mirrors" THEN "offline" ELSE boot[r]
       IN  IF host[k] = "none" THEN UNCHANGED <<rows, held, cleared, switched, mishaps>>
           ELSE \/ rows[k] = "none" /\ CachedSet(r, k, host[k]) /\ UNCHANGED mishaps
                \/ /\ rows[k] # "none" /\ held' = [held EXCEPT ![r][k] = rows[k]]
                   /\ UNCHANGED <<rows, cleared, switched, mishaps>>
                \/ CachedSet(r, k, host[k]) /\ Mishap
                \/ Mishap /\ UNCHANGED <<rows, held, cleared, switched>>
    /\ boot' = [boot EXCEPT ![r] = CASE @ = "id" -> "secret" [] @ = "secret" -> "mirrors"
                                     [] @ = "mirrors" -> "apply"]
    /\ UNCHANGED <<facet, host, active, page, live, mirror, offline, reader, owner, ops>>

(* apply_db_to_env caches the whole table and copies what the environment  *)
(* lacks; resolve_bot_config begins, with the App of the environment if    *)
(* that has an id and a key.                                               *)
MirrorTable(r) ==
    /\ boot[r] = "apply"
    /\ \/ /\ held' = [held EXCEPT ![r] = rows]
          /\ mirror' = [mirror EXCEPT ![r] = IF @ = "none" THEN rows["offline"] ELSE @]
          /\ UNCHANGED mishaps
       \/ Mishap /\ UNCHANGED <<held, mirror>>
    /\ boot' = [boot EXCEPT ![r] = "resolve"]
    /\ reader' = [reader EXCEPT ![r] =
                     [for |-> "start",
                      left |-> IF host["id"] = "set" /\ host["pem"] = "set"
                               THEN <<"secret">> ELSE Order,
                      got |-> IF host["id"] = "set" /\ host["pem"] = "set"
                              THEN {"id", "pem"} ELSE {}]]
    /\ UNCHANGED <<facet, host, rows, active, page, live, offline, owner, cleared, switched,
                   ops>>

(* Mutant of Serve: the offline mode of a start is what the table says.    *)
ServeByTable(r) ==
    /\ boot[r] = "offline"
    /\ \E found \in {"none", "on", "off"} :
          /\ CachedGet(r, "offline", found)
          /\ offline' = [offline EXCEPT ![r] = found = "on"]
    /\ boot' = [boot EXCEPT ![r] = "serving"]
    /\ UNCHANGED <<facet, host, rows, active, page, live, mirror, reader, owner, cleared, switched,
                   ops>>

(* Offline if the table or the environment says so.                        *)
Serve(r) ==
    /\ boot[r] = "offline"
    /\ \E found \in {"none", "on", "off"} :
          /\ CachedGet(r, "offline", found)
          /\ offline' = [offline EXCEPT ![r] = found = "on" \/ mirror[r] = "on"]
    /\ boot' = [boot EXCEPT ![r] = "serving"]
    /\ UNCHANGED <<facet, host, rows, active, page, live, mirror, reader, owner, cleared, switched,
                   ops>>

(* Elsewhere a replica starts.                                             *)
SyncElsewhere ==
    /\ \E k \in {"id", "secret", "offline"} :
          host[k] # "none" /\ rows[k] = "none" /\ CachedSet(Elsewhere, k, host[k])
    /\ UNCHANGED <<facet, host, active, boot, page, live, mirror, offline, reader, owner, ops,
                   mishaps>>

(* A process ends; the next one has the environment of the deployment.     *)
Stop(r) ==
    /\ boot[r] # "down" /\ Mishap
    /\ boot' = [boot EXCEPT ![r] = "down"]
    /\ held' = [held EXCEPT ![r] = Unknown]
    /\ page' = [page EXCEPT ![r] = NoPage]
    /\ live' = [live EXCEPT ![r] = {}]
    /\ mirror' = [mirror EXCEPT ![r] = host["offline"]]
    /\ offline' = [offline EXCEPT ![r] = FALSE]
    /\ reader' = [reader EXCEPT ![r] = Quiet]
    /\ owner' = [owner EXCEPT ![r] = Nobody]
    /\ cleared' = [cleared EXCEPT ![r] = "no"]
    /\ switched' = [switched EXCEPT ![r] = FALSE]
    /\ UNCHANGED <<facet, host, rows, active, ops>>

-----------------------------------------------------------------------------
(* Requests of owners, one at a time per replica; each may end between two *)
(* of its statements, with an error or because its client hung up.         *)

Ask(r, of, pc, left) ==
    /\ facet = of /\ owner[r] = Nobody /\ ops < MaxOps
    /\ r # Elsewhere => boot[r] = "serving"
    /\ owner' = [owner EXCEPT ![r] = [pc |-> pc, left |-> left]]
    /\ ops' = ops + 1
    /\ UNCHANGED <<facet, host, rows, active, boot, held, page, live, mirror, offline, reader,
                   cleared, switched, mishaps>>

(* setup_github, once GitHub knows the credentials, and github_callback,   *)
(* once it has made an App.                                                *)
SetupGithub(r)    == Ask(r, "app", "setup", Order)
GithubCallback(r) == Ask(r, "app", "setup", Order)

DeleteGithubSettings(r) == Ask(r, "app", "delete", Order)

(* set_setting of offline_mode *)
SetOffline(r) == \E v \in {"on", "off"} : Ask(r, "offline", v, <<"offline">>)

(* One key after the other.                                                *)
Write(r) ==
    /\ owner[r].left # << >>
    /\ LET k == Head(owner[r].left)
           v == CASE owner[r].pc = "setup" -> "set" [] owner[r].pc = "delete" -> "none"
                  [] OTHER -> owner[r].pc
       IN  /\ CachedSet(r, k, v)
           /\ owner' = [owner EXCEPT ![r].left = Tail(@)]
    /\ UNCHANGED <<facet, host, active, boot, page, live, mirror, offline, reader, ops, mishaps>>

Abandon(r) ==
    /\ owner[r] # Nobody /\ Mishap
    /\ owner' = [owner EXCEPT ![r] = Nobody]
    /\ UNCHANGED <<facet, host, rows, active, boot, held, page, live, mirror, offline, reader,
                   cleared, switched, ops>>

(* Elsewhere a request ends; a deletion switched the repositories off.     *)
DoneElsewhere ==
    /\ owner[Elsewhere] # Nobody /\ owner[Elsewhere].left = << >>
    /\ active' = (active /\ owner[Elsewhere].pc # "delete")
    /\ owner' = [owner EXCEPT ![Elsewhere] = Nobody]
    /\ UNCHANGED <<facet, host, rows, boot, held, page, live, mirror, offline, reader,
                   cleared, switched, ops, mishaps>>

Written(r, pc) == owner[r].pc = pc /\ owner[r].left = << >>

SetBotConfig(r) ==
    /\ Written(r, "setup")
    /\ live' = [live EXCEPT ![r] = Cred]
    /\ owner' = [owner EXCEPT ![r] = Nobody]
    /\ UNCHANGED <<facet, host, rows, active, boot, held, page, mirror, offline, reader, cleared,
                   switched, ops, mishaps>>

ClearBotConfig(r) ==
    /\ Written(r, "delete")
    /\ live' = [live EXCEPT ![r] = {}]
    /\ cleared' = [cleared EXCEPT ![r] = IF @ = "going" THEN "gone" ELSE @]
    /\ owner' = [owner EXCEPT ![r].pc = "deactivate"]
    /\ UNCHANGED <<facet, host, rows, active, boot, held, page, mirror, offline, reader,
                   switched, ops, mishaps>>

Deactivate(r) ==
    /\ owner[r].pc = "deactivate"
    /\ active' = FALSE
    /\ owner' = [owner EXCEPT ![r] = Nobody]
    /\ UNCHANGED <<facet, host, rows, boot, held, page, live, mirror, offline, reader, cleared,
                   switched, ops, mishaps>>

(* apply_setting_to_env, and after the entry in the audit log the flag; to *)
(* switch off takes the variable out of the environment.                   *)
MirrorOffline(r) ==
    /\ owner[r].pc \in {"on", "off"} /\ owner[r].left = << >>
    /\ mirror' = [mirror EXCEPT ![r] = owner[r].pc]
    /\ owner' = [owner EXCEPT ![r].pc = IF @ = "on" THEN "enable" ELSE "disable"]
    /\ UNCHANGED <<facet, host, rows, active, boot, held, page, live, offline, reader, cleared,
                   switched, ops, mishaps>>

SetOfflineMode(r) ==
    /\ owner[r].pc \in {"enable", "disable"}
    /\ LET on == owner[r].pc = "enable"
       IN  /\ offline' = [offline EXCEPT ![r] = on]
           /\ mirror' = IF on THEN mirror ELSE [mirror EXCEPT ![r] = "none"]
           /\ switched' = [switched EXCEPT ![r] = @ \/ (on /\ rows["offline"] = "on")]
    /\ owner' = [owner EXCEPT ![r] = Nobody]
    /\ UNCHANGED <<facet, host, rows, active, boot, held, page, live, reader, cleared, ops, mishaps>>

-----------------------------------------------------------------------------
Serving(r) == Start(r) \/ Sync(r) \/ MirrorTable(r) \/ Read(r) \/ Serve(r)

Working(r) == Write(r) \/ SetBotConfig(r) \/ ClearBotConfig(r) \/ Deactivate(r)
              \/ MirrorOffline(r) \/ SetOfflineMode(r)

SetupNext ==
    \/ \E r \in Watched :
          \/ Serving(r) \/ Working(r) \/ Stop(r)
          \/ ShowSettings(r) \/ CachePutAll(r) \/ Forget(r) \/ HandleWebhook(r)
    \/ \E r \in Watched \cup {Elsewhere} :
          SetupGithub(r) \/ GithubCallback(r) \/ DeleteGithubSettings(r) \/ SetOffline(r)
          \/ Abandon(r)
    \/ Write(Elsewhere) \/ DoneElsewhere \/ SyncElsewhere

SetupSpec == SetupInit /\ [][SetupNext]_setupVars

-----------------------------------------------------------------------------
(* "Drop live credentials so webhooks fail closed": a replica where the    *)
(* App was deleted takes no webhook any more, although the next webhook    *)
(* makes it look for credentials again, until a setup, or a start with the *)
(* App in its environment, brings them back.  What was read before the     *)
(* deletion and cached or applied after it is no part of this.             *)
ClearedStays == \A r \in Watched : cleared[r] = "gone" => ~Accepts(r)

(* Offline mode stays on: a replica that starts while it is on, or is told *)
(* to switch it on, is offline as long as nobody switches it off, whatever *)
(* single read of its start fails: the table and the mirror in the         *)
(* environment stand in for one another.                                   *)
OfflineStands == \A r \in Watched : boot[r] = "serving" /\ switched[r] => offline[r]

(* What was switched off stays off. *)
FailsClosed == ClearedStays /\ OfflineStands

-----------------------------------------------------------------------------
(* The inductive invariant, see ConfigCacheProofs.                         *)

Values == {"none", "set", "on", "off"}
Rests  == {Order, <<"pem", "secret">>, <<"secret">>, << >>}

Asked == [pc : {"setup", "delete"}, left : Rests]
            \cup [pc : {"on", "off"}, left : {<<"offline">>, << >>}]
            \cup [pc : {"idle", "deactivate", "enable", "disable"}, left : {<< >>}]

SetupTypeOK ==
    /\ host \in [Keys -> {"none", "set", "on"}] /\ host["offline"] \in {"none", "on"}
    /\ rows \in [Keys -> Values]
    /\ boot \in [Watched -> {"down", "id", "secret", "mirrors", "apply", "resolve", "offline",
                             "serving"}]
    /\ held \in [Watched -> [Keys -> Values \cup {"unknown"}]]
    /\ page \in [Watched -> [Keys -> Values] \cup {NoPage}]
    /\ live \in [Watched -> SUBSET Cred]
    /\ mirror \in [Watched -> Values]
    /\ offline \in [Watched -> BOOLEAN]
    /\ reader \in [Watched -> [for : {"none", "start", "webhook"}, left : Rests, got : SUBSET Cred]]
    /\ owner \in [Watched \cup {Elsewhere} -> Asked]
    /\ cleared \in [Watched -> {"no", "going", "gone"}]
    /\ switched \in [Watched -> BOOLEAN]
    /\ mishaps \in 0..MaxMishaps

(* Requests come when the process serves, and what it reads credentials    *)
(* for goes with its start.                                                *)
InItsTime(r) ==
    /\ boot[r] # "serving" => owner[r] = Nobody /\ page[r] = NoPage
    /\ reader[r].left # << >> => reader[r].for # "none"
    /\ reader[r].for = "start" <=> boot[r] = "resolve"
    /\ reader[r].for = "webhook" => boot[r] = "serving" /\ reader[r].left # << >>
    /\ boot[r] \in {"down", "id", "secret", "mirrors", "apply"} => mirror[r] = host["offline"]
    /\ boot[r] = "down" => held[r] = Unknown /\ ~switched[r]

(* Where the App was deleted no id is to be found: not in the table, nor   *)
(* in what is cached or on its way there, and nobody has read it.          *)
NoIdLeft(r) ==
    cleared[r] # "no" =>
        /\ boot[r] = "serving"
        /\ rows["id"] = "none" /\ held[r]["id"] \in {"none", "unknown"}
        /\ page[r] # NoPage => page[r]["id"] = "none"
        /\ reader[r].left \in {<< >>, Order} /\ reader[r].got = {}
        /\ owner[r].pc = "setup" => owner[r].left = Order

(* Where offline mode was switched on the table says so, and the start     *)
(* finds it there or in the environment, unless more than one read fails.  *)
OneFails == MaxMishaps <= 1

StaysSwitched(r) ==
    switched[r] =>
        /\ rows["offline"] = "on"
        /\ boot[r] # "serving" => held[r]["offline"] \in {"on", "unknown"}
        /\ boot[r] \in {"resolve", "offline"} /\ OneFails =>
              mirror[r] = "on" \/ mishaps >= MaxMishaps
        /\ boot[r] = "serving" /\ OneFails => offline[r]
        /\ owner[r].pc # "disable" /\ owner[r] # [pc |-> "off", left |-> << >>]

SetupInv ==
    /\ SetupTypeOK
    /\ \A r \in Watched :
          InItsTime(r) /\ NoIdLeft(r) /\ StaysSwitched(r) /\ (cleared[r] = "gone" => live[r] = {})
=============================================================================
