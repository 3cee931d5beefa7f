----------------------------- MODULE Migrations -----------------------------
(***************************************************************************)
(* How a process brings the schema up to date when it starts               *)
(* (src/src/db/migrations.rs, src/src/db/mod.rs): first the whole schema   *)
(* of a fresh install, CREATE ... IF NOT EXISTS, then the migrations v11   *)
(* to v26, each behind a look at the highest version recorded.  Statements *)
(* are not in a transaction and replicas do not exclude one another.       *)
(*                                                                         *)
(* The schema is the set of its objects.  Only what a later statement      *)
(* looks at is tracked one by one; tables and types that none does are     *)
(* created in one step.  What the migrations do to the rows of databases   *)
(* older than v21 is left out: such a start never gets that far (see       *)
(* StartsSucceed and the run migrations_upgrade).                          *)
(***************************************************************************)
EXTENDS Integers, Sequences, SequencesExt

CONSTANTS
    Replica,      \* processes that share the database
    Releases,     \* the releases the database may come from; 0: a fresh one
    Attempts,     \* how often a start tries to connect
    MaxFaults,    \* bound: crashes, failing statements, other disturbances
    TornStarts    \* whether a start that overlaps another may die halfway

VARIABLES
    schema,     \* the objects of the database
    versions,   \* the rows of schema_version
    blank,      \* some dismissal names no repository
    vector,     \* the extension pgvector can be installed
    start,      \* per replica: how far its start has come
    faultsLeft

migrationVars == <<schema, versions, blank, vector, start, faultsLeft>>

-----------------------------------------------------------------------------
(* Statements: one needs some objects, fails on others, does nothing if    *)
(* one is there, adds, drops.                                              *)

Statement == [needs |-> {}, clash |-> {}, unless |-> {}, adds |-> {}, drops |-> {},
              fills |-> FALSE, strict |-> FALSE, version |-> 0]

CreateTable(table, parts) ==
    [Statement EXCEPT !.unless = {table}, !.adds = {table} \cup parts]

CreateIndex(index, columns) ==
    [Statement EXCEPT !.unless = {index}, !.needs = columns, !.adds = {index}]

AddColumns(table, columns) == [Statement EXCEPT !.needs = {table}, !.adds = columns]

DropForms(forms) == [Statement EXCEPT !.drops = forms]

AddConstraint(form, forms, columns) ==
    [Statement EXCEPT !.needs = columns, !.clash = forms, !.adds = {form}]

Record(n) == [Statement EXCEPT !.version = n]

Roles == {"users_role_check (admin)", "users_role_check"}
Keys  == {"dismissed_findings_pkey (fingerprint)", "dismissed_findings_pkey"}

Queue == {"review_jobs", "agent_events"}

Plain == {"app_config", "repos", "reviews", "dismissals", "audit_log", "sessions",
          "webhook_deliveries", "review_comments", "reviewed_commits"} \cup Queue

Scope == <<CreateIndex("idx_dismissed_findings_scope", {"dismissed_findings.repo_full_name"}),
           CreateIndex("idx_learned_rules_scope",
                       {"learned_rules.repo_full_name", "learned_rules.status"})>>

LearnedColumns == {"learned_rules.status", "learned_rules.approved_at"}

HitColumns == {"learned_rules.match_count", "learned_rules.last_matched_at"}

Provenance == {"dismissed_findings.pr_number", "dismissed_findings.dismissed_by",
               "dismissed_findings.is_maintainer"}

PerReview == CreateIndex("idx_findings_review_fingerprint", {"findings"})

Learning ==
    <<CreateTable("dismissed_findings",
                  Provenance \cup {"dismissed_findings.repo_full_name",
                  "dismissed_findings.repo_full_name NOT NULL", "dismissed_findings_pkey"}),
      CreateTable("learned_rules",
                  LearnedColumns \cup HitColumns \cup {"learned_rules.repo_full_name"})>>

PgSchema ==
    <<[Statement EXCEPT !.adds = Plain],
      CreateTable("findings", {"findings_review_id_fkey"}), PerReview,
      CreateTable("users", {"users_role_check", "users.is_bootstrap"}),
      CreateTable("invites", {})>>
    \o Learning \o Scope \o <<[Record(10) EXCEPT !.adds = {}]>>

(* One migration each; each is followed by the record of its version.      *)

V11 == <<[Statement EXCEPT !.needs = Plain, !.adds = {"timestamptz"}],
         DropForms({"findings_review_id_fkey"}),
         AddConstraint("findings_review_id_fkey", {"findings_review_id_fkey"},
                       {"findings", "reviews"})>>

V12 == <<DropForms(Roles), AddConstraint("users_role_check", Roles, {"users"}),
         CreateTable("invites", {})>>

V13 == <<AddColumns("users", {"users.is_bootstrap"})>>

V14 == <<AddColumns("dismissed_findings", {"dismissed_findings.repo_full_name"}),
         AddColumns("learned_rules", {"learned_rules.repo_full_name"}),
         CreateIndex("idx_dismissed_repo", {"dismissed_findings.repo_full_name"}),
         CreateIndex("idx_learned_repo", {"learned_rules.repo_full_name"})>>

V15 == <<CreateIndex("idx_invites_email_pending", {"invites"})>>

V16 == <<AddColumns("dismissed_findings", Provenance),
         CreateIndex("idx_dismissed_detector_pr", {"dismissed_findings.pr_number"})>>

V17 == <<CreateTable("finding_baseline", {}), CreateTable("pr_diff_lines", {}),
         CreateTable("quality_gates", {})>>

V18 == <<AddColumns("findings", {"findings.confidence", "findings.judge_rationale"})>>

V19 == <<CreateTable("repo_symbols", {}), CreateTable("repo_edges", {}),
         CreateTable("index_status", {})>>

V20 == <<CreateTable("pre_merge_check_runs", {})>>

V21 == <<AddColumns("learned_rules", LearnedColumns)>>

V22 == <<[Statement EXCEPT !.adds = {"vector"}],
         CreateTable("repo_symbol_embeddings", {}),
         CreateIndex("idx_repo_symbol_embeddings_ivfflat",
                     {"repo_symbol_embeddings", "vector"})>>

V23 == <<[Statement EXCEPT !.fills = TRUE],
         [Statement EXCEPT !.strict = TRUE, !.needs = {"dismissed_findings.repo_full_name"},
                           !.adds = {"dismissed_findings.repo_full_name NOT NULL"}],
         DropForms(Keys),
         AddConstraint("dismissed_findings_pkey", Keys,
                       {"dismissed_findings.repo_full_name NOT NULL"})>>

V24 == Scope

V25 == <<AddColumns("learned_rules", HitColumns)>>

V26 == <<DropForms({"findings_fingerprint_key"}), PerReview>>

Changes(n) ==
    <<PgSchema, V11, V12, V13, V14, V15, V16, V17, V18, V19, V20, V21, V22, V23, V24, V25,
      V26>>[n - 9]

(* All but v20 and v21, which run again until a later one is recorded,     *)
(* record their version at the end.                                        *)
Statements(n) == Changes(n) \o (IF n \in {10, 20, 21} THEN << >> ELSE <<Record(n)>>)

Program == [n \in 10..26 |-> Statements(n)]

Gives(n) == UNION {s.adds : s \in Range(Changes(n))}

Stage == 10..26

Places(n) == 1..Len(Program[n])

Newest(vs) == IF vs = {} THEN 0 ELSE CHOOSE v \in vs : \A w \in vs : w <= v

-----------------------------------------------------------------------------
(* The database a release left behind.                                     *)

Before(release) ==
    FoldLeft(LAMBDA db, n : (db \ UNION {s.drops : s \in Range(Changes(n))}) \cup Gives(n),
             Plain \cup {"findings", "users", "dismissed_findings", "learned_rules",
                         "findings_fingerprint_key", "users_role_check (admin)",
                         "dismissed_findings_pkey (fingerprint)"},
             [i \in 1..(release - 10) |-> i + 10])

Recorded(release, withVector) ==
    (8..release) \ ({20, 21} \cup (IF withVector THEN {} ELSE {22}))

WithoutVector == {"vector", "repo_symbol_embeddings", "idx_repo_symbol_embeddings_ivfflat"}

Off == [pc |-> "down", tries |-> 0, stage |-> 0, step |-> 0, met |-> FALSE]

MigrationsInit ==
    /\ vector \in BOOLEAN
    /\ \E release \in Releases :
          IF release = 0
          THEN schema = {} /\ versions = {}
          ELSE /\ schema = Before(release) \ (IF vector THEN {} ELSE WithoutVector)
               /\ versions = Recorded(release, vector)
    /\ blank = FALSE
    /\ start = [r \in Replica |-> Off]
    /\ faultsLeft = MaxFaults

Under(r) == start[r].pc \in {"connecting", "migrating"}

(* A start goes on; whoever is under way beside another has met it. *)
Goto(r, at) ==
    LET moved == [start EXCEPT ![r] = at]
        under == {s \in Replica : moved[s].pc \in {"connecting", "migrating"}}
    IN  start' = [s \in Replica |->
                     IF s \in under THEN [moved[s] EXCEPT !.met = @ \/ under # {s}]
                     ELSE moved[s]]

NextStage(r) ==
    IF start[r].stage = 26 THEN [Off EXCEPT !.pc = "serving"]
    ELSE [start[r] EXCEPT !.stage = @ + 1, !.step = 0]

NextStep(r) ==
    IF start[r].step = Len(Program[start[r].stage]) THEN NextStage(r)
    ELSE [start[r] EXCEPT !.step = @ + 1]

(* Who meets another start on the way may not die halfway unless TornStarts *)
MayDie(r) == TornStarts \/ ~start[r].met

-----------------------------------------------------------------------------
(* A start: create_pool connects, with a few attempts, and migrates.       *)

Start(r) ==
    /\ start[r].pc = "down"
    /\ Goto(r, [Off EXCEPT !.pc = "connecting", !.tries = Attempts])
    /\ UNCHANGED <<schema, versions, blank, vector, faultsLeft>>

Connect(r) ==
    /\ start[r].pc = "connecting"
    /\ Goto(r, [start[r] EXCEPT !.pc = "migrating", !.stage = 10, !.step = 1])
    /\ UNCHANGED <<schema, versions, blank, vector, faultsLeft>>

ConnectFails(r) ==
    /\ start[r].pc = "connecting" /\ faultsLeft > 0
    /\ Goto(r, IF start[r].tries > 1 THEN [start[r] EXCEPT !.tries = @ - 1] ELSE Off)
    /\ faultsLeft' = faultsLeft - 1
    /\ UNCHANGED <<schema, versions, blank, vector>>

(* Mutant of Guard: it takes the migration after the last recorded one for done. *)
GuardEarly(r) ==
    /\ start[r].pc = "migrating" /\ start[r].step = 0
    /\ Goto(r, IF Newest(versions) >= start[r].stage - 1 THEN NextStage(r)
               ELSE [start[r] EXCEPT !.step = 1])
    /\ UNCHANGED <<schema, versions, blank, vector, faultsLeft>>

(* SELECT MAX(version): a migration at or below it is not looked at again. *)
Guard(r) ==
    /\ start[r].pc = "migrating" /\ start[r].step = 0
    /\ Goto(r, IF Newest(versions) >= start[r].stage THEN NextStage(r)
               ELSE [start[r] EXCEPT !.step = 1])
    /\ UNCHANGED <<schema, versions, blank, vector, faultsLeft>>

Due(r) == Program[start[r].stage][start[r].step]

Extension(r) == start[r].stage = 22 /\ start[r].step = 1

Idle(s) == s.unless \cap schema # {}

Accepted(s) ==
    \/ Idle(s)
    \/ s.needs \subseteq schema /\ s.clash \cap schema = {} /\ (s.strict => ~blank)

Takes(s) ==
    /\ schema' = IF Idle(s) THEN schema ELSE (schema \ s.drops) \cup s.adds
    /\ versions' = IF s.version = 0 THEN versions
                   ELSE versions \cup (IF s.version = 10 THEN {8, 9, 10} ELSE {s.version})
    /\ blank' = (blank /\ ~s.fills)

Execute(r) ==
    /\ start[r].pc = "migrating" /\ start[r].step > 0
    /\ Extension(r) => vector
    /\ Accepted(Due(r)) /\ Takes(Due(r))
    /\ Goto(r, NextStep(r))
    /\ UNCHANGED <<vector, faultsLeft>>

(* An error ends the process, except for CREATE EXTENSION: v22 is skipped. *)
SkipEmbeddings(r) ==
    /\ start[r].pc = "migrating" /\ Extension(r) /\ ~vector
    /\ Goto(r, NextStage(r))
    /\ UNCHANGED <<schema, versions, blank, vector, faultsLeft>>

Reject(r) ==
    /\ start[r].pc = "migrating" /\ start[r].step > 0 /\ ~Accepted(Due(r))
    /\ Goto(r, Off)
    /\ UNCHANGED <<schema, versions, blank, vector, faultsLeft>>

StatementFails(r) ==
    /\ start[r].pc = "migrating" /\ start[r].step > 0 /\ faultsLeft > 0 /\ MayDie(r)
    /\ \/ UNCHANGED <<schema, versions, blank>>
       \/ Accepted(Due(r)) /\ Takes(Due(r)) /\ (Extension(r) => vector)
    /\ Goto(r, IF Extension(r) THEN NextStage(r) ELSE Off)
    /\ faultsLeft' = faultsLeft - 1
    /\ UNCHANGED vector

-----------------------------------------------------------------------------
(* Around it: a process dies, the operator installs pgvector, a replica of *)
(* the release before v23 still serves and dismisses a finding for no      *)
(* repository.                                                             *)

Crash(r) ==
    /\ start[r].pc # "down" /\ faultsLeft > 0 /\ MayDie(r)
    /\ Goto(r, Off)
    /\ faultsLeft' = faultsLeft - 1
    /\ UNCHANGED <<schema, versions, blank, vector>>

InstallVector ==
    /\ ~vector /\ faultsLeft > 0
    /\ vector' = TRUE /\ faultsLeft' = faultsLeft - 1
    /\ UNCHANGED <<schema, versions, blank, start>>

OldReplicaDismisses ==
    /\ faultsLeft > 0 /\ 10 \in versions
    /\ "dismissed_findings.repo_full_name" \in schema
    /\ "dismissed_findings.repo_full_name NOT NULL" \notin schema
    /\ blank' = TRUE /\ faultsLeft' = faultsLeft - 1
    /\ UNCHANGED <<schema, versions, vector, start>>

StartStep(r) ==
    \/ Start(r) \/ Connect(r) \/ Guard(r) \/ Execute(r) \/ SkipEmbeddings(r) \/ Reject(r)

MigrationsNext ==
    \/ \E r \in Replica : StartStep(r) \/ ConnectFails(r) \/ StatementFails(r) \/ Crash(r)
    \/ InstallVector \/ OldReplicaDismisses

(* A start goes on, and whoever supervises the process starts it again.    *)
MigrationsFairness == \A r \in Replica : WF_migrationVars(StartStep(r))

MigrationsSpec == MigrationsInit /\ [][MigrationsNext]_migrationVars /\ MigrationsFairness

-----------------------------------------------------------------------------
(* Nothing skipped: while no start is under way, whatever the migrations up *)
(* to the highest recorded version were to add is there, pgvector's part   *)
(* excepted.  The guard on MAX(version) relies on it: it never looks again  *)
(* at a migration below.  It takes crashes and failing statements between  *)
(* any two statements, and two replicas that drop and add the same         *)
(* constraints at once; a start that dies halfway while another is under   *)
(* way is left out (TornStarts): it can leave a table without its key.     *)
NothingSkipped ==
    (\A r \in Replica : ~Under(r)) =>
        \A n \in 11..Newest(versions) : n # 22 => Gives(n) \subseteq schema

(* Every start succeeds in the end, although replicas start at once and    *)
(* statements fail, and no database is refused for good.                   *)
StartsSucceed == <>[](\A r \in Replica : start[r].pc = "serving")

-----------------------------------------------------------------------------
(* What the statements and the releases are relied on for, and the         *)
(* inductive invariant; see PrLocksProofs.                                 *)

(* What is there for sure once a statement was accepted: what it adds, or  *)
(* the table or index for whose sake it does nothing.                      *)
Sure(s) == IF s.unless = {} THEN s.adds ELSE s.unless

(* A version is recorded by the last statement of its migration.           *)
VersionsLast ==
    \A n \in Stage :
        /\ Len(Program[n]) \in Nat \ {0}
        /\ \A i \in Places(n) :
              /\ Program[n][i].version \in {0, n}
              /\ Program[n][i].version # 0 => i = Len(Program[n])

(* IF NOT EXISTS looks at what is created, and nothing is dropped IF.      *)
CreatesWhatIsAbsent ==
    \A n \in Stage : \A i \in Places(n) :
        /\ Program[n][i].unless \subseteq Program[n][i].adds
        /\ \A a, b \in Program[n][i].unless : a = b
        /\ Program[n][i].drops # {} => Program[n][i].unless = {}

(* What a statement drops no other is sure to leave, but the next one.     *)
DropsAreRestored ==
    \A n \in Stage : \A i \in Places(n) : \A o \in Program[n][i].drops :
        \A m \in Stage \ {22} : \A j \in Places(m) :
            o \in Sure(Program[m][j]) =>
                m = n /\ n > 10 /\ j = i + 1 /\ Program[n][j].unless = {}

NeverAdded(o) == \A n \in Stage : \A i \in Places(n) : o \notin Program[n][i].adds

NeverDropped(o) == \A n \in Stage : \A i \in Places(n) : o \notin Program[n][i].drops

(* That one is refused only where its object is there: what else it clashes *)
(* with was dropped for good, and what it needs was made before.           *)
RestoresAreAccepted ==
    \A n \in Stage \ {22} : \A i \in Places(n) \ {1} :
        \A o \in Program[n][i - 1].drops \cap Program[n][i].adds :
            /\ Program[n][i].unless = {} /\ ~Program[n][i].strict
            /\ \A f \in Program[n][i].clash \ {o} :
                  f \in Program[n][i - 1].drops /\ NeverAdded(f)
            /\ \A k \in Program[n][i].needs :
                  /\ NeverDropped(k)
                  /\ \E m \in Stage \ {22} : \E j \in Places(m) :
                        (m < n \/ (m = n /\ j < i)) /\ k \in Sure(Program[m][j])

(* Each object a migration gives one of its statements is sure to leave.   *)
GivenForSure ==
    \A n \in Stage \ {10, 22} : \A o \in Gives(n) :
        \E i \in Places(n) : o \in Sure(Program[n][i])

ASSUME ProgramAssumption ==
    /\ VersionsLast /\ CreatesWhatIsAbsent /\ DropsAreRestored
    /\ RestoresAreAccepted /\ GivenForSure

(* A release left what its recorded versions were to add.                  *)
ASSUME ReleaseAssumption ==
    /\ Releases \subseteq (8..26) \cup {0}
    /\ \A release \in 8..26 : \A withVector \in BOOLEAN :
           /\ Recorded(release, withVector) \subseteq 8..26
           /\ \A n \in Stage \ {10, 22} : \A i \in Places(n) :
                 (\E v \in Recorded(release, withVector) : v >= n) =>
                     Sure(Program[n][i]) \subseteq
                         Before(release) \ (IF withVector THEN {} ELSE WithoutVector)

ASSUME StartAssumption == Attempts \in Nat /\ MaxFaults \in Nat /\ TornStarts \in BOOLEAN

Progress == [pc : {"down", "connecting", "migrating", "serving"}, tries : Nat,
             stage : Stage \cup {0}, step : Nat, met : BOOLEAN]

MigrationsTypeOK ==
    /\ versions \subseteq 8..26
    /\ start \in [Replica -> Progress]
    /\ \A r \in Replica : start[r].pc = "migrating" =>
          /\ start[r].stage \in Stage /\ start[r].step \in Places(start[r].stage) \cup {0}
          /\ start[r].step = 0 => start[r].stage > 10

(* Two under way have met.                                                 *)
Met == \A r, s \in Replica : Under(r) /\ Under(s) /\ r # s => start[r].met

(* Who has met nobody is about to change what no version claims.           *)
Alone ==
    \A r \in Replica :
        start[r].pc = "migrating" /\ ~start[r].met /\ start[r].stage > 10 /\ start[r].step > 0
            => \A v \in versions : v < start[r].stage

(* The replica has dropped what its next statement adds.                   *)
InGap(r, o) ==
    /\ start[r].pc = "migrating" /\ start[r].step > 1
    /\ o \in Program[start[r].stage][start[r].step - 1].drops
    /\ o \in Program[start[r].stage][start[r].step].adds

Past(r, n, i) ==
    /\ start[r].pc = "migrating"
    /\ start[r].stage > n \/ (start[r].stage = n /\ start[r].step > i)

(* A recorded version or a start that has passed it claims a statement.    *)
Claimed(n, i) == (n > 10 /\ \E v \in versions : v >= n) \/ \E r \in Replica : Past(r, n, i)

Laid ==
    \A n \in Stage \ {22} : \A i \in Places(n) : Claimed(n, i) =>
        \A o \in Sure(Program[n][i]) : o \in schema \/ \E r \in Replica : InGap(r, o)

(* What was dropped for good stays away.                                   *)
Cleared ==
    \A r \in Replica : start[r].pc = "migrating" /\ start[r].step > 1 =>
        \A o \in Program[start[r].stage][start[r].step - 1].drops : NeverAdded(o) => o \notin schema

MigrationsInv == MigrationsTypeOK /\ Met /\ Alone /\ Laid /\ Cleared
=============================================================================
