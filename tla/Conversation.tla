---------------------------- MODULE Conversation ----------------------------
(***************************************************************************)
(* What Codasaurus says on a pull request (src/bot/commands.rs,            *)
(* post_or_update_comment in src/bot/review/github.rs, the comment slots   *)
(* of src/state.rs, src/bot/review/persist.rs).  A comment that addresses  *)
(* the bot becomes a task; the task waits for a permit, works under a      *)
(* timeout, and leaves its answers in slots: the comment of a slot is      *)
(* edited in place, and posted anew when there is none or it cannot be     *)
(* edited.  A review leaves several answers and a row in the database; a   *)
(* fix commits to the branch, a file at a time.                            *)
(*                                                                         *)
(* One pull request, one process.  Any call or statement may fail, the     *)
(* answer to a POST may be lost, tasks time out, the process dies, people  *)
(* delete comments and push.                                               *)
(***************************************************************************)
EXTENDS Integers, FiniteSets, Sequences, SequencesExt

CONSTANTS
    None,
    Task,           \* tasks that may run at once
    Comment,        \* what people write : [who, mentions]
    File, Finding,
    Permits,        \* CODASAURUS_MAX_CONCURRENT_REVIEWS
    HasLlm,         \* a provider is configured
    Extras,         \* the optional answers of a review that the configuration asks for
    AllowAutoFix,
    TestGeneration,
    MaxCommands, MaxFaults, MaxPushes  \* bounds

ASSUME NoneIsNone == None \notin Int \cup Task

ConversationAssumption ==
    /\ Extras \subseteq {"premerge", "readiness", "llm_summary", "auto_improve"}
    /\ HasLlm \in BOOLEAN /\ AllowAutoFix \in BOOLEAN /\ TestGeneration \in BOOLEAN
    /\ Permits \in Nat
    /\ MaxCommands \in Nat /\ MaxFaults \in Nat /\ MaxPushes \in Nat

ASSUME Assumptions == ConversationAssumption

VARIABLES
    comments,       \* GitHub's comments by the bot, in order : [slot, live]
    slot,           \* review_comments : the comment of each slot, or None
    branch,         \* per file : the pushes and the fix it contains
    head,           \* commits so far
    rows,           \* reviews and findings, per commit : [status, found], or None
    pc, cmd,        \* per task : where it is, which command it serves
    posts,          \* per task : slots still to be written
    id,             \* per task : the comment it edits or has posted
    sha, found,     \* per task : the commit it reviews, and its findings
    fetched,        \* per task : the files of a fix as it read them
    free,           \* REVIEW_PERMITS
    locked,         \* the task that has the pull request's lock
    marred,         \* as history : slots where something failed or two tasks met
    saved,          \* as history : <<commit, findings>> that runs saved to the end
    blurred,        \* as history : commits where saving findings failed
    commands, faults, pushes

world == <<comments, slot, branch, head, rows>>
task == <<pc, cmd, posts, id, sha, found, fetched, free, locked>>
past == <<marred, saved, blurred>>
bounds == <<commands, faults, pushes>>
vars == <<world, task, past, bounds>>

-----------------------------------------------------------------------------
\* Commands.

\* parse_bot_command: the first of these that the comment mentions, wherever it does.
Precedence ==
    <<"help", "add_docs", "changelog", "similar", "impact", "digest", "wiki", "approve_rule",
      "fix", "security", "labels", "summarize", "describe", "generate_tests", "improve",
      "ignore", "ask", "review", "retry">>

\* None of them, or one.
ParseBotCommand(mentions) ==
    {Precedence[i] : i \in {j \in DOMAIN Precedence :
        /\ "codasaurus" \in mentions /\ Precedence[j] \in mentions
        /\ \A k \in 1..(j - 1) : Precedence[k] \notin mentions}}

\* A short answer that no slot keeps.
Reply == "reply"

\* A handler: the slots it answers in, whether it takes one of the permits first, and
\* whether it runs under a timeout.  A model that fails is no error, improve's excepted.
Plain(s) == [slots |-> {<<s>>}, permit |-> FALSE, timed |-> FALSE]
Answer(s) == [slots |-> {<<s>>}, permit |-> TRUE, timed |-> TRUE]

Help == Plain(Reply)
Wiki == Plain("wiki")
ApproveRule == Plain("wiki")    \* where the wiki was
Ignore == [Plain(Reply) EXCEPT !.timed = TRUE]
Digest == [Plain("digest") EXCEPT !.timed = TRUE]
Describe == Answer("describe")
Improve == Answer("improve")
Ask == Answer("ask")
Summarize == Answer("llm_summary")
Labels == Answer("labels")
ChangelogDraft == Answer("changelog")
Security == Answer("security")
AddDocs == Answer("add_docs")
Impact == Answer("impact")
Similar == Answer("similar")
ApplyFix == Answer(Reply)
GenerateTests == IF TestGeneration /\ HasLlm THEN Answer("generated_tests") ELSE Plain(Reply)

\* post_split_review_comments: the context is only rewritten where there is some.
Overview == {<<"walkthrough", "review_context", "review_checks">>, <<"walkthrough", "review_checks">>}

Review == [Answer(Reply) EXCEPT !.slots = Overview]

\* handle_bot_command.
Handler(c) ==
    CASE c \in {"help", "denied"} -> Help
      [] c = "wiki" -> Wiki
      [] c = "approve_rule" -> ApproveRule
      [] c = "ignore" -> Ignore
      [] c = "digest" -> Digest
      [] c = "describe" -> Describe
      [] c = "improve" -> Improve
      [] c = "ask" -> Ask
      [] c = "summarize" -> Summarize
      [] c = "labels" -> Labels
      [] c = "changelog" -> ChangelogDraft
      [] c = "security" -> Security
      [] c = "add_docs" -> AddDocs
      [] c = "impact" -> Impact
      [] c = "similar" -> Similar
      [] c = "fix" -> ApplyFix
      [] c = "generate_tests" -> GenerateTests
      [] c \in {"review", "retry"} -> Review

Reviews == {"review", "retry"}

Wanted(s) == IF s \in Extras THEN <<s>> ELSE <<>>

\* What review_pr_with_options posts after the review is saved.
Afterwards(clean) ==
    IF clean THEN <<>>
    ELSE Wanted("premerge") \o Wanted("readiness") \o Wanted("llm_summary")
         \o Wanted("auto_improve")

Slot == Extras \cup UNION {ToSet(ss) : ss \in UNION {Handler(c).slots : c \in ToSet(Precedence)}}

-----------------------------------------------------------------------------
Init ==
    /\ \E old \in BOOLEAN :     \* a walkthrough from before slots had kinds
          /\ comments = IF old THEN <<[slot |-> "walkthrough", live |-> TRUE]>>
                        ELSE <<>>
          /\ slot = [s \in Slot \cup {"legacy"} |-> IF old /\ s = "legacy" THEN 1 ELSE None]
    /\ branch = [f \in File |-> {}]
    /\ head = 0
    /\ rows = [c \in 0..MaxPushes |-> None]
    /\ pc = [t \in Task |-> "idle"] /\ cmd = [t \in Task |-> None]
    /\ posts = [t \in Task |-> <<>>]
    /\ id = [t \in Task |-> None]
    /\ sha = [t \in Task |-> None] /\ found = [t \in Task |-> {}]
    /\ fetched = [t \in Task |-> <<>>]
    /\ free = Permits /\ locked = None
    /\ marred = {} /\ saved = {} /\ blurred = {}
    /\ commands = MaxCommands /\ faults = MaxFaults /\ pushes = MaxPushes

Goto(t, label) == pc' = [pc EXCEPT ![t] = label]

Failing == faults > 0 /\ faults' = faults - 1

HoldsPermit(t) == pc[t] \notin {"idle", "permit"} /\ Handler(cmd[t]).permit

\* The task's future is dropped, with its guard and its permit.
Dropped(t) ==
    /\ free' = IF HoldsPermit(t) THEN free + 1 ELSE free
    /\ locked' = IF locked = t THEN None ELSE locked
    /\ posts' = [posts EXCEPT ![t] = <<>>]
    /\ id' = [id EXCEPT ![t] = None]
    /\ fetched' = [fetched EXCEPT ![t] = <<>>]
    /\ sha' = [sha EXCEPT ![t] = None]
    /\ found' = [found EXCEPT ![t] = {}]

End(t) == Dropped(t) /\ Goto(t, "idle") /\ cmd' = [cmd EXCEPT ![t] = None]

\* Mutant: the permit is kept for the fallback, which waits for one.
GiveUpKeepingPermit(t) ==
    IF cmd[t] = "improve"
    THEN /\ Goto(t, "permit")
         /\ cmd' = [cmd EXCEPT ![t] = "review"]
         /\ UNCHANGED <<free, locked, posts, id, fetched, sha, found>>
    ELSE End(t)

\* An error ends the task; spawn_improve falls back to a review, and lets its permit go first.
GiveUp(t) ==
    IF cmd[t] = "improve"
    THEN Dropped(t) /\ Goto(t, "permit") /\ cmd' = [cmd EXCEPT ![t] = "review"]
    ELSE End(t)

-----------------------------------------------------------------------------
\* A comment is created: the bot's own are ignored, strangers are told so.
Created(t, m) ==
    /\ commands > 0 /\ commands' = commands - 1
    /\ pc[t] = "idle" /\ m.who # "bot"
    /\ \E heard \in ParseBotCommand(m.mentions) :
          LET c == IF m.who = "stranger" THEN "denied"
                   ELSE IF heard = "improve" /\ ~HasLlm THEN "review" ELSE heard
          IN  /\ cmd' = [cmd EXCEPT ![t] = c]
              /\ Goto(t, IF Handler(c).permit THEN "permit" ELSE "work")
    /\ UNCHANGED <<world, posts, id, sha, found, fetched, free, locked, past, faults, pushes>>

AcquirePermit(t) ==
    /\ pc[t] = "permit" /\ free > 0
    /\ free' = free - 1
    /\ Goto(t, IF cmd[t] \in Reviews THEN "lock" ELSE "work")
    /\ UNCHANGED <<world, cmd, posts, id, sha, found, fetched, locked, past, bounds>>

\* spawn_review waits for the pull request with a permit in its hand.
AcquireLock(t) ==
    /\ pc[t] = "lock" /\ locked = None
    /\ locked' = t
    /\ Goto(t, "work")
    /\ UNCHANGED <<world, cmd, posts, id, sha, found, fetched, free, past, bounds>>

\* Token, pull request, files, model: all that an answer is made of.
Work(t) ==
    /\ pc[t] = "work"
    /\ IF cmd[t] \in Reviews
       THEN \E fs \in SUBSET Finding :
              /\ sha' = [sha EXCEPT ![t] = head]
              /\ found' = [found EXCEPT ![t] = fs]
              /\ \E overview \in Overview : posts' = [posts EXCEPT ![t] = overview]
              /\ Goto(t, "look")
              /\ UNCHANGED fetched
       ELSE /\ IF cmd[t] = "fix" /\ AllowAutoFix
               THEN /\ fetched' = [fetched EXCEPT ![t] = branch]
                    /\ Goto(t, "put")
                    /\ UNCHANGED posts
               ELSE /\ \E ss \in Handler(cmd[t]).slots :
                          /\ posts' = [posts EXCEPT ![t] = ss]
                          /\ Goto(t, IF ss = <<Reply>> THEN "post" ELSE "look")
                    /\ UNCHANGED fetched
            /\ UNCHANGED <<sha, found>>
    /\ UNCHANGED <<world, cmd, id, free, locked, past, bounds>>

WorkFails(t) ==
    /\ pc[t] \in {"work", "put"} /\ Failing /\ GiveUp(t)
    /\ UNCHANGED <<world, past, commands, pushes>>

-----------------------------------------------------------------------------
\* post_or_update_comment.

Meets(t) ==
    \E u \in Task \ {t} : /\ pc[u] \in {"patch", "post", "store"}
                          /\ Head(posts[u]) = Head(posts[t])

\* get_comment_id_async.
CommentOf(s) == IF slot[s] = None /\ s = "walkthrough" THEN slot["legacy"] ELSE slot[s]

Look(t) ==
    /\ pc[t] = "look"
    /\ LET s == Head(posts[t])
       IN  \/ /\ id' = [id EXCEPT ![t] = CommentOf(s)]
              /\ Goto(t, IF CommentOf(s) = None THEN "post" ELSE "patch")
              /\ marred' = IF Meets(t) THEN marred \cup {s} ELSE marred
              /\ UNCHANGED faults
           \/ /\ Failing
              /\ Goto(t, "post")
              /\ marred' = marred \cup {s}
              /\ UNCHANGED id
    /\ UNCHANGED <<world, cmd, posts, sha, found, fetched, free, locked, saved, blurred, commands,
                   pushes>>

\* On with the next answer, the saving of the review, or the end.
NextPost(t) ==
    /\ id' = [id EXCEPT ![t] = None]
    /\ posts' = [posts EXCEPT ![t] = Tail(@)]
    /\ IF Len(posts[t]) > 1
       THEN Goto(t, "look") /\ UNCHANGED <<cmd, sha, found, fetched, free, locked>>
       ELSE IF cmd[t] \in Reviews /\ Head(posts[t]) = "review_checks"
            THEN Goto(t, "create") /\ UNCHANGED <<cmd, sha, found, fetched, free, locked>>
            ELSE /\ cmd' = [cmd EXCEPT ![t] = None] /\ Goto(t, "idle")
                 /\ free' = IF HoldsPermit(t) THEN free + 1 ELSE free
                 /\ locked' = IF locked = t THEN None ELSE locked
                 /\ fetched' = [fetched EXCEPT ![t] = <<>>]
                 /\ sha' = [sha EXCEPT ![t] = None] /\ found' = [found EXCEPT ![t] = {}]

\* A comment that is gone, or a PATCH that fails, makes way for a new comment.
Patch(t) ==
    /\ pc[t] = "patch"
    /\ LET s == Head(posts[t])
       IN  \/ /\ comments[id[t]].live
              /\ NextPost(t)
              /\ UNCHANGED <<marred, faults>>
           \/ /\ ~comments[id[t]].live
              /\ Goto(t, "post")
              /\ UNCHANGED <<marred, faults, cmd, posts, id, sha, found, fetched, free, locked>>
           \/ /\ Failing /\ Goto(t, "post")
              /\ marred' = marred \cup {s}
              /\ UNCHANGED <<cmd, posts, id, sha, found, fetched, free, locked>>
    /\ UNCHANGED <<world, saved, blurred, commands, pushes>>

Posted(s) == Append(comments, [slot |-> s, live |-> TRUE])

Post(t) ==
    /\ pc[t] = "post"
    /\ LET s == Head(posts[t])
       IN  \/ /\ comments' = Posted(s)
              /\ IF s = Reply
                 THEN NextPost(t)
                 ELSE /\ id' = [id EXCEPT ![t] = Len(comments')] /\ Goto(t, "store")
                      /\ UNCHANGED <<cmd, posts, sha, found, fetched, free, locked>>
              /\ UNCHANGED <<marred, faults>>
           \/ \* the answer is lost: retry_async posts again
              /\ Failing
              /\ comments' = Posted(s)
              /\ marred' = marred \cup {s}
              /\ UNCHANGED task
    /\ UNCHANGED <<slot, branch, head, rows, saved, blurred, commands, pushes>>

PostFails(t) ==
    /\ pc[t] = "post" /\ Failing /\ GiveUp(t)
    /\ UNCHANGED <<world, past, commands, pushes>>

\* Mutant: the insert does nothing on a conflict.
StoreOnce(t) ==
    /\ pc[t] = "store"
    /\ LET s == Head(posts[t])
       IN  slot' = [slot EXCEPT ![s] = IF @ = None THEN id[t] ELSE @]
    /\ NextPost(t)
    /\ UNCHANGED <<comments, branch, head, rows, past, bounds>>

\* set_comment_id_async; that it fails is only logged.
Store(t) ==
    /\ pc[t] = "store"
    /\ LET s == Head(posts[t])
       IN  \/ slot' = [slot EXCEPT ![s] = id[t]] /\ UNCHANGED <<marred, faults>>
           \/ Failing /\ marred' = marred \cup {s} /\ UNCHANGED slot
    /\ NextPost(t)
    /\ UNCHANGED <<comments, branch, head, rows, saved, blurred, commands, pushes>>

-----------------------------------------------------------------------------
\* save_review_to_db, a statement at a time.

\* Mutant: the row of an earlier review of the commit keeps its verdict.
CreatedKeeping(row) == IF row = None THEN [status |-> "pending", found |-> {}] ELSE row

CreatedRow(row) == [status |-> "pending", found |-> IF row = None THEN {} ELSE row.found]

CreateReview(t) ==
    /\ pc[t] = "create"
    /\ \/ /\ rows' = [rows EXCEPT ![sha[t]] = CreatedRow(@)]
          /\ Goto(t, "delete")
          /\ UNCHANGED faults
       \/ Failing /\ Goto(t, "after") /\ UNCHANGED rows
    /\ UNCHANGED <<comments, slot, branch, head, cmd, posts, id, sha, found, fetched, free, locked,
                   past, commands, pushes>>

DeleteFindings(t) ==
    /\ pc[t] = "delete" /\ Goto(t, "insert")
    /\ \/ rows' = [rows EXCEPT ![sha[t]].found = {}] /\ UNCHANGED <<faults, blurred>>
       \/ Failing /\ blurred' = blurred \cup {sha[t]} /\ UNCHANGED rows
    /\ UNCHANGED <<comments, slot, branch, head, cmd, posts, id, sha, found, fetched, free, locked,
                   marred, saved, commands, pushes>>

InsertFindings(t) ==
    /\ pc[t] = "insert" /\ Goto(t, "status")
    /\ \/ rows' = [rows EXCEPT ![sha[t]].found = @ \cup found[t]] /\ UNCHANGED <<faults, blurred>>
       \/ Failing /\ blurred' = blurred \cup {sha[t]} /\ UNCHANGED rows
    /\ UNCHANGED <<comments, slot, branch, head, cmd, posts, id, sha, found, fetched, free, locked,
                   marred, saved, commands, pushes>>

UpdateReview(t) ==
    /\ pc[t] = "status" /\ Goto(t, "after")
    /\ \/ /\ rows' = [rows EXCEPT ![sha[t]].status = "completed"]
          /\ saved' = saved \cup {<<sha[t], found[t]>>}
          /\ UNCHANGED faults
       \/ Failing /\ UNCHANGED <<rows, saved>>
    /\ UNCHANGED <<comments, slot, branch, head, cmd, posts, id, sha, found, fetched, free, locked,
                   marred, blurred, commands, pushes>>

\* Pre-merge checks, readiness, summary, improvements: each a slot, if it is wanted.
After(t) ==
    /\ pc[t] = "after"
    /\ LET more == Afterwards(found[t] = {})
       IN  IF more = <<>> THEN End(t)
           ELSE /\ posts' = [posts EXCEPT ![t] = more]
                /\ Goto(t, "look")
                /\ UNCHANGED <<cmd, id, sha, found, fetched, free, locked>>
    /\ UNCHANGED <<world, past, bounds>>

-----------------------------------------------------------------------------
\* spawn_fix: put_repo_file takes the sha of the blob that was read.

\* A fix in a file; applied twice it changes nothing more.
Fix == 0

\* Mutant: whatever the branch holds by now is overwritten.
PutBlindly(t) ==
    /\ pc[t] = "put"
    /\ \E f \in DOMAIN fetched[t] :
          /\ branch' = [branch EXCEPT ![f] = fetched[t][f] \cup {Fix}]
          /\ fetched' = [fetched EXCEPT ![t] = [g \in DOMAIN @ \ {f} |-> @[g]]]
    /\ UNCHANGED <<comments, slot, head, rows, pc, cmd, posts, id, sha, found, free, locked, past,
                   bounds>>

Put(t) ==
    /\ pc[t] = "put"
    /\ \E f \in DOMAIN fetched[t] :
          IF branch[f] = fetched[t][f]
          THEN /\ branch' = [branch EXCEPT ![f] = @ \cup {Fix}]
               /\ fetched' = [fetched EXCEPT ![t] = [g \in DOMAIN @ \ {f} |-> @[g]]]
               /\ UNCHANGED <<pc, cmd, posts, id, sha, found, free, locked>>
          ELSE End(t) /\ UNCHANGED branch
    /\ UNCHANGED <<comments, slot, head, rows, past, bounds>>

PutAll(t) ==
    /\ pc[t] = "put" /\ DOMAIN fetched[t] = {}
    /\ posts' = [posts EXCEPT ![t] = <<Reply>>]
    /\ Goto(t, "post")
    /\ UNCHANGED <<world, cmd, id, sha, found, fetched, free, locked, past, bounds>>

-----------------------------------------------------------------------------
\* The timeout of the handler drops the task wherever it waits; only the short answers
\* have none.
TimeOut(t) ==
    /\ Failing
    /\ pc[t] \notin {"idle", "permit", "lock"} /\ Handler(cmd[t]).timed
    /\ marred' = IF pc[t] = "store" THEN marred \cup {Head(posts[t])} ELSE marred
    /\ End(t)
    /\ UNCHANGED <<world, saved, blurred, commands, pushes>>

\* The process dies.
Crash ==
    /\ Failing
    /\ \E t \in Task : pc[t] # "idle"
    /\ marred' = marred \cup {Head(posts[t]) : t \in {u \in Task : pc[u] = "store"}}
    /\ pc' = [t \in Task |-> "idle"] /\ cmd' = [t \in Task |-> None]
    /\ posts' = [t \in Task |-> <<>>] /\ id' = [t \in Task |-> None]
    /\ sha' = [t \in Task |-> None] /\ found' = [t \in Task |-> {}]
    /\ fetched' = [t \in Task |-> <<>>]
    /\ free' = Permits /\ locked' = None
    /\ UNCHANGED <<world, saved, blurred, commands, pushes>>

Push ==
    /\ pushes > 0 /\ pushes' = pushes - 1
    /\ head' = head + 1
    /\ \E f \in File : branch' = [branch EXCEPT ![f] = @ \cup {head'}]
    /\ UNCHANGED <<comments, slot, rows, task, past, commands, faults>>

DeleteComment ==
    /\ Failing
    /\ \E i \in DOMAIN comments : /\ comments[i].live
                                  /\ comments' = [comments EXCEPT ![i].live = FALSE]
    /\ UNCHANGED <<slot, branch, head, rows, task, past, commands, pushes>>

Step(t) ==
    \/ AcquirePermit(t) \/ AcquireLock(t) \/ Work(t) \/ Look(t) \/ Patch(t) \/ Post(t) \/ Store(t)
    \/ CreateReview(t) \/ DeleteFindings(t) \/ InsertFindings(t) \/ UpdateReview(t) \/ After(t)
    \/ Put(t) \/ PutAll(t)

Next ==
    \/ \E t \in Task, m \in Comment : Created(t, m)
    \/ \E t \in Task : Step(t) \/ WorkFails(t) \/ PostFails(t) \/ TimeOut(t)
    \/ Crash \/ Push \/ DeleteComment

\* The runtime goes on with every task; a permit or a lock that is free is given away.
Fairness == \A t \in Task : WF_vars(Step(t))

Spec == Init /\ [][Next]_vars /\ Fairness
-----------------------------------------------------------------------------
\* Properties.

\* CHANGELOG.md 93: replies "update their issue-comment slots in place instead of
\* stacking new posts": unless a call failed or two tasks met in it, a slot has one
\* comment at most, and it is the one the table names; deleting it changes nothing.
OneComment ==
    \A s \in Slot \ (marred \cup {Reply}) :
        LET live == {i \in DOMAIN comments : comments[i].slot = s /\ comments[i].live}
        IN  /\ Cardinality(live) <= 1
            /\ \A i \in live : i = CommentOf(s) \/ \E t \in Task : pc[t] = "store" /\ id[t] = i

\* bot/review/persist.rs: whatever dies or times out between its statements, a row that
\* counts as completed holds what a run that saved it to the end found, all of it.
CompletedRowsWhole ==
    \A c \in DOMAIN rows \ blurred :
        rows[c] # None /\ rows[c].status = "completed" => <<c, rows[c].found>> \in saved

\* bot/github_files.rs put_repo_file: a fix never takes a push off the branch.
FixKeepsPushes == (UNION {branch[f] : f \in File}) \ {Fix} = 1..head

\* bot/mod.rs 831: whatever waits for whom, with a single permit too, every command ends.
CommandsEnd == \A t \in Task : pc[t] # "idle" ~> pc[t] = "idle"

-----------------------------------------------------------------------------
\* The inductive invariant, see ConversationProofs.

Answering == {"look", "patch", "post", "store"}
Saving == {"create", "delete", "insert", "status", "after"}
Places == {"idle", "permit", "lock", "work", "put"} \cup Answering \cup Saving

\* Of some files, what they contain.
Contents == UNION {[S -> SUBSET (0..MaxPushes)] : S \in SUBSET File}

ReviewRow == [status : {"pending", "completed"}, found : SUBSET Finding]

TypeOK ==
    /\ comments \in Seq([slot : Slot, live : BOOLEAN])
    /\ slot \in [Slot \cup {"legacy"} -> Nat \cup {None}]
    /\ branch \in [File -> SUBSET (0..MaxPushes)] /\ head \in Nat
    /\ rows \in [0..MaxPushes -> ReviewRow \cup {None}]
    /\ pc \in [Task -> Places]
    /\ cmd \in [Task -> ToSet(Precedence) \cup {"denied", None}]
    /\ posts \in [Task -> Seq(Slot)]
    /\ id \in [Task -> Nat \cup {None}]
    /\ sha \in [Task -> 0..MaxPushes \cup {None}]
    /\ found \in [Task -> SUBSET Finding]
    /\ fetched \in [Task -> Contents]
    /\ free \in Int /\ locked \in Task \cup {None}
    /\ commands \in Nat /\ faults \in Nat /\ pushes \in Nat
    /\ head + pushes = MaxPushes

\* A review is under way from its lock on.
Reviewing(t) == cmd[t] \in Reviews /\ pc[t] \notin {"idle", "permit", "lock"}

\* Where a task is and what it has in its hand.
Placed ==
    \A t \in Task :
        /\ pc[t] # "idle" => cmd[t] \in ToSet(Precedence) \cup {"denied"}
        /\ pc[t] \in Answering => posts[t] # <<>>
        /\ pc[t] = "put" => cmd[t] = "fix"
        /\ pc[t] \in Saving => Reviewing(t)
        /\ Reviewing(t) => locked = t
        /\ Reviewing(t) /\ pc[t] # "work" => sha[t] \in 0..MaxPushes

\* A row being written does not count as completed.
RowsInHand ==
    \A t \in Task :
        /\ pc[t] \in {"delete", "insert", "status"} =>
              rows[sha[t]] \in ReviewRow /\ rows[sha[t]].status = "pending"
        /\ pc[t] = "insert" => sha[t] \in blurred \/ rows[sha[t]].found = {}
        /\ pc[t] = "status" => sha[t] \in blurred \/ rows[sha[t]].found = found[t]

Live(s) == {i \in DOMAIN comments : comments[i].slot = s /\ comments[i].live}

Writes(t, s) == pc[t] \in {"patch", "post", "store"} /\ Head(posts[t]) = s

\* A slot where nothing failed has one writer at most, who knows its comment.
SlotsKept ==
    \A s \in Slot \ (marred \cup {Reply}) :
        /\ \A t, u \in Task : Writes(t, s) /\ Writes(u, s) => t = u
        /\ \A t \in Task : Writes(t, s) =>
              /\ pc[t] = "patch" => id[t] = CommentOf(s)
              /\ pc[t] = "post" => Live(s) = {}
              /\ pc[t] = "store" => id[t] \in Nat /\ Live(s) \subseteq {id[t]}
        /\ (\A t \in Task : ~(Writes(t, s) /\ pc[t] = "store"))
              => Live(s) \subseteq {CommentOf(s)}

IInv ==
    /\ TypeOK
    /\ Placed /\ RowsInHand /\ SlotsKept
    /\ CompletedRowsWhole /\ FixKeepsPushes
=============================================================================
