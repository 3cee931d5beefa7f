------------------------- MODULE ConversationProofs -------------------------
(***************************************************************************)
(* Proofs about Conversation: completed rows are whole, a slot has one     *)
(* comment, a fix keeps what was pushed; for any number of tasks, commands,*)
(* files and findings, and any number of failed calls, crashes, timeouts   *)
(* and pushes.                                                             *)
(*                                                                         *)
(* IInv says what a task in the middle of its work has in its hand, and    *)
(* what nobody else can have done to it meanwhile: to its row because it   *)
(* has the lock, to its slot because a slot with two writers is marred.    *)
(***************************************************************************)
EXTENDS Conversation, FiniteSetTheorems, SequenceTheorems, TLAPS

USE Assumptions, NoneIsNone DEF ConversationAssumption

-----------------------------------------------------------------------------
\* Commands and slots.

Named == {"help", "add_docs", "changelog", "similar", "impact", "digest", "wiki",
          "approve_rule", "fix", "security", "labels", "summarize", "describe",
          "generate_tests", "improve", "ignore", "ask", "review", "retry"}

Single == {"reply", "wiki", "digest", "describe", "improve", "ask", "llm_summary", "labels",
            "changelog", "security", "add_docs", "impact", "similar", "generated_tests"}

LEMMA Commands == ToSet(Precedence) = Named
<1>1. QED  BY DEF ToSet, Precedence, Named

LEMMA Handlers ==
    ASSUME NEW c \in Named \cup {"denied"}
    PROVE  /\ Handler(c).slots \subseteq Overview \cup {<<s>> : s \in Single}
           /\ c \in Reviews => Handler(c).slots = Overview /\ Handler(c).permit
<1> USE DEF Handler, Plain, Answer, Help, Wiki, ApproveRule, Ignore, Digest, Describe, Improve,
            Ask, Summarize, Labels, ChangelogDraft, Security, AddDocs, Impact, Similar,
            ApplyFix, GenerateTests, Review, Reviews, Reply, Single
<1>1. CASE c \in {"help", "denied", "wiki", "approve_rule", "ignore", "digest"}
  BY <1>1
<1>2. CASE c \in {"describe", "improve", "ask", "summarize", "labels"}
  BY <1>2
<1>3. CASE c \in {"changelog", "security", "add_docs", "impact", "similar", "fix"}
  BY <1>3
<1>4. CASE c = "generate_tests"
  BY <1>4
<1>5. CASE c \in {"review", "retry"}
  BY <1>5
<1>6. QED  BY <1>1, <1>2, <1>3, <1>4, <1>5 DEF Named

\* An answer is a sequence of slots, and none of them is the old kind.
LEMMA Answers ==
    ASSUME NEW c \in Named \cup {"denied"}, NEW ss \in Handler(c).slots
    PROVE  ss \in Seq(Slot) /\ ss # <<>>
<1> DEFINE b == IF c = "denied" THEN "help" ELSE c
<1>1. b \in ToSet(Precedence) /\ ss \in Handler(b).slots
  BY Commands DEF Named, Handler
<1>2. ToSet(ss) \subseteq Slot
  BY <1>1 DEF Slot
<1>3. ss \in Overview \cup {<<s>> : s \in Single}
  BY Handlers
<1>4. CASE ss = <<"walkthrough", "review_context", "review_checks">>
  <2>1. "walkthrough" \in Slot /\ "review_context" \in Slot /\ "review_checks" \in Slot
    BY <1>2, <1>4 DEF ToSet
  <2>2. QED  BY <1>4, <2>1
<1>5. CASE ss = <<"walkthrough", "review_checks">>
  <2>1. "walkthrough" \in Slot /\ "review_checks" \in Slot
    BY <1>2, <1>5 DEF ToSet
  <2>2. QED  BY <1>5, <2>1
<1>6. ASSUME NEW s \in Single, ss = <<s>>
      PROVE  ss \in Seq(Slot) /\ ss # <<>>
  <2>1. s \in Slot
    BY <1>2, <1>6 DEF ToSet
  <2>2. QED  BY <1>6, <2>1
<1>7. QED  BY <1>3, <1>4, <1>5, <1>6 DEF Overview

LEMMA NoLegacySlot == "legacy" \notin Slot
<1>1. ASSUME NEW c \in ToSet(Precedence), NEW ss \in Handler(c).slots
      PROVE  "legacy" \notin ToSet(ss)
  <2>1. ss \in Overview \cup {<<s>> : s \in Single}
    BY Commands, Handlers
  <2>2. QED  BY <2>1 DEF Overview, Single, ToSet
<1>2. QED  BY <1>1 DEF Slot

LEMMA LaterAnswers == \A clean \in BOOLEAN : Afterwards(clean) \in Seq(Slot)
<1>1. \A s : Wanted(s) \in Seq(Slot)
  <2>1. Extras \subseteq Slot
    BY DEF Slot
  <2>2. \A s \in Slot : <<s>> \in Seq(Slot)
    OBVIOUS
  <2>3. <<>> \in Seq(Slot)
    OBVIOUS
  <2>4. QED  BY <2>1, <2>2, <2>3 DEF Wanted
<1>2. QED  BY <1>1 DEF Afterwards

\* What the bot hears is a command.
LEMMA Hears == \A mentions : ParseBotCommand(mentions) \subseteq Named
<1>1. QED  BY Commands DEF ParseBotCommand, ToSet

\* The slots of a task that answers.
LEMMA HeadsAreSlots ==
    ASSUME NEW ss \in Seq(Slot), ss # <<>>
    PROVE  /\ Head(ss) \in Slot /\ Tail(ss) \in Seq(Slot)
           /\ Len(ss) > 1 => Tail(ss) # <<>>
<1>1. Head(ss) \in Slot /\ Tail(ss) \in Seq(Slot) /\ Len(Tail(ss)) = Len(ss) - 1
  BY HeadTailProperties
<1>2. Len(ss) > 1 => Tail(ss) # <<>>
  <2>1. Tail(ss) = <<>> => Len(Tail(ss)) = 0
    BY EmptySeq
  <2>2. Len(ss) \in Nat
    BY LenProperties
  <2>3. QED  BY <1>1, <2>1, <2>2
<1>3. QED  BY <1>1, <1>2

-----------------------------------------------------------------------------
\* Types.

TaskType ==
    /\ pc \in [Task -> Places]
    /\ cmd \in [Task -> ToSet(Precedence) \cup {"denied", None}]
    /\ posts \in [Task -> Seq(Slot)]
    /\ id \in [Task -> Nat \cup {None}]
    /\ sha \in [Task -> 0..MaxPushes \cup {None}]
    /\ found \in [Task -> SUBSET Finding]
    /\ fetched \in [Task -> Contents]
    /\ free \in Int /\ locked \in Task \cup {None}

WorldType ==
    /\ comments \in Seq([slot : Slot, live : BOOLEAN])
    /\ slot \in [Slot \cup {"legacy"} -> Nat \cup {None}]
    /\ branch \in [File -> SUBSET (0..MaxPushes)] /\ head \in Nat
    /\ rows \in [0..MaxPushes -> ReviewRow \cup {None}]

BoundsType ==
    /\ commands \in Nat /\ faults \in Nat /\ pushes \in Nat
    /\ head + pushes = MaxPushes

LEMMA TypeParts == TypeOK <=> TaskType /\ WorldType /\ BoundsType
<1>1. QED  BY DEF TypeOK, TaskType, WorldType, BoundsType

LEMMA NoFiles == <<>> \in Contents
<1>1. <<>> \in [{} -> SUBSET (0..MaxPushes)]
  OBVIOUS
<1>2. QED  BY <1>1 DEF Contents

LEMMA DroppedType ==
    ASSUME TaskType, NEW t \in Task, Dropped(t)
    PROVE  /\ posts' \in [Task -> Seq(Slot)]
           /\ id' \in [Task -> Nat \cup {None}]
           /\ sha' \in [Task -> 0..MaxPushes \cup {None}]
           /\ found' \in [Task -> SUBSET Finding]
           /\ fetched' \in [Task -> Contents]
           /\ free' \in Int /\ locked' \in Task \cup {None}
<1>1. <<>> \in Seq(Slot)
  OBVIOUS
<1>2. QED  BY <1>1, NoFiles DEF TaskType, Dropped

LEMMA EndType ==
    ASSUME TaskType, NEW t \in Task, End(t)
    PROVE  TaskType'
<1>1. "idle" \in Places
  BY DEF Places
<1>2. QED  BY <1>1, DroppedType DEF TaskType, End, Goto

LEMMA GiveUpType ==
    ASSUME TaskType, NEW t \in Task, GiveUp(t)
    PROVE  TaskType'
<1>1. "permit" \in Places /\ "review" \in ToSet(Precedence)
  BY Commands DEF Places, Named
<1>2. CASE cmd[t] = "improve"
  <2>1. /\ Dropped(t)
        /\ pc' = [pc EXCEPT ![t] = "permit"] /\ cmd' = [cmd EXCEPT ![t] = "review"]
    BY <1>2 DEF GiveUp, Goto
  <2>2. pc' \in [Task -> Places]
    BY <1>1, <2>1 DEF TaskType
  <2>3. cmd' \in [Task -> ToSet(Precedence) \cup {"denied", None}]
    BY <1>1, <2>1 DEF TaskType
  <2>4. QED  BY <2>1, <2>2, <2>3, DroppedType DEF TaskType
<1>3. CASE cmd[t] # "improve"
  BY <1>3, EndType DEF GiveUp
<1>4. QED  BY <1>2, <1>3

LEMMA NextPostType ==
    ASSUME TaskType, NEW t \in Task, posts[t] # <<>>, NextPost(t)
    PROVE  TaskType'
<1>1. posts[t] \in Seq(Slot) /\ Tail(posts[t]) \in Seq(Slot)
  BY HeadsAreSlots DEF TaskType
<1>2. posts' \in [Task -> Seq(Slot)] /\ id' \in [Task -> Nat \cup {None}]
  BY <1>1 DEF NextPost, TaskType
<1>3. CASE \E label \in {"look", "create"} :
             Goto(t, label) /\ UNCHANGED <<cmd, sha, found, fetched, free, locked>>
  BY <1>2, <1>3 DEF TaskType, Goto, Places, Answering, Saving
<1>4. CASE /\ cmd' = [cmd EXCEPT ![t] = None] /\ Goto(t, "idle")
           /\ free' = IF HoldsPermit(t) THEN free + 1 ELSE free
           /\ locked' = IF locked = t THEN None ELSE locked
           /\ fetched' = [fetched EXCEPT ![t] = <<>>]
           /\ sha' = [sha EXCEPT ![t] = None] /\ found' = [found EXCEPT ![t] = {}]
  <2>1. pc' \in [Task -> Places]
    BY <1>4 DEF TaskType, Goto, Places
  <2>2. /\ cmd' \in [Task -> ToSet(Precedence) \cup {"denied", None}]
        /\ sha' \in [Task -> 0..MaxPushes \cup {None}]
        /\ found' \in [Task -> SUBSET Finding]
        /\ fetched' \in [Task -> Contents]
    BY <1>4, NoFiles DEF TaskType
  <2>3. free' \in Int /\ locked' \in Task \cup {None}
    BY <1>4 DEF TaskType
  <2>4. QED  BY <1>2, <2>1, <2>2, <2>3 DEF TaskType
<1>5. QED  BY <1>3, <1>4 DEF NextPost

\* A task that only moves on.
LEMMA MovesType ==
    ASSUME TaskType, NEW t \in Task, NEW label \in Places, Goto(t, label),
           UNCHANGED <<cmd, posts, id, sha, found, fetched, free, locked>>
    PROVE  TaskType'
<1>1. QED  BY DEF TaskType, Goto

LEMMA TaskTypeStep == ASSUME TypeOK, Placed, Next PROVE TaskType'
<1> USE TypeParts
<1>1. ASSUME NEW t \in Task, NEW m \in Comment, Created(t, m)
      PROVE  TaskType'
  <2>1. PICK heard \in ParseBotCommand(m.mentions) :
           LET c == IF m.who = "stranger" THEN "denied"
                    ELSE IF heard = "improve" /\ ~HasLlm THEN "review" ELSE heard
           IN  /\ cmd' = [cmd EXCEPT ![t] = c]
               /\ Goto(t, IF Handler(c).permit THEN "permit" ELSE "work")
    BY <1>1 DEF Created
  <2>2. heard \in Named
    BY Hears
  <2>3. cmd' \in [Task -> ToSet(Precedence) \cup {"denied", None}]
    BY <2>1, <2>2, Commands DEF TaskType, Named
  <2>4. pc' \in [Task -> Places]
    BY <2>1 DEF TaskType, Goto, Places
  <2>5. UNCHANGED <<posts, id, sha, found, fetched, free, locked>>
    BY <1>1 DEF Created
  <2>6. QED  BY <2>3, <2>4, <2>5 DEF TaskType
<1>2. ASSUME NEW t \in Task, Step(t)
      PROVE  TaskType'
  <2>0. Places = {"idle", "permit", "lock", "work", "put"} \cup Answering \cup Saving
    BY DEF Places
  <2>1. CASE AcquirePermit(t)
    BY <2>1 DEF AcquirePermit, Goto, TaskType, Places
  <2>2. CASE AcquireLock(t)
    BY <2>2 DEF AcquireLock, Goto, TaskType, Places
  <2>3. CASE Work(t)
    <3>1. CASE cmd[t] \in Reviews
      <4>1. PICK fs \in SUBSET Finding, overview \in Overview :
               /\ sha' = [sha EXCEPT ![t] = head]
               /\ found' = [found EXCEPT ![t] = fs]
               /\ posts' = [posts EXCEPT ![t] = overview]
               /\ Goto(t, "look") /\ UNCHANGED fetched
        BY <2>3, <3>1 DEF Work
      <4>2. overview \in Seq(Slot)
        BY <3>1, Answers, Handlers DEF Named, Reviews
      <4>3. head \in 0..MaxPushes
        BY DEF WorldType, BoundsType
      <4>4. pc' \in [Task -> Places]
        BY <4>1 DEF TaskType, Goto, Places, Answering
      <4>5. UNCHANGED <<cmd, id, free, locked>>
        BY <2>3 DEF Work
      <4>6. QED  BY <4>1, <4>2, <4>3, <4>4, <4>5 DEF TaskType
    <3>2. CASE cmd[t] = "fix" /\ AllowAutoFix
      <4>1. branch \in Contents
        BY DEF WorldType, Contents
      <4>2. /\ fetched' = [fetched EXCEPT ![t] = branch] /\ Goto(t, "put")
            /\ UNCHANGED <<cmd, posts, id, sha, found, free, locked>>
        BY <2>3, <3>2 DEF Work, Reviews
      <4>3. pc' \in [Task -> Places]
        BY <4>2 DEF TaskType, Goto, Places
      <4>4. QED  BY <4>1, <4>2, <4>3 DEF TaskType
    <3>3. CASE cmd[t] \notin Reviews /\ ~(cmd[t] = "fix" /\ AllowAutoFix)
      <4>1. PICK ss \in Handler(cmd[t]).slots :
               /\ posts' = [posts EXCEPT ![t] = ss]
               /\ Goto(t, IF ss = <<Reply>> THEN "post" ELSE "look")
        BY <2>3, <3>3 DEF Work
      <4>2. cmd[t] \in Named \cup {"denied"}
        BY <2>3, Commands DEF Work, Placed, TaskType
      <4>3. ss \in Seq(Slot)
        BY <4>2, Answers
      <4>4. UNCHANGED <<cmd, id, sha, found, fetched, free, locked>>
        BY <2>3, <3>3 DEF Work
      <4>5. pc' \in [Task -> Places]
        BY <4>1 DEF TaskType, Goto, Places, Answering
      <4>6. QED  BY <4>1, <4>3, <4>4, <4>5 DEF TaskType
    <3>4. QED  BY <3>1, <3>2, <3>3
  <2>4. CASE Look(t)
    <3>1. posts[t] \in Seq(Slot) /\ posts[t] # <<>>
      BY <2>4 DEF Look, Placed, Answering, TaskType
    <3>2. CommentOf(Head(posts[t])) \in Nat \cup {None}
      BY <3>1, HeadsAreSlots DEF CommentOf, WorldType
    <3>3. id' \in [Task -> Nat \cup {None}]
      BY <2>4, <3>2 DEF Look, TaskType
    <3>4. pc' \in [Task -> Places]
      BY <2>4 DEF Look, Goto, TaskType, Places, Answering
    <3>5. QED  BY <2>4, <3>3, <3>4 DEF Look, TaskType
  <2>5. CASE Patch(t)
    <3>1. posts[t] # <<>>
      BY <2>5 DEF Patch, Placed, Answering
    <3>2. \/ NextPost(t)
          \/ Goto(t, "post") /\ UNCHANGED <<cmd, posts, id, sha, found, fetched, free, locked>>
      BY <2>5 DEF Patch
    <3>3. QED  BY <3>1, <3>2, NextPostType, MovesType DEF Places, Answering
  <2>6. CASE Post(t)
    <3>1. posts[t] # <<>>
      BY <2>6 DEF Post, Placed, Answering
    <3>2. \/ NextPost(t)
          \/ /\ id' = [id EXCEPT ![t] = Len(comments')] /\ Goto(t, "store")
             /\ comments' = Posted(Head(posts[t]))
             /\ UNCHANGED <<cmd, posts, sha, found, fetched, free, locked>>
          \/ UNCHANGED task
      BY <2>6 DEF Post
    <3>3. CASE NextPost(t)
      BY <3>1, <3>3, NextPostType
    <3>4. CASE /\ id' = [id EXCEPT ![t] = Len(comments')] /\ Goto(t, "store")
               /\ comments' = Posted(Head(posts[t]))
               /\ UNCHANGED <<cmd, posts, sha, found, fetched, free, locked>>
      <4>1. Len(comments') \in Nat
        BY <3>4, LenProperties, AppendProperties DEF Posted, WorldType
      <4>2. QED  BY <3>4, <4>1 DEF TaskType, Goto, Places, Answering
    <3>5. CASE UNCHANGED task
      BY <3>5 DEF task, TaskType
    <3>6. QED  BY <3>2, <3>3, <3>4, <3>5
  <2>7. CASE Store(t)
    BY <2>7, NextPostType DEF Store, Placed, Answering
  <2>8. CASE CreateReview(t) \/ DeleteFindings(t) \/ InsertFindings(t) \/ UpdateReview(t)
    <3>1. /\ \E label \in Saving : Goto(t, label)
          /\ UNCHANGED <<cmd, posts, id, sha, found, fetched, free, locked>>
      BY <2>8 DEF CreateReview, DeleteFindings, InsertFindings, UpdateReview, Saving
    <3>2. QED  BY <2>0, <3>1, MovesType
  <2>9. CASE After(t)
    <3>1. Afterwards(found[t] = {}) \in Seq(Slot)
      BY LaterAnswers
    <3>2. CASE End(t)
      BY <3>2, EndType
    <3>3. CASE /\ posts' = [posts EXCEPT ![t] = Afterwards(found[t] = {})]
               /\ Goto(t, "look")
               /\ UNCHANGED <<cmd, id, sha, found, fetched, free, locked>>
      <4>1. pc' \in [Task -> Places]
        BY <3>3 DEF Goto, TaskType, Places, Answering
      <4>2. QED  BY <3>1, <3>3, <4>1 DEF TaskType
    <3>4. QED  BY <2>9, <3>2, <3>3 DEF After
  <2>10. CASE Put(t)
    <3>1. PICK f \in DOMAIN fetched[t] :
             \/ /\ fetched' = [fetched EXCEPT ![t] =
                                 [g \in DOMAIN fetched[t] \ {f} |-> fetched[t][g]]]
                /\ UNCHANGED <<pc, cmd, posts, id, sha, found, free, locked>>
             \/ End(t)
      BY <2>10 DEF Put
    <3>2. PICK S \in SUBSET File : fetched[t] \in [S -> SUBSET (0..MaxPushes)]
      BY DEF TaskType, Contents
    <3>3. [g \in DOMAIN fetched[t] \ {f} |-> fetched[t][g]]
             \in [S \ {f} -> SUBSET (0..MaxPushes)]
      BY <3>2
    <3>4. [g \in DOMAIN fetched[t] \ {f} |-> fetched[t][g]]
             \in Contents
      BY <3>3 DEF Contents
    <3>5. CASE /\ fetched' = [fetched EXCEPT ![t] =
                                 [g \in DOMAIN fetched[t] \ {f} |-> fetched[t][g]]]
               /\ UNCHANGED <<pc, cmd, posts, id, sha, found, free, locked>>
      <4>1. fetched' \in [Task -> Contents]
        BY <3>4, <3>5 DEF TaskType
      <4>2. QED  BY <3>5, <4>1 DEF TaskType
    <3>6. QED  BY <3>1, <3>5, EndType
  <2>11. CASE PutAll(t)
    <3>1. <<Reply>> \in Seq(Slot)
      <4>1. Handler("ignore").slots = {<<Reply>>}
        BY DEF Handler, Ignore, Plain
      <4>2. QED  BY <4>1, Answers DEF Named
    <3>2. QED  BY <2>11, <3>1 DEF PutAll, Goto, TaskType, Places, Answering
  <2>12. QED
    BY <1>2, <2>1, <2>2, <2>3, <2>4, <2>5, <2>6, <2>7, <2>8, <2>9, <2>10, <2>11 DEF Step
<1>3. ASSUME NEW t \in Task, WorkFails(t) \/ PostFails(t) \/ TimeOut(t)
      PROVE  TaskType'
  BY <1>3, GiveUpType, EndType DEF WorkFails, PostFails, TimeOut
<1>4. CASE Crash
  <2>1. <<>> \in Seq(Slot) /\ "idle" \in Places
    BY DEF Places
  <2>2. QED  BY <1>4, <2>1, NoFiles DEF Crash, TaskType
<1>5. CASE Push \/ DeleteComment
  BY <1>5 DEF Push, DeleteComment, task, TaskType
<1>6. QED  BY <1>1, <1>2, <1>3, <1>4, <1>5 DEF Next

LEMMA BoundsTypeStep == ASSUME TypeOK, Next PROVE BoundsType'
<1> USE TypeParts
<1>1. CASE Push
  <2>1. /\ head \in Nat /\ pushes \in Nat /\ commands \in Nat /\ faults \in Nat
        /\ head + pushes = MaxPushes
    BY DEF BoundsType, WorldType
  <2>2. /\ pushes > 0 /\ pushes' = pushes - 1 /\ head' = head + 1
        /\ commands' = commands /\ faults' = faults
    BY <1>1 DEF Push
  <2>3. QED  BY <2>1, <2>2 DEF BoundsType
<1>2. CASE ~Push
  <2>1. /\ UNCHANGED <<head, pushes>>
        /\ UNCHANGED faults \/ Failing
        /\ UNCHANGED commands \/ (commands > 0 /\ commands' = commands - 1)
    BY <1>2 DEF Next, Step, Created, AcquirePermit, AcquireLock, Work, Look, Patch, Post, Store,
        CreateReview, DeleteFindings, InsertFindings, UpdateReview, After, Put, PutAll,
        WorkFails, PostFails, TimeOut, Crash, DeleteComment, world, bounds
  <2>2. QED  BY <2>1 DEF Failing, BoundsType
<1>3. QED  BY <1>1, <1>2

\* What a step does to the branch, and to comments.
LEMMA WorldSteps ==
    ASSUME TypeOK, Placed, Next
    PROVE  /\ \/ UNCHANGED <<branch, head>>
              \/ \E f : branch' = [branch EXCEPT ![f] = @ \cup {Fix}] /\ head' = head
              \/ Push
           /\ \/ UNCHANGED comments
              \/ \E t \in Task : Post(t) /\ comments' = Posted(Head(posts[t]))
              \/ DeleteComment
           /\ UNCHANGED slot \/ \E t \in Task : Store(t)
           /\ \/ UNCHANGED rows
              \/ \E t \in Task : \/ CreateReview(t) \/ DeleteFindings(t)
                                \/ InsertFindings(t) \/ UpdateReview(t)
<1>1. ASSUME NEW t \in Task, Step(t)
      PROVE  /\ \/ UNCHANGED <<branch, head>>
                \/ \E f : branch' = [branch EXCEPT ![f] = @ \cup {Fix}] /\ head' = head
             /\ UNCHANGED comments \/ (Post(t) /\ comments' = Posted(Head(posts[t])))
             /\ UNCHANGED slot \/ Store(t)
             /\ \/ UNCHANGED rows
                \/ CreateReview(t) \/ DeleteFindings(t)
                \/ InsertFindings(t) \/ UpdateReview(t)
  <2>1. CASE Post(t)
    BY <2>1 DEF Post
  <2>2. CASE Put(t)
    BY <2>2 DEF Put
  <2>3. CASE Store(t)
    BY <2>3 DEF Store
  <2>4. CASE CreateReview(t) \/ DeleteFindings(t) \/ InsertFindings(t) \/ UpdateReview(t)
    BY <2>4 DEF CreateReview, DeleteFindings, InsertFindings, UpdateReview
  <2>5. CASE \/ AcquirePermit(t) \/ AcquireLock(t) \/ Work(t) \/ Look(t) \/ Patch(t)
             \/ After(t) \/ PutAll(t)
    BY <2>5 DEF AcquirePermit, AcquireLock, Work, Look, Patch, After, PutAll, world
  <2>6. QED  BY <1>1, <2>1, <2>2, <2>3, <2>4, <2>5 DEF Step
<1>2. CASE ~(Push \/ DeleteComment \/ \E t \in Task : Step(t))
  BY <1>2 DEF Next, Created, WorkFails, PostFails, TimeOut, Crash, world
<1>3. CASE Push \/ DeleteComment
  BY <1>3 DEF Push, DeleteComment
<1>4. QED  BY <1>1, <1>2, <1>3

LEMMA WorldTypeStep == ASSUME TypeOK, Placed, RowsInHand, Next PROVE WorldType'
<1> USE TypeParts
<1>1. branch' \in [File -> SUBSET (0..MaxPushes)] /\ head' \in Nat
  <2>1. CASE Push
    BY <2>1 DEF Push, WorldType, BoundsType
  <2>2. ASSUME NEW f, branch' = [branch EXCEPT ![f] = branch[f] \cup {Fix}], head' = head
        PROVE  branch' \in [File -> SUBSET (0..MaxPushes)] /\ head' \in Nat
    <3>1. branch \in [File -> SUBSET (0..MaxPushes)] /\ head \in Nat /\ Fix \in 0..MaxPushes
      BY DEF WorldType, Fix
    <3>2. QED  BY <2>2, <3>1
  <2>3. QED  BY <2>1, <2>2, WorldSteps DEF WorldType
<1>2. comments' \in Seq([slot : Slot, live : BOOLEAN])
  <2>1. CASE \E t \in Task : Post(t) /\ comments' = Posted(Head(posts[t]))
    <3>1. PICK t \in Task : Post(t) /\ comments' = Posted(Head(posts[t]))
      BY <2>1
    <3>2. Head(posts[t]) \in Slot
      BY <3>1, HeadsAreSlots DEF Post, Placed, Answering, TaskType
    <3>3. QED  BY <3>1, <3>2, AppendProperties DEF Posted, WorldType
  <2>2. CASE DeleteComment
    <3>1. PICK i \in DOMAIN comments : comments' = [comments EXCEPT ![i].live = FALSE]
      BY <2>2 DEF DeleteComment
    <3>0. comments \in Seq([slot : Slot, live : BOOLEAN])
      BY DEF WorldType
    <3>2. i \in 1..Len(comments) /\ comments[i] \in [slot : Slot, live : BOOLEAN]
      <4> DEFINE Rec == [slot : Slot, live : BOOLEAN]
      <4> HIDE DEF Rec
      <4>1. comments \in Seq(Rec)
        BY <3>0 DEF Rec
      <4>2. i \in 1..Len(comments)
        BY <4>1, LenProperties
      <4>3. comments[i] \in Rec
        BY <4>1, <4>2, ElementOfSeq
      <4>4. QED  BY <4>2, <4>3 DEF Rec
    <3>3. comments' = [comments EXCEPT ![i] = [comments[i] EXCEPT !.live = FALSE]]
      BY <3>1
    <3>4. [comments[i] EXCEPT !.live = FALSE] \in [slot : Slot, live : BOOLEAN]
      BY <3>2
    <3>5. QED  BY <3>2, <3>3, <3>4, ExceptSeq DEF WorldType
  <2>3. QED  BY <2>1, <2>2, WorldSteps DEF WorldType
<1>3. slot' \in [Slot \cup {"legacy"} -> Nat \cup {None}]
  <2>1. ASSUME NEW t \in Task, Store(t)
        PROVE  slot' \in [Slot \cup {"legacy"} -> Nat \cup {None}]
    BY <2>1 DEF Store, TaskType, WorldType
  <2>2. QED  BY <2>1, WorldSteps DEF WorldType
<1>4. rows' \in [0..MaxPushes -> ReviewRow \cup {None}]
  <2>1. rows \in [0..MaxPushes -> ReviewRow \cup {None}]
    BY DEF WorldType
  <2>2. ASSUME NEW t \in Task, CreateReview(t)
        PROVE  rows' \in [0..MaxPushes -> ReviewRow \cup {None}]
    <3>1. sha[t] \in 0..MaxPushes /\ rows[sha[t]] \in ReviewRow \cup {None}
      BY <2>1, <2>2 DEF CreateReview, Placed, Saving, Reviewing
    <3>2. CreatedRow(rows[sha[t]]) \in ReviewRow
      BY <3>1 DEF CreatedRow, ReviewRow
    <3>3. UNCHANGED rows \/ rows' = [rows EXCEPT ![sha[t]] = CreatedRow(rows[sha[t]])]
      BY <2>2 DEF CreateReview
    <3>4. QED  BY <2>1, <3>2, <3>3
  <2>3. ASSUME NEW t \in Task, DeleteFindings(t) \/ InsertFindings(t) \/ UpdateReview(t)
        PROVE  rows' \in [0..MaxPushes -> ReviewRow \cup {None}]
    <3>1. sha[t] \in 0..MaxPushes /\ rows[sha[t]] \in ReviewRow
      BY <2>3 DEF DeleteFindings, InsertFindings, UpdateReview, Placed, RowsInHand, Saving,
                  Reviewing
    <3>2. PICK row : /\ row \in { [rows[sha[t]] EXCEPT !.found = {}],
                                  [rows[sha[t]] EXCEPT !.found = @ \cup found[t]],
                                  [rows[sha[t]] EXCEPT !.status = "completed"],
                                  rows[sha[t]] }
                     /\ rows' = [rows EXCEPT ![sha[t]] = row]
      BY <2>1, <2>3 DEF DeleteFindings, InsertFindings, UpdateReview
    <3>3. row \in ReviewRow
      <4>1. found[t] \in SUBSET Finding
        BY DEF TaskType
      <4>2. /\ rows[sha[t]].found \in SUBSET Finding
            /\ rows[sha[t]] = [status |-> rows[sha[t]].status, found |-> rows[sha[t]].found]
            /\ rows[sha[t]].status \in {"pending", "completed"}
        BY <3>1 DEF ReviewRow
      <4>3. QED  BY <3>2, <4>1, <4>2 DEF ReviewRow
    <3>4. QED  BY <2>1, <3>2, <3>3
  <2>4. QED  BY <2>1, <2>2, <2>3, WorldSteps
<1>5. QED  BY <1>1, <1>2, <1>3, <1>4 DEF WorldType

LEMMA TypeStep == ASSUME TypeOK, Placed, RowsInHand, Next PROVE TypeOK'
<1>1. TaskType' /\ WorldType' /\ BoundsType'
  BY TaskTypeStep, WorldTypeStep, BoundsTypeStep
<1>2. QED  BY <1>1 DEF TypeOK, TaskType, WorldType, BoundsType

-----------------------------------------------------------------------------
\* Tasks.

\* What one task does.
Acts(t) ==
    \/ \E m \in Comment : Created(t, m)
    \/ Step(t) \/ WorkFails(t) \/ PostFails(t) \/ TimeOut(t)

LEMMA Actors ==
    ASSUME Next
    PROVE  (\E t \in Task : Acts(t)) \/ Crash \/ Push \/ DeleteComment
<1>1. QED  BY DEF Next, Acts

\* Nobody touches what another task has in its hand, nor takes its lock.
Same(u) ==
    /\ pc'[u] = pc[u] /\ cmd'[u] = cmd[u] /\ posts'[u] = posts[u] /\ id'[u] = id[u]
    /\ sha'[u] = sha[u] /\ found'[u] = found[u]
    /\ locked = u => locked' = u

LEMMA OthersStay ==
    ASSUME TypeOK, NEW t \in Task, Acts(t), NEW u \in Task, u # t
    PROVE  Same(u)
<1> USE TypeParts DEF TaskType, Same
<1>0. None \notin Task
  OBVIOUS
<1>1. ASSUME Dropped(t)
      PROVE  /\ posts'[u] = posts[u] /\ id'[u] = id[u] /\ sha'[u] = sha[u]
             /\ found'[u] = found[u] /\ (locked = u => locked' = u)
  BY <1>1 DEF Dropped
<1>2. ASSUME End(t)
      PROVE  Same(u)
  BY <1>1, <1>2 DEF End, Goto
<1>3. ASSUME GiveUp(t)
      PROVE  Same(u)
  BY <1>1, <1>2, <1>3 DEF GiveUp, Goto
<1>4. ASSUME NextPost(t)
      PROVE  Same(u)
  BY <1>4 DEF NextPost, Goto
<1>5. ASSUME NEW m \in Comment, Created(t, m)
      PROVE  Same(u)
  BY <1>5 DEF Created, Goto
<1>6. CASE AcquirePermit(t) \/ AcquireLock(t) \/ PutAll(t)
  BY <1>0, <1>6 DEF AcquirePermit, AcquireLock, PutAll, Goto
<1>7. CASE Work(t)
  BY <1>7 DEF Work, Goto
<1>8. CASE Look(t)
  BY <1>8 DEF Look, Goto
<1>9. CASE Patch(t)
  BY <1>4, <1>9 DEF Patch, Goto
<1>10. CASE Post(t)
  BY <1>4, <1>10 DEF Post, Goto, task
<1>11. CASE Store(t)
  BY <1>4, <1>11 DEF Store
<1>12. CASE CreateReview(t) \/ DeleteFindings(t) \/ InsertFindings(t) \/ UpdateReview(t)
  BY <1>12 DEF CreateReview, DeleteFindings, InsertFindings, UpdateReview, Goto
<1>13. CASE After(t)
  BY <1>2, <1>13 DEF After, Goto
<1>14. CASE Put(t)
  BY <1>2, <1>14 DEF Put
<1>15. CASE WorkFails(t) \/ PostFails(t) \/ TimeOut(t)
  BY <1>2, <1>3, <1>15 DEF WorkFails, PostFails, TimeOut
<1>16. QED
  BY <1>5, <1>6, <1>7, <1>8, <1>9, <1>10, <1>11, <1>12, <1>13, <1>14, <1>15 DEF Acts, Step

PlacedAt(t) ==
    /\ pc[t] # "idle" => cmd[t] \in ToSet(Precedence) \cup {"denied"}
    /\ pc[t] \in Answering => posts[t] # <<>>
    /\ pc[t] = "put" => cmd[t] = "fix"
    /\ pc[t] \in Saving => Reviewing(t)
    /\ Reviewing(t) => locked = t
    /\ Reviewing(t) /\ pc[t] # "work" => sha[t] \in 0..MaxPushes

LEMMA PlacedStep == ASSUME TypeOK, Placed, Next PROVE Placed'
<1> USE TypeParts DEF TaskType
<1>1. \A t \in Task : PlacedAt(t)
  BY DEF Placed, PlacedAt
<1>2. ASSUME NEW u \in Task, Same(u)
      PROVE  PlacedAt(u)'
  BY <1>1, <1>2 DEF PlacedAt, Same, Reviewing
<1>3. ASSUME NEW t \in Task, pc'[t] = "idle"
      PROVE  PlacedAt(t)'
  BY <1>3 DEF PlacedAt, Reviewing, Answering, Saving
<1>4. ASSUME NEW t \in Task, GiveUp(t)
      PROVE  PlacedAt(t)'
  <2>1. pc'[t] = "idle" \/ (pc'[t] = "permit" /\ cmd'[t] = "review")
    BY <1>4 DEF GiveUp, End, Goto
  <2>2. CASE pc'[t] = "permit" /\ cmd'[t] = "review"
    BY <2>2, Commands DEF Named, PlacedAt, Reviewing, Answering, Saving
  <2>3. QED  BY <1>3, <2>1, <2>2
<1>5. ASSUME NEW t \in Task, End(t)
      PROVE  PlacedAt(t)'
  BY <1>3, <1>5 DEF End, Goto
<1>6. ASSUME NEW t \in Task, pc[t] \in Answering, NextPost(t)
      PROVE  PlacedAt(t)'
  <2>1. posts[t] # <<>> /\ posts'[t] = Tail(posts[t]) /\ posts[t] \in Seq(Slot)
    BY <1>1, <1>6 DEF PlacedAt, NextPost
  <2>2. CASE pc'[t] = "look" /\ Len(posts[t]) > 1
    <3>1. UNCHANGED <<cmd, sha, locked>>
      BY <1>6, <2>2 DEF NextPost, Goto
    <3>2. posts'[t] # <<>>
      BY <2>1, <2>2, HeadsAreSlots
    <3>3. QED  BY <1>1, <1>6, <2>2, <3>1, <3>2 DEF PlacedAt, Reviewing, Answering, Saving
  <2>3. CASE pc'[t] = "create" /\ cmd[t] \in Reviews /\ UNCHANGED <<cmd, sha, locked>>
    BY <1>1, <1>6, <2>3 DEF PlacedAt, Reviewing, Answering, Saving, Reviews
  <2>4. CASE pc'[t] = "idle"
    BY <1>3, <2>4
  <2>5. QED  BY <1>6, <2>2, <2>3, <2>4 DEF NextPost, Goto
<1>7. ASSUME NEW t \in Task, NEW m \in Comment, Created(t, m)
      PROVE  PlacedAt(t)'
  <2>1. PICK c \in Named \cup {"denied"} :
           /\ cmd' = [cmd EXCEPT ![t] = c]
           /\ Goto(t, IF Handler(c).permit THEN "permit" ELSE "work")
    <3>1. \A heard \in ParseBotCommand(m.mentions) :
             (IF m.who = "stranger" THEN "denied"
              ELSE IF heard = "improve" /\ ~HasLlm THEN "review" ELSE heard)
                \in Named \cup {"denied"}
      BY Hears DEF Named
    <3>2. QED  BY <1>7, <3>1 DEF Created
  <2>2. cmd'[t] = c /\ pc'[t] = IF Handler(c).permit THEN "permit" ELSE "work"
    BY <2>1 DEF Goto
  <2>3. c \in Reviews => pc'[t] = "permit"
    BY <2>2, Handlers
  <2>4. QED  BY <2>2, <2>3, Commands DEF PlacedAt, Reviewing, Answering, Saving
<1>8. ASSUME NEW t \in Task, Step(t)
      PROVE  PlacedAt(t)'
  <2>1. CASE AcquirePermit(t)
    BY <1>1, <2>1 DEF AcquirePermit, Goto, PlacedAt, Reviewing, Answering, Saving
  <2>2. CASE AcquireLock(t)
    BY <1>1, <2>2 DEF AcquireLock, Goto, PlacedAt, Reviewing, Answering, Saving
  <2>3. CASE Work(t)
    <3>1. CASE cmd[t] \in Reviews
      <4>1. PICK overview \in Overview :
               /\ sha' = [sha EXCEPT ![t] = head]
               /\ posts' = [posts EXCEPT ![t] = overview]
               /\ Goto(t, "look") /\ UNCHANGED <<cmd, locked>>
        BY <2>3, <3>1 DEF Work
      <4>2. overview # <<>>
        BY <3>1, Answers, Handlers DEF Named, Reviews
      <4>3. head \in 0..MaxPushes
        BY DEF WorldType, BoundsType
      <4>4. locked = t
        BY <1>1, <2>3, <3>1 DEF Work, PlacedAt, Reviewing
      <4>5. QED
        BY <1>1, <2>3, <3>1, <4>1, <4>2, <4>3, <4>4
           DEF Work, Goto, PlacedAt, Reviewing, Answering, Saving
    <3>2. CASE cmd[t] = "fix" /\ AllowAutoFix
      BY <1>1, <2>3, <3>2 DEF Work, Goto, PlacedAt, Reviewing, Reviews, Answering, Saving
    <3>3. CASE cmd[t] \notin Reviews /\ ~(cmd[t] = "fix" /\ AllowAutoFix)
      <4>1. PICK ss \in Handler(cmd[t]).slots :
               /\ posts' = [posts EXCEPT ![t] = ss]
               /\ Goto(t, IF ss = <<Reply>> THEN "post" ELSE "look")
               /\ cmd' = cmd
        BY <2>3, <3>3 DEF Work
      <4>2. cmd[t] \in Named \cup {"denied"}
        BY <1>1, <2>3, Commands DEF Work, PlacedAt
      <4>3. ss # <<>>
        BY <4>2, Answers
      <4>4. cmd[t] \in ToSet(Precedence) \cup {"denied"}
        BY <1>1, <2>3 DEF Work, PlacedAt
      <4>5. QED
        BY <3>3, <4>1, <4>3, <4>4 DEF Goto, PlacedAt, Reviewing, Answering, Saving
    <3>4. QED  BY <3>1, <3>2, <3>3
  <2>4. CASE Look(t)
    BY <1>1, <2>4 DEF Look, Goto, PlacedAt, Reviewing, Answering, Saving
  <2>5. CASE Patch(t)
    <3>1. CASE NextPost(t)
      BY <1>6, <2>5, <3>1 DEF Patch, Answering
    <3>2. CASE ~NextPost(t)
      BY <1>1, <2>5, <3>2 DEF Patch, Goto, PlacedAt, Reviewing, Answering, Saving
    <3>3. QED  BY <3>1, <3>2
  <2>6. CASE Post(t)
    <3>1. CASE NextPost(t)
      BY <1>6, <2>6, <3>1 DEF Post, Answering
    <3>2. CASE Goto(t, "store") /\ UNCHANGED <<cmd, posts, sha, locked>>
      BY <1>1, <2>6, <3>2 DEF Post, Goto, PlacedAt, Reviewing, Answering, Saving
    <3>3. CASE UNCHANGED task
      BY <1>1, <3>3 DEF task, PlacedAt, Reviewing
    <3>4. QED  BY <2>6, <3>1, <3>2, <3>3 DEF Post
  <2>7. CASE Store(t)
    BY <1>6, <2>7 DEF Store, Answering
  <2>8. CASE CreateReview(t) \/ DeleteFindings(t) \/ InsertFindings(t) \/ UpdateReview(t)
    <3>1. /\ pc[t] \in Saving /\ pc'[t] \in Saving /\ UNCHANGED <<cmd, posts, sha, locked>>
      BY <2>8 DEF CreateReview, DeleteFindings, InsertFindings, UpdateReview, Goto, Saving
    <3>2. QED  BY <1>1, <3>1 DEF PlacedAt, Reviewing, Answering, Saving
  <2>9. CASE After(t)
    <3>1. CASE End(t)
      BY <1>5, <3>1
    <3>2. CASE /\ Afterwards(found[t] = {}) # <<>>
               /\ posts' = [posts EXCEPT ![t] = Afterwards(found[t] = {})]
               /\ Goto(t, "look") /\ UNCHANGED <<cmd, sha, locked>>
      BY <1>1, <2>9, <3>2 DEF After, Goto, PlacedAt, Reviewing, Answering, Saving
    <3>3. QED  BY <2>9, <3>1, <3>2 DEF After
  <2>10. CASE Put(t)
    <3>1. CASE End(t)
      BY <1>5, <3>1
    <3>2. CASE UNCHANGED <<pc, cmd, posts, sha, locked>>
      BY <1>1, <3>2 DEF PlacedAt, Reviewing
    <3>3. QED  BY <2>10, <3>1, <3>2 DEF Put
  <2>11. CASE PutAll(t)
    BY <1>1, <2>11 DEF PutAll, Goto, PlacedAt, Reviewing, Answering, Saving, Reviews
  <2>12. QED
    BY <1>8, <2>1, <2>2, <2>3, <2>4, <2>5, <2>6, <2>7, <2>8, <2>9, <2>10, <2>11 DEF Step
<1>9. ASSUME NEW t \in Task, WorkFails(t) \/ PostFails(t) \/ TimeOut(t)
      PROVE  PlacedAt(t)'
  BY <1>4, <1>5, <1>9 DEF WorkFails, PostFails, TimeOut
<1>10. \A u \in Task : PlacedAt(u)'
  <2>1. CASE \E t \in Task : Acts(t)
    <3>1. PICK t \in Task : Acts(t)
      BY <2>1
    <3>2. PlacedAt(t)'
      BY <1>7, <1>8, <1>9, <3>1 DEF Acts
    <3>3. ASSUME NEW u \in Task, u # t
          PROVE  PlacedAt(u)'
      BY <1>2, <3>1, <3>3, OthersStay
    <3>4. QED  BY <3>2, <3>3
  <2>2. CASE Crash
    BY <1>3, <2>2 DEF Crash
  <2>3. CASE Push \/ DeleteComment
    BY <1>2, <2>3 DEF Push, DeleteComment, task, Same
  <2>4. QED  BY <2>1, <2>2, <2>3, Actors
<1>11. QED  BY <1>10 DEF Placed, PlacedAt

-----------------------------------------------------------------------------
\* Rows.

RowAt(t) ==
    /\ pc[t] \in {"delete", "insert", "status"} =>
          rows[sha[t]] \in ReviewRow /\ rows[sha[t]].status = "pending"
    /\ pc[t] = "insert" => sha[t] \in blurred \/ rows[sha[t]].found = {}
    /\ pc[t] = "status" => sha[t] \in blurred \/ rows[sha[t]].found = found[t]

Saves(t) == CreateReview(t) \/ DeleteFindings(t) \/ InsertFindings(t) \/ UpdateReview(t)

\* Who saves has the lock, so that nobody else is about to.
LEMMA OneSaves ==
    ASSUME Placed, NEW t \in Task, Saves(t), NEW u \in Task, u # t
    PROVE  pc[t] \in Saving /\ pc[u] \notin Saving /\ sha[t] \in 0..MaxPushes
<1>1. pc[t] \in Saving /\ pc[t] # "work"
  BY DEF Saves, CreateReview, DeleteFindings, InsertFindings, UpdateReview, Saving
<1>2. locked = t /\ sha[t] \in 0..MaxPushes
  BY <1>1 DEF Placed, Saving
<1>3. QED  BY <1>1, <1>2 DEF Placed

\* A row as it is saved: what t does to it.
LEMMA SavesRow ==
    ASSUME TypeOK, Placed, RowsInHand, CompletedRowsWhole, NEW t \in Task, Saves(t)
    PROVE  RowAt(t)' /\ CompletedRowsWhole'
<1> DEFINE c == sha[t]
<1>0. /\ pc[t] \in Saving /\ c \in 0..MaxPushes
      /\ rows \in [0..MaxPushes -> ReviewRow \cup {None}] /\ found[t] \in SUBSET Finding
      /\ pc \in [Task -> Places]
  <2>1. pc[t] \in Saving /\ pc[t] # "work"
    BY DEF Saves, CreateReview, DeleteFindings, InsertFindings, UpdateReview, Saving
  <2>2. QED  BY <2>1 DEF Placed, TypeOK
<1>1. /\ pc[t] \in {"delete", "insert", "status"} =>
            rows[c] \in ReviewRow /\ rows[c].status = "pending"
      /\ pc[t] = "insert" => c \in blurred \/ rows[c].found = {}
      /\ pc[t] = "status" => c \in blurred \/ rows[c].found = found[t]
  BY DEF RowsInHand
<1>2. \A row \in ReviewRow :
         /\ row = [status |-> row.status, found |-> row.found]
         /\ row.status \in {"pending", "completed"} /\ row.found \in SUBSET Finding
  BY DEF ReviewRow
<1>3. \A d \in 0..MaxPushes \ blurred :
         rows[d] # None /\ rows[d].status = "completed" => <<d, rows[d].found>> \in saved
  BY <1>0 DEF CompletedRowsWhole
\* Enough about the rows: what follows is the same for every step.
<1>4. ASSUME NEW row \in ReviewRow, rows' = [rows EXCEPT ![c] = row],
             blurred \subseteq blurred', saved \subseteq saved',
             row.status = "completed" => c \in blurred' \/ <<c, row.found>> \in saved'
      PROVE  CompletedRowsWhole'
  BY <1>0, <1>3, <1>4 DEF CompletedRowsWhole
<1>5. ASSUME UNCHANGED rows, blurred \subseteq blurred', saved \subseteq saved'
      PROVE  CompletedRowsWhole'
  BY <1>0, <1>3, <1>5 DEF CompletedRowsWhole
<1>6. CASE CreateReview(t)
  <2>1. UNCHANGED <<sha, found, blurred, saved>>
    BY <1>6 DEF CreateReview, past
  <2>2. CASE rows' = [rows EXCEPT ![c] = CreatedRow(rows[c])] /\ Goto(t, "delete")
    <3>1. CreatedRow(rows[c]) \in ReviewRow /\ CreatedRow(rows[c]).status = "pending"
      BY <1>0, <1>2 DEF CreatedRow, ReviewRow
    <3>2. rows'[c] = CreatedRow(rows[c]) /\ pc'[t] = "delete"
      BY <1>0, <2>2 DEF Goto
    <3>3. RowAt(t)'
      BY <2>1, <3>1, <3>2 DEF RowAt
    <3>4. QED  BY <1>4, <2>1, <2>2, <3>1, <3>3
  <2>3. CASE UNCHANGED rows /\ Goto(t, "after")
    <3>1. RowAt(t)'
      BY <1>0, <2>3 DEF RowAt, Goto
    <3>2. QED  BY <1>5, <2>1, <2>3, <3>1
  <2>4. QED  BY <1>6, <2>2, <2>3 DEF CreateReview
<1>7. CASE DeleteFindings(t)
  <2>1. pc[t] = "delete" /\ pc'[t] = "insert" /\ UNCHANGED <<sha, found, saved>>
    BY <1>0, <1>7 DEF DeleteFindings, Goto
  <2>2. rows[c] \in ReviewRow /\ rows[c].status = "pending"
    BY <1>1, <2>1
  <2>3. CASE rows' = [rows EXCEPT ![c] = [rows[c] EXCEPT !.found = {}]] /\ UNCHANGED blurred
    <3>1. /\ [rows[c] EXCEPT !.found = {}] \in ReviewRow
          /\ [rows[c] EXCEPT !.found = {}].status = "pending"
          /\ [rows[c] EXCEPT !.found = {}].found = {}
      BY <1>2, <2>2 DEF ReviewRow
    <3>2. rows'[c] = [rows[c] EXCEPT !.found = {}]
      BY <1>0, <2>3
    <3>3. RowAt(t)'
      BY <2>1, <3>1, <3>2 DEF RowAt
    <3>4. QED  BY <1>4, <2>1, <2>3, <3>1, <3>3
  <2>4. CASE UNCHANGED rows /\ blurred' = blurred \cup {c}
    <3>1. RowAt(t)'
      BY <2>1, <2>2, <2>4 DEF RowAt
    <3>2. QED  BY <1>5, <2>1, <2>4, <3>1
  <2>5. QED  BY <1>7, <2>3, <2>4 DEF DeleteFindings
<1>8. CASE InsertFindings(t)
  <2>1. pc[t] = "insert" /\ pc'[t] = "status" /\ UNCHANGED <<sha, found, saved>>
    BY <1>0, <1>8 DEF InsertFindings, Goto
  <2>2. rows[c] \in ReviewRow /\ rows[c].status = "pending" /\ (c \in blurred \/ rows[c].found = {})
    BY <1>1, <2>1
  <2>3. CASE /\ rows' = [rows EXCEPT ![c] = [rows[c] EXCEPT !.found = rows[c].found \cup found[t]]]
             /\ UNCHANGED blurred
    <3> DEFINE row == [rows[c] EXCEPT !.found = rows[c].found \cup found[t]]
    <3>1. /\ row \in ReviewRow /\ row.status = "pending"
          /\ c \in blurred \/ row.found = found[t]
      BY <1>0, <1>2, <2>2 DEF ReviewRow
    <3>2. rows'[c] = row
      BY <1>0, <2>3
    <3> HIDE DEF row
    <3>3. RowAt(t)'
      BY <2>1, <2>3, <3>1, <3>2 DEF RowAt
    <3>4. rows' = [rows EXCEPT ![c] = row]
      BY <2>3 DEF row
    <3>5. QED  BY <1>4, <2>1, <2>3, <3>1, <3>3, <3>4
  <2>4. CASE UNCHANGED rows /\ blurred' = blurred \cup {c}
    <3>1. RowAt(t)'
      BY <2>1, <2>2, <2>4 DEF RowAt
    <3>2. QED  BY <1>5, <2>1, <2>4, <3>1
  <2>5. QED  BY <1>8, <2>3, <2>4 DEF InsertFindings
<1>9. CASE UpdateReview(t)
  <2>1. pc[t] = "status" /\ pc'[t] = "after" /\ UNCHANGED blurred
    BY <1>0, <1>9 DEF UpdateReview, Goto
  <2>2. RowAt(t)'
    BY <2>1 DEF RowAt
  <2>3. CASE /\ rows' = [rows EXCEPT ![c] = [rows[c] EXCEPT !.status = "completed"]]
             /\ saved' = saved \cup {<<c, found[t]>>}
    <3> DEFINE row == [rows[c] EXCEPT !.status = "completed"]
    <3>1. row \in ReviewRow /\ (c \in blurred \/ row.found = found[t])
      BY <1>1, <1>2, <2>1 DEF ReviewRow
    <3> HIDE DEF row
    <3>2. rows' = [rows EXCEPT ![c] = row]
      BY <2>3 DEF row
    <3>3. QED  BY <1>4, <2>1, <2>2, <2>3, <3>1, <3>2
  <2>4. CASE UNCHANGED <<rows, saved>>
    BY <1>5, <2>1, <2>2, <2>4
  <2>5. QED  BY <1>9, <2>3, <2>4 DEF UpdateReview
<1>10. QED  BY <1>6, <1>7, <1>8, <1>9 DEF Saves

\* Who does not save leaves the rows alone.
LEMMA LeavesRows ==
    ASSUME TypeOK, NEW t \in Task, Acts(t), ~Saves(t)
    PROVE  /\ pc'[t] \notin {"delete", "insert", "status"}
           /\ UNCHANGED <<rows, blurred, saved>>
<1> USE DEF TypeOK
<1>1. ASSUME GiveUp(t)
      PROVE  pc'[t] \notin {"delete", "insert", "status"}
  BY <1>1 DEF GiveUp, End, Goto
<1>2. ASSUME NextPost(t)
      PROVE  pc'[t] \notin {"delete", "insert", "status"}
  BY <1>2 DEF NextPost, Goto
<1>3. CASE AcquirePermit(t) \/ AcquireLock(t) \/ PutAll(t)
  BY <1>3 DEF AcquirePermit, AcquireLock, PutAll, Goto, world, past
<1>4. CASE Work(t)
  BY <1>4 DEF Work, Goto, world, past
<1>5. CASE Look(t)
  BY <1>5 DEF Look, Goto, world
<1>6. CASE Patch(t)
  BY <1>2, <1>6 DEF Patch, Goto, world
<1>7. CASE Post(t)
  BY <1>2, <1>7 DEF Post, Goto, task
<1>8. CASE Store(t)
  BY <1>2, <1>8 DEF Store
<1>9. CASE After(t)
  BY <1>9 DEF After, End, Goto, world, past
<1>10. CASE Put(t)
  BY <1>10 DEF Put, End, Goto, past
<1>11. CASE WorkFails(t) \/ PostFails(t) \/ TimeOut(t)
  BY <1>1, <1>11 DEF WorkFails, PostFails, TimeOut, End, Goto, world, past
<1>12. CASE \E m \in Comment : Created(t, m)
  BY <1>12 DEF Created, Goto, world, past
<1>13. QED
  BY <1>3, <1>4, <1>5, <1>6, <1>7, <1>8, <1>9, <1>10, <1>11, <1>12 DEF Acts, Step, Saves

LEMMA RowsStep ==
    ASSUME TypeOK, Placed, RowsInHand, CompletedRowsWhole, Next
    PROVE  RowsInHand' /\ CompletedRowsWhole'
<1>1. SUFFICES (\A u \in Task : RowAt(u)') /\ CompletedRowsWhole'
  BY DEF RowsInHand, RowAt
<1>2. ASSUME NEW u \in Task, Same(u), UNCHANGED <<rows, blurred>>
      PROVE  RowAt(u)'
  BY <1>2 DEF RowsInHand, RowAt, Same
<1>3. ASSUME NEW u \in Task, pc'[u] \notin {"delete", "insert", "status"}
      PROVE  RowAt(u)'
  BY <1>3 DEF RowAt
<1>4. ASSUME UNCHANGED <<rows, blurred, saved>>
      PROVE  CompletedRowsWhole'
  BY <1>4 DEF CompletedRowsWhole
<1>5. ASSUME NEW t \in Task, Acts(t)
      PROVE  (\A u \in Task : RowAt(u)') /\ CompletedRowsWhole'
  <2>1. CASE Saves(t)
    <3>1. RowAt(t)' /\ CompletedRowsWhole'
      BY <2>1, SavesRow
    <3>2. ASSUME NEW u \in Task, u # t
          PROVE  RowAt(u)'
      <4>1. Same(u) /\ pc[u] \notin Saving
        BY <1>5, <2>1, <3>2, OthersStay, OneSaves
      <4>2. QED  BY <1>3, <4>1 DEF Same, Saving
    <3>3. QED  BY <3>1, <3>2
  <2>2. CASE ~Saves(t)
    <3>1. pc'[t] \notin {"delete", "insert", "status"} /\ UNCHANGED <<rows, blurred, saved>>
      BY <1>5, <2>2, LeavesRows
    <3>2. ASSUME NEW u \in Task, u # t
          PROVE  RowAt(u)'
      BY <1>2, <1>5, <3>1, <3>2, OthersStay
    <3>3. QED  BY <1>3, <1>4, <3>1, <3>2
  <2>3. QED  BY <2>1, <2>2
<1>6. CASE Crash
  <2>1. \A u \in Task : pc'[u] = "idle"
    BY <1>6 DEF Crash
  <2>2. UNCHANGED <<rows, blurred, saved>>
    BY <1>6 DEF Crash, world
  <2>3. QED  BY <1>3, <1>4, <2>1, <2>2
<1>7. CASE Push \/ DeleteComment
  <2>1. UNCHANGED <<rows, blurred, saved>> /\ \A u \in Task : Same(u)
    BY <1>7 DEF Push, DeleteComment, past, task, Same
  <2>2. QED  BY <1>2, <1>4, <2>1
<1>8. QED  BY <1>5, <1>6, <1>7, Actors

-----------------------------------------------------------------------------
\* Pushes.

\* A commit is on the branch when a file contains it.
LEMMA OnBranch ==
    FixKeepsPushes <=> \A c : c # Fix /\ (\E f \in File : c \in branch[f]) <=> c \in 1..head
<1> DEFINE all == UNION {branch[f] : f \in File}
<1>1. \A c : c \in all <=> \E f \in File : c \in branch[f]
  OBVIOUS
<1> HIDE DEF all
<1>2. all \ {Fix} = 1..head <=> \A c : c # Fix /\ c \in all <=> c \in 1..head
  OBVIOUS
<1>3. FixKeepsPushes <=> all \ {Fix} = 1..head
  BY Zenon DEF FixKeepsPushes, all
<1>4. QED  BY <1>1, <1>2, <1>3

LEMMA FixStep == ASSUME TypeOK, Placed, FixKeepsPushes, Next PROVE FixKeepsPushes'
<1>1. branch \in [File -> SUBSET (0..MaxPushes)] /\ head \in Nat
  BY DEF TypeOK
<1>2. \A c : c # Fix /\ (\E f \in File : c \in branch[f]) <=> c \in 1..head
  BY OnBranch
<1>3. SUFFICES \A c : c # Fix /\ (\E f \in File : c \in branch'[f]) <=> c \in 1..head'
  <2>1. FixKeepsPushes' <=>
           \A c : c # Fix /\ (\E f \in File : c \in branch'[f]) <=> c \in 1..head'
    <3> DEFINE all == UNION {branch'[f] : f \in File}
    <3>1. \A c : c \in all <=> \E f \in File : c \in branch'[f]
      OBVIOUS
    <3> HIDE DEF all
    <3>2. all \ {Fix} = 1..head' <=> \A c : c # Fix /\ c \in all <=> c \in 1..head'
      OBVIOUS
    <3>3. FixKeepsPushes' <=> all \ {Fix} = 1..head'
      BY Zenon DEF FixKeepsPushes, all
    <3>4. QED  BY <3>1, <3>2, <3>3
  <2>2. QED  BY <2>1
<1>4. ASSUME NEW f, branch' = [branch EXCEPT ![f] = branch[f] \cup {Fix}], head' = head
      PROVE  \A c : c # Fix /\ (\E g \in File : c \in branch'[g]) <=> c \in 1..head'
  <2>1. \A c : \A g \in File : c # Fix => (c \in branch'[g] <=> c \in branch[g])
    BY <1>1, <1>4
  <2>2. QED  BY <1>2, <1>4, <2>1
<1>5. CASE Push
  <2>1. PICK f \in File : branch' = [branch EXCEPT ![f] = branch[f] \cup {head + 1}]
    BY <1>5 DEF Push
  <2>2. \A c : (\E g \in File : c \in branch'[g])
                  <=> (\E g \in File : c \in branch[g]) \/ c = head + 1
    BY <1>1, <2>1
  <2>3. head' = head + 1 /\ head + 1 # Fix
    BY <1>1, <1>5 DEF Push, Fix
  <2>4. \A c : c \in 1..(head + 1) <=> c \in 1..head \/ c = head + 1
    BY <1>1
  <2>5. QED  BY <1>2, <2>2, <2>3, <2>4
<1>6. CASE UNCHANGED <<branch, head>>
  BY <1>2, <1>6
<1>7. QED  BY <1>4, <1>5, <1>6, WorldSteps

-----------------------------------------------------------------------------
\* Slots.

SlotAt(s) ==
    /\ \A t, u \in Task : Writes(t, s) /\ Writes(u, s) => t = u
    /\ \A t \in Task : Writes(t, s) =>
          /\ pc[t] = "patch" => id[t] = CommentOf(s)
          /\ pc[t] = "post" => Live(s) = {}
          /\ pc[t] = "store" => id[t] \in Nat /\ Live(s) \subseteq {id[t]}
    /\ (\A t \in Task : ~(Writes(t, s) /\ pc[t] = "store")) => Live(s) \subseteq {CommentOf(s)}

\* A slot of which comments only go, and writers only leave.
LEMMA SlotUntouched ==
    ASSUME NEW s, SlotAt(s),
           Live(s)' \subseteq Live(s), CommentOf(s)' = CommentOf(s),
           \A u \in Task : Writes(u, s)' => Writes(u, s) /\ pc'[u] = pc[u] /\ id'[u] = id[u],
           \A u \in Task : Writes(u, s) /\ pc[u] = "store" => Writes(u, s)' /\ pc'[u] = "store"
    PROVE  SlotAt(s)'
<1>1. QED  BY DEF SlotAt

\* The same of what a task does that is not writing in it, or stops, but not from "store".
LEMMA ActsElsewhere ==
    ASSUME TypeOK, NEW t \in Task, Acts(t), NEW s, SlotAt(s),
           Live(s)' \subseteq Live(s), CommentOf(s)' = CommentOf(s),
           Same(t) \/ (~Writes(t, s)' /\ ~(Writes(t, s) /\ pc[t] = "store"))
    PROVE  SlotAt(s)'
<1>1. \A u \in Task : Same(u) => (Writes(u, s)' <=> Writes(u, s))
  BY DEF Same, Writes
<1>2. \A u \in Task : u # t => Same(u)
  BY OthersStay
<1>3. \A u \in Task : Writes(u, s)' => Writes(u, s) /\ pc'[u] = pc[u] /\ id'[u] = id[u]
  BY <1>1, <1>2 DEF Same
<1>4. \A u \in Task : Writes(u, s) /\ pc[u] = "store" => Writes(u, s)' /\ pc'[u] = "store"
  BY <1>1, <1>2 DEF Same
<1>5. QED  BY <1>3, <1>4, SlotUntouched

\* A slot's comments are as they were when the tables are.
LEMMA WorldStays ==
    ASSUME UNCHANGED <<comments, slot>>, NEW s
    PROVE  Live(s)' = Live(s) /\ CommentOf(s)' = CommentOf(s)
<1>1. QED  BY DEF Live, CommentOf

LEMMA PostedLive ==
    ASSUME TypeOK, NEW h \in Slot, comments' = Posted(h), NEW s
    PROVE  /\ Len(comments') = Len(comments) + 1 /\ Len(comments) \in Nat
           /\ Live(s)' \subseteq Live(s) \cup {Len(comments')}
           /\ s # h => Live(s)' \subseteq Live(s)
<1> DEFINE Rec == [slot : Slot, live : BOOLEAN]
           n == Len(comments)
           new == [slot |-> h, live |-> TRUE]
<1>1. comments \in Seq(Rec) /\ new \in Rec /\ comments' = Append(comments, new)
  BY DEF TypeOK, Posted
<1> HIDE DEF Rec, new
<1>2. n \in Nat /\ DOMAIN comments = 1..n
  BY <1>1, LenProperties
<1>3. /\ Len(comments') = n + 1 /\ DOMAIN comments' = 1..(n + 1)
      /\ comments'[n + 1] = new
      /\ \A i \in 1..n : comments'[i] = comments[i]
  <2>1. comments' \in Seq(Rec) /\ Len(comments') = n + 1
    BY <1>1, AppendProperties
  <2>2. comments'[n + 1] = new /\ \A i \in 1..n : comments'[i] = comments[i]
    BY <1>1, AppendProperties
  <2>3. QED  BY <1>1, <2>1, <2>2, LenProperties
<1>4. new.slot = h
  BY DEF new
<1>5. QED  BY <1>2, <1>3, <1>4 DEF Live

LEMMA Marring == ASSUME Next PROVE marred \subseteq marred'
<1>1. ASSUME NEW t \in Task, Step(t)
      PROVE  marred \subseteq marred'
  <2>1. CASE Look(t)
    BY <2>1 DEF Look
  <2>2. CASE Patch(t) \/ Post(t) \/ Store(t)
    BY <2>2 DEF Patch, Post, Store
  <2>3. CASE Saves(t)
    BY <2>3 DEF Saves, CreateReview, DeleteFindings, InsertFindings, UpdateReview, past
  <2>4. CASE AcquirePermit(t) \/ AcquireLock(t) \/ Work(t) \/ After(t) \/ Put(t) \/ PutAll(t)
    BY <2>4 DEF AcquirePermit, AcquireLock, Work, After, Put, PutAll, past
  <2>5. QED  BY <1>1, <2>1, <2>2, <2>3, <2>4 DEF Step, Saves
<1>2. CASE ~\E t \in Task : Step(t)
  BY <1>2 DEF Next, Created, WorkFails, PostFails, TimeOut, Crash, Push, DeleteComment, past
<1>3. QED  BY <1>1, <1>2

\* Steps that neither post nor store, and after which t does not write.
LEMMA LeavesSlots ==
    ASSUME TypeOK, NEW t \in Task, Acts(t), UNCHANGED <<comments, slot>>, NEW s, SlotAt(s),
           ~Writes(t, s)', ~(Writes(t, s) /\ pc[t] = "store")
    PROVE  SlotAt(s)'
<1>1. QED  BY WorldStays, ActsElsewhere

\* A step of t that is the only one to write in s.
LEMMA OneWriter ==
    ASSUME TypeOK, NEW t \in Task, Acts(t), NEW s,
           \A u \in Task : Writes(u, s) => u = t
    PROVE  \A u \in Task : Writes(u, s)' => u = t
<1>1. QED  BY OthersStay DEF Same, Writes

\* What is in s is known when nobody is about to store it.
LEMMA SlotWritten ==
    ASSUME NEW t \in Task, NEW s,
           \A u \in Task : Writes(u, s)' => u = t,
           Writes(t, s)' =>
              /\ pc'[t] = "patch" => id'[t] = CommentOf(s)'
              /\ pc'[t] = "post" => Live(s)' = {}
              /\ pc'[t] = "store" => id'[t] \in Nat /\ Live(s)' \subseteq {id'[t]},
           ~(Writes(t, s)' /\ pc'[t] = "store") => Live(s)' \subseteq {CommentOf(s)'}
    PROVE  SlotAt(s)'
<1>1. QED  BY DEF SlotAt

LEMMA LiveAreComments ==
    ASSUME TypeOK, NEW s
    PROVE  Live(s) \subseteq Nat /\ None \notin Live(s)
<1> DEFINE Rec == [slot : Slot, live : BOOLEAN]
<1>1. comments \in Seq(Rec)
  BY DEF TypeOK
<1> HIDE DEF Rec
<1>2. DOMAIN comments \subseteq Nat
  BY <1>1, LenProperties
<1>3. QED  BY <1>2 DEF Live

\* A task that is done with an answer writes no more.
LEMMA NextPostStops ==
    ASSUME TypeOK, NEW t \in Task, NextPost(t)
    PROVE  pc'[t] \in {"look", "create", "idle"}
<1>1. QED  BY DEF NextPost, Goto, TypeOK

LEMMA LookSlots ==
    ASSUME TypeOK, NEW t \in Task, Look(t), NEW s, s \notin marred', SlotAt(s)
    PROVE  SlotAt(s)'
<1> USE DEF TypeOK
<1>0. Acts(t) /\ pc[t] = "look" /\ UNCHANGED <<comments, slot, posts>> /\ ~Writes(t, s)
  BY DEF Look, Acts, Step, world, Writes
<1>1. CASE Head(posts[t]) # s
  <2>1. ~Writes(t, s)'
    BY <1>0, <1>1 DEF Writes
  <2>2. QED  BY <1>0, <2>1, LeavesSlots
<1>2. CASE Head(posts[t]) = s
  <2>1. /\ id' = [id EXCEPT ![t] = CommentOf(s)]
        /\ Goto(t, IF CommentOf(s) = None THEN "post" ELSE "patch")
        /\ ~Meets(t)
    BY <1>2 DEF Look
  <2>2. \A u \in Task : ~Writes(u, s)
    BY <1>0, <1>2, <2>1 DEF Meets, Writes
  <2>3. Live(s) \subseteq {CommentOf(s)} /\ None \notin Live(s)
    BY <2>2, LiveAreComments DEF SlotAt
  <2>4. \A u \in Task : Writes(u, s)' => u = t
    BY <1>0, <2>2, OneWriter
  <2>5. Live(s)' = Live(s) /\ CommentOf(s)' = CommentOf(s)
    BY <1>0, WorldStays
  <2>6. /\ pc'[t] = "patch" => id'[t] = CommentOf(s)'
        /\ pc'[t] = "post" => Live(s)' = {}
        /\ pc'[t] # "store"
    BY <2>1, <2>3, <2>5 DEF Goto
  <2>7. QED  BY <2>3, <2>4, <2>5, <2>6, SlotWritten
<1>3. QED  BY <1>1, <1>2

LEMMA PatchSlots ==
    ASSUME TypeOK, NEW t \in Task, Patch(t), NEW s, s \notin marred', SlotAt(s)
    PROVE  SlotAt(s)'
<1> USE DEF TypeOK
<1>0. Acts(t) /\ pc[t] = "patch" /\ UNCHANGED <<comments, slot>>
  BY DEF Patch, Acts, Step, world
<1>1. CASE NextPost(t)
  <2>1. ~Writes(t, s)'
    BY <1>1, NextPostStops DEF Writes
  <2>2. QED  BY <1>0, <2>1, LeavesSlots DEF Writes
<1>2. CASE ~NextPost(t) /\ Head(posts[t]) # s
  <2>1. UNCHANGED posts
    BY <1>2 DEF Patch
  <2>2. ~Writes(t, s)' /\ ~Writes(t, s)
    BY <1>2, <2>1 DEF Writes
  <2>3. QED  BY <1>0, <2>2, LeavesSlots
<1>3. CASE ~NextPost(t) /\ Head(posts[t]) = s
  <2>1. ~comments[id[t]].live /\ pc'[t] = "post" /\ UNCHANGED <<posts, id>>
    BY <1>3 DEF Patch, Goto
  <2>2. Writes(t, s) /\ id[t] = CommentOf(s) /\ \A u \in Task : Writes(u, s) => u = t
    BY <1>0, <1>3 DEF Writes, SlotAt
  <2>3. Live(s) \subseteq {CommentOf(s)}
    BY <1>0, <2>2 DEF SlotAt
  <2>4. Live(s) = {}
    BY <2>1, <2>2, <2>3 DEF Live
  <2>5. Live(s)' = {}
    BY <1>0, <2>4, WorldStays
  <2>6. \A u \in Task : Writes(u, s)' => u = t
    BY <1>0, <2>2, OneWriter
  <2>7. QED  BY <2>1, <2>5, <2>6, SlotWritten
<1>4. QED  BY <1>1, <1>2, <1>3

LEMMA PostSlots ==
    ASSUME TypeOK, Placed, NEW t \in Task, Post(t), NEW s, s \notin marred', s # Reply, SlotAt(s)
    PROVE  SlotAt(s)'
<1> USE DEF TypeOK
<1>0. /\ Acts(t) /\ pc[t] = "post" /\ UNCHANGED slot
      /\ comments' = Posted(Head(posts[t])) /\ Head(posts[t]) \in Slot
  <2>1. posts[t] \in Seq(Slot) /\ posts[t] # <<>>
    BY DEF Post, Placed, Answering
  <2>2. QED  BY <2>1, HeadsAreSlots DEF Post, Acts, Step
<1>1. CommentOf(s)' = CommentOf(s)
  BY <1>0 DEF CommentOf
<1>2. CASE Head(posts[t]) # s
  <2>1. Live(s)' \subseteq Live(s)
    BY <1>0, <1>2, PostedLive
  <2>2. ~Writes(t, s)
    BY <1>2 DEF Writes
  <2>3. ~Writes(t, s)'
    <3>1. CASE NextPost(t)
      BY <3>1, NextPostStops DEF Writes
    <3>2. CASE UNCHANGED posts
      BY <1>2, <3>2 DEF Writes
    <3>3. QED  BY <3>1, <3>2 DEF Post, task
  <2>4. QED  BY <1>0, <1>1, <2>1, <2>2, <2>3, ActsElsewhere
<1>3. CASE Head(posts[t]) = s
  <2>1. id' = [id EXCEPT ![t] = Len(comments')] /\ Goto(t, "store") /\ UNCHANGED posts
    BY <1>3 DEF Post
  <2>2. Writes(t, s) /\ Live(s) = {} /\ \A u \in Task : Writes(u, s) => u = t
    BY <1>0, <1>3 DEF Writes, SlotAt
  <2>3. Len(comments') \in Nat /\ Live(s)' \subseteq {Len(comments')}
    BY <1>0, <2>2, PostedLive
  <2>4. \A u \in Task : Writes(u, s)' => u = t
    BY <1>0, <2>2, OneWriter
  <2>5. pc'[t] = "store" /\ id'[t] = Len(comments') /\ Writes(t, s)'
    BY <1>3, <2>1 DEF Goto, Writes
  <2>6. QED  BY <2>3, <2>4, <2>5, SlotWritten
<1>4. QED  BY <1>2, <1>3

LEMMA StoreSlots ==
    ASSUME TypeOK, Placed, NEW t \in Task, Store(t), NEW s \in Slot, s \notin marred', SlotAt(s)
    PROVE  SlotAt(s)'
<1> USE DEF TypeOK
<1>0. /\ Acts(t) /\ pc[t] = "store" /\ UNCHANGED comments
      /\ Head(posts[t]) \in Slot /\ "legacy" \notin Slot
  <2>1. posts[t] \in Seq(Slot) /\ posts[t] # <<>>
    BY DEF Store, Placed, Answering
  <2>2. QED  BY <2>1, HeadsAreSlots, NoLegacySlot DEF Store, Acts, Step
<1>1. Live(s)' = Live(s)
  BY <1>0 DEF Live
<1>2. ~Writes(t, s)'
  BY NextPostStops DEF Store, Writes
<1>3. CASE Head(posts[t]) # s
  <2>1. CommentOf(s)' = CommentOf(s)
    BY <1>0, <1>3 DEF Store, CommentOf
  <2>2. ~Writes(t, s)
    BY <1>3 DEF Writes
  <2>3. QED  BY <1>0, <1>1, <1>2, <2>1, <2>2, ActsElsewhere
<1>4. CASE Head(posts[t]) = s
  <2>1. slot' = [slot EXCEPT ![s] = id[t]]
    BY <1>4 DEF Store
  <2>2. /\ Writes(t, s) /\ id[t] \in Nat /\ Live(s) \subseteq {id[t]}
        /\ \A u \in Task : Writes(u, s) => u = t
    BY <1>0, <1>4 DEF Writes, SlotAt
  <2>3. CommentOf(s)' = id[t]
    BY <2>1, <2>2 DEF CommentOf
  <2>4. \A u \in Task : Writes(u, s)' => u = t
    BY <1>0, <2>2, OneWriter
  <2>5. QED  BY <1>1, <1>2, <2>2, <2>3, <2>4, SlotWritten
<1>5. QED  BY <1>3, <1>4

\* The steps of a task that are not about a comment.
LEMMA OtherSlots ==
    ASSUME TypeOK, Placed, NEW t \in Task, Acts(t),
           ~(Look(t) \/ Patch(t) \/ Post(t) \/ Store(t)),
           NEW s, s \notin marred', s # Reply, SlotAt(s)
    PROVE  SlotAt(s)'
<1> USE DEF TypeOK
<1>1. SUFFICES /\ UNCHANGED <<comments, slot>>
               /\ ~Writes(t, s)' /\ ~(Writes(t, s) /\ pc[t] = "store")
  BY LeavesSlots
<1>2. ASSUME End(t) \/ GiveUp(t)
      PROVE  ~Writes(t, s)'
  BY <1>2 DEF GiveUp, End, Goto, Writes
<1>3. Head(<<Reply>>) = Reply
  OBVIOUS
<1>4. CASE \E m \in Comment : Created(t, m)
  BY <1>4 DEF Created, Goto, world, Writes
<1>5. CASE AcquirePermit(t) \/ AcquireLock(t)
  BY <1>5 DEF AcquirePermit, AcquireLock, Goto, world, Writes
<1>6. CASE Work(t)
  <2>1. pc[t] = "work" /\ UNCHANGED <<comments, slot>>
    BY <1>6 DEF Work, world
  <2>2. pc'[t] \in {"look", "put"} \/ (pc'[t] = "post" /\ posts'[t] = <<Reply>>)
    BY <1>6 DEF Work, Goto
  <2>3. QED  BY <1>3, <2>1, <2>2 DEF Writes
<1>7. CASE Saves(t)
  BY <1>7 DEF Saves, CreateReview, DeleteFindings, InsertFindings, UpdateReview, Goto, Writes
<1>8. CASE After(t)
  BY <1>2, <1>8 DEF After, Goto, world, Writes
<1>9. CASE Put(t)
  BY <1>2, <1>9 DEF Put, Writes
<1>10. CASE PutAll(t)
  <2>1. pc[t] = "put" /\ UNCHANGED <<comments, slot>> /\ posts'[t] = <<Reply>>
    BY <1>10 DEF PutAll, world
  <2>2. QED  BY <1>3, <2>1 DEF Writes
<1>11. CASE WorkFails(t) \/ PostFails(t)
  BY <1>2, <1>11 DEF WorkFails, PostFails, world, Writes
<1>12. CASE TimeOut(t)
  <2>1. pc[t] = "store" => Head(posts[t]) # s
    BY <1>12 DEF TimeOut
  <2>2. QED  BY <1>2, <1>12, <2>1 DEF TimeOut, world, Writes
<1>13. QED
  BY <1>1, <1>4, <1>5, <1>6, <1>7, <1>8, <1>9, <1>10, <1>11, <1>12 DEF Acts, Step, Saves

LEMMA CrashSlots ==
    ASSUME Crash, NEW s, s \notin marred', SlotAt(s)
    PROVE  SlotAt(s)'
<1>1. UNCHANGED <<comments, slot>> /\ \A u \in Task : pc'[u] = "idle"
  BY DEF Crash, world
<1>2. \A u \in Task : ~Writes(u, s)'
  BY <1>1 DEF Writes
<1>3. \A u \in Task : ~(Writes(u, s) /\ pc[u] = "store")
  BY DEF Crash, Writes
<1>4. QED  BY <1>1, <1>2, <1>3, WorldStays, SlotUntouched

LEMMA DeletedSlots ==
    ASSUME TypeOK, Push \/ DeleteComment, NEW s, SlotAt(s)
    PROVE  SlotAt(s)'
<1>1. UNCHANGED task /\ UNCHANGED slot
  BY DEF Push, DeleteComment
<1>2. Live(s)' \subseteq Live(s)
  <2>1. CASE Push
    BY <2>1 DEF Push, Live
  <2>2. CASE DeleteComment
    <3>1. PICK i \in DOMAIN comments : comments' = [comments EXCEPT ![i].live = FALSE]
      BY <2>2 DEF DeleteComment
    <3>2. DOMAIN comments' = DOMAIN comments
      BY <3>1
    <3>3. comments'[i] = [comments[i] EXCEPT !.live = FALSE]
      BY <3>1
    <3>4. \A j \in DOMAIN comments : j # i => comments'[j] = comments[j]
      BY <3>1
    <3>5. i \notin Live(s)'
      <4> DEFINE Rec == [slot : Slot, live : BOOLEAN]
      <4>1. comments \in Seq(Rec)
        BY DEF TypeOK
      <4> HIDE DEF Rec
      <4>2. comments[i] \in Rec
        BY <4>1, LenProperties, ElementOfSeq
      <4>3. comments[i] \in [slot : Slot, live : BOOLEAN]
        BY <4>2 DEF Rec
      <4>4. comments'[i].live = FALSE
        BY <3>3, <4>3
      <4>5. QED  BY <4>4 DEF Live
    <3>6. QED  BY <3>2, <3>4, <3>5 DEF Live
  <2>3. QED  BY <2>1, <2>2
<1>3. CommentOf(s)' = CommentOf(s)
  BY <1>1 DEF CommentOf
<1>4. \A u \in Task : pc'[u] = pc[u] /\ id'[u] = id[u] /\ (Writes(u, s)' <=> Writes(u, s))
  BY <1>1 DEF task, Writes
<1>5. QED  BY <1>2, <1>3, <1>4, SlotUntouched

LEMMA SlotsStep == ASSUME TypeOK, Placed, SlotsKept, Next PROVE SlotsKept'
<1>1. SUFFICES ASSUME NEW s \in Slot \ (marred' \cup {Reply})
               PROVE  SlotAt(s)'
  BY DEF SlotsKept, SlotAt, Reply
<1>2. SlotAt(s) /\ s \notin marred' /\ s # Reply /\ s \in Slot
  BY Marring DEF SlotsKept, SlotAt
<1>3. ASSUME NEW t \in Task, Acts(t)
      PROVE  SlotAt(s)'
  BY <1>2, <1>3, LookSlots, PatchSlots, PostSlots, StoreSlots, OtherSlots
<1>4. QED  BY <1>2, <1>3, CrashSlots, DeletedSlots, Actors

-----------------------------------------------------------------------------
\* The invariant.

LEMMA InitIInv == Init => IInv
<1> SUFFICES ASSUME Init PROVE IInv
  OBVIOUS
<1>1. PICK old \in BOOLEAN :
         /\ comments = IF old THEN <<[slot |-> "walkthrough", live |-> TRUE]>> ELSE <<>>
         /\ slot = [s \in Slot \cup {"legacy"} |-> IF old /\ s = "legacy" THEN 1 ELSE None]
  BY DEF Init
<1>2. \A t \in Task : /\ pc[t] = "idle" /\ cmd[t] = None /\ posts[t] = <<>> /\ id[t] = None
                      /\ sha[t] = None /\ found[t] = {} /\ fetched[t] = <<>>
  BY DEF Init
<1>3. TypeOK
  <2>1. "walkthrough" \in Slot
    <3>1. <<"walkthrough", "review_checks">> \in Handler("review").slots
      BY Handlers DEF Named, Reviews, Overview
    <3>2. <<"walkthrough", "review_checks">> \in Seq(Slot)
      BY <3>1, Answers DEF Named
    <3>3. QED  BY <3>2
  <2>2. comments \in Seq([slot : Slot, live : BOOLEAN])
    <3> DEFINE Rec == [slot : Slot, live : BOOLEAN]
               new == [slot |-> "walkthrough", live |-> TRUE]
    <3>1. new \in Rec
      BY <2>1
    <3>2. comments = IF old THEN <<new>> ELSE <<>>
      BY <1>1
    <3> HIDE DEF Rec, new
    <3>3. comments \in Seq(Rec)
      BY <3>1, <3>2
    <3>4. QED  BY <3>3 DEF Rec
  <2>3. slot \in [Slot \cup {"legacy"} -> Nat \cup {None}]
    BY <1>1
  <2>4. branch \in [File -> SUBSET (0..MaxPushes)] /\ head \in Nat
        /\ rows \in [0..MaxPushes -> ReviewRow \cup {None}]
        /\ commands \in Nat /\ faults \in Nat /\ pushes \in Nat
        /\ head + pushes = MaxPushes
    BY DEF Init
  <2>5. TaskType
    BY NoFiles DEF Init, TaskType, Places
  <2>6. QED  BY <2>2, <2>3, <2>4, <2>5 DEF TypeOK, TaskType
<1>4. Placed
  BY <1>2 DEF Placed, Reviewing, Answering, Saving
<1>5. RowsInHand
  BY <1>2 DEF RowsInHand
<1>6. SlotsKept
  <2>1. ASSUME NEW s \in Slot
        PROVE  Live(s) \subseteq {CommentOf(s)}
    <3>1. CASE old
      <4>1. comments = <<[slot |-> "walkthrough", live |-> TRUE]>>
        BY <1>1, <3>1
      <4>2. Live(s) \subseteq IF s = "walkthrough" THEN {1} ELSE {}
        BY <4>1 DEF Live
      <4>3. slot[s] = None /\ slot["legacy"] = 1
        BY <1>1, <3>1, NoLegacySlot
      <4>4. QED  BY <4>2, <4>3 DEF CommentOf
    <3>2. CASE ~old
      BY <1>1, <3>2 DEF Live
    <3>3. QED  BY <3>1, <3>2
  <2>2. QED  BY <1>2, <2>1 DEF SlotsKept, Writes
<1>7. CompletedRowsWhole
  BY DEF Init, CompletedRowsWhole
<1>8. FixKeepsPushes
  <2>1. \A f \in File : branch[f] = {}
    BY DEF Init
  <2>2. \A c : c \notin 1..head
    <3>1. head = 0
      BY DEF Init
    <3>2. QED  BY <3>1
  <2>3. QED  BY <2>1, <2>2, OnBranch
<1>9. QED  BY <1>3, <1>4, <1>5, <1>6, <1>7, <1>8 DEF IInv

LEMMA StepIInv == IInv /\ [Next]_vars => IInv'
<1> SUFFICES ASSUME IInv, [Next]_vars PROVE IInv'
  OBVIOUS
<1> USE DEF IInv
<1>1. CASE Next
  BY <1>1, TypeStep, PlacedStep, RowsStep, SlotsStep, FixStep
<1>2. CASE UNCHANGED vars
  <2>1. /\ UNCHANGED <<comments, slot, branch, head, rows>>
        /\ UNCHANGED <<pc, cmd, posts, id, sha, found, fetched, free, locked>>
        /\ UNCHANGED <<marred, saved, blurred, commands, faults, pushes>>
    BY <1>2 DEF vars, world, task, past, bounds
  <2>2. TypeOK'
    BY <2>1 DEF TypeOK
  <2>3. Placed' /\ RowsInHand'
    BY <2>1 DEF Placed, RowsInHand, Reviewing
  <2>4. SlotsKept'
    BY <2>1 DEF SlotsKept, Writes, Live, CommentOf
  <2>5. CompletedRowsWhole' /\ FixKeepsPushes'
    BY <2>1 DEF CompletedRowsWhole, FixKeepsPushes
  <2>6. QED  BY <2>2, <2>3, <2>4, <2>5
<1>3. QED  BY <1>1, <1>2

\* IInv holds in every state.
THEOREM Invariance == Spec => []IInv
<1>1. QED  BY InitIInv, StepIInv, PTL DEF Spec

\* Every variable keeps its type: a command is one of parse_bot_command's, a slot one
\* that a handler answers in, a row is pending or completed.
THEOREM TypeCorrect == Spec => []TypeOK
<1>1. IInv => TypeOK
  BY DEF IInv
<1>2. QED  BY <1>1, Invariance, PTL

LEMMA OneIsEnough ==
    ASSUME NEW S, NEW x, S \subseteq {x}
    PROVE  Cardinality(S) <= 1
<1>1. S = {} \/ S = {x}
  OBVIOUS
<1>2. Cardinality({}) = 0 /\ Cardinality({x}) = 1
  BY FS_EmptySet, FS_Singleton
<1>3. QED  BY <1>1, <1>2

\* post_or_update_comment: whatever the tasks, the order of their steps, and the failures
\* in other slots, a slot where no call failed and no two tasks met has one comment at
\* most, the one that review_comments names or that a task is about to store.
THEOREM CommentsAreOne == Spec => []OneComment
<1>1. ASSUME IInv
      PROVE  OneComment
  <2>1. SUFFICES ASSUME NEW s \in Slot \ (marred \cup {Reply})
                 PROVE  /\ Cardinality(Live(s)) <= 1
                        /\ \A i \in Live(s) : \/ i = CommentOf(s)
                                              \/ \E t \in Task : pc[t] = "store" /\ id[t] = i
    BY DEF OneComment, Live
  <2>2. SlotAt(s)
    BY <1>1 DEF IInv, SlotsKept, SlotAt
  <2>3. CASE \E t \in Task : Writes(t, s) /\ pc[t] = "store"
    <3>1. PICK t \in Task : pc[t] = "store" /\ Live(s) \subseteq {id[t]}
      BY <2>2, <2>3 DEF SlotAt
    <3>2. QED  BY <3>1, OneIsEnough
  <2>4. CASE \A t \in Task : ~(Writes(t, s) /\ pc[t] = "store")
    <3>1. Live(s) \subseteq {CommentOf(s)}
      BY <2>2, <2>4 DEF SlotAt
    <3>2. QED  BY <3>1, OneIsEnough
  <2>5. QED  BY <2>3, <2>4
<1>2. QED  BY <1>1, Invariance, PTL

\* save_review_to_db: whatever fails, times out or dies between its statements, and
\* however often a commit is reviewed again, a row that counts as completed holds all
\* that a run found which saved it to the end.
THEOREM RowsAreWhole == Spec => []CompletedRowsWhole
<1>1. IInv => CompletedRowsWhole
  BY DEF IInv
<1>2. QED  BY <1>1, Invariance, PTL

\* put_repo_file: the branch contains every push, whatever fixes and pushes interleave.
THEOREM PushesAreKept == Spec => []FixKeepsPushes
<1>1. IInv => FixKeepsPushes
  BY DEF IInv
<1>2. QED  BY <1>1, Invariance, PTL
=============================================================================
