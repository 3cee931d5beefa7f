----------------------------- MODULE LlmClient -----------------------------
(***************************************************************************)
(* Calls of the language model and the daily budget (src/src/llm/mod.rs,   *)
(* llm/budget.rs, db/events.rs): one process, whose tasks call the model   *)
(* at the same time.  A call passes its gates, the budget and the check of *)
(* the endpoint, is charged to a local counter, and sends requests: a      *)
(* review in a loop of tool calls, a text helper once; each again to the   *)
(* fallback endpoint when the first fails.  Each request is entered in the *)
(* ledger, agent_events, after it was answered.  Reviews and commands have *)
(* a time limit, which may drop them at any await.                         *)
(*                                                                         *)
(* A request with its retries is one unit of spend, as in the ledger.      *)
(***************************************************************************)
EXTENDS Integers, FiniteSets, Sequences

CONSTANTS
    Caller,             \* the tasks that call
    DailyBudget,        \* the daily budget in units; 0: none
    MaxToolIterations,
    MaxToolCalls,       \* bound: tool calls of one answer
    HasFallback,        \* a fallback endpoint is configured
    MaxChecks,          \* bound: pre-merge checks of a repository
    MaxHitches          \* bound: database errors, settings changed, timeouts, restarts

ASSUME LlmAssumption ==
    /\ IsFiniteSet(Caller)
    /\ DailyBudget \in Nat /\ MaxToolIterations \in Nat /\ HasFallback \in BOOLEAN
    /\ MaxToolCalls \in Nat /\ MaxChecks \in Nat /\ MaxHitches \in Nat

VARIABLES
    call,       \* per task: how far its call has come
    mode,       \* the settings: "on", "disabled" (llm_provider), "offline"
    ledger,     \* what agent_events says of the last day
    local,      \* LOCAL_SPEND_MICROS, capped at the budget
    paid,       \* requests of the last day
    slips,      \* requests a database error may have let through
    dropped,    \* requests under way when a timeout or a restart ended their task
    hitches

llmVars == <<call, mode, ledger, local, paid, slips, dropped, hitches>>

Idle == [pc |-> "idle", helper |-> "none", gates |-> << >>, fallback |-> FALSE,
         messages |-> 0, sent |-> 0, final |-> FALSE, checks |-> 0]

LlmInit ==
    /\ call = [t \in Caller |-> Idle]
    /\ mode = "on"
    /\ ledger = 0 /\ local = 0 /\ paid = 0 /\ slips = 0 /\ dropped = 0
    /\ hitches = MaxHitches

Becomes(t, c) == call' = [call EXCEPT ![t] = c]

Hitch == hitches > 0 /\ hitches' = hitches - 1

-----------------------------------------------------------------------------
(* LlmConfig::from_db_or_env: nothing while offline, which the process     *)
(* also knows from its environment; a provider setting that cannot be read *)
(* counts as absent.                                                       *)
FromDbOrEnv ==
    \/ mode = "on" /\ UNCHANGED hitches
    \/ mode = "disabled" /\ Hitch

NoConfig ==
    \/ mode = "offline" /\ UNCHANGED hitches
    \/ mode = "disabled" /\ UNCHANGED hitches

ReviewGates == <<"budget", "endpoint">>
TextGates   == <<"endpoint", "budget">>

Begin(t, helper, gates) ==
    /\ call[t].pc = "idle" /\ FromDbOrEnv
    /\ Becomes(t, [Idle EXCEPT !.pc = "gates", !.helper = helper, !.gates = gates])
    /\ UNCHANGED <<mode, ledger, local, paid, slips, dropped>>

(* Which files are worth a review: none of the generated ones.             *)
FileKind == {"source", "lockfile", "artifact", "media"}
LowSignal(kind) == kind \in {"lockfile", "artifact", "media"}
FilterFiles(kinds) == {k \in kinds : ~LowSignal(k)}

ShouldRunAutoImprove(enabled, blocking, kinds) ==
    /\ enabled /\ ~blocking
    /\ kinds # {} /\ FilterFiles(kinds) # {}

ReviewDiff(t) ==
    \E enabled, blocking \in BOOLEAN, kinds \in SUBSET FileKind :
        /\ ShouldRunAutoImprove(enabled, blocking, kinds)
        /\ Begin(t, "review", ReviewGates)

SummarizePr(t)     == Begin(t, "text", TextGates)
DescribePr(t)      == Begin(t, "text", TextGates)
GenerateTests(t)   == Begin(t, "text", TextGates)
SequenceDiagram(t) == Begin(t, "text", TextGates)
AskAboutPr(t)      == Begin(t, "text", TextGates)
ChangelogPr(t)     == Begin(t, "text", TextGates)

(* judge_findings: nothing to judge is no call.                            *)
JudgeFindings(t) ==
    \E findings \in 0..1 : findings > 0 /\ Begin(t, "text", TextGates)

(* The checks of a pull request, one after the other, each with the        *)
(* configuration of its time; without one it stays inconclusive.           *)
RunPreMergeChecks(t) ==
    /\ call[t].pc = "idle"
    /\ \E n \in 1..MaxChecks : Becomes(t, [Idle EXCEPT !.pc = "checks", !.checks = n])
    /\ UNCHANGED <<mode, ledger, local, paid, slips, dropped, hitches>>

PremergeCheck(t) ==
    /\ call[t].pc = "checks" /\ call[t].checks > 0
    /\ \/ /\ FromDbOrEnv
          /\ Becomes(t, [call[t] EXCEPT !.pc = "gates", !.helper = "text", !.gates = TextGates])
       \/ NoConfig /\ Becomes(t, [call[t] EXCEPT !.checks = @ - 1])
    /\ UNCHANGED <<mode, ledger, local, paid, slips, dropped>>

ChecksDone(t) ==
    /\ call[t].pc = "checks" /\ call[t].checks = 0
    /\ Becomes(t, Idle)
    /\ UNCHANGED <<mode, ledger, local, paid, slips, dropped, hitches>>

(* A call ends, with an answer or an error, and the next check follows.    *)
Ended(t) ==
    IF call[t].checks > 0 THEN [Idle EXCEPT !.pc = "checks", !.checks = call[t].checks - 1]
    ELSE Idle

-----------------------------------------------------------------------------
(* What a look at the budget finds of the two tables: both, no ledger, or  *)
(* no budget setting.                                                      *)
View == {"whole", "no_ledger", "no_budget"}

(* current_spend_usd: the ledger, unless it is empty or cannot be read.    *)
CurrentSpend(view) == IF ledger > 0 /\ view # "no_ledger" THEN ledger ELSE local

(* A budget that cannot be read is none.                                   *)
WithinDailyBudget(view) ==
    DailyBudget = 0 \/ view = "no_budget" \/ CurrentSpend(view) < DailyBudget

(* A look that a database error spoiled may let through what a whole call  *)
(* may send.                                                               *)
Look(view) ==
    IF view = "whole" THEN UNCHANGED <<hitches, slips>> ELSE Hitch /\ slips' = slips + 4

Charged == IF local < DailyBudget THEN local + 1 ELSE local

Passed(t) ==
    LET rest == Tail(call[t].gates)
        c == [call[t] EXCEPT !.gates = rest]
    IN  /\ Becomes(t, IF rest # << >> THEN c ELSE [c EXCEPT !.pc = "turn", !.messages = 2])
        /\ local' = IF rest # << >> THEN local ELSE Charged

At(t, gate) == call[t].pc = "gates" /\ Head(call[t].gates) = gate

AssertWithinBudget(t) ==
    /\ At(t, "budget")
    /\ \E view \in View :
          /\ Look(view)
          /\ IF WithinDailyBudget(view) THEN Passed(t)
             ELSE Becomes(t, Ended(t)) /\ UNCHANGED local
    /\ UNCHANGED <<mode, ledger, paid, dropped>>

(* The address of an endpoint is resolved anew for each call.              *)
AssertEndpointSafe(t) ==
    /\ At(t, "endpoint")
    /\ \/ Passed(t)
       \/ Becomes(t, Ended(t)) /\ UNCHANGED local
    /\ UNCHANGED <<mode, ledger, paid, slips, dropped, hitches>>

-----------------------------------------------------------------------------
(* Mutant of Request: the budget is not looked at between tool calls.      *)
RequestUnchecked(t) ==
    /\ call[t].pc = "turn"
    /\ Becomes(t, [call[t] EXCEPT !.pc = "asked",
                               !.sent = @ + 1,
                               !.final = call[t].messages > 2 * MaxToolIterations])
    /\ paid' = paid + 1
    /\ UNCHANGED <<mode, ledger, local, slips, dropped, hitches>>

(* One request: from the second on the budget is looked at first; over it, *)
(* or after MaxToolIterations rounds, the model must answer without tools. *)
Request(t) ==
    /\ call[t].pc = "turn"
    /\ \E view \in View :
          /\ view # "whole" => call[t].messages > 2
          /\ Look(view)
          /\ LET final == \/ call[t].messages > 2 * MaxToolIterations
                          \/ call[t].messages > 2 /\ ~WithinDailyBudget(view)
             IN  Becomes(t, [call[t] EXCEPT !.pc = "asked", !.sent = @ + 1, !.final = final])
    /\ paid' = paid + 1
    /\ UNCHANGED <<mode, ledger, local, dropped>>

(* emit_llm_call, whatever the answer was; a failed insert is let go.      *)
EmitLlmCall ==
    \/ ledger' = ledger + 1 /\ UNCHANGED <<slips, hitches>>
    \/ Hitch /\ slips' = slips + 1 /\ UNCHANGED ledger

Answered(t) ==
    /\ call[t].pc = "asked" /\ EmitLlmCall
    /\ Becomes(t, Ended(t))
    /\ UNCHANGED <<mode, local, paid, dropped>>

(* An error, a bad status, no content, or a review that does not parse:    *)
(* once more from the start with the fallback, without a look at the       *)
(* budget.                                                                 *)
Failed(t) ==
    /\ call[t].pc = "asked" /\ EmitLlmCall
    /\ Becomes(t, IF HasFallback /\ ~call[t].fallback
               THEN [call[t] EXCEPT !.pc = "turn", !.fallback = TRUE, !.messages = 2,
                                    !.sent = 0, !.final = FALSE]
               ELSE Ended(t))
    /\ UNCHANGED <<mode, local, paid, dropped>>

(* The answer calls tools: it and their results, errors too, are added.    *)
CallsTools(t) ==
    /\ call[t].pc = "asked" /\ call[t].helper = "review" /\ ~call[t].final
    /\ EmitLlmCall
    /\ \E k \in 1..MaxToolCalls :
          LET n == call[t].messages + 1 + k
          IN  Becomes(t, [call[t] EXCEPT !.pc = "tools",
                          !.messages = IF n > 2 * MaxToolIterations
                                       THEN 2 * MaxToolIterations + 1 ELSE n])
    /\ UNCHANGED <<mode, local, paid, dropped>>

ToolsAnswer(t) ==
    /\ call[t].pc = "tools"
    /\ Becomes(t, [call[t] EXCEPT !.pc = "turn"])
    /\ UNCHANGED <<mode, ledger, local, paid, slips, dropped, hitches>>

-----------------------------------------------------------------------------
(* The oldest entry leaves the last day.                                   *)
Expire ==
    /\ ledger > 0 /\ ledger' = ledger - 1 /\ paid' = paid - 1
    /\ UNCHANGED <<call, mode, local, slips, dropped, hitches>>

Switch ==
    /\ \E m \in {"on", "disabled", "offline"} : m # mode /\ mode' = m
    /\ Hitch
    /\ UNCHANGED <<call, ledger, local, paid, slips, dropped>>

(* The time limit of the review or command: its calls are dropped where    *)
(* they stand, and a request under way is never entered.                   *)
TimedOut(t) ==
    /\ call[t].pc # "idle" /\ Hitch
    /\ Becomes(t, Idle)
    /\ dropped' = IF call[t].pc = "asked" THEN dropped + 1 ELSE dropped
    /\ UNCHANGED <<mode, ledger, local, paid, slips>>

(* A restart drops all calls, and forgets the local counter.               *)
Restart ==
    /\ Hitch
    /\ dropped' = dropped + Cardinality({t \in Caller : call[t].pc = "asked"})
    /\ call' = [t \in Caller |-> Idle]
    /\ local' = 0
    /\ UNCHANGED <<mode, ledger, paid, slips>>

CallStep(t) ==
    \/ PremergeCheck(t) \/ ChecksDone(t)
    \/ AssertWithinBudget(t) \/ AssertEndpointSafe(t)
    \/ Request(t) \/ Answered(t) \/ Failed(t) \/ CallsTools(t) \/ ToolsAnswer(t)
    \/ TimedOut(t)

LlmNext ==
    \/ \E t \in Caller :
          \/ ReviewDiff(t) \/ SummarizePr(t) \/ DescribePr(t) \/ GenerateTests(t)
          \/ SequenceDiagram(t) \/ AskAboutPr(t) \/ ChangelogPr(t) \/ JudgeFindings(t)
          \/ RunPreMergeChecks(t) \/ CallStep(t)
    \/ Expire \/ Switch \/ Restart

LlmSpec == LlmInit /\ [][LlmNext]_llmVars

-----------------------------------------------------------------------------
(* The overshoot is bounded: the budget is looked at before money is       *)
(* spent and written down after, by every task on its own.  Each may be    *)
(* past its look when the budget is reached, and then still send one       *)
(* request, the forced last one, and both again to the fallback; no        *)
(* sequence of calls gets further past the budget than that, but by the    *)
(* requests that were dropped under way and those that a database error    *)
(* let through or kept out of the books.                                   *)
OvershootBounded ==
    DailyBudget > 0 =>
        paid <= DailyBudget - 1 + 4 * Cardinality(Caller) + slips + dropped

(* The model may ask for tools again and again, and is told to stop by the *)
(* number of messages alone: after so many requests it was.                *)
LoopBounded == \A t \in Caller : call[t].sent <= MaxToolIterations + 1

SpendBounded == OvershootBounded /\ LoopBounded

(* "Daily LLM spend hard-stop (BudgetGuard)." (llm/budget.rs:1): while the *)
(* database serves it the budget stops the tasks, the calls past their     *)
(* look aside.  Not checked by the run: a task that times out again and    *)
(* again while the model answers pays each time, and no look finds it, for *)
(* one entry in the ledger hides the local counter, which is charged       *)
(* before; flow_timeout_unbooked.cfg shows it.                             *)
HardStop ==
    DailyBudget > 0 /\ slips = 0 => paid <= DailyBudget - 1 + 4 * Cardinality(Caller)

-----------------------------------------------------------------------------
(* The inductive invariant, see FlowProofs.                                *)

Calls ==
    [pc : {"idle", "checks", "gates", "turn", "asked", "tools"}, helper : {"none", "review", "text"},
     gates : {ReviewGates, TextGates, <<"endpoint">>, <<"budget">>, << >>},
     fallback : BOOLEAN, messages : Nat, sent : Nat, final : BOOLEAN, checks : Nat]

LlmTypeOK ==
    /\ call \in [Caller -> Calls]
    /\ ledger \in Nat /\ local \in Nat /\ paid \in Int
    /\ slips \in Nat /\ dropped \in Nat /\ hitches \in Nat

(* A call that goes on has been sent so many requests that its messages    *)
(* tell: a round of tool calls adds two at least.                          *)
Rounds(c) ==
    /\ c.pc = "gates" <=> c.gates # << >>
    /\ c.pc \in {"idle", "checks", "gates"} => c.sent = 0 /\ ~c.fallback
    /\ c.pc \in {"turn", "tools"} =>
          /\ c.sent <= MaxToolIterations /\ c.messages >= 2
          /\ c.messages <= 2 * MaxToolIterations => 2 * c.sent + 2 <= c.messages
    /\ c.pc = "tools" => c.messages > 2
    /\ c.pc = "asked" =>
          /\ c.sent <= MaxToolIterations + 1
          /\ ~c.final => /\ 2 <= c.messages /\ c.messages <= 2 * MaxToolIterations
                         /\ 2 * c.sent <= c.messages

RoundsCounted == \A t \in Caller : Rounds(call[t])

(* How many requests a call may still send without a look at the budget    *)
(* that lets it: the next, the last one that is forced, and both again to  *)
(* the fallback.                                                           *)
MayStillSend(c) ==
    LET again == IF c.fallback THEN 0 ELSE 2
    IN  CASE c.pc = "gates" /\ c.gates = <<"endpoint">> -> 4
          [] c.pc = "turn" -> again + (IF c.messages > 2 THEN 1 ELSE 2)
          [] c.pc = "tools" -> again + 1
          [] c.pc = "asked" -> again + (IF c.final THEN 0 ELSE 1)
          [] OTHER -> 0

(* All that may still be sent, level by level: one request of each task    *)
(* that may send one, another of each that may send two, and so on.        *)
Sending(n) == {t \in Caller : MayStillSend(call[t]) >= n}
Outstanding == Cardinality(Sending(1)) + Cardinality(Sending(2))
                   + Cardinality(Sending(3)) + Cardinality(Sending(4))

Unbooked == {t \in Caller : call[t].pc = "asked"}

(* What was paid is in the books, about to be, was let go, or was dropped. *)
BooksKept == paid <= ledger + Cardinality(Unbooked) + slips + dropped

OvershootForeseen ==
    DailyBudget > 0 =>
        paid + Outstanding <= DailyBudget - 1 + 4 * Cardinality(Caller) + slips + dropped

LlmInv == LlmTypeOK /\ RoundsCounted /\ BooksKept /\ OvershootForeseen
=============================================================================
