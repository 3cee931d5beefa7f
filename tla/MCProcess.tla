------------------------------ MODULE MCProcess ------------------------------
(***************************************************************************)
(* Instances for TLC of what a process does around the reviews: the locks  *)
(* of pull requests, a start that migrates the schema, the rate limiters.  *)
(* They share no state: each behaviour is one of one of them, and the      *)
(* others rest.                                                            *)
(***************************************************************************)
EXTENDS PrLocks, Migrations, RateLimit

VARIABLE part

\* At rest a part is in one of its initial states, always the same.
MCInit ==
    /\ part \in {"locks", "migrations", "limits"}
    /\ Init /\ MigrationsInit /\ LimitInit
    /\ part # "migrations" => vector /\ schema = {}
    /\ part # "limits" => limiter = "api"

MCNext ==
    /\ UNCHANGED part
    /\ \/ part = "locks" /\ Next /\ UNCHANGED <<migrationVars, limitVars>>
       \/ part = "migrations" /\ MigrationsNext /\ UNCHANGED <<vars, limitVars>>
       \/ part = "limits" /\ LimitNext /\ UNCHANGED <<vars, migrationVars>>

\* The fairness of each module, for the behaviours of its part.
MCFairness ==
    /\ \A t \in Task :
          /\ SF_vars(part = "locks" /\ Acquire(t)) /\ WF_vars(part = "locks" /\ DropGuard(t))
          /\ WF_vars(part = "locks" /\ Prune(t)) /\ WF_vars(part = "locks" /\ Return(t))
    /\ \A r \in Replica : WF_migrationVars(part = "migrations" /\ StartStep(r))

MCSpec == MCInit /\ [][MCNext]_<<part, vars, migrationVars, limitVars>> /\ MCFairness

\* What has begun ends: a task that waits for its pull request gets inside, and
\* a replica that starts serves in the end.
WorkEnds == WaiterEnters /\ (part = "migrations" => StartsSucceed)
=============================================================================
