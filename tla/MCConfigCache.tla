--------------------------- MODULE MCConfigCache ---------------------------
(***************************************************************************)
(* Instances of ConfigCache and AppSetup for TLC: which settings the       *)
(* environment of the deployment has, and which of them each list of keys  *)
(* names.  Each behaviour is one of the caches, with settings alike, or    *)
(* one of the App and the offline mode, with caches that forget at will.   *)
(***************************************************************************)
EXTENDS ConfigCache, AppSetup, TLC

CONSTANTS r1, r2, k1, k2, v1, v2, t1, t2

VARIABLE part

\* the environment sets every key to the same value
MCHost == [k \in Key |-> v1]

\* Requests are interchangeable, and so are replicas.
Alike == Permutations(Replica) \cup Permutations(Task)

\* One replica is looked at closely; the environment names no App, or all of it.
MCHosts == {{}, {"id", "pem", "secret"}}

MCInit ==
    /\ Init /\ SetupInit
    /\ part \in {"cache", "app"}
    /\ (part = "cache" => facet = "offline" /\ host["offline"] = "none")

MCNext ==
    /\ UNCHANGED part
    /\ \/ part = "cache" /\ Next /\ UNCHANGED setupVars
       \/ part = "app" /\ SetupNext /\ UNCHANGED vars

MCSpec == MCInit /\ [][MCNext]_<<vars, setupVars, part>>
=============================================================================
