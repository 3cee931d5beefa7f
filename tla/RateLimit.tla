------------------------------ MODULE RateLimit ------------------------------
(***************************************************************************)
(* The limiters of one process (src/src/api/rate_limit.rs, and the one of  *)
(* the login in api/auth.rs): a window of fixed length per key, which      *)
(* starts with the first request that finds none.                          *)
(***************************************************************************)
EXTENDS Integers

CONSTANTS
    Client,     \* those who send requests
    Session,    \* session cookies
    Limit,      \* requests per window
    Window      \* its length in ticks

ASSUME LimitAssumption == Limit \in Nat /\ Window \in Nat \ {0}

VARIABLES
    limiter,    \* the one looked at: "api", "webhook" or "login"
    hits,       \* per key: the requests counted and the age of the window
    allowed,    \* per key: how many requests were let through since n ticks ago
    cookie      \* per client: its session, or None

limitVars == <<limiter, hits, allowed, cookie>>

None == "none"
Unknown == "unknown"    \* a client no header tells apart
Key == Session \cup Client \cup {Unknown}

Span == 0..(Window - 1)

NoWindow == [count |-> 0, age |-> Window]

LimitInit ==
    /\ limiter \in {"api", "webhook", "login"}
    /\ hits = [k \in Key |-> NoWindow]
    /\ allowed = [k \in Key |-> [n \in Span |-> 0]]
    /\ cookie = [c \in Client |-> None]

-----------------------------------------------------------------------------
(* Mutant of Current: the window moves on with every request.              *)
CurrentRestarted(k) == [count |-> IF hits[k].age = 0 THEN hits[k].count ELSE 0, age |-> 0]

(* The window of a key: one past its time is dropped, and starts again now.*)
Current(k) == IF hits[k].age >= Window THEN [count |-> 0, age |-> 0] ELSE hits[k]

(* RateLimiter::check: refused requests are not counted.                   *)
Check(k) ==
    LET w == Current(k)
    IN  IF w.count >= Limit
        THEN hits' = [hits EXCEPT ![k] = w] /\ UNCHANGED allowed
        ELSE /\ hits' = [hits EXCEPT ![k] = [w EXCEPT !.count = @ + 1]]
             /\ allowed' = [allowed EXCEPT ![k] = [n \in Span |-> @[n] + 1]]

(* client_ip: what X-Forwarded-For or X-Real-Ip say, if anything.          *)
ClientIp(c, forwarded) == IF forwarded THEN c ELSE Unknown

(* The dashboard's API counts by session, else by address.                 *)
ApiRateLimit(c) ==
    /\ limiter = "api"
    /\ \E forwarded \in BOOLEAN :
          Check(IF cookie[c] # None THEN cookie[c] ELSE ClientIp(c, forwarded))
    /\ UNCHANGED <<limiter, cookie>>

(* Webhooks are counted by address.                                        *)
CheckWebhook(c) ==
    /\ limiter = "webhook"
    /\ \E forwarded \in BOOLEAN : Check(ClientIp(c, forwarded))
    /\ UNCHANGED <<limiter, cookie>>

(* Logins by address and e-mail, one e-mail here: the attempt is counted,  *)
(* whether or not it succeeds.                                             *)
CheckAuthRateLimit(c) ==
    /\ limiter = "login"
    /\ \E forwarded \in BOOLEAN : Check(ClientIp(c, forwarded))
    /\ UNCHANGED <<limiter, cookie>>

(* A login that got past its limiter sets the cookie, a logout clears it.  *)
SetCookie(c) ==
    /\ limiter = "api"
    /\ cookie' \in [Client -> Session \cup {None}]
    /\ \A d \in Client \ {c} : cookie'[d] = cookie[d]
    /\ UNCHANGED <<limiter, hits, allowed>>

Tick ==
    /\ hits' = [k \in Key |-> IF hits[k].age < Window THEN [hits[k] EXCEPT !.age = @ + 1]
                              ELSE NoWindow]
    /\ allowed' = [k \in Key |-> [n \in Span |-> IF n = 0 THEN 0 ELSE allowed[k][n - 1]]]
    /\ UNCHANGED <<limiter, cookie>>

LimitNext ==
    \/ \E c \in Client :
          ApiRateLimit(c) \/ CheckWebhook(c) \/ CheckAuthRateLimit(c) \/ SetCookie(c)
    \/ Tick

LimitSpec == LimitInit /\ [][LimitNext]_limitVars

-----------------------------------------------------------------------------
(* Around the end of a window twice the limit gets through, less one; more *)
(* than that never does, in any span as long as a window, wherever it      *)
(* starts.                                                                 *)
TwiceTheLimit ==
    \A k \in Key : allowed[k][Window - 1] <= IF Limit = 0 THEN 0 ELSE 2 * Limit - 1

-----------------------------------------------------------------------------
(* The inductive invariant, see PrLocksProofs.                             *)

LimitTypeOK ==
    /\ hits \in [Key -> [count : 0..Limit, age : 0..Window]]
    /\ allowed \in [Key -> [Span -> Nat]]
    /\ cookie \in [Client -> Session \cup {None}]

(* A window counts what was let through since its start; its first request *)
(* came in its first tick, and the window before it, whose first request   *)
(* is longer ago than a window by now, adds less than the limit.           *)
OpenWindow(k) ==
    LET w == hits[k] IN
    /\ allowed[k][w.age] = w.count /\ w.count > 0
    /\ w.age > 0 => allowed[k][w.age - 1] < w.count
    /\ allowed[k][Window - 1] < w.count + Limit

(* When it is over its first request is out of sight, and none has come    *)
(* since.                                                                  *)
OverWindow(k) == allowed[k][0] = 0 /\ allowed[k][Window - 1] < Limit

Cumulative(k) == \A m, n \in Span : m <= n => allowed[k][m] <= allowed[k][n]

LimitInv ==
    /\ LimitTypeOK
    /\ \A k \in Key :
          IF Limit = 0 THEN \A n \in Span : allowed[k][n] = 0
          ELSE /\ Cumulative(k)
               /\ IF hits[k].age < Window THEN OpenWindow(k) ELSE OverWindow(k)
=============================================================================
