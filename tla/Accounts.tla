------------------------------ MODULE Accounts ------------------------------
(***************************************************************************)
(* Accounts of the dashboard: the requests that create, change and remove  *)
(* them (src/api/users.rs, src/api/auth.rs, src/api/setup.rs) over the     *)
(* tables users and invites (src/db/users.rs, src/db/invites.rs).  A       *)
(* request is a sequence of SQL statements, each a step, so that what it   *)
(* checked may have changed when it writes; only a transaction is one      *)
(* step, but for the rows its first statement saw.                         *)
(*                                                                         *)
(* Passwords, sessions and expiry times are left out: whoever has an       *)
(* account may act, since a session only names the account whose role is   *)
(* then read, and an invite may expire at any moment.                      *)
(***************************************************************************)
CONSTANTS
    Email,              \* addresses (their case is left out)
    Id,                 \* the ids the sequence of the users table may give out
    Invite,             \* the invites that may be made
    Request,            \* requests that may be under way at once
    Role,               \* "owner", "viewer" and the roles between
    OpenJoin,           \* OIDC_ALLOW_OPEN_JOIN
    Overlap,            \* may a transfer overlap a role change or a removal?
    NoEmail, NoId, NoInvite

Kind == {"setup", "patch", "remove", "transfer", "invite", "revoke", "accept", "oidc"}

ASSUME RoleAssumption == {"owner", "viewer"} \subseteq Role
ASSUME SwitchAssumption == OpenJoin \in BOOLEAN /\ Overlap \in BOOLEAN
ASSUME NoneAssumption == NoEmail \notin Email /\ NoId \notin Id /\ NoInvite \notin Invite

VARIABLES
    users,      \* users[i] : the row with id i, if there is one
    used,       \* ids given out so far
    via,        \* via[i] : the invite account i was made from
    invites,    \* invites[v] : its row
    pc, req,    \* where each request is, and what it asked for
    snap        \* rows a transfer saw to be bootstrap

vars == <<users, used, via, invites, pc, req, snap>>
tables == <<users, used, via, invites>>

User == [email : Email \cup {NoEmail}, role : Role, boot : BOOLEAN]
NoUser == [email |-> NoEmail, role |-> "viewer", boot |-> FALSE]
InviteRow == [status : {"none", "pending", "accepted", "gone"},
              email : Email \cup {NoEmail}, role : Role]
Req == [kind : Kind \cup {"none"}, actor : Email \cup {NoEmail}, self : Id \cup {NoId},
        tgt : Id \cup {NoId}, role : Role, inv : Invite \cup {NoInvite},
        mail : Email \cup {NoEmail}]
NoReq == [kind |-> "none", actor |-> NoEmail, self |-> NoId, tgt |-> NoId, role |-> "viewer",
          inv |-> NoInvite, mail |-> NoEmail]
Pc == {"idle", "exists", "auth", "actor", "target", "count", "countSelf", "write", "begin",
       "commit", "insert", "insertFirst", "free", "create", "revoke", "claim", "lookup",
       "redeem", "join", "joinInsert"}

TypeOK ==
    /\ users \in [Id -> User]
    /\ used \subseteq Id
    /\ via \in [Id -> Invite \cup {NoInvite}]
    /\ invites \in [Invite -> InviteRow]
    /\ pc \in [Request -> Pc]
    /\ req \in [Request -> Req]
    /\ snap \in [Request -> SUBSET Id]

Init ==
    /\ users = [i \in Id |-> NoUser]
    /\ used = {}
    /\ via = [i \in Id |-> NoInvite]
    /\ invites = [v \in Invite |-> [status |-> "none", email |-> NoEmail, role |-> "viewer"]]
    /\ pc = [r \in Request |-> "idle"]
    /\ req = [r \in Request |-> NoReq]
    /\ snap = [r \in Request |-> {}]

-----------------------------------------------------------------------------
\* Helpers.

Present(i) == users[i].email # NoEmail
Owner(i) == Present(i) /\ users[i].role = "owner"
HasAccount(e) == e # NoEmail /\ \E i \in Id : users[i].email = e

\* owner_count <= 1
LastOwner == \A i, j \in Id : Owner(i) /\ Owner(j) => i = j

Goto(r, s) == pc' = [pc EXCEPT ![r] = s]

\* The answer is sent, an error or not.
End(r) ==
    /\ pc' = [pc EXCEPT ![r] = "idle"]
    /\ req' = [req EXCEPT ![r] = NoReq]
    /\ snap' = [snap EXCEPT ![r] = {}]

\* The request goes on at s if b, and ends otherwise.
Continue(r, b, s) == IF b THEN Goto(r, s) /\ UNCHANGED <<req, snap>> ELSE End(r)

\* INSERT INTO users: a new id.
Insert(e, role, boot, v) ==
    \E i \in Id \ used :
        /\ users' = [users EXCEPT ![i] = [email |-> e, role |-> role, boot |-> boot]]
        /\ used' = used \cup {i}
        /\ via' = [via EXCEPT ![i] = v]

-----------------------------------------------------------------------------
\* The request arrives.

Start(r, s, q) ==
    /\ pc[r] = "idle"
    /\ Goto(r, s)
    /\ req' = [req EXCEPT ![r] = q]
    /\ UNCHANGED <<tables, snap>>

Underway(kinds) == \E s \in Request : req[s].kind \in kinds

\* PATCH and DELETE /api/users/:id, of a member the page listed.
StartUpdate(r, e, i, role) ==
    /\ HasAccount(e) /\ Present(i)
    /\ Overlap \/ ~Underway({"transfer"})
    /\ Start(r, "auth", [NoReq EXCEPT !.kind = "patch", !.actor = e, !.tgt = i, !.role = role])

StartRemove(r, e, i) ==
    /\ HasAccount(e) /\ Present(i)
    /\ Overlap \/ ~Underway({"transfer"})
    /\ Start(r, "auth", [NoReq EXCEPT !.kind = "remove", !.actor = e, !.tgt = i])

\* POST /api/users/:id/transfer-bootstrap
StartTransfer(r, e, i) ==
    /\ HasAccount(e) /\ Present(i)
    /\ Overlap \/ ~Underway({"patch", "remove"})
    /\ Start(r, "auth", [NoReq EXCEPT !.kind = "transfer", !.actor = e, !.tgt = i])

\* POST /api/setup/admin, by a member or, nobody being signed in, NoEmail.
StartSetup(r, e, mail) ==
    /\ e = NoEmail \/ HasAccount(e)
    /\ Start(r, "exists", [NoReq EXCEPT !.kind = "setup", !.actor = e, !.mail = mail])

\* POST /api/users/invites, for an address or for whoever has the link.
StartInvite(r, e, mail, role) ==
    /\ HasAccount(e)
    /\ Start(r, "auth", [NoReq EXCEPT !.kind = "invite", !.actor = e, !.mail = mail, !.role = role])

\* DELETE /api/users/invites/:id
StartRevoke(r, e, v) ==
    /\ HasAccount(e) /\ invites[v].status # "none"
    /\ Start(r, "auth", [NoReq EXCEPT !.kind = "revoke", !.actor = e, !.inv = v])

\* POST /api/auth/invite/:token/accept.  get_pending_by_token has found the invite;
\* a locked one names the address.
StartAccept(r, v, mail) ==
    /\ invites[v].status = "pending"
    /\ invites[v].email \in {NoEmail, mail}
    /\ Start(r, "free", [NoReq EXCEPT !.kind = "accept", !.inv = v, !.mail = mail])

\* GET /api/auth/oidc/callback: the provider vouches for the address.
StartOidc(r, mail) == Start(r, "lookup", [NoReq EXCEPT !.kind = "oidc", !.mail = mail])

-----------------------------------------------------------------------------
\* require_owner: the role of the actor as it is now.

AfterAuth(kind) ==
    CASE kind \in {"patch", "remove"} -> "target"
      [] kind = "transfer" -> "actor"
      [] kind = "setup" -> "insert"
      [] kind = "invite" -> "free"
      [] kind = "revoke" -> "revoke"

Authorise(r) ==
    /\ pc[r] = "auth"
    /\ Continue(r, \E i \in Id : users[i].email = req[r].actor /\ Owner(i), AfterAuth(req[r].kind))
    /\ UNCHANGED tables

-----------------------------------------------------------------------------
\* update_user and remove_user: the target as it is now decides what is checked.

\* Mutant: the bootstrap account may be demoted like any other.
AnyTarget(r) ==
    /\ pc[r] = "target" /\ req[r].kind = "patch"
    /\ Continue(r, Present(req[r].tgt),
                IF Owner(req[r].tgt) /\ req[r].role # "owner" THEN "count" ELSE "write")
    /\ UNCHANGED tables

TargetToUpdate(r) ==
    /\ pc[r] = "target" /\ req[r].kind = "patch"
    /\ LET i == req[r].tgt
           demoted == req[r].role # "owner"
       IN  Continue(r, Present(i) /\ ~(users[i].boot /\ demoted),
                    IF Owner(i) /\ demoted THEN "count" ELSE "write")
    /\ UNCHANGED tables

TargetToRemove(r) ==
    /\ pc[r] = "target" /\ req[r].kind = "remove"
    /\ LET i == req[r].tgt
       IN  IF ~Present(i) \/ users[i].boot THEN End(r)
           ELSE /\ req' = [req EXCEPT ![r].mail = users[i].email]
                /\ Goto(r, IF Owner(i) THEN "count"
                           ELSE IF users[i].email = req[r].actor THEN "countSelf" ELSE "write")
                /\ UNCHANGED snap
    /\ UNCHANGED tables

\* owner_count: not the last owner; asked once more of who removes himself.
CountOwners(r) ==
    /\ pc[r] = "count"
    /\ Continue(r, ~LastOwner,
                IF req[r].kind = "patch" THEN "write"
                ELSE IF req[r].mail = req[r].actor THEN "countSelf" ELSE "write")
    /\ UNCHANGED tables

CountForSelf(r) ==
    /\ pc[r] = "countSelf"
    /\ Continue(r, ~LastOwner, "write")
    /\ UNCHANGED tables

\* update_user_role: by id alone.
UpdateRole(r) ==
    /\ pc[r] = "write" /\ req[r].kind = "patch"
    /\ users' = IF Present(req[r].tgt) THEN [users EXCEPT ![req[r].tgt].role = req[r].role] ELSE users
    /\ End(r)
    /\ UNCHANGED <<used, via, invites>>

\* delete_user: by id alone.
DeleteUser(r) ==
    /\ pc[r] = "write" /\ req[r].kind = "remove"
    /\ users' = [users EXCEPT ![req[r].tgt] = NoUser]
    /\ End(r)
    /\ UNCHANGED <<used, via, invites>>

-----------------------------------------------------------------------------
\* transfer_bootstrap

\* The actor's own row says whether he may.
ReadActor(r) ==
    /\ pc[r] = "actor"
    /\ IF \E i \in Id : users[i].email = req[r].actor /\ users[i].boot
       THEN \E i \in Id :
               /\ users[i].email = req[r].actor /\ users[i].boot
               /\ req' = [req EXCEPT ![r].self = i]
               /\ Goto(r, "target")
               /\ UNCHANGED snap
       ELSE End(r)
    /\ UNCHANGED tables

TargetOfTransfer(r) ==
    /\ pc[r] = "target" /\ req[r].kind = "transfer"
    /\ Continue(r, req[r].tgt # req[r].self /\ Owner(req[r].tgt), "begin")
    /\ UNCHANGED tables

\* The transaction: the first UPDATE takes the rows that are bootstrap when it
\* starts, and may wait for the lock on one; the rest is done when it commits.
BeginTransfer(r) ==
    /\ pc[r] = "begin"
    /\ snap' = [snap EXCEPT ![r] = {i \in Id : users[i].boot}]
    /\ Goto(r, "commit")
    /\ UNCHANGED <<tables, req>>

CommitTransfer(r) ==
    /\ pc[r] = "commit"
    /\ users' = IF Present(req[r].tgt)
                THEN [i \in Id |-> IF i = req[r].tgt
                                   THEN [users[i] EXCEPT !.boot = TRUE, !.role = "owner"]
                                   ELSE IF i \in snap[r] THEN [users[i] EXCEPT !.boot = FALSE]
                                   ELSE users[i]]
                ELSE users
    /\ End(r)
    /\ UNCHANGED <<used, via, invites>>

-----------------------------------------------------------------------------
\* setup_admin: the first owner is asked for nothing and becomes bootstrap.

OwnerExists(r) ==
    /\ pc[r] = "exists"
    /\ Goto(r, IF \E i \in Id : Owner(i) THEN "auth" ELSE "insertFirst")
    /\ UNCHANGED <<tables, req, snap>>

\* Mutants: the role of version 11; the first owner is an owner like any other.
InsertLegacy(r) ==
    /\ pc[r] \in {"insert", "insertFirst"}
    /\ IF HasAccount(req[r].mail) THEN UNCHANGED <<users, used, via>>
       ELSE Insert(req[r].mail, "admin", pc[r] = "insertFirst", NoInvite)
    /\ End(r)
    /\ UNCHANGED invites
InsertPlain(r) ==
    /\ pc[r] \in {"insert", "insertFirst"}
    /\ IF HasAccount(req[r].mail) THEN UNCHANGED <<users, used, via>>
       ELSE Insert(req[r].mail, "owner", FALSE, NoInvite)
    /\ End(r)
    /\ UNCHANGED invites

\* An address that is taken violates UNIQUE.
InsertOwner(r) ==
    /\ pc[r] \in {"insert", "insertFirst"}
    /\ IF HasAccount(req[r].mail) THEN UNCHANGED <<users, used, via>>
       ELSE Insert(req[r].mail, "owner", pc[r] = "insertFirst", NoInvite)
    /\ End(r)
    /\ UNCHANGED invites

-----------------------------------------------------------------------------
\* Invites.

\* get_user_by_email: nobody has the address yet.
AddressFree(r) ==
    /\ pc[r] = "free"
    /\ Continue(r, ~HasAccount(req[r].mail), IF req[r].kind = "invite" THEN "create" ELSE "claim")
    /\ UNCHANGED tables

CreateInvite(r) ==
    /\ pc[r] = "create"
    /\ \E v \in Invite :
          /\ invites[v].status = "none"
          /\ invites' = [invites EXCEPT ![v] =
                            [status |-> "pending", email |-> req[r].mail, role |-> req[r].role]]
    /\ End(r)
    /\ UNCHANGED <<users, used, via>>

\* DELETE ... WHERE accepted_at IS NULL
RevokeInvite(r) ==
    /\ pc[r] = "revoke"
    /\ invites' = [invites EXCEPT ![req[r].inv].status = IF @ = "pending" THEN "gone" ELSE @]
    /\ End(r)
    /\ UNCHANGED <<users, used, via>>

Expire(v) ==
    /\ invites[v].status = "pending"
    /\ invites' = [invites EXCEPT ![v].status = "gone"]
    /\ UNCHANGED <<users, used, via, pc, req, snap>>

\* Mutant: accept_local trusts the invite it was handed.
ClaimUnchecked(r) ==
    /\ pc[r] = "claim"
    /\ IF HasAccount(req[r].mail)
       THEN UNCHANGED tables
       ELSE /\ invites' = [invites EXCEPT ![req[r].inv].status = "accepted"]
            /\ Insert(req[r].mail, invites[req[r].inv].role, FALSE, req[r].inv)
    /\ End(r)

\* accept_local: claims the invite and inserts the user, or does neither.
ClaimInvite(r) ==
    /\ pc[r] = "claim"
    /\ IF invites[req[r].inv].status # "pending" \/ HasAccount(req[r].mail)
       THEN UNCHANGED tables
       ELSE /\ invites' = [invites EXCEPT ![req[r].inv].status = "accepted"]
            /\ Insert(req[r].mail, invites[req[r].inv].role, FALSE, req[r].inv)
    /\ End(r)

-----------------------------------------------------------------------------
\* Single sign-on.

LookUp(r) ==
    /\ pc[r] = "lookup"
    /\ Continue(r, ~HasAccount(req[r].mail), "redeem")
    /\ UNCHANGED tables

PendingFor(e) == {v \in Invite : invites[v].status = "pending" /\ invites[v].email = e}

\* accept_oidc: a pending invite for the address is consumed, even by a user who
\* exists by now.  Which of several is left open; the code takes the newest.
RedeemInvite(r) ==
    /\ pc[r] = "redeem"
    /\ \E v \in PendingFor(req[r].mail) :
          /\ invites' = [invites EXCEPT ![v].status = "accepted"]
          /\ IF HasAccount(req[r].mail) THEN UNCHANGED <<users, used, via>>
             ELSE Insert(req[r].mail, invites[v].role, FALSE, v)
    /\ End(r)

\* The address was taken between its SELECT and its INSERT: nothing is kept.
RedeemConflict(r) ==
    /\ pc[r] = "redeem"
    /\ PendingFor(req[r].mail) # {} /\ HasAccount(req[r].mail)
    /\ End(r)
    /\ UNCHANGED tables

NoInviteFound(r) ==
    /\ pc[r] = "redeem"
    /\ PendingFor(req[r].mail) = {}
    /\ Continue(r, OpenJoin, "join")
    /\ UNCHANGED tables

\* upsert_oidc_user
JoinLookUp(r) ==
    /\ pc[r] = "join"
    /\ Continue(r, ~HasAccount(req[r].mail), "joinInsert")
    /\ UNCHANGED tables

JoinInsert(r) ==
    /\ pc[r] = "joinInsert"
    /\ IF HasAccount(req[r].mail) THEN UNCHANGED <<users, used, via>>
       ELSE Insert(req[r].mail, "viewer", FALSE, NoInvite)
    /\ End(r)
    /\ UNCHANGED invites

-----------------------------------------------------------------------------
Arrive(r) ==
    \/ \E e \in Email, i \in Id, role \in Role : StartUpdate(r, e, i, role)
    \/ \E e \in Email, i \in Id : StartRemove(r, e, i) \/ StartTransfer(r, e, i)
    \/ \E e \in Email \cup {NoEmail}, mail \in Email : StartSetup(r, e, mail)
    \/ \E e \in Email, mail \in Email \cup {NoEmail}, role \in Role : StartInvite(r, e, mail, role)
    \/ \E e \in Email, v \in Invite : StartRevoke(r, e, v)
    \/ \E v \in Invite, mail \in Email : StartAccept(r, v, mail)
    \/ \E mail \in Email : StartOidc(r, mail)

Serve(r) ==
    \/ Authorise(r)
    \/ TargetToUpdate(r) \/ TargetToRemove(r) \/ CountOwners(r) \/ CountForSelf(r)
    \/ UpdateRole(r) \/ DeleteUser(r)
    \/ ReadActor(r) \/ TargetOfTransfer(r) \/ BeginTransfer(r) \/ CommitTransfer(r)
    \/ OwnerExists(r) \/ InsertOwner(r)
    \/ AddressFree(r) \/ CreateInvite(r) \/ RevokeInvite(r) \/ ClaimInvite(r)
    \/ LookUp(r) \/ RedeemInvite(r) \/ RedeemConflict(r) \/ NoInviteFound(r) \/ JoinLookUp(r) \/ JoinInsert(r)

Next ==
    \/ \E r \in Request : Arrive(r) \/ Serve(r)
    \/ \E v \in Invite : Expire(v)

Spec == Init /\ [][Next]_vars

-----------------------------------------------------------------------------
\* Properties.

\* Wherever there is an owner there is a bootstrap owner, the one who can hand
\* that role on: no interleaving of transfers, removals and demotions loses him.
Founded == \E i \in Id : Owner(i) /\ users[i].boot
SuperuserExists == (\E i \in Id : Owner(i)) => Founded

\* "That account cannot be demoted or removed until bootstrap is transferred":
\* no step takes the row or the role from who is bootstrap before it.
BootstrapProtected == [][\A i \in Id : users[i].boot => Owner(i)']_vars

\* An invite makes at most one account, and none once it was revoked or expired.
InviteUsedOnce ==
    /\ \A i, j \in Id : via[i] # NoInvite /\ via[i] = via[j] => i = j
    /\ \A i \in Id : via[i] # NoInvite => invites[via[i]].status = "accepted"

-----------------------------------------------------------------------------
\* The inductive invariant.

\* Where a request of each kind may be.
Path(kind, s) ==
    \/ kind = "none" /\ s = "idle"
    \/ kind = "patch" /\ s \in {"auth", "target", "count", "write"}
    \/ kind = "remove" /\ s \in {"auth", "target", "count", "countSelf", "write"}
    \/ kind = "transfer" /\ s \in {"auth", "actor", "target", "begin", "commit"}
    \/ kind = "setup" /\ s \in {"exists", "auth", "insert", "insertFirst"}
    \/ kind = "invite" /\ s \in {"auth", "free", "create"}
    \/ kind = "revoke" /\ s \in {"auth", "revoke"}
    \/ kind = "accept" /\ s \in {"free", "claim"}
    \/ kind = "oidc" /\ s \in {"lookup", "redeem", "join", "joinInsert"}

\* What a request at s needs to name, it names; its target was a member once.
Shape(s, q) ==
    /\ Path(q.kind, s)
    /\ q.kind \in {"patch", "remove", "transfer"} => q.tgt \in used
    /\ q.kind \in {"revoke", "accept"} => q.inv \in Invite
    /\ q.kind \in {"setup", "accept", "oidc"} => q.mail \in Email

\* An id that was not given out has left no trace.
FreshIds == \A i \in Id \ used : users[i] = NoUser /\ via[i] = NoInvite

\* No transfer is under way beside a role change or a removal.
Apart ==
    \A r, s \in Request : req[r].kind = "transfer" => req[s].kind \notin {"patch", "remove"}

\* A request that got past reading its target may demote or remove it: it is not
\* bootstrap, and stays so.
MayUpdate(s, q) ==
    /\ s \in {"count", "countSelf", "write"}
    /\ q.kind = "remove" \/ q.role # "owner"
    => ~users[q.tgt].boot

BootIsOwner == \A i \in Id : users[i].boot => Owner(i)

\* Whatever needs an owner comes after the first, bootstrap one.
PastFounding ==
    {"actor", "target", "count", "countSelf", "write", "begin", "commit", "insert", "free",
     "create", "revoke", "claim"}
FoundedFirst == SuperuserExists /\ \A v \in Invite : invites[v].status # "none" => Founded

Sound == TypeOK /\ (\A r \in Request : Shape(pc[r], req[r])) /\ FreshIds /\ InviteUsedOnce
Guarded ==
    /\ Apart /\ BootIsOwner /\ FoundedFirst
    /\ \A r \in Request : MayUpdate(pc[r], req[r]) /\ (pc[r] \in PastFounding => Founded)
IInv == Sound /\ (Overlap \/ Guarded)
=============================================================================
