--------------------------- MODULE AccountsProofs ---------------------------
(***************************************************************************)
(* Proofs about Accounts, for every number of addresses, ids, invites and  *)
(* requests: IInv is inductive; with it an invite makes at most one        *)
(* account and, as long as no transfer overlaps a role change or a         *)
(* removal, the bootstrap owner is neither lost nor demoted.               *)
(***************************************************************************)
EXTENDS Accounts, TLAPS

-----------------------------------------------------------------------------
\* What a request reads.

\* The steps that write no table.
Reads(r) ==
    \/ Authorise(r)
    \/ TargetToUpdate(r) \/ TargetToRemove(r) \/ CountOwners(r) \/ CountForSelf(r)
    \/ ReadActor(r) \/ TargetOfTransfer(r) \/ BeginTransfer(r) \/ OwnerExists(r)
    \/ AddressFree(r) \/ LookUp(r) \/ RedeemConflict(r) \/ NoInviteFound(r) \/ JoinLookUp(r)

\* Request r goes on at s, as q.
Moves(r, s, q) == pc' = [pc EXCEPT ![r] = s] /\ req' = [req EXCEPT ![r] = q]

\* A request at s, as q, is one that IInv allows.
Sane(s, q) == s \in Pc /\ q \in Req /\ Shape(s, q)
Safe(s, q) == MayUpdate(s, q) /\ (s \in PastFounding => Founded)

\* Where a request that ends is.
LEMMA AtRest == Sane("idle", NoReq) /\ Safe("idle", NoReq)
  BY RoleAssumption DEF Sane, Safe, MayUpdate, PastFounding, Pc, Req, NoReq, Kind, Shape, Path

\* An end is a move to rest.
LEMMA EndMoves ==
  ASSUME TypeOK, NEW r \in Request, End(r)
  PROVE  Moves(r, "idle", NoReq) /\ snap' \in [Request -> SUBSET Id]
  BY DEF TypeOK, End, Moves

\* A request that goes on as it is, or ends.
LEMMA ContinueMoves ==
  ASSUME TypeOK, NEW r \in Request, NEW b \in BOOLEAN, NEW s, Continue(r, b, s)
  PROVE  /\ snap' \in [Request -> SUBSET Id]
         /\ \/ Moves(r, "idle", NoReq)
            \/ b /\ Moves(r, s, req[r])
<1>1. CASE b
  BY <1>1 DEF TypeOK, Continue, Goto, Moves
<1>2. CASE ~b
  BY <1>2, EndMoves DEF Continue
<1> QED
  BY <1>1, <1>2

\* A request that arrives is well formed, needs no owner yet unless there is one,
\* and keeps transfers apart from role changes and removals.
Distinct(q) ==
    /\ q.kind = "transfer" => \A s \in Request : req[s].kind \notin {"patch", "remove"}
    /\ q.kind \in {"patch", "remove"} => \A s \in Request : req[s].kind # "transfer"

LEMMA Arrivals ==
  ASSUME Sound, NEW r \in Request, Arrive(r)
  PROVE  /\ UNCHANGED tables
         /\ snap' \in [Request -> SUBSET Id]
         /\ \E s \in Pc, q \in Req :
              /\ Moves(r, s, q) /\ Sane(s, q)
              /\ ~Overlap /\ Guarded => Safe(s, q) /\ Distinct(q)
<1> DEFINE Fits(s, q) ==
      /\ Moves(r, s, q) /\ Sane(s, q)
      /\ ~Overlap /\ Guarded => Safe(s, q) /\ Distinct(q)
<1> USE DEF Sound, TypeOK
<1>1. ASSUME NEW e \in Email, NEW i \in Id, NEW role \in Role, StartUpdate(r, e, i, role)
      PROVE  \E s \in Pc, q \in Req : Fits(s, q)
  <2> DEFINE q == [NoReq EXCEPT !.kind = "patch", !.actor = e, !.tgt = i, !.role = role]
  <2>1. i \in used
    BY <1>1 DEF StartUpdate, Present, FreshIds, NoUser
  <2>2. q \in Req /\ q.kind = "patch" /\ q.tgt = i
    BY DEF Req, NoReq, Kind
  <2>3. Moves(r, "auth", q) /\ (Overlap \/ ~Underway({"transfer"}))
    BY <1>1 DEF StartUpdate, Start, Goto, Moves
  <2> HIDE DEF q
  <2>4. Fits("auth", q)
    BY <2>1, <2>2, <2>3 DEF Sane, Safe, MayUpdate, PastFounding, Distinct, Underway, Shape, Path, Pc
  <2> QED
    BY <2>2, <2>4 DEF Pc
<1>2. ASSUME NEW e \in Email, NEW i \in Id, StartRemove(r, e, i)
      PROVE  \E s \in Pc, q \in Req : Fits(s, q)
  <2> DEFINE q == [NoReq EXCEPT !.kind = "remove", !.actor = e, !.tgt = i]
  <2>1. i \in used
    BY <1>2 DEF StartRemove, Present, FreshIds, NoUser
  <2>2. q \in Req /\ q.kind = "remove" /\ q.tgt = i
    BY RoleAssumption DEF Req, NoReq, Kind
  <2>3. Moves(r, "auth", q) /\ (Overlap \/ ~Underway({"transfer"}))
    BY <1>2 DEF StartRemove, Start, Goto, Moves
  <2> HIDE DEF q
  <2>4. Fits("auth", q)
    BY <2>1, <2>2, <2>3 DEF Sane, Safe, MayUpdate, PastFounding, Distinct, Underway, Shape, Path, Pc
  <2> QED
    BY <2>2, <2>4 DEF Pc
<1>3. ASSUME NEW e \in Email, NEW i \in Id, StartTransfer(r, e, i)
      PROVE  \E s \in Pc, q \in Req : Fits(s, q)
  <2> DEFINE q == [NoReq EXCEPT !.kind = "transfer", !.actor = e, !.tgt = i]
  <2>1. i \in used
    BY <1>3 DEF StartTransfer, Present, FreshIds, NoUser
  <2>2. q \in Req /\ q.kind = "transfer" /\ q.tgt = i
    BY RoleAssumption DEF Req, NoReq, Kind
  <2>3. Moves(r, "auth", q) /\ (Overlap \/ ~Underway({"patch", "remove"}))
    BY <1>3 DEF StartTransfer, Start, Goto, Moves
  <2> HIDE DEF q
  <2>4. Fits("auth", q)
    BY <2>1, <2>2, <2>3 DEF Sane, Safe, MayUpdate, PastFounding, Distinct, Underway, Shape, Path, Pc
  <2> QED
    BY <2>2, <2>4 DEF Pc
<1>4. ASSUME NEW e \in Email \cup {NoEmail}, NEW mail \in Email, StartSetup(r, e, mail)
      PROVE  \E s \in Pc, q \in Req : Fits(s, q)
  <2> DEFINE q == [NoReq EXCEPT !.kind = "setup", !.actor = e, !.mail = mail]
  <2>1. q \in Req /\ q.kind = "setup" /\ q.mail = mail
    BY RoleAssumption DEF Req, NoReq, Kind
  <2>2. Moves(r, "exists", q)
    BY <1>4 DEF StartSetup, Start, Goto, Moves
  <2> HIDE DEF q
  <2>3. Fits("exists", q)
    BY <2>1, <2>2 DEF Sane, Safe, MayUpdate, PastFounding, Distinct, Shape, Path, Pc
  <2> QED
    BY <2>1, <2>3 DEF Pc
<1>5. ASSUME NEW e \in Email, NEW mail \in Email \cup {NoEmail}, NEW role \in Role,
             StartInvite(r, e, mail, role)
      PROVE  \E s \in Pc, q \in Req : Fits(s, q)
  <2> DEFINE q == [NoReq EXCEPT !.kind = "invite", !.actor = e, !.mail = mail, !.role = role]
  <2>1. q \in Req /\ q.kind = "invite"
    BY DEF Req, NoReq, Kind
  <2>2. Moves(r, "auth", q)
    BY <1>5 DEF StartInvite, Start, Goto, Moves
  <2> HIDE DEF q
  <2>3. Fits("auth", q)
    BY <2>1, <2>2 DEF Sane, Safe, MayUpdate, PastFounding, Distinct, Shape, Path, Pc
  <2> QED
    BY <2>1, <2>3 DEF Pc
<1>6. ASSUME NEW e \in Email, NEW v \in Invite, StartRevoke(r, e, v)
      PROVE  \E s \in Pc, q \in Req : Fits(s, q)
  <2> DEFINE q == [NoReq EXCEPT !.kind = "revoke", !.actor = e, !.inv = v]
  <2>1. q \in Req /\ q.kind = "revoke" /\ q.inv = v
    BY RoleAssumption DEF Req, NoReq, Kind
  <2>2. Moves(r, "auth", q)
    BY <1>6 DEF StartRevoke, Start, Goto, Moves
  <2> HIDE DEF q
  <2>3. Fits("auth", q)
    BY <2>1, <2>2 DEF Sane, Safe, MayUpdate, PastFounding, Distinct, Shape, Path, Pc
  <2> QED
    BY <2>1, <2>3 DEF Pc
<1>7. ASSUME NEW v \in Invite, NEW mail \in Email, StartAccept(r, v, mail)
      PROVE  \E s \in Pc, q \in Req : Fits(s, q)
  <2> DEFINE q == [NoReq EXCEPT !.kind = "accept", !.inv = v, !.mail = mail]
  <2>1. q \in Req /\ q.kind = "accept" /\ q.inv = v /\ q.mail = mail
    BY RoleAssumption DEF Req, NoReq, Kind
  <2>2. Moves(r, "free", q) /\ invites[v].status # "none"
    BY <1>7 DEF StartAccept, Start, Goto, Moves
  <2> HIDE DEF q
  <2>3. Guarded => Founded
    BY <2>2 DEF Guarded, FoundedFirst
  <2>4. Fits("free", q)
    BY <2>1, <2>2, <2>3 DEF Sane, Safe, MayUpdate, PastFounding, Distinct, Shape, Path, Pc
  <2> QED
    BY <2>1, <2>4 DEF Pc
<1>8. ASSUME NEW mail \in Email, StartOidc(r, mail)
      PROVE  \E s \in Pc, q \in Req : Fits(s, q)
  <2> DEFINE q == [NoReq EXCEPT !.kind = "oidc", !.mail = mail]
  <2>1. q \in Req /\ q.kind = "oidc" /\ q.mail = mail
    BY RoleAssumption DEF Req, NoReq, Kind
  <2>2. Moves(r, "lookup", q)
    BY <1>8 DEF StartOidc, Start, Goto, Moves
  <2> HIDE DEF q
  <2>3. Fits("lookup", q)
    BY <2>1, <2>2 DEF Sane, Safe, MayUpdate, PastFounding, Distinct, Shape, Path, Pc
  <2> QED
    BY <2>1, <2>3 DEF Pc
<1>9. UNCHANGED <<tables, snap>>
  BY DEF Arrive, StartUpdate, StartRemove, StartTransfer, StartSetup, StartInvite, StartRevoke,
         StartAccept, StartOidc, Start
<1> HIDE DEF Fits
<1>10. \E s \in Pc, q \in Req : Fits(s, q)
  BY <1>1, <1>2, <1>3, <1>4, <1>5, <1>6, <1>7, <1>8 DEF Arrive
<1> QED
  BY <1>9, <1>10 DEF Fits

\* A request that reads goes on where what it read allows, or ends.
LEMMA Reading ==
  ASSUME Sound, NEW r \in Request, Reads(r)
  PROVE  /\ UNCHANGED tables
         /\ snap' \in [Request -> SUBSET Id]
         /\ \E s \in Pc, q \in Req :
              /\ Moves(r, s, q) /\ Sane(s, q) /\ q.kind \in {req[r].kind, "none"}
              /\ Guarded => Safe(s, q)
<1> DEFINE Fits(s, q) ==
      /\ Moves(r, s, q) /\ Sane(s, q) /\ q.kind \in {req[r].kind, "none"}
      /\ Guarded => Safe(s, q)
           Leads == \E s \in Pc, q \in Req : Fits(s, q)
<1> USE DEF Sound, TypeOK
<1>0. Shape(pc[r], req[r]) /\ (Guarded => MayUpdate(pc[r], req[r]))
  BY DEF Guarded
<1>1. ASSUME Moves(r, "idle", NoReq) PROVE Leads
  BY <1>1, AtRest DEF Sane, NoReq
<1>2. ASSUME NEW s \in Pc, NEW b \in BOOLEAN, Continue(r, b, s),
             b => Sane(s, req[r]) /\ (Guarded => Safe(s, req[r]))
      PROVE  Leads
  <2>1. CASE Moves(r, "idle", NoReq)
    BY <2>1, <1>1, <1>2, ContinueMoves
  <2>2. CASE b /\ Moves(r, s, req[r])
    BY <2>2, <1>2, ContinueMoves
  <2> QED
    BY <2>1, <2>2, <1>2, ContinueMoves
<1>3. UNCHANGED tables
  BY DEF Reads, Authorise, TargetToUpdate, TargetToRemove, CountOwners, CountForSelf, ReadActor,
         TargetOfTransfer, BeginTransfer, OwnerExists, AddressFree, LookUp, RedeemConflict,
         NoInviteFound, JoinLookUp
<1>4. snap' \in [Request -> SUBSET Id]
  <2>1. CASE End(r)
    BY <2>1, EndMoves
  <2>2. CASE snap' = snap
    BY <2>2
  <2>3. CASE BeginTransfer(r)
    BY <2>3 DEF BeginTransfer
  <2>4. End(r) \/ snap' = snap \/ BeginTransfer(r)
    BY DEF Reads, Authorise, TargetToUpdate, TargetToRemove, CountOwners, CountForSelf, ReadActor,
           TargetOfTransfer, OwnerExists, AddressFree, LookUp, RedeemConflict, NoInviteFound,
           JoinLookUp, Continue
  <2> QED
    BY <2>1, <2>2, <2>3, <2>4
<1> SUFFICES Leads
  BY <1>3, <1>4
<1> HIDE DEF Leads
<1>5. CASE Authorise(r)
  <2> DEFINE b == \E i \in Id : users[i].email = req[r].actor /\ Owner(i)
             s == AfterAuth(req[r].kind)
  <2>1. pc[r] = "auth" /\ Continue(r, b, s)
    BY <1>5 DEF Authorise
  <2>2. s \in Pc /\ Sane(s, req[r]) /\ s \notin {"count", "countSelf", "write"}
    BY <1>0, <2>1 DEF Shape, Path, AfterAuth, Sane, Pc
  <2>3. b /\ Guarded => Founded
    BY DEF Guarded, FoundedFirst, SuperuserExists
  <2>4. b => Sane(s, req[r]) /\ (Guarded => Safe(s, req[r]))
    BY <2>2, <2>3 DEF Safe, MayUpdate
  <2>5. b \in BOOLEAN
    OBVIOUS
  <2> HIDE DEF b, s
  <2> QED
    BY <2>1, <2>2, <2>4, <2>5, <1>2
<1>6. CASE TargetToUpdate(r)
  <2> DEFINE i == req[r].tgt
             demoted == req[r].role # "owner"
             b == Present(i) /\ ~(users[i].boot /\ demoted)
             s == IF Owner(i) /\ demoted THEN "count" ELSE "write"
  <2>1. pc[r] = "target" /\ req[r].kind = "patch" /\ Continue(r, b, s)
    BY <1>6 DEF TargetToUpdate
  <2>2. s \in Pc /\ Sane(s, req[r])
    BY <1>0, <2>1 DEF Shape, Path, Sane, Pc
  <2>3. b => (Guarded => Safe(s, req[r]))
    BY <2>1 DEF Safe, MayUpdate, Guarded, PastFounding
  <2>4. b \in BOOLEAN
    OBVIOUS
  <2> HIDE DEF b, s
  <2> QED
    BY <2>1, <2>2, <2>3, <2>4, <1>2
<1>7. CASE TargetToRemove(r)
  <2> DEFINE i == req[r].tgt
             q == [req[r] EXCEPT !.mail = users[i].email]
             s == IF Owner(i) THEN "count"
                  ELSE IF users[i].email = req[r].actor THEN "countSelf" ELSE "write"
  <2>1. pc[r] = "target" /\ req[r].kind = "remove"
    BY <1>7 DEF TargetToRemove
  <2>2. i \in Id
    BY <2>1, <1>0 DEF Shape
  <2>3. CASE ~Present(i) \/ users[i].boot
    BY <2>3, <1>7, <1>1, EndMoves DEF TargetToRemove
  <2>4. CASE Present(i) /\ ~users[i].boot
    <3>1. Moves(r, s, q) /\ snap' = snap
      BY <2>4, <1>7 DEF TargetToRemove, Moves, Goto
    <3>2. q \in Req /\ q.kind = req[r].kind /\ q.tgt = i
      BY <2>2 DEF Req, User
    <3>3. s \in {"count", "countSelf", "write"}
      OBVIOUS
    <3> HIDE DEF s, q
    <3>4. Sane(s, q)
      BY <3>2, <3>3, <2>1, <1>0 DEF Sane, Shape, Path, Pc
    <3>5. Guarded => Safe(s, q)
      BY <2>1, <2>4, <3>2 DEF Safe, MayUpdate, Guarded, PastFounding
    <3> QED
      BY <3>1, <3>2, <3>4, <3>5 DEF Sane, Leads
  <2> QED
    BY <2>3, <2>4
<1>8. CASE CountOwners(r)
  <2> DEFINE s == IF req[r].kind = "patch" THEN "write"
                  ELSE IF req[r].mail = req[r].actor THEN "countSelf" ELSE "write"
  <2>1. pc[r] = "count" /\ Continue(r, ~LastOwner, s)
    BY <1>8 DEF CountOwners
  <2>2. s \in Pc /\ Sane(s, req[r])
    BY <1>0, <2>1 DEF Shape, Path, Sane, Pc
  <2>3. Guarded => Safe(s, req[r])
    BY <2>1, <1>0 DEF Safe, MayUpdate, Guarded, PastFounding
  <2> HIDE DEF s
  <2> QED
    BY <2>1, <2>2, <2>3, <1>2 DEF LastOwner
<1>9. CASE CountForSelf(r)
  <2>1. pc[r] = "countSelf" /\ Continue(r, ~LastOwner, "write")
    BY <1>9 DEF CountForSelf
  <2>2. Sane("write", req[r])
    BY <1>0, <2>1 DEF Shape, Path, Sane, Pc
  <2>3. Guarded => Safe("write", req[r])
    BY <2>1, <1>0 DEF Safe, MayUpdate, Guarded, PastFounding
  <2> QED
    BY <2>1, <2>2, <2>3, <1>2 DEF LastOwner, Pc
<1>10. CASE ReadActor(r)
  <2>1. pc[r] = "actor"
    BY <1>10 DEF ReadActor
  <2>2. CASE End(r)
    BY <2>2, <1>1, EndMoves
  <2>3. ASSUME NEW i \in Id, req' = [req EXCEPT ![r].self = i], Goto(r, "target"), snap' = snap
        PROVE  Leads
    <3> DEFINE q == [req[r] EXCEPT !.self = i]
    <3>1. q \in Req /\ q.kind = req[r].kind /\ q.tgt = req[r].tgt
      BY DEF Req
    <3>2. Moves(r, "target", q)
      BY <2>3 DEF Moves, Goto
    <3> HIDE DEF q
    <3>3. Sane("target", q)
      BY <3>1, <2>1, <1>0 DEF Sane, Shape, Path, Pc
    <3>4. Guarded => Safe("target", q)
      BY <2>1 DEF Safe, MayUpdate, Guarded, PastFounding
    <3> QED
      BY <3>1, <3>2, <3>3, <3>4 DEF Sane, Leads
  <2>4. End(r) \/ \E i \in Id : req' = [req EXCEPT ![r].self = i] /\ Goto(r, "target") /\ snap' = snap
    BY <1>10 DEF ReadActor
  <2> QED
    BY <2>2, <2>3, <2>4, EndMoves
<1>11. CASE TargetOfTransfer(r)
  <2> DEFINE b == req[r].tgt # req[r].self /\ Owner(req[r].tgt)
  <2>1. pc[r] = "target" /\ req[r].kind = "transfer" /\ Continue(r, b, "begin")
    BY <1>11 DEF TargetOfTransfer
  <2>2. Sane("begin", req[r])
    BY <1>0, <2>1 DEF Shape, Path, Sane, Pc
  <2>3. Guarded => Safe("begin", req[r])
    BY <2>1 DEF Safe, MayUpdate, Guarded, PastFounding
  <2>4. b \in BOOLEAN
    OBVIOUS
  <2> HIDE DEF b
  <2> QED
    BY <2>1, <2>2, <2>3, <2>4, <1>2 DEF Pc
<1>12. CASE BeginTransfer(r)
  <2>1. pc[r] = "begin" /\ Moves(r, "commit", req[r])
    BY <1>12 DEF BeginTransfer, Goto, Moves
  <2>2. Sane("commit", req[r])
    BY <1>0, <2>1 DEF Shape, Path, Sane, Pc
  <2>3. Guarded => Safe("commit", req[r])
    BY <2>1 DEF Safe, MayUpdate, Guarded, PastFounding
  <2>4. snap' \in [Request -> SUBSET Id]
    BY <1>12 DEF BeginTransfer
  <2> QED
    BY <2>1, <2>2, <2>3, <2>4 DEF Sane, Leads
<1>13. CASE OwnerExists(r)
  <2> DEFINE s == IF \E i \in Id : Owner(i) THEN "auth" ELSE "insertFirst"
  <2>1. pc[r] = "exists" /\ Moves(r, s, req[r]) /\ snap' = snap
    BY <1>13 DEF OwnerExists, Goto, Moves
  <2>2. s \in {"auth", "insertFirst"}
    OBVIOUS
  <2> HIDE DEF s
  <2>3. Sane(s, req[r])
    BY <1>0, <2>1, <2>2 DEF Shape, Path, Sane, Pc
  <2>4. Safe(s, req[r])
    BY <2>2 DEF Safe, MayUpdate, PastFounding
  <2> QED
    BY <2>1, <2>3, <2>4 DEF Sane, Leads
<1>14. CASE AddressFree(r)
  <2> DEFINE s == IF req[r].kind = "invite" THEN "create" ELSE "claim"
  <2>1. pc[r] = "free" /\ Continue(r, ~HasAccount(req[r].mail), s)
    BY <1>14 DEF AddressFree
  <2>2. s \in Pc /\ Sane(s, req[r]) /\ s \in {"create", "claim"}
    BY <1>0, <2>1 DEF Shape, Path, Sane, Pc
  <2>3. Guarded => Safe(s, req[r])
    BY <2>1, <2>2 DEF Safe, MayUpdate, Guarded, PastFounding
  <2> HIDE DEF s
  <2> QED
    BY <2>1, <2>2, <2>3, <1>2 DEF HasAccount
<1>15. CASE LookUp(r) \/ NoInviteFound(r) \/ JoinLookUp(r)
  <2>1. ASSUME NEW s \in {"redeem", "join", "joinInsert"},
               pc[r] \in {"lookup", "redeem", "join"}
        PROVE  s \in Pc /\ Sane(s, req[r]) /\ Safe(s, req[r])
    BY <1>0, <2>1 DEF Shape, Path, Sane, Pc, Safe, MayUpdate, PastFounding
  <2>2. CASE LookUp(r)
    BY <2>1, <2>2, <1>2 DEF LookUp, HasAccount
  <2>3. CASE NoInviteFound(r)
    BY <2>1, <2>3, <1>2, SwitchAssumption DEF NoInviteFound
  <2>4. CASE JoinLookUp(r)
    BY <2>1, <2>4, <1>2 DEF JoinLookUp, HasAccount
  <2> QED
    BY <2>2, <2>3, <2>4, <1>15
<1>16. CASE RedeemConflict(r)
  BY <1>16, <1>1, EndMoves DEF RedeemConflict
<1> QED
  BY <1>5, <1>6, <1>7, <1>8, <1>9, <1>10, <1>11, <1>12, <1>13, <1>14, <1>15, <1>16
  DEF Reads

-----------------------------------------------------------------------------
\* What a request writes.

Writes(r) ==
    \/ UpdateRole(r) \/ DeleteUser(r) \/ CommitTransfer(r) \/ InsertOwner(r)
    \/ CreateInvite(r) \/ RevokeInvite(r) \/ ClaimInvite(r) \/ RedeemInvite(r) \/ JoinInsert(r)

\* The part of Sound that is about the tables.
TablesSound ==
    /\ users \in [Id -> User] /\ used \subseteq Id
    /\ via \in [Id -> Invite \cup {NoInvite}] /\ invites \in [Invite -> InviteRow]
    /\ FreshIds /\ InviteUsedOnce

\* An INSERT leaves sound tables, if the invite it stands on has made no account.
LEMMA InsertSound ==
  ASSUME TablesSound, NEW e \in Email, NEW role \in Role, NEW boot \in BOOLEAN,
         NEW v \in Invite \cup {NoInvite}, Insert(e, role, boot, v),
         v # NoInvite => \A i \in Id : via[i] # v
  PROVE  /\ users' \in [Id -> User] /\ used' \subseteq Id
         /\ via' \in [Id -> Invite \cup {NoInvite}]
         /\ FreshIds' /\ used \subseteq used'
         /\ \A i, j \in Id : via'[i] # NoInvite /\ via'[i] = via'[j] => i = j
         /\ \A i \in Id : via'[i] \in {via[i], v}
<1> DEFINE row == [email |-> e, role |-> role, boot |-> boot]
<1>1. PICK n \in Id \ used : /\ users' = [users EXCEPT ![n] = row]
                            /\ used' = used \cup {n}
                            /\ via' = [via EXCEPT ![n] = v]
  BY DEF Insert
<1>2. row \in User
  BY DEF User
<1> HIDE DEF row
<1>3. users' \in [Id -> User] /\ used' \subseteq Id /\ via' \in [Id -> Invite \cup {NoInvite}]
  BY <1>1, <1>2 DEF TablesSound
<1>4. FreshIds'
  BY <1>1 DEF TablesSound, FreshIds
<1>5. \A i, j \in Id : via'[i] # NoInvite /\ via'[i] = via'[j] => i = j
  BY <1>1 DEF TablesSound, InviteUsedOnce
<1> QED
  BY <1>1, <1>3, <1>4, <1>5 DEF TablesSound

\* An invite that is claimed while pending has made no account, and one that is
\* accepted stays so.
LEMMA ClaimSound ==
  ASSUME TablesSound, NEW v \in Invite, invites[v].status = "pending",
         invites' = [invites EXCEPT ![v].status = "accepted"],
         NEW e \in Email, Insert(e, invites[v].role, FALSE, v)
  PROVE  TablesSound'
<1>1. invites[v].role \in Role
  BY DEF TablesSound, InviteRow
<1>2. v # NoInvite /\ \A i \in Id : via[i] # v
  BY NoneAssumption DEF TablesSound, InviteUsedOnce
<1>3. invites' \in [Invite -> InviteRow]
  BY DEF TablesSound, InviteRow
<1>4. ASSUME NEW i \in Id, via'[i] # NoInvite PROVE invites'[via'[i]].status = "accepted"
  <2>1. invites'[v].status = "accepted"
    BY DEF TablesSound, InviteRow
  <2>2. via[i] # NoInvite => invites'[via[i]].status = "accepted"
    BY <2>1 DEF TablesSound, InviteUsedOnce, InviteRow
  <2>3. via'[i] \in {via[i], v}
    BY InsertSound, <1>1, <1>2
  <2> QED
    BY <1>4, <2>1, <2>2, <2>3
<1> QED
  BY InsertSound, <1>1, <1>2, <1>3, <1>4 DEF TablesSound, InviteUsedOnce

\* A user row that is changed in place is a user row, and an id that is fresh
\* stays untouched.
LEMMA UpdateSound ==
  ASSUME TablesSound, users' \in [Id -> User], UNCHANGED <<used, via, invites>>,
         \A i \in Id \ used : users'[i] = users[i]
  PROVE  TablesSound'
  BY DEF TablesSound, FreshIds, InviteUsedOnce

\* Every write leaves sound tables.
LEMMA Writing ==
  ASSUME Sound, NEW r \in Request, Writes(r)
  PROVE  TablesSound' /\ used \subseteq used' /\ End(r)
<1>1. TablesSound /\ req[r] \in Req /\ Shape(pc[r], req[r])
  BY DEF Sound, TypeOK, TablesSound
<1>2. End(r)
  BY DEF Writes, UpdateRole, DeleteUser, CommitTransfer, InsertOwner, CreateInvite, RevokeInvite,
         ClaimInvite, RedeemInvite, JoinInsert
<1> SUFFICES TablesSound' /\ used \subseteq used'
  BY <1>2
<1>3. ASSUME UNCHANGED tables PROVE TablesSound' /\ used \subseteq used'
  BY <1>1, <1>3 DEF TablesSound, tables, FreshIds, InviteUsedOnce
<1>4. CASE UpdateRole(r)
  <2>1. req[r].tgt \in used /\ req[r].role \in Role
    BY <1>1, <1>4 DEF UpdateRole, Shape, Req
  <2>2. users' \in [Id -> User] /\ \A i \in Id \ used : users'[i] = users[i]
    BY <1>1, <1>4, <2>1 DEF UpdateRole, TablesSound, User
  <2> QED
    BY <1>1, <1>4, <2>2, UpdateSound DEF UpdateRole
<1>5. CASE DeleteUser(r)
  <2>1. req[r].tgt \in used
    BY <1>1, <1>5 DEF DeleteUser, Shape
  <2>2. NoUser \in User
    BY RoleAssumption DEF NoUser, User
  <2>3. users' \in [Id -> User] /\ \A i \in Id \ used : users'[i] = users[i]
    BY <1>1, <1>5, <2>1, <2>2 DEF DeleteUser, TablesSound
  <2> QED
    BY <1>1, <1>5, <2>3, UpdateSound DEF DeleteUser
<1>6. CASE CommitTransfer(r)
  <2>1. req[r].tgt \in used
    BY <1>1, <1>6 DEF CommitTransfer, Shape, Path
  <2>2. users' \in [Id -> User]
    BY <1>1, <1>6, RoleAssumption DEF CommitTransfer, TablesSound, User
  <2>3. ASSUME NEW i \in Id \ used PROVE users'[i] = users[i]
    <3>1. users[i] = NoUser /\ i # req[r].tgt
      BY <1>1, <2>1 DEF TablesSound, FreshIds
    <3>2. users[i] \in User
      BY <1>1 DEF TablesSound
    <3>3. NoUser.boot = FALSE
      BY DEF NoUser
    <3>4. [users[i] EXCEPT !.boot = FALSE] = users[i]
      BY <3>1, <3>2, <3>3 DEF User
    <3> QED
      BY <1>6, <3>1, <3>4 DEF CommitTransfer
  <2> QED
    BY <1>1, <1>6, <2>2, <2>3, UpdateSound DEF CommitTransfer
<1>7. ASSUME NEW e \in Email, NEW role \in Role, NEW boot \in BOOLEAN,
             Insert(e, role, boot, NoInvite), invites' = invites
      PROVE  TablesSound' /\ used \subseteq used'
  <2>1. \A i \in Id : via'[i] # NoInvite => invites'[via'[i]].status = "accepted"
    BY <1>1, <1>7, InsertSound DEF TablesSound, InviteUsedOnce
  <2> QED
    BY <1>1, <1>7, <2>1, InsertSound DEF TablesSound, InviteUsedOnce
<1>8. CASE InsertOwner(r)
  <2>1. req[r].mail \in Email
    BY <1>1, <1>8 DEF InsertOwner, Shape, Path
  <2> QED
    BY <1>3, <1>7, <1>8, <2>1, RoleAssumption DEF InsertOwner, tables
<1>9. CASE JoinInsert(r)
  <2>1. req[r].mail \in Email
    BY <1>1, <1>9 DEF JoinInsert, Shape, Path
  <2> QED
    BY <1>3, <1>7, <1>9, <2>1, RoleAssumption DEF JoinInsert, tables
<1>10. ASSUME NEW v \in Invite, NEW row \in InviteRow, invites[v].status # "accepted",
              invites' = [invites EXCEPT ![v] = row], UNCHANGED <<users, used, via>>
       PROVE  TablesSound' /\ used \subseteq used'
  BY <1>1, <1>10 DEF TablesSound, FreshIds, InviteUsedOnce
<1>11. CASE CreateInvite(r)
  <2>1. PICK v \in Invite : /\ invites[v].status = "none"
                           /\ invites' = [invites EXCEPT ![v] =
                                 [status |-> "pending", email |-> req[r].mail, role |-> req[r].role]]
    BY <1>11 DEF CreateInvite
  <2>2. [status |-> "pending", email |-> req[r].mail, role |-> req[r].role] \in InviteRow
    BY <1>1 DEF InviteRow, Req
  <2> QED
    BY <1>10, <1>11, <2>1, <2>2 DEF CreateInvite
<1>12. CASE RevokeInvite(r)
  <2>1. req[r].inv \in Invite
    BY <1>1, <1>12 DEF RevokeInvite, Shape, Path
  <2>2. CASE invites[req[r].inv].status = "pending"
    <3>1. [invites[req[r].inv] EXCEPT !.status = "gone"] \in InviteRow
      BY <1>1, <2>1 DEF TablesSound, InviteRow
    <3>2. invites' = [invites EXCEPT ![req[r].inv] = [invites[req[r].inv] EXCEPT !.status = "gone"]]
      BY <1>12, <2>2 DEF RevokeInvite
    <3> QED
      BY <1>10, <1>12, <2>1, <2>2, <3>1, <3>2 DEF RevokeInvite
  <2>3. CASE invites[req[r].inv].status # "pending"
    <3>1. invites' = invites
      BY <1>1, <1>12, <2>3, <2>1 DEF RevokeInvite, TablesSound, InviteRow
    <3> QED
      BY <1>3, <1>12, <3>1 DEF RevokeInvite, tables
  <2> QED
    BY <2>2, <2>3
<1>13. CASE ClaimInvite(r)
  <2>1. req[r].inv \in Invite /\ req[r].mail \in Email
    BY <1>1, <1>13 DEF ClaimInvite, Shape, Path
  <2>2. CASE invites[req[r].inv].status # "pending" \/ HasAccount(req[r].mail)
    BY <1>3, <1>13, <2>2 DEF ClaimInvite
  <2>3. CASE invites[req[r].inv].status = "pending" /\ ~HasAccount(req[r].mail)
    <3>1. /\ invites' = [invites EXCEPT ![req[r].inv].status = "accepted"]
          /\ Insert(req[r].mail, invites[req[r].inv].role, FALSE, req[r].inv)
      BY <1>13, <2>3 DEF ClaimInvite
    <3>2. used \subseteq used'
      BY <3>1 DEF Insert
    <3> QED
      BY <1>1, <2>1, <2>3, <3>1, <3>2, ClaimSound
  <2> QED
    BY <2>2, <2>3
<1>14. CASE RedeemInvite(r)
  <2>1. req[r].mail \in Email
    BY <1>1, <1>14 DEF RedeemInvite, Shape, Path
  <2>2. PICK v \in PendingFor(req[r].mail) :
          /\ invites' = [invites EXCEPT ![v].status = "accepted"]
          /\ IF HasAccount(req[r].mail) THEN UNCHANGED <<users, used, via>>
             ELSE Insert(req[r].mail, invites[v].role, FALSE, v)
    BY <1>14 DEF RedeemInvite
  <2>3. v \in Invite /\ invites[v].status = "pending"
    BY <2>2 DEF PendingFor
  <2>4. CASE HasAccount(req[r].mail)
    <3>1. [invites[v] EXCEPT !.status = "accepted"] \in InviteRow
      BY <1>1, <2>3 DEF TablesSound, InviteRow
    <3>2. invites' = [invites EXCEPT ![v] = [invites[v] EXCEPT !.status = "accepted"]]
      BY <2>2
    <3> QED
      BY <1>10, <2>2, <2>3, <2>4, <3>1, <3>2
  <2>5. CASE ~HasAccount(req[r].mail)
    <3>1. used \subseteq used'
      BY <2>2, <2>5 DEF Insert
    <3> QED
      BY <1>1, <2>1, <2>2, <2>3, <2>5, <3>1, ClaimSound
  <2> QED
    BY <2>4, <2>5
<1> QED
  BY <1>4, <1>5, <1>6, <1>8, <1>9, <1>11, <1>12, <1>13, <1>14 DEF Writes

-----------------------------------------------------------------------------
\* The bootstrap owner, while no transfer overlaps a role change or a removal.

\* What a write leaves of him: his row and role, an owner to be bootstrap if there
\* was one or is one now, and no member bootstrap who was not, but by a transfer.
Kept(r) ==
    /\ \A i \in Id : users[i].boot => Owner(i)'
    /\ BootIsOwner'
    /\ Founded => Founded'
    /\ SuperuserExists'
    /\ \A i \in used : users'[i].boot => users[i].boot \/ req[r].kind = "transfer"

\* So for a write that changes no user.
LEMMA KeptSame ==
  ASSUME Sound, Guarded, NEW r \in Request, users' = users PROVE Kept(r)
  BY DEF Kept, Guarded, BootIsOwner, FoundedFirst, SuperuserExists, Founded, Owner, Present

\* So for a role change in place, or a removal, that spares him.
LEMMA KeptUpdate ==
  ASSUME Sound, Guarded, NEW r \in Request, NEW t \in Id, NEW row \in User, Founded,
         users' = [users EXCEPT ![t] = row],
         row.boot => users[t].boot,
         users[t].boot => row.boot /\ row.role = "owner" /\ row.email # NoEmail
  PROVE  Kept(r)
<1>1. ASSUME NEW i \in Id, users[i].boot PROVE Owner(i)' /\ users'[i].boot
  BY <1>1 DEF Sound, TypeOK, Guarded, BootIsOwner, Owner, Present
<1>2. ASSUME NEW i \in Id, users'[i].boot PROVE users[i].boot
  BY <1>2 DEF Sound, TypeOK
<1>3. Founded'
  BY <1>1 DEF Founded
<1>4. used \subseteq Id
  BY DEF Sound, TypeOK
<1> QED
  BY <1>1, <1>2, <1>3, <1>4 DEF Kept, BootIsOwner, SuperuserExists

\* So for an insertion, of an owner only if he is bootstrap or not the first.
LEMMA KeptInsert ==
  ASSUME Sound, Guarded, NEW r \in Request, NEW e \in Email, NEW role \in Role,
         NEW boot \in BOOLEAN, NEW v, Insert(e, role, boot, v),
         boot => role = "owner",
         role = "owner" => boot \/ Founded
  PROVE  Kept(r)
<1> DEFINE row == [email |-> e, role |-> role, boot |-> boot]
<1>1. PICK n \in Id \ used : users' = [users EXCEPT ![n] = row]
  BY DEF Insert
<1>2. row.email # NoEmail /\ row.role = role /\ row.boot = boot
  BY NoneAssumption
<1> HIDE DEF row
<1>3. users'[n] = row /\ \A i \in Id : i # n => users'[i] = users[i]
  BY <1>1 DEF Sound, TypeOK
<1>4. users[n].boot = FALSE /\ ~Owner(n)
  <2>1. users[n] = NoUser
    BY DEF Sound, FreshIds
  <2>2. NoUser.boot = FALSE /\ NoUser.email = NoEmail
    BY DEF NoUser
  <2> QED
    BY <2>1, <2>2 DEF Owner, Present
<1>5. ASSUME NEW i \in Id, users[i].boot PROVE Owner(i)' /\ users'[i].boot
  BY <1>3, <1>4, <1>5 DEF Guarded, BootIsOwner, Owner, Present
<1>6. ASSUME NEW i \in Id, users'[i].boot PROVE Owner(i)'
  BY <1>2, <1>3, <1>6 DEF Guarded, BootIsOwner, Owner, Present
<1>7. Founded => Founded'
  BY <1>5 DEF Founded
<1>8. role = "owner" /\ boot => Founded'
  BY <1>2, <1>3 DEF Founded, Owner, Present
<1>9. ASSUME NEW i \in Id, Owner(i)' PROVE Founded'
  <2>1. CASE i = n
    BY <2>1, <1>2, <1>3, <1>7, <1>8, <1>9 DEF Owner
  <2>2. CASE i # n
    BY <2>2, <1>3, <1>7, <1>9 DEF Guarded, FoundedFirst, SuperuserExists, Owner, Present
  <2> QED
    BY <2>1, <2>2
<1>10. \A i \in used : users'[i].boot => users[i].boot
  BY <1>3 DEF Sound, TypeOK
<1> QED
  BY <1>5, <1>6, <1>7, <1>9, <1>10 DEF Kept, BootIsOwner, SuperuserExists

\* So for the transfer itself: its target becomes the one.
LEMMA KeptTransfer ==
  ASSUME Sound, Guarded, NEW r \in Request, CommitTransfer(r) PROVE Kept(r)
<1>1. PICK t \in Id : t = req[r].tgt
  BY DEF CommitTransfer, Sound, TypeOK, Shape, Path
<1>2. req[r].kind = "transfer" /\ used \subseteq Id
  BY DEF CommitTransfer, Sound, TypeOK, Shape, Path
<1>3. CASE ~Present(t)
  BY <1>1, <1>3, KeptSame DEF CommitTransfer
<1>4. CASE Present(t)
  <2>1. ASSUME NEW i \in Id
        PROVE  users'[i].email = users[i].email /\ (users'[i].role = users[i].role \/ i = t)
    BY <1>1, <1>4, <2>1 DEF CommitTransfer, Sound, TypeOK, User
  <2>2. users'[t].boot /\ users'[t].role = "owner"
    BY <1>1, <1>4 DEF CommitTransfer, Sound, TypeOK, User
  <2>3. Owner(t)'
    BY <1>4, <2>1, <2>2 DEF Owner, Present
  <2>4. ASSUME NEW i \in Id, i # t, users'[i].boot PROVE users[i].boot
    BY <1>1, <1>4, <2>4 DEF CommitTransfer, Sound, TypeOK, User
  <2>5. ASSUME NEW i \in Id, i # t, Owner(i) PROVE Owner(i)'
    BY <2>1, <2>5 DEF Owner, Present
  <2>6. Founded'
    BY <2>2, <2>3 DEF Founded
  <2>7. ASSUME NEW i \in Id, users[i].boot \/ users'[i].boot PROVE Owner(i)'
    BY <2>3, <2>4, <2>5, <2>7 DEF Guarded, BootIsOwner
  <2> QED
    BY <1>2, <2>6, <2>7 DEF Kept, BootIsOwner, SuperuserExists
<1> QED
  BY <1>3, <1>4

\* No invite is made before there is a bootstrap owner.
InvitesWait == \A v \in Invite : invites[v].status = "none" /\ ~Founded => invites'[v].status = "none"

\* Every write keeps him, and makes an invite only once there is one.
LEMMA Keeping ==
  ASSUME Sound, Guarded, NEW r \in Request, Writes(r)
  PROVE  Kept(r) /\ InvitesWait
<1>1. /\ req[r] \in Req /\ Shape(pc[r], req[r]) /\ MayUpdate(pc[r], req[r])
      /\ pc[r] \in PastFounding => Founded
      /\ users \in [Id -> User] /\ used \subseteq Id
  BY DEF Sound, TypeOK, Guarded
<1>2. InvitesWait
  <2>1. CASE pc[r] \in PastFounding
    BY <2>1, <1>1 DEF InvitesWait
  <2>2. CASE RedeemInvite(r)
    BY <2>2 DEF InvitesWait, RedeemInvite, PendingFor, Sound, TypeOK, InviteRow
  <2>3. CASE InsertOwner(r) \/ JoinInsert(r)
    BY <2>3 DEF InvitesWait, InsertOwner, JoinInsert
  <2> QED
    BY <2>1, <2>2, <2>3
    DEF Writes, UpdateRole, DeleteUser, CommitTransfer, CreateInvite, RevokeInvite, ClaimInvite,
        PastFounding
<1>3. CASE UpdateRole(r)
  <2> DEFINE t == req[r].tgt
             row == [users[t] EXCEPT !.role = req[r].role]
  <2>1. t \in Id /\ Founded /\ (req[r].role # "owner" => ~users[t].boot)
    BY <1>1, <1>3 DEF UpdateRole, Shape, MayUpdate, PastFounding
  <2>2. row \in User /\ row.boot = users[t].boot /\ row.role = req[r].role /\ row.email = users[t].email
    BY <1>1, <2>1 DEF User, Req
  <2>3. CASE ~Present(t)
    BY <1>2, <1>3, <2>3, KeptSame DEF UpdateRole
  <2>4. CASE Present(t)
    <3>1. users' = [users EXCEPT ![t] = row]
      BY <1>3, <2>4 DEF UpdateRole
    <3>2. row.email # NoEmail
      BY <2>2, <2>4 DEF Present
    <3> HIDE DEF row, t
    <3> QED
      BY <1>2, <2>1, <2>2, <3>1, <3>2, KeptUpdate
  <2> QED
    BY <2>3, <2>4
<1>4. CASE DeleteUser(r)
  <2>1. req[r].tgt \in Id /\ Founded /\ ~users[req[r].tgt].boot
    BY <1>1, <1>4 DEF DeleteUser, Shape, MayUpdate, PastFounding
  <2>2. NoUser \in User /\ NoUser.boot = FALSE
    BY RoleAssumption DEF NoUser, User
  <2>3. users' = [users EXCEPT ![req[r].tgt] = NoUser]
    BY <1>4 DEF DeleteUser
  <2> QED
    BY <1>2, <2>1, <2>2, <2>3, KeptUpdate
<1>5. CASE CommitTransfer(r)
  BY <1>2, <1>5, KeptTransfer
<1>6. CASE CreateInvite(r) \/ RevokeInvite(r)
  BY <1>2, <1>6, KeptSame DEF CreateInvite, RevokeInvite
<1>7. CASE InsertOwner(r)
  <2>1. req[r].mail \in Email /\ (pc[r] = "insertFirst" \/ Founded)
    BY <1>1, <1>7 DEF InsertOwner, Shape, Path, PastFounding
  <2>2. CASE HasAccount(req[r].mail)
    BY <1>2, <1>7, <2>2, KeptSame DEF InsertOwner
  <2>3. CASE ~HasAccount(req[r].mail)
    <3>1. Insert(req[r].mail, "owner", pc[r] = "insertFirst", NoInvite)
      BY <1>7, <2>3 DEF InsertOwner
    <3>2. "owner" \in Role /\ (pc[r] = "insertFirst") \in BOOLEAN
      BY RoleAssumption
    <3> QED
      BY <1>2, <2>1, <3>1, <3>2, KeptInsert
  <2> QED
    BY <2>2, <2>3
<1>8. CASE ClaimInvite(r)
  <2>1. req[r].mail \in Email /\ req[r].inv \in Invite /\ Founded
    BY <1>1, <1>8 DEF ClaimInvite, Shape, Path, PastFounding
  <2>2. users' = users \/ Insert(req[r].mail, invites[req[r].inv].role, FALSE, req[r].inv)
    BY <1>8 DEF ClaimInvite, tables
  <2>3. invites[req[r].inv].role \in Role
    BY <2>1 DEF Sound, TypeOK, InviteRow
  <2> QED
    BY <1>2, <2>1, <2>2, <2>3, KeptSame, KeptInsert
<1>9. CASE RedeemInvite(r)
  <2>1. req[r].mail \in Email
    BY <1>1, <1>9 DEF RedeemInvite, Shape, Path
  <2>2. PICK v \in PendingFor(req[r].mail) :
          users' = users \/ Insert(req[r].mail, invites[v].role, FALSE, v)
    BY <1>9 DEF RedeemInvite
  <2>3. v \in Invite /\ invites[v].status = "pending"
    BY DEF PendingFor
  <2>4. invites[v].role \in Role
    BY <2>3 DEF Sound, TypeOK, InviteRow
  <2>5. Founded
    BY <2>3 DEF Guarded, FoundedFirst
  <2> QED
    BY <1>2, <2>1, <2>2, <2>3, <2>4, <2>5, KeptSame, KeptInsert
<1>10. CASE JoinInsert(r)
  <2>1. req[r].mail \in Email
    BY <1>1, <1>10 DEF JoinInsert, Shape, Path
  <2>2. users' = users \/ Insert(req[r].mail, "viewer", FALSE, NoInvite)
    BY <1>10 DEF JoinInsert
  <2> QED
    BY <1>2, <2>1, <2>2, KeptSame, KeptInsert, RoleAssumption
<1> QED
  BY <1>3, <1>4, <1>5, <1>6, <1>7, <1>8, <1>9, <1>10 DEF Writes

-----------------------------------------------------------------------------
\* The inductive invariant.

\* A move to where a request may be leaves every request where it may be.
LEMMA MoveSound ==
  ASSUME Sound, NEW r \in Request, NEW s \in Pc, NEW q \in Req, Moves(r, s, q), Sane(s, q),
         used \subseteq used'
  PROVE  /\ pc' \in [Request -> Pc] /\ req' \in [Request -> Req]
         /\ \A t \in Request : Shape(pc[t], req[t])'
<1>1. pc' \in [Request -> Pc] /\ req' \in [Request -> Req]
  BY DEF Moves, Sound, TypeOK
<1>2. ASSUME NEW t \in Request PROVE Shape(pc[t], req[t])'
  <2>1. CASE t = r
    <3>1. pc'[t] = s /\ req'[t] = q
      BY <2>1 DEF Moves, Sound, TypeOK
    <3> QED
      BY <3>1 DEF Sane, Shape, Path
  <2>2. CASE t # r
    <3>1. pc'[t] = pc[t] /\ req'[t] = req[t] /\ Shape(pc[t], req[t])
      BY <2>2 DEF Moves, Sound, TypeOK
    <3> QED
      BY <3>1 DEF Shape, Path
  <2> QED
    BY <2>1, <2>2
<1> QED
  BY <1>1, <1>2

\* A step of a request that writes nothing, and one of the clock.
LEMMA StepKinds ==
  ASSUME Next
  PROVE  \/ \E r \in Request : Arrive(r) \/ Reads(r) \/ Writes(r)
         \/ \E v \in Invite : Expire(v)
  BY DEF Next, Serve, Reads, Writes

\* A move of a request keeps the guards of all, given who was bootstrap is kept.
LEMMA MoveGuarded ==
  ASSUME ~Overlap, Sound, Guarded, NEW r \in Request, NEW s \in Pc, NEW q \in Req,
         Moves(r, s, q), Sane(s, q), Kept(r), used \subseteq used',
         InvitesWait,
         s = "idle" \/ (users' = users /\ Safe(s, q)),
         q.kind \in {req[r].kind, "none"} \/ Distinct(q)
  PROVE  Guarded'
<1> USE DEF Sound, TypeOK
<1>1. \A t \in Request : /\ t = r => pc'[t] = s /\ req'[t] = q
                         /\ t # r => pc'[t] = pc[t] /\ req'[t] = req[t]
  BY DEF Moves
<1>2. Apart'
  <2> SUFFICES ASSUME NEW t \in Request, NEW u \in Request,
                      req'[t].kind = "transfer", req'[u].kind \in {"patch", "remove"}
               PROVE  FALSE
    BY DEF Apart
  <2>1. t # u
    OBVIOUS
  <2>2. CASE t # r /\ u # r
    BY <1>1, <2>2 DEF Guarded, Apart
  <2>3. CASE t = r
    BY <1>1, <2>1, <2>3 DEF Guarded, Apart, Distinct
  <2>4. CASE u = r
    BY <1>1, <2>1, <2>4 DEF Guarded, Apart, Distinct
  <2> QED
    BY <2>2, <2>3, <2>4
<1>3. BootIsOwner' /\ SuperuserExists' /\ (Founded => Founded')
  BY DEF Kept
<1>4. \A v \in Invite : invites'[v].status # "none" => Founded'
  BY <1>3 DEF InvitesWait, Guarded, FoundedFirst
<1>5. ASSUME NEW t \in Request, pc'[t] \in PastFounding PROVE Founded'
  <2>1. CASE t = r
    BY <1>1, <1>3, <1>5, <2>1 DEF Safe, PastFounding
  <2>2. CASE t # r
    BY <1>1, <1>3, <1>5, <2>2 DEF Guarded
  <2> QED
    BY <2>1, <2>2
<1>6. ASSUME NEW t \in Request PROVE MayUpdate(pc[t], req[t])'
  <2>1. CASE t = r
    BY <1>1, <2>1 DEF Safe, MayUpdate
  <2>2. CASE t # r
    <3>1. pc'[t] = pc[t] /\ req'[t] = req[t] /\ MayUpdate(pc[t], req[t]) /\ Shape(pc[t], req[t])
      BY <1>1, <2>2 DEF Guarded
    <3> SUFFICES ASSUME pc[t] \in {"count", "countSelf", "write"},
                        req[t].kind = "remove" \/ req[t].role # "owner"
                 PROVE  ~users'[req[t].tgt].boot
      BY <3>1 DEF MayUpdate
    <3>2. req[t].kind \in {"patch", "remove"} /\ req[t].tgt \in used
      BY <3>1 DEF Shape, Path
    <3>3. req[r].kind # "transfer" /\ ~users[req[t].tgt].boot
      BY <3>1, <3>2 DEF Guarded, Apart, MayUpdate
    <3> QED
      BY <3>2, <3>3 DEF Kept
  <2> QED
    BY <2>1, <2>2
<1>7. FoundedFirst'
  BY <1>3, <1>4 DEF FoundedFirst
<1> QED
  BY <1>2, <1>3, <1>5, <1>6, <1>7 DEF Guarded

\* What a step does to Sound, to Guarded and to who is bootstrap.
LEMMA Step ==
  ASSUME Sound, [Next]_vars
  PROVE  /\ Sound'
         /\ ~Overlap /\ Guarded => /\ Guarded'
                                   /\ \A i \in Id : users[i].boot => Owner(i)'
<1>1. CASE UNCHANGED vars
  BY <1>1 DEF vars, Sound, TypeOK, FreshIds, InviteUsedOnce, Shape, Path, Guarded, Apart, BootIsOwner,
     FoundedFirst, SuperuserExists, Founded, MayUpdate, Owner, Present
<1>2. ASSUME NEW r \in Request, NEW s \in Pc, NEW q \in Req, UNCHANGED tables,
             snap' \in [Request -> SUBSET Id], Moves(r, s, q), Sane(s, q),
             ~Overlap /\ Guarded => Safe(s, q) /\ (q.kind \in {req[r].kind, "none"} \/ Distinct(q))
      PROVE  /\ Sound'
             /\ ~Overlap /\ Guarded => /\ Guarded'
                                       /\ \A i \in Id : users[i].boot => Owner(i)'
  <2>1. users' = users /\ used' = used /\ via' = via /\ invites' = invites
    BY <1>2 DEF tables
  <2>2. Sound'
    BY <1>2, <2>1, MoveSound DEF Sound, TypeOK, FreshIds, InviteUsedOnce
  <2>3. Guarded => Kept(r) /\ InvitesWait
    BY <2>1, KeptSame DEF InvitesWait
  <2>4. ~Overlap /\ Guarded => Guarded'
    BY <1>2, <2>1, <2>3, MoveGuarded
  <2> QED
    BY <2>2, <2>3, <2>4 DEF Kept
<1>3. ASSUME NEW r \in Request, Arrive(r)
      PROVE  /\ Sound'
             /\ ~Overlap /\ Guarded => /\ Guarded'
                                       /\ \A i \in Id : users[i].boot => Owner(i)'
  BY <1>2, <1>3, Arrivals
<1>4. ASSUME NEW r \in Request, Reads(r)
      PROVE  /\ Sound'
             /\ ~Overlap /\ Guarded => /\ Guarded'
                                       /\ \A i \in Id : users[i].boot => Owner(i)'
  BY <1>2, <1>4, Reading
<1>5. ASSUME NEW r \in Request, Writes(r)
      PROVE  /\ Sound'
             /\ ~Overlap /\ Guarded => /\ Guarded'
                                       /\ \A i \in Id : users[i].boot => Owner(i)'
  <2>1. /\ TablesSound' /\ used \subseteq used'
        /\ Moves(r, "idle", NoReq) /\ snap' \in [Request -> SUBSET Id]
    BY <1>5, Writing, EndMoves DEF Sound
  <2>2. "idle" \in Pc /\ NoReq \in Req /\ Sane("idle", NoReq) /\ NoReq.kind = "none"
    BY AtRest DEF Sane, NoReq
  <2>3. Sound'
    BY <2>1, <2>2, MoveSound DEF Sound, TypeOK, TablesSound
  <2>4. Guarded => Kept(r) /\ InvitesWait
    BY <1>5, Keeping
  <2>5. ASSUME ~Overlap, Guarded PROVE Guarded'
    <3>1. Kept(r) /\ InvitesWait
      BY <2>4, <2>5
    <3> QED
      BY <2>1, <2>2, <2>5, <3>1, MoveGuarded
  <2> QED
    BY <2>3, <2>4, <2>5 DEF Kept
<1>6. ASSUME NEW v \in Invite, Expire(v)
      PROVE  /\ Sound'
             /\ ~Overlap /\ Guarded => /\ Guarded'
                                       /\ \A i \in Id : users[i].boot => Owner(i)'
  <2>1. /\ UNCHANGED <<users, used, via, pc, req, snap>>
        /\ invites[v].status = "pending" /\ invites' = [invites EXCEPT ![v].status = "gone"]
    BY <1>6 DEF Expire
  <2>2. invites' \in [Invite -> InviteRow]
    BY <2>1 DEF Sound, TypeOK, InviteRow
  <2>3. InviteUsedOnce'
    BY <2>1 DEF Sound, TypeOK, InviteUsedOnce, InviteRow
  <2>4. Sound'
    BY <2>1, <2>2, <2>3 DEF Sound, TypeOK, FreshIds, Shape, Path
  <2>5. \A w \in Invite : invites'[w].status # "none" => invites[w].status # "none"
    BY <2>1 DEF Sound, TypeOK
  <2>6. Guarded => Guarded'
    BY <2>1, <2>5 DEF Guarded, Apart, BootIsOwner, FoundedFirst, SuperuserExists, Founded, MayUpdate,
       Owner, Present
  <2>7. Guarded => \A i \in Id : users[i].boot => Owner(i)'
    BY <2>1 DEF Guarded, BootIsOwner, Owner, Present
  <2> QED
    BY <2>4, <2>6, <2>7
<1> QED
  BY <1>1, <1>3, <1>4, <1>5, <1>6, StepKinds

\* Empty tables and no request: all of it holds.
LEMMA Beginning == Init => IInv
<1> SUFFICES ASSUME Init PROVE IInv
  OBVIOUS
<1>1. NoUser \in User /\ NoUser.boot = FALSE /\ NoUser.email = NoEmail
  BY RoleAssumption DEF NoUser, User
<1>2. NoReq \in Req /\ NoReq.kind = "none"
  BY AtRest DEF Sane, NoReq
<1>3. [status |-> "none", email |-> NoEmail, role |-> "viewer"] \in InviteRow
  BY RoleAssumption DEF InviteRow
<1>4. TypeOK
  BY <1>1, <1>2, <1>3 DEF Init, TypeOK, Pc
<1>5. \A r \in Request : Shape(pc[r], req[r])
  BY <1>2 DEF Init, Shape, Path
<1>6. FreshIds /\ InviteUsedOnce
  BY DEF Init, FreshIds, InviteUsedOnce
<1>7. Apart
  BY <1>2 DEF Init, Apart
<1>8. BootIsOwner /\ FoundedFirst
  BY <1>1 DEF Init, BootIsOwner, FoundedFirst, SuperuserExists, Owner, Present
<1>9. \A r \in Request : MayUpdate(pc[r], req[r]) /\ (pc[r] \in PastFounding => Founded)
  BY DEF Init, MayUpdate, PastFounding
<1> QED
  BY <1>4, <1>5, <1>6, <1>7, <1>8, <1>9 DEF IInv, Sound, Guarded

-----------------------------------------------------------------------------
\* Theorems.

\* IInv holds in every state: no interleaving of the statements of any number of
\* requests leaves the tables, or a request, where the code does not expect them.
THEOREM Invariance == Spec => []IInv
<1>1. IInv /\ [Next]_vars => IInv'
  BY Step, SwitchAssumption DEF IInv
<1> QED
  BY <1>1, Beginning, PTL DEF Spec

\* However many people follow the link, sign in or revoke at once, an invite makes
\* at most one account (the transactions of src/db/invites.rs).
THEOREM InvitesMakeOneAccount == Spec => []InviteUsedOnce
<1>1. IInv => InviteUsedOnce
  BY DEF IInv, Sound
<1> QED
  BY <1>1, Invariance, PTL

\* As long as no transfer overlaps a role change or a removal, whenever there is an
\* owner there is a bootstrap owner.
THEOREM SuperuserStays == ~Overlap => (Spec => []SuperuserExists)
<1> SUFFICES ASSUME ~Overlap PROVE Spec => []SuperuserExists
  OBVIOUS
<1>1. IInv => SuperuserExists
  BY DEF IInv, Guarded, FoundedFirst
<1> QED
  BY <1>1, Invariance, PTL

\* Under the same condition no step demotes or removes who is bootstrap before it.
THEOREM BootstrapKept == ~Overlap => (Spec => BootstrapProtected)
<1> SUFFICES ASSUME ~Overlap PROVE Spec => BootstrapProtected
  OBVIOUS
<1>1. IInv /\ [Next]_vars => [\A i \in Id : users[i].boot => Owner(i)']_vars
  BY Step DEF IInv
<1> QED
  BY <1>1, Invariance, PTL DEF Spec, BootstrapProtected
=============================================================================
