-------------------------- MODULE MerchantSessions ---------------------------
(***************************************************************************)
(* Users of one merchant and the bearer sessions they open.  A session is  *)
(* resolved on every request: it must be neither revoked nor expired, and  *)
(* the user's membership is read again, so that the role of the row counts *)
(* and not the one the session was opened with.                            *)
(*                                                                         *)
(* Opening and closing a session are requests of one statement each, which *)
(* others see when it commits; the answer has left by then.                *)
(***************************************************************************)
EXTENDS Naturals

CONSTANTS
  Users,
  Bearers,      \* session tokens
  SessionLife,  \* SESSION_TTL
  Horizon,      \* bound: the clock stops here
  MaxCalls,     \* bound: requests taken in all, and memberships changed
  None

VARIABLES
  now,     \* the clock, at the grain of expiry times
  role,    \* merchant_users
  bearer,  \* merchant_sessions by token
  taken    \* what counts against MaxCalls

sessionVars == <<now, role, bearer, taken>>

(* ADMIN and EDITOR may change the catalog; APPROVER and VIEWER may not.   *)
Roles == {"writer", "reader"}

Bearer == [user : Users, expires : Nat, revoked : BOOLEAN]

ASSUME SessionAssumption ==
    /\ SessionLife \in Nat \ {0}
    /\ {Horizon, MaxCalls} \subseteq Nat
    /\ None \notin Roles
    /\ None \notin Bearer

SessionTypeOK ==
    /\ now \in 0..Horizon
    /\ role \in [Users -> Roles \cup {None}]
    /\ DOMAIN bearer = Bearers
    /\ \A s \in Bearers : bearer[s] = None \/ bearer[s] \in Bearer
    /\ taken \in 0..MaxCalls

SessionInit ==
    /\ now = 0
    /\ role = [u \in Users |-> "writer"]
    /\ bearer \in [Bearers -> [user : Users, expires : {SessionLife}, revoked : {FALSE}]]
    /\ taken = 0

(* resolve: the session is there for its user.                             *)
Resolves(s) ==
    /\ bearer[s] # None
    /\ ~bearer[s].revoked
    /\ now < bearer[s].expires
    /\ role[bearer[s].user] # None

(* _require_merchant_access, or _require_roles, for a catalog change.      *)
MayWrite(s) == Resolves(s) /\ role[bearer[s].user] = "writer"

Take == taken < MaxCalls /\ taken' = taken + 1

Issue(s, u) ==
    /\ Take
    /\ bearer[s] = None
    /\ role[u] # None
    /\ bearer' = [bearer EXCEPT ![s] =
                    [user |-> u, expires |-> now + SessionLife, revoked |-> FALSE]]
    /\ UNCHANGED <<now, role>>

(* Whoever holds the token may close it, expired or not.                   *)
Revoke(s) ==
    /\ Take
    /\ bearer[s] # None
    /\ ~bearer[s].revoked
    /\ bearer' = [bearer EXCEPT ![s].revoked = TRUE]
    /\ UNCHANGED <<now, role>>

(* No request changes memberships; an operator does, in the database.      *)
ChangeRole(u, r) ==
    /\ Take
    /\ r # role[u]
    /\ role' = [role EXCEPT ![u] = r]
    /\ UNCHANGED <<now, bearer>>

Tick ==
    /\ now < Horizon
    /\ now' = now + 1
    /\ UNCHANGED <<role, bearer, taken>>

SessionRequest ==
    \/ \E s \in Bearers, u \in Users : Issue(s, u)
    \/ \E s \in Bearers : Revoke(s)

Surroundings ==
    \/ \E u \in Users, r \in Roles \cup {None} : ChangeRole(u, r)
    \/ Tick
==============================================================================
