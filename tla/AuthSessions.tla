---------------------------- MODULE AuthSessions ----------------------------
(***************************************************************************)
(* The sign-in sessions of one account in service.auth (grpc/handlers.ts,  *)
(* session-handlers.ts, account-handlers.ts, admin-handlers.ts): login,    *)
(* refresh-token rotation and reuse detection, logout, session revocation, *)
(* password changes and deactivation, as concurrent requests against       *)
(* auth.refresh_tokens, auth.revoked_tokens and auth.users.                *)
(*                                                                         *)
(* A session is a rotation family: the rows that descend from one login.   *)
(* A transaction is READ COMMITTED: an UPDATE picks its rows among those   *)
(* committed when the statement starts, waits for the lock of each, and    *)
(* tests its condition again once it has it.  Row, key and user locks are  *)
(* therefore state, and PostgreSQL's deadlock detector is an action.       *)
(*                                                                         *)
(* Left out: the lockout counters and TOTP steps of auth.users, token      *)
(* expiry, and the access-token watermark tokens_valid_from, which no      *)
(* statement on the two token tables reads.                                *)
(***************************************************************************)
EXTENDS Naturals, FiniteSets

CONSTANTS Requests,    \* calls of the RPCs; each runs once
          MaxTokens,   \* bound on refresh tokens ever minted
          Codes,       \* the account's unused backup codes at the start
          NoCode,      \* a login without one
          Nobody       \* holder of a free lock

ASSUME AuthAssumption ==
  /\ IsFiniteSet(Requests)
  /\ MaxTokens \in Nat \ {0}
  /\ NoCode \notin Codes
  /\ Nobody \notin Requests

Tokens == 1..MaxTokens

VARIABLES row,        \* refresh_tokens: absent, live or revoked (the handlers
                      \* write is_revoked and revoked_at together)
          family,     \* refresh_tokens.family_id
          denied,     \* revoked_tokens: jtis of refresh tokens
          codes,      \* users.backup_codes
          active,     \* users.status lets the account sign in
          op,         \* what each request is
          stage,      \* where it is
          token,      \* the refresh token or session it names
          code,       \* the backup code it presents
          want,       \* rows its running UPDATE has still to lock
          rowHolder,  \* transaction that locks the row
          jtiHolder,  \* transaction with an uncommitted insert of the key
          userHolder, \* transaction that locks the users row
          missed      \* history: tokens minted while a request's UPDATE runs

tables == <<row, family, denied, codes, active>>
locks == <<rowHolder, jtiHolder, userHolder>>
vars == <<tables, op, stage, token, code, want, locks, missed>>

Ops == {"none", "login", "refresh", "logout", "revoke", "revokeAll", "password",
        "status"}
Stages == {"new", "code", "mint", "lookup", "gate", "rotate", "family", "deny",
           "sweep", "done", "failed"}

TypeOK ==
  /\ row \in [Tokens -> {"absent", "live", "revoked"}]
  /\ family \in [Tokens -> Tokens]
  /\ denied \subseteq Tokens
  /\ codes \subseteq Codes
  /\ active \in BOOLEAN
  /\ op \in [Requests -> Ops]
  /\ stage \in [Requests -> Stages]
  /\ token \in [Requests -> Tokens]
  /\ code \in [Requests -> Codes \cup {NoCode}]
  /\ want \in [Requests -> SUBSET Tokens]
  /\ rowHolder \in [Tokens -> Requests \cup {Nobody}]
  /\ jtiHolder \in [Tokens -> Requests \cup {Nobody}]
  /\ userHolder \in Requests \cup {Nobody}
  /\ missed \in [Requests -> SUBSET Tokens]

\* One session is open already.  A row that names no family gets one of its
\* own, the column's default: here the token itself.
Init ==
  /\ row = [t \in Tokens |-> IF t = 1 THEN "live" ELSE "absent"]
  /\ family = [t \in Tokens |-> t]
  /\ denied = {}
  /\ codes = Codes
  /\ active = TRUE
  /\ op = [r \in Requests |-> "none"]
  /\ stage = [r \in Requests |-> "new"]
  /\ token = [r \in Requests |-> 1]
  /\ code = [r \in Requests |-> NoCode]
  /\ want = [r \in Requests |-> {}]
  /\ rowHolder = [t \in Tokens |-> Nobody]
  /\ jtiHolder = [t \in Tokens |-> Nobody]
  /\ userHolder = Nobody
  /\ missed = [r \in Requests |-> {}]

-----------------------------------------------------------------------------
Live == {t \in Tokens : row[t] = "live"}
Issued == {t \in Tokens : row[t] # "absent"}
InFamily(f) == {t \in Live : family[t] = f}
Locked(r) == {t \in Tokens : rowHolder[t] = r}

NewToken == CHOOSE t \in Tokens : t \notin Issued

\* A request that may mint starts only while the bound leaves it a token.
Minting == {r \in Requests : /\ op[r] \in {"login", "refresh"}
                             /\ stage[r] \notin {"done", "failed"}}
CanMint == Cardinality(Minting) < Cardinality(Tokens \ Issued)

Freed(holder, r) == [t \in Tokens |-> IF holder[t] = r THEN Nobody ELSE holder[t]]

\* COMMIT and ROLLBACK release every lock of the transaction.
Release(r) ==
  /\ rowHolder' = Freed(rowHolder, r)
  /\ jtiHolder' = Freed(jtiHolder, r)
  /\ userHolder' = IF userHolder = r THEN Nobody ELSE userHolder

UserFree == userHolder = Nobody

\* The request arrives: o names it, t the token it presents.
Arrive(r, o, t, s) ==
  /\ stage[r] = "new"
  /\ op' = [op EXCEPT ![r] = o]
  /\ token' = [token EXCEPT ![r] = t]
  /\ stage' = [stage EXCEPT ![r] = s]

Goto(r, s) ==
  /\ stage' = [stage EXCEPT ![r] = s]
  /\ UNCHANGED <<op, token>>

-----------------------------------------------------------------------------
(* Login: read the account, spend a backup code if one is given, mint, and *)
(* insert the row.  The account is not read again.                         *)

LoginRead(r) ==
  /\ active /\ CanMint
  /\ \E c \in codes \cup {NoCode} :
       /\ code' = [code EXCEPT ![r] = c]
       /\ Arrive(r, "login", token[r], IF c = NoCode THEN "mint" ELSE "code")
  /\ UNCHANGED <<tables, want, locks>>

\* Mutant: the rowCount of the UPDATE is ignored.
SpendCodeUnchecked(r) ==
  /\ stage[r] = "code" /\ UserFree
  /\ codes' = codes \ {code[r]}
  /\ Goto(r, "mint")
  /\ UNCHANGED <<row, family, denied, active, code, want, locks>>

\* array_remove ... WHERE code = ANY(backup_codes): no row, no login.
SpendCode(r) ==
  /\ stage[r] = "code" /\ UserFree
  /\ IF code[r] \in codes
     THEN /\ codes' = codes \ {code[r]}
          /\ Goto(r, "mint")
          /\ UNCHANGED code
     ELSE /\ code' = [code EXCEPT ![r] = NoCode]
          /\ Goto(r, "failed")
          /\ UNCHANGED codes
  /\ UNCHANGED <<row, family, denied, active, want, locks>>

\* The transaction ends with an UPDATE of the users row.
LoginCommit(r) ==
  /\ stage[r] = "mint" /\ UserFree
  /\ row' = [row EXCEPT ![NewToken] = "live"]
  /\ Goto(r, "done")
  /\ UNCHANGED <<family, denied, codes, active, code, want, locks>>

-----------------------------------------------------------------------------
(* RefreshToken. *)

\* The denylist is read first; a token on it is turned away there.
RefreshBegin(r, t) ==
  /\ t \in Issued \ denied /\ CanMint
  /\ Arrive(r, "refresh", t, "lookup")
  /\ UNCHANGED <<tables, code, want, locks>>

\* Then the row and the account, still outside any transaction.
RefreshLookup(r) ==
  /\ stage[r] = "lookup"
  /\ Goto(r, IF token[r] \notin Live THEN "family"
             ELSE IF active THEN "gate" ELSE "failed")
  /\ UNCHANGED <<tables, code, want, locks>>

\* Mutant: the gate trusts the SELECT made before the transaction.
GateOnEarlierRead(r) ==
  /\ stage[r] = "gate" /\ rowHolder[token[r]] = Nobody
  /\ rowHolder' = [rowHolder EXCEPT ![token[r]] = r]
  /\ Goto(r, "rotate")
  /\ UNCHANGED <<tables, code, want, jtiHolder, userHolder>>

\* UPDATE ... WHERE token_hash AND revoked_at IS NULL AND is_revoked = false:
\* the row is its own lock.  No row updated means the token was used twice.
Gate(r) ==
  /\ stage[r] = "gate" /\ rowHolder[token[r]] = Nobody
  /\ IF token[r] \in Live
     THEN /\ rowHolder' = [rowHolder EXCEPT ![token[r]] = r]
          /\ Goto(r, "rotate")
     ELSE /\ Goto(r, "family")
          /\ UNCHANGED rowHolder
  /\ UNCHANGED <<tables, code, want, jtiHolder, userHolder>>

\* Mutant: the INSERT leaves family_id to the column's default.
RotateToOwnFamily(r) ==
  /\ stage[r] = "rotate" /\ jtiHolder[token[r]] = Nobody
  /\ row' = [row EXCEPT ![token[r]] = "revoked", ![NewToken] = "live"]
  /\ denied' = denied \cup {token[r]}
  /\ Release(r)
  /\ Goto(r, "done")
  /\ UNCHANGED <<family, codes, active, code, want>>

\* Mutant: the row is inserted with no family at all.
RotateToNoFamily(r) ==
  /\ stage[r] = "rotate" /\ jtiHolder[token[r]] = Nobody
  /\ row' = [row EXCEPT ![token[r]] = "revoked", ![NewToken] = "live"]
  /\ family' = [family EXCEPT ![NewToken] = 0]
  /\ denied' = denied \cup {token[r]}
  /\ Release(r)
  /\ Goto(r, "done")
  /\ UNCHANGED <<codes, active, code, want>>

\* INSERT the old jti (ON CONFLICT DO NOTHING waits for an insert of it in
\* progress) and the new head of the family; commit.
Rotate(r) ==
  /\ stage[r] = "rotate" /\ jtiHolder[token[r]] = Nobody
  /\ row' = [row EXCEPT ![token[r]] = "revoked", ![NewToken] = "live"]
  /\ family' = [family EXCEPT ![NewToken] = family[token[r]]]
  /\ denied' = denied \cup {token[r]}
  /\ Release(r)
  /\ Goto(r, "done")
  /\ UNCHANGED <<codes, active, code, want>>

\* Reuse: revoke what is live of the family when this statement starts.
ReuseScan(r) ==
  /\ stage[r] = "family"
  /\ want' = [want EXCEPT ![r] = InFamily(family[token[r]])]
  /\ Goto(r, "sweep")
  /\ UNCHANGED <<tables, code, locks>>

-----------------------------------------------------------------------------
(* The requests that end sessions.  Their UPDATE of refresh_tokens locks   *)
(* the rows it found live one by one and keeps those that still are.       *)

\* Mutant: the session's own row is revoked, not what it was rotated into.
RevokeBeginOwnRow(r, t) ==
  /\ t \in Issued
  /\ Arrive(r, "revoke", t, "sweep")
  /\ want' = [want EXCEPT ![r] = {t} \cap Live]
  /\ UNCHANGED <<tables, code, locks>>

RevokeBegin(r, t) ==
  /\ t \in Issued
  /\ Arrive(r, "revoke", t, "sweep")
  /\ want' = [want EXCEPT ![r] = InFamily(family[t])]
  /\ UNCHANGED <<tables, code, locks>>

RevokeAllBegin(r) ==
  /\ Arrive(r, "revokeAll", token[r], IF Live = {} THEN "done" ELSE "sweep")
  /\ want' = [want EXCEPT ![r] = Live]
  /\ UNCHANGED <<tables, code, locks>>

\* Password change, reset and admin reset write the users row first.
PasswordBegin(r) ==
  /\ UserFree
  /\ userHolder' = r
  /\ Arrive(r, "password", token[r], "sweep")
  /\ want' = [want EXCEPT ![r] = Live]
  /\ UNCHANGED <<tables, code, rowHolder, jtiHolder>>

LogoutBegin(r, t) ==
  /\ t \in Issued
  /\ Arrive(r, "logout", t, IF t \in denied THEN "done" ELSE "deny")
  /\ UNCHANGED <<tables, code, want, locks>>

\* INSERT without ON CONFLICT: a jti denied meanwhile fails the transaction.
\* The UPDATE that follows names the token's own row only.
LogoutDeny(r) ==
  /\ stage[r] = "deny" /\ jtiHolder[token[r]] = Nobody
  /\ IF token[r] \in denied
     THEN /\ Goto(r, "failed")
          /\ UNCHANGED <<want, jtiHolder>>
     ELSE /\ jtiHolder' = [jtiHolder EXCEPT ![token[r]] = r]
          /\ want' = [want EXCEPT ![r] = {token[r]} \cap Live]
          /\ Goto(r, "sweep")
  /\ UNCHANGED <<tables, code, rowHolder, userHolder>>

SweepRow(r, t) ==
  /\ stage[r] = "sweep" /\ t \in want[r] /\ rowHolder[t] = Nobody
  /\ want' = [want EXCEPT ![r] = @ \ {t}]
  /\ rowHolder' = IF t \in Live THEN [rowHolder EXCEPT ![t] = r] ELSE rowHolder
  /\ UNCHANGED <<tables, op, stage, token, code, jtiHolder, userHolder>>

\* All but logout also stamp users.tokens_valid_from; commit.
SweepCommit(r) ==
  /\ stage[r] = "sweep" /\ want[r] = {}
  /\ op[r] = "logout" \/ userHolder \in {Nobody, r}
  /\ row' = [t \in Tokens |-> IF t \in Locked(r) THEN "revoked" ELSE row[t]]
  /\ denied' = denied \cup {t \in Tokens : jtiHolder[t] = r}
  /\ Release(r)
  /\ Goto(r, "done")
  /\ UNCHANGED <<family, codes, active, code, want>>

\* DeactivateUser and ReactivateUser.
SetStatus(r) ==
  /\ UserFree
  /\ active' = ~active
  /\ Arrive(r, "status", token[r], "done")
  /\ UNCHANGED <<row, family, denied, codes, code, want, locks>>

-----------------------------------------------------------------------------
(* Failure. *)

\* Mutant: the connection goes back to the pool without ROLLBACK.
RollbackForgotten(r) ==
  /\ want' = [want EXCEPT ![r] = {}]
  /\ Goto(r, "failed")
  /\ UNCHANGED <<tables, code, locks>>

Rollback(r) ==
  /\ Release(r)
  /\ want' = [want EXCEPT ![r] = {}]
  /\ Goto(r, "failed")
  /\ UNCHANGED <<tables, code>>

InFlight(r) == stage[r] \notin {"new", "done", "failed"}

\* The service dies or loses its connection: PostgreSQL rolls back.
Fail(r) == InFlight(r) /\ Rollback(r)

\* The lock r needs next is held by q.
WaitsFor(r, q) ==
  /\ q # r
  /\ \/ stage[r] = "gate" /\ rowHolder[token[r]] = q
     \/ stage[r] \in {"rotate", "deny"} /\ jtiHolder[token[r]] = q
     \/ stage[r] = "sweep" /\ \E t \in want[r] : rowHolder[t] = q
     \/ stage[r] = "sweep" /\ want[r] = {} /\ op[r] # "logout" /\ userHolder = q
     \/ stage[r] \in {"code", "mint"} /\ userHolder = q

\* deadlock_timeout: some request of a cycle of waits is made the victim.
Deadlocked(r) ==
  \E C \in SUBSET Requests :
    /\ r \in C
    /\ \A p \in C : (\E q \in C : WaitsFor(p, q)) /\ (\E q \in C : WaitsFor(q, p))

BreakDeadlock(r) == Deadlocked(r) /\ Rollback(r)

-----------------------------------------------------------------------------
Call(r) ==
  \/ LoginRead(r)
  \/ RevokeAllBegin(r)
  \/ PasswordBegin(r)
  \/ SetStatus(r)
  \/ \E t \in Tokens : RefreshBegin(r, t) \/ RevokeBegin(r, t) \/ LogoutBegin(r, t)

\* What the service and the database do with a request that arrived.
Serve(r) ==
  \/ SpendCode(r)
  \/ LoginCommit(r)
  \/ RefreshLookup(r)
  \/ Gate(r)
  \/ Rotate(r)
  \/ ReuseScan(r)
  \/ LogoutDeny(r)
  \/ \E t \in Tokens : SweepRow(r, t)
  \/ SweepCommit(r)
  \/ BreakDeadlock(r)

\* A request that ends sessions is to end those of family f.
Covers(r, f) == op[r] \in {"revokeAll", "password"} \/ family[token[r]] = f

\* A token minted after a sweep's UPDATE chose its rows is none of them.
Watch ==
  missed' = [r \in Requests |->
    IF stage'[r] = "sweep" THEN missed[r] \cup (Live' \ Live) ELSE {}]

Quiet == /\ \A r \in Requests : stage[r] \in {"done", "failed"}
         /\ UNCHANGED vars

Next ==
  \/ \E r \in Requests : (Call(r) \/ Serve(r) \/ Fail(r)) /\ Watch
  \/ Quiet

Spec == Init /\ [][Next]_vars

\* Node runs the handlers, PostgreSQL grants locks and breaks deadlocks; no
\* client has to call, and nothing has to fail.
Fairness == \A r \in Requests : WF_vars(Serve(r) /\ Watch)

FairSpec == Spec /\ Fairness

-----------------------------------------------------------------------------
(* Properties. *)

\* A session never has two live refresh tokens, however its rotations race
\* (handlers.ts:874-890, the conditional UPDATE as rotation gate).
OneHead == \A t, u \in Live : family[t] = family[u] => t = u

\* A session is opened once and, once closed, no rotation that was already
\* under way revives it: rotation, reuse detection, logout, revocation and
\* rollback are closings or stutters of the abstract ledger.
Sessions == Tokens
OpenSessions == {family[t] : t \in Live}
ClosedSessions == {family[t] : t \in Issued} \ OpenSessions

Ledger == INSTANCE SessionLedger
            WITH open <- OpenSessions, closed <- ClosedSessions
ImplementsLedger == Ledger!Spec

\* A session closes only when a request that was to end it commits: no race
\* of rotations, rollback or login loses the head of a session nobody ended.
Ends(r, f) == stage[r] = "sweep" /\ stage'[r] = "done" /\ Covers(r, f)
OnlyRequestedClosings ==
  [][\A f \in OpenSessions \ OpenSessions' : \E r \in Requests : Ends(r, f)]_vars

\* When a revocation, a password change or a detected reuse commits, every
\* token of the sessions it names is dead, whatever rotated, waited or rolled
\* back meanwhile, but for the tokens minted while its UPDATE was running; a
\* request that missed one still ends all the others (session-handlers.ts:
\* 145-151).  Logout names a token, not a session.
RevocationHolds ==
  [][\A r \in Requests :
       stage[r] = "sweep" /\ stage'[r] = "done" /\ op[r] # "logout" =>
         {t \in Live' : Covers(r, family[t])} \subseteq missed[r]]_vars

\* Of concurrent logins with one backup code, one is let in
\* (handlers.ts:412-423).
BackupCodeOnce ==
  \A r, q \in Requests :
    /\ code[r] = code[q] /\ code[r] # NoCode
    /\ {stage[r], stage[q]} \subseteq {"mint", "done"}
    => r = q

\* Every request ends, although rotation and logout, and revocation and
\* password change, take their locks in opposite orders
\* (handlers.ts:874-940 and 770-781; account-handlers.ts:544-566).
RequestsFinish ==
  \A r \in Requests : (stage[r] # "new") ~> (stage[r] \in {"done", "failed"})

(* What the code says and does not do. *)

\* A session that was revoked has no live token left: "Revoke EVERY still-active
\* row in the family" (session-handlers.ts:136).
RevokedForGood ==
  \A r \in Requests :
    op[r] = "revoke" /\ stage[r] = "done" => InFamily(family[token[r]]) = {}
=============================================================================
