------------------------- MODULE AuthSessionsProofs -------------------------
(***************************************************************************)
(* What the tables of service.auth keep for any number of concurrent       *)
(* requests, refresh tokens and backup codes.                              *)
(***************************************************************************)
EXTENDS AuthSessions, FiniteSetTheorems, TLAPS

\* There is a token left for every request that may still mint one.
MintInv == Cardinality(Minting) <= Cardinality(Tokens \ Issued)

StageInv ==
  \A r \in Requests :
    /\ stage[r] \in {"code", "mint"} => op[r] = "login"
    /\ stage[r] \in {"lookup", "gate", "rotate", "family"} => op[r] = "refresh"
    /\ stage[r] = "deny" => op[r] = "logout"

\* Families are named after issued tokens; a new token is a family of its own.
FamilyInv ==
  /\ \A t \in Tokens : IF t \in Issued THEN family[t] \in Issued ELSE family[t] = t
  /\ \A r \in Requests : token[r] \in Issued

\* A locked row is live until its holder commits.
HeldInv ==
  /\ \A t \in Tokens, r \in Requests :
       rowHolder[t] = r => t \in Live /\ stage[r] \in {"rotate", "sweep"}
  /\ \A r \in Requests : stage[r] = "rotate" => rowHolder[token[r]] = r

\* A request that ends one session has no rows of another in its hands.
SweepInv ==
  \A r \in Requests :
    stage[r] = "sweep" /\ op[r] \notin {"revokeAll", "password"} =>
      \A t \in Tokens : t \in want[r] \/ rowHolder[t] = r =>
        t \in Issued /\ family[t] = family[token[r]]

\* A backup code somebody was let in with is gone from the account.
CodeInv ==
  \A r \in Requests :
    code[r] # NoCode =>
      /\ stage[r] \in {"code", "mint", "done", "failed"}
      /\ stage[r] \in {"mint", "done"} => code[r] \notin codes

\* A sweep has every live row in view that it is to revoke, but for those that
\* were added since it started.
CoverInv ==
  \A r \in Requests :
    stage[r] = "sweep" /\ op[r] # "logout" =>
      \A t \in Live : Covers(r, family[t]) =>
        t \in want[r] \/ rowHolder[t] = r \/ t \in missed[r]

IInv ==
  /\ TypeOK /\ MintInv /\ StageInv
  /\ FamilyInv /\ HeldInv /\ SweepInv /\ OneHead /\ CoverInv
  /\ CodeInv /\ BackupCodeOnce

-----------------------------------------------------------------------------
\* The tables are finite, so their rows can be counted.
LEMMA FiniteSets ==
  /\ IsFiniteSet(Minting) /\ IsFiniteSet(Tokens \ Issued)
  /\ Cardinality(Minting) \in Nat /\ Cardinality(Tokens \ Issued) \in Nat
<1>1. IsFiniteSet(Requests) /\ IsFiniteSet(Tokens)
  BY AuthAssumption, FS_Interval DEF Tokens
<1>2. IsFiniteSet(Minting)
  BY <1>1, FS_Subset DEF Minting
<1>3. IsFiniteSet(Tokens \ Issued)
  BY <1>1, FS_Subset
<1> QED
  BY <1>2, <1>3, FS_CardinalityType

\* A request about to mint finds a token that was never used.
LEMMA NewTokenFresh ==
  ASSUME MintInv, StageInv, NEW r \in Requests, stage[r] \in {"mint", "rotate"}
  PROVE  NewToken \in Tokens /\ NewToken \notin Issued
<1>1. r \in Minting
  BY DEF StageInv, Minting
<1>2. Cardinality(Minting) # 0
  BY <1>1, FiniteSets, FS_EmptySet
<1>3. Cardinality(Tokens \ Issued) # 0
  BY <1>2, FiniteSets DEF MintInv
<1>4. \E t \in Tokens : t \notin Issued
  BY <1>3, FS_EmptySet
<1> QED
  BY <1>4 DEF NewToken

\* Giving up locks.
LEMMA Freeing ==
  ASSUME TypeOK, NEW r \in Requests, Release(r)
  PROVE  /\ rowHolder' \in [Tokens -> Requests \cup {Nobody}]
         /\ jtiHolder' \in [Tokens -> Requests \cup {Nobody}]
         /\ userHolder' \in Requests \cup {Nobody}
         /\ \A t \in Tokens : rowHolder'[t] \in {rowHolder[t], Nobody} /\ rowHolder'[t] # r
         /\ \A t \in Tokens : rowHolder[t] # r => rowHolder'[t] = rowHolder[t]
BY AuthAssumption DEF Release, Freed, TypeOK

\* Only the fields of the request itself move.
LEMMA Moving ==
  ASSUME TypeOK, NEW r \in Requests, NEW s \in Stages, Goto(r, s)
  PROVE  /\ stage' \in [Requests -> Stages] /\ stage'[r] = s
         /\ \A q \in Requests : q # r => stage'[q] = stage[q]
         /\ op' = op /\ token' = token
BY DEF Goto, TypeOK

LEMMA Arriving ==
  ASSUME TypeOK, NEW r \in Requests, NEW o \in Ops, NEW t \in Tokens, NEW s \in Stages,
         Arrive(r, o, t, s)
  PROVE  /\ stage' \in [Requests -> Stages] /\ stage'[r] = s /\ stage[r] = "new"
         /\ op' \in [Requests -> Ops] /\ op'[r] = o
         /\ token' \in [Requests -> Tokens] /\ token'[r] = t
         /\ \A q \in Requests : q # r =>
              stage'[q] = stage[q] /\ op'[q] = op[q] /\ token'[q] = token[q]
BY DEF Arrive, TypeOK

-----------------------------------------------------------------------------
(* Types. *)

\* Arriving requests.
LEMMA CallTypes ==
  ASSUME TypeOK, NEW r \in Requests, Call(r), missed' \in [Requests -> SUBSET Tokens]
  PROVE  TypeOK'
<1>0. token[r] \in Tokens /\ Live \subseteq Tokens /\ Issued \subseteq Tokens
  BY DEF TypeOK, Live, Issued
<1>1. CASE LoginRead(r)
  <2>1. PICK c \in codes \cup {NoCode} :
          /\ code' = [code EXCEPT ![r] = c]
          /\ Arrive(r, "login", token[r], IF c = NoCode THEN "mint" ELSE "code")
    BY <1>1 DEF LoginRead
  <2>2. /\ stage' \in [Requests -> Stages] /\ op' \in [Requests -> Ops]
        /\ token' \in [Requests -> Tokens]
    BY <1>0, <2>1, Arriving DEF Ops, Stages
  <2> QED
    BY <1>1, <2>1, <2>2 DEF LoginRead, TypeOK, tables, locks
<1>2. CASE RevokeAllBegin(r) \/ PasswordBegin(r) \/ SetStatus(r)
  <2>1. /\ stage' \in [Requests -> Stages] /\ op' \in [Requests -> Ops]
        /\ token' \in [Requests -> Tokens]
    BY <1>0, <1>2, Arriving DEF RevokeAllBegin, PasswordBegin, SetStatus, Ops, Stages
  <2> QED
    BY <1>0, <1>2, <2>1 DEF RevokeAllBegin, PasswordBegin, SetStatus, TypeOK, tables, locks
<1>3. ASSUME NEW t \in Tokens, RefreshBegin(r, t) \/ RevokeBegin(r, t) \/ LogoutBegin(r, t)
      PROVE  TypeOK'
  <2>1. /\ stage' \in [Requests -> Stages] /\ op' \in [Requests -> Ops]
        /\ token' \in [Requests -> Tokens]
    BY <1>3, Arriving DEF RefreshBegin, RevokeBegin, LogoutBegin, Ops, Stages
  <2>2. InFamily(family[t]) \subseteq Tokens
    BY <1>0 DEF InFamily
  <2> QED
    BY <1>3, <2>1, <2>2 DEF RefreshBegin, RevokeBegin, LogoutBegin, TypeOK, tables, locks
<1> QED
  BY <1>1, <1>2, <1>3 DEF Call

LEMMA ServeTypes ==
  ASSUME TypeOK, MintInv, StageInv, NEW r \in Requests, Serve(r) \/ Fail(r),
         missed' \in [Requests -> SUBSET Tokens]
  PROVE  TypeOK'
<1>0. token[r] \in Tokens /\ Live \subseteq Tokens
  BY DEF TypeOK, Live
<1>1. CASE SpendCode(r)
  <2>1. stage' \in [Requests -> Stages] /\ op' = op /\ token' = token
    BY <1>1, Moving DEF SpendCode, Stages
  <2> QED
    BY <1>1, <2>1 DEF SpendCode, TypeOK, locks
<1>2. CASE LoginCommit(r)
  <2>1. stage' \in [Requests -> Stages] /\ op' = op /\ token' = token
    BY <1>2, Moving DEF LoginCommit, Stages
  <2>2. NewToken \in Tokens
    BY <1>2, NewTokenFresh DEF LoginCommit
  <2> QED
    BY <1>2, <2>1, <2>2 DEF LoginCommit, TypeOK, locks
<1>3. CASE RefreshLookup(r)
  <2>1. stage' \in [Requests -> Stages] /\ op' = op /\ token' = token
    BY <1>3, Moving DEF RefreshLookup, Stages
  <2> QED
    BY <1>3, <2>1 DEF RefreshLookup, TypeOK, tables, locks
<1>4. CASE Gate(r)
  <2>1. stage' \in [Requests -> Stages] /\ op' = op /\ token' = token
    BY <1>4, Moving DEF Gate, Stages
  <2>2. rowHolder' \in [Tokens -> Requests \cup {Nobody}]
    BY <1>4 DEF Gate, TypeOK
  <2> QED
    BY <1>4, <2>1, <2>2 DEF Gate, TypeOK, tables
<1>5. CASE Rotate(r)
  <2>1. stage' \in [Requests -> Stages] /\ op' = op /\ token' = token
    BY <1>5, Moving DEF Rotate, Stages
  <2>2. NewToken \in Tokens
    BY <1>5, NewTokenFresh DEF Rotate
  <2>3. row' \in [Tokens -> {"absent", "live", "revoked"}] /\ family' \in [Tokens -> Tokens]
    BY <1>0, <1>5, <2>2 DEF Rotate, TypeOK
  <2>4. denied' \subseteq Tokens
    BY <1>0, <1>5 DEF Rotate, TypeOK
  <2> QED
    BY <1>5, <2>1, <2>3, <2>4, Freeing DEF Rotate, TypeOK
<1>6. CASE ReuseScan(r)
  <2>1. stage' \in [Requests -> Stages] /\ op' = op /\ token' = token
    BY <1>6, Moving DEF ReuseScan, Stages
  <2>2. want' \in [Requests -> SUBSET Tokens]
    BY <1>0, <1>6 DEF ReuseScan, InFamily, TypeOK
  <2> QED
    BY <1>6, <2>1, <2>2 DEF ReuseScan, TypeOK, tables, locks
<1>7. CASE LogoutDeny(r)
  <2>1. stage' \in [Requests -> Stages] /\ op' = op /\ token' = token
    BY <1>7, Moving DEF LogoutDeny, Stages
  <2>2. /\ want' \in [Requests -> SUBSET Tokens]
        /\ jtiHolder' \in [Tokens -> Requests \cup {Nobody}]
    BY <1>0, <1>7 DEF LogoutDeny, TypeOK
  <2> QED
    BY <1>7, <2>1, <2>2 DEF LogoutDeny, TypeOK, tables
<1>8. ASSUME NEW t \in Tokens, SweepRow(r, t) PROVE TypeOK'
  <2>1. /\ want' \in [Requests -> SUBSET Tokens]
        /\ rowHolder' \in [Tokens -> Requests \cup {Nobody}]
    BY <1>8 DEF SweepRow, TypeOK
  <2> QED
    BY <1>8, <2>1 DEF SweepRow, TypeOK, tables
<1>9. CASE SweepCommit(r)
  <2>1. stage' \in [Requests -> Stages] /\ op' = op /\ token' = token
    BY <1>9, Moving DEF SweepCommit, Stages
  <2>2. row' \in [Tokens -> {"absent", "live", "revoked"}] /\ denied' \subseteq Tokens
    BY <1>9 DEF SweepCommit, TypeOK
  <2> QED
    BY <1>9, <2>1, <2>2, Freeing DEF SweepCommit, TypeOK
<1>10. CASE Rollback(r)
  <2>1. stage' \in [Requests -> Stages] /\ op' = op /\ token' = token
    BY <1>10, Moving DEF Rollback, Stages
  <2>2. want' \in [Requests -> SUBSET Tokens]
    BY <1>10 DEF Rollback, TypeOK
  <2> QED
    BY <1>10, <2>1, <2>2, Freeing DEF Rollback, TypeOK, tables
<1> QED
  BY <1>1, <1>2, <1>3, <1>4, <1>5, <1>6, <1>7, <1>8, <1>9, <1>10 DEF Serve, Fail, BreakDeadlock

\* A step of one request leaves the fields and the row locks of the others.
LEMMA OthersUntouched ==
  ASSUME TypeOK, NEW r \in Requests, Call(r) \/ Serve(r) \/ Fail(r)
  PROVE  \A q \in Requests : q # r =>
           /\ stage'[q] = stage[q] /\ op'[q] = op[q] /\ token'[q] = token[q]
           /\ code'[q] = code[q] /\ want'[q] = want[q]
           /\ \A t \in Tokens : rowHolder'[t] = q <=> rowHolder[t] = q
<1> SUFFICES ASSUME NEW q \in Requests, q # r
             PROVE  /\ stage'[q] = stage[q] /\ op'[q] = op[q] /\ token'[q] = token[q]
                    /\ code'[q] = code[q] /\ want'[q] = want[q]
                    /\ \A t \in Tokens : rowHolder'[t] = q <=> rowHolder[t] = q
  OBVIOUS
<1>1. stage'[q] = stage[q] /\ op'[q] = op[q] /\ token'[q] = token[q]
  BY DEF Call, LoginRead, RevokeAllBegin, PasswordBegin, SetStatus, RefreshBegin,
     RevokeBegin, LogoutBegin, Serve, SpendCode, LoginCommit, RefreshLookup, Gate, Rotate,
     ReuseScan, LogoutDeny, SweepRow, SweepCommit, BreakDeadlock, Fail, Rollback, Arrive,
     Goto, TypeOK
<1>2. code'[q] = code[q] /\ want'[q] = want[q]
  BY DEF Call, LoginRead, RevokeAllBegin, PasswordBegin, SetStatus, RefreshBegin,
     RevokeBegin, LogoutBegin, Serve, SpendCode, LoginCommit, RefreshLookup, Gate, Rotate,
     ReuseScan, LogoutDeny, SweepRow, SweepCommit, BreakDeadlock, Fail, Rollback, TypeOK
<1>3. \A t \in Tokens : rowHolder'[t] = q <=> rowHolder[t] = q
  <2>1. CASE Call(r)
    BY <2>1 DEF Call, LoginRead, RevokeAllBegin, PasswordBegin, SetStatus, RefreshBegin,
       RevokeBegin, LogoutBegin, locks
  <2>2. CASE Rotate(r) \/ SweepCommit(r) \/ Rollback(r)
    <3>1. Release(r)
      BY <2>2 DEF Rotate, SweepCommit, Rollback
    <3> QED
      BY <3>1, Freeing, AuthAssumption
  <2>3. CASE Gate(r)
    BY <2>3, AuthAssumption DEF Gate, TypeOK
  <2>4. ASSUME NEW t \in Tokens, SweepRow(r, t)
        PROVE \A u \in Tokens : rowHolder'[u] = q <=> rowHolder[u] = q
    BY <2>4, AuthAssumption DEF SweepRow, TypeOK
  <2>5. CASE SpendCode(r) \/ LoginCommit(r) \/ RefreshLookup(r) \/ ReuseScan(r) \/ LogoutDeny(r)
    BY <2>5 DEF SpendCode, LoginCommit, RefreshLookup, ReuseScan, LogoutDeny, locks
  <2> QED
    BY <2>1, <2>2, <2>3, <2>4, <2>5 DEF Serve, Fail, BreakDeadlock
<1> QED
  BY <1>1, <1>2, <1>3

LEMMA StageStep ==
  ASSUME TypeOK, StageInv, NEW r \in Requests, Call(r) \/ Serve(r) \/ Fail(r)
  PROVE  StageInv'
<1>1. CASE Call(r)
  <2>1. /\ stage'[r] \in {"code", "mint"} => op'[r] = "login"
        /\ stage'[r] \in {"lookup", "gate", "rotate", "family"} => op'[r] = "refresh"
        /\ stage'[r] = "deny" => op'[r] = "logout"
    BY <1>1 DEF Call, LoginRead, RevokeAllBegin, PasswordBegin, SetStatus, RefreshBegin,
       RevokeBegin, LogoutBegin, Arrive, TypeOK
  <2> QED
    BY <2>1, OthersUntouched DEF StageInv
<1>2. CASE Serve(r) \/ Fail(r)
  <2>1. op'[r] = op[r]
    BY <1>2 DEF Serve, SpendCode, LoginCommit, RefreshLookup, Gate, Rotate, ReuseScan,
       LogoutDeny, SweepRow, SweepCommit, BreakDeadlock, Fail, Rollback, Goto
  <2>2. \/ stage'[r] = stage[r]
        \/ stage[r] = "code" /\ stage'[r] = "mint"
        \/ stage[r] \in {"lookup", "gate", "rotate"}
        \/ stage'[r] \in {"sweep", "done", "failed"}
    BY <1>2 DEF Serve, SpendCode, LoginCommit, RefreshLookup, Gate, Rotate, ReuseScan,
       LogoutDeny, SweepRow, SweepCommit, BreakDeadlock, Fail, Rollback, Goto, TypeOK
  <2>3. stage[r] \in {"lookup", "gate", "rotate"} => stage'[r] \notin {"code", "mint", "deny"}
    BY <1>2 DEF Serve, SpendCode, LoginCommit, RefreshLookup, Gate, Rotate, ReuseScan,
       LogoutDeny, SweepRow, SweepCommit, BreakDeadlock, Fail, Rollback, Goto, TypeOK
  <2> QED
    BY <2>1, <2>2, <2>3, OthersUntouched DEF StageInv
<1> QED
  BY <1>1, <1>2

\* What a step does to the refresh tokens.
LEMMA RowSteps ==
  ASSUME TypeOK, MintInv, StageInv, NEW r \in Requests, Call(r) \/ Serve(r) \/ Fail(r)
  PROVE  \/ UNCHANGED <<row, family>>
         \/ LoginCommit(r)
         \/ Rotate(r)
         \/ SweepCommit(r)
BY DEF Call, LoginRead, RevokeAllBegin, PasswordBegin, SetStatus, RefreshBegin,
   RevokeBegin, LogoutBegin, Serve, SpendCode, RefreshLookup, Gate, ReuseScan,
   LogoutDeny, SweepRow, BreakDeadlock, Fail, Rollback, tables

\* Minting: one token more is issued and the request that asked for it ends.
LEMMA MintedRows ==
  ASSUME TypeOK, MintInv, StageInv, FamilyInv, NEW r \in Requests, LoginCommit(r) \/ Rotate(r)
  PROVE  /\ NewToken \in Tokens /\ NewToken \notin Issued
         /\ Issued' = Issued \cup {NewToken}
         /\ NewToken \in Live'
         /\ \A t \in Tokens : t # NewToken => family'[t] = family[t]
         /\ LoginCommit(r) => Live' = Live \cup {NewToken} /\ family' = family
         /\ Rotate(r) => /\ Live' = (Live \ {token[r]}) \cup {NewToken}
                         /\ family'[NewToken] = family[token[r]]
<1>1. NewToken \in Tokens /\ NewToken \notin Issued
  BY NewTokenFresh DEF LoginCommit, Rotate
<1>2. token[r] \in Tokens /\ family[token[r]] \in Tokens
  BY DEF TypeOK
<1>3. CASE LoginCommit(r)
  <2>1. row' = [row EXCEPT ![NewToken] = "live"] /\ family' = family
    BY <1>3 DEF LoginCommit
  <2>2. ~ Rotate(r)
    BY <1>3 DEF LoginCommit, Rotate
  <2> HIDE DEF NewToken
  <2>3. Issued' = Issued \cup {NewToken} /\ Live' = Live \cup {NewToken}
    BY <1>1, <2>1 DEF Issued, Live, TypeOK
  <2> QED
    BY <1>1, <2>1, <2>2, <2>3
<1>4. CASE Rotate(r)
  <2>1. /\ row' = [row EXCEPT ![token[r]] = "revoked", ![NewToken] = "live"]
        /\ family' = [family EXCEPT ![NewToken] = family[token[r]]]
    BY <1>4 DEF Rotate
  <2>2. ~ LoginCommit(r)
    BY <1>4 DEF LoginCommit, Rotate
  <2>3. Issued' = Issued \cup {NewToken}
    <3>1. token[r] \in Issued
      BY DEF FamilyInv
    <3> HIDE DEF NewToken
    <3> QED
      BY <1>1, <1>2, <2>1, <3>1 DEF Issued, TypeOK
  <2>4. Live' = (Live \ {token[r]}) \cup {NewToken}
    BY <1>1, <1>2, <2>1 DEF Live, TypeOK
  <2>5. \A t \in Tokens : t # NewToken => family'[t] = family[t]
    BY <2>1 DEF TypeOK
  <2>6. family'[NewToken] = family[token[r]]
    BY <1>1, <2>1 DEF TypeOK
  <2> QED
    BY <1>1, <2>2, <2>3, <2>4, <2>5, <2>6
<1> QED
  BY <1>3, <1>4

\* A request that ends sessions revokes rows of its own, and issues nothing.
LEMMA SweptRows ==
  ASSUME TypeOK, HeldInv, NEW r \in Requests, SweepCommit(r)
  PROVE  /\ family' = family /\ Issued' = Issued
         /\ Live' = Live \ Locked(r)
<1>1. row' = [t \in Tokens |-> IF t \in Locked(r) THEN "revoked" ELSE row[t]]
  BY DEF SweepCommit
<1>2. \A t \in Locked(r) : t \in Tokens /\ row[t] = "live"
  BY DEF Locked, HeldInv, Live
<1>3. family' = family
  BY DEF SweepCommit
<1>4. Issued' = Issued
  BY <1>1, <1>2 DEF Issued
<1>5. Live' = Live \ Locked(r)
  BY <1>1, <1>2 DEF Live
<1> QED
  BY <1>3, <1>4, <1>5

LEMMA MintStep ==
  ASSUME TypeOK, MintInv, StageInv, FamilyInv, HeldInv, NEW r \in Requests,
         Call(r) \/ Serve(r) \/ Fail(r)
  PROVE  MintInv'
<1>0. \A q \in Requests : q # r => (q \in Minting' <=> q \in Minting)
  BY OthersUntouched DEF Minting
<1>1. CASE LoginCommit(r) \/ Rotate(r)
  <2>1. r \in Minting /\ r \notin Minting'
    <3>1. stage'[r] = "done"
      BY <1>1, Moving DEF LoginCommit, Rotate, Stages
    <3> QED
      BY <1>1, <3>1 DEF LoginCommit, Rotate, StageInv, Minting
  <2>2. Minting' = Minting \ {r}
    BY <1>0, <2>1 DEF Minting
  <2>3. Tokens \ Issued' = (Tokens \ Issued) \ {NewToken} /\ NewToken \in Tokens \ Issued
    BY <1>1, MintedRows
  <2>4. /\ Cardinality(Minting') = Cardinality(Minting) - 1
        /\ Cardinality(Tokens \ Issued') = Cardinality(Tokens \ Issued) - 1
    BY <2>1, <2>2, <2>3, FiniteSets, FS_RemoveElement
  <2>5. Tokens' = Tokens
    BY DEF Tokens
  <2> QED
    BY <2>4, <2>5, FiniteSets DEF MintInv
<1>2. CASE ~ (LoginCommit(r) \/ Rotate(r))
  <2>1. Issued' = Issued
    BY <1>2, RowSteps, SweptRows DEF Issued
  <2>2. CASE Minting' \subseteq Minting
    <3>1. Cardinality(Minting') <= Cardinality(Minting) /\ Cardinality(Minting') \in Nat
      BY <2>2, FiniteSets, FS_Subset, FS_CardinalityType
    <3> QED
      BY <2>1, <3>1, FiniteSets DEF MintInv, Tokens
  <2>3. CASE ~ (Minting' \subseteq Minting)
    <3>1. r \in Minting' /\ r \notin Minting
      BY <1>0, <2>3 DEF Minting
    <3>2. CanMint
      <4>1. CASE Call(r)
        BY <3>1, <4>1 DEF Call, LoginRead, RevokeAllBegin, PasswordBegin, SetStatus,
           RefreshBegin, RevokeBegin, LogoutBegin, Arrive, TypeOK, Minting
      <4>2. CASE Serve(r) \/ Fail(r)
        <5>1. op' = op
          BY <4>2 DEF Serve, SpendCode, LoginCommit, RefreshLookup, Gate, Rotate,
             ReuseScan, LogoutDeny, SweepRow, SweepCommit, BreakDeadlock, Fail, Rollback, Goto
        <5>2. stage[r] \notin {"done", "failed"}
          BY <4>2 DEF Serve, SpendCode, LoginCommit, RefreshLookup, Gate, Rotate,
             ReuseScan, LogoutDeny, SweepRow, SweepCommit, BreakDeadlock, Fail, InFlight,
             Deadlocked, WaitsFor
        <5> QED
          BY <3>1, <5>1, <5>2 DEF Minting
      <4> QED
        BY <4>1, <4>2
    <3>3. Minting' = Minting \cup {r}
      BY <1>0, <3>1 DEF Minting
    <3>4. Cardinality(Minting') = Cardinality(Minting) + 1
      BY <3>1, <3>3, FiniteSets, FS_AddElement
    <3> QED
      BY <2>1, <3>2, <3>4, FiniteSets DEF CanMint, MintInv, Tokens
  <2> QED
    BY <2>2, <2>3
<1> QED
  BY <1>1, <1>2

LEMMA FamilyStep ==
  ASSUME TypeOK, MintInv, StageInv, FamilyInv, HeldInv, NEW r \in Requests,
         Call(r) \/ Serve(r) \/ Fail(r)
  PROVE  FamilyInv'
<1>0. /\ Issued \subseteq Issued' /\ Issued \subseteq Tokens /\ Live \subseteq Issued
      /\ \A t \in Tokens : IF t \in Issued' THEN family'[t] \in Issued' ELSE family'[t] = t
  <2>1. Issued \subseteq Tokens /\ Live \subseteq Issued
    BY DEF Issued, Live
  <2>2. CASE LoginCommit(r) \/ Rotate(r)
    BY <2>1, <2>2, MintedRows DEF FamilyInv, Rotate, LoginCommit
  <2>3. CASE SweepCommit(r)
    BY <2>1, <2>3, SweptRows DEF FamilyInv
  <2>4. CASE UNCHANGED <<row, family>>
    BY <2>1, <2>4 DEF FamilyInv, Issued
  <2> QED
    BY <2>2, <2>3, <2>4, RowSteps
<1>1. token'[r] \in Issued
  <2>1. token[r] \in Issued
    BY DEF FamilyInv
  <2>2. CASE Call(r)
    BY <2>1, <2>2 DEF Call, LoginRead, RevokeAllBegin, PasswordBegin, SetStatus,
       RefreshBegin, RevokeBegin, LogoutBegin, Arrive, TypeOK
  <2>3. CASE Serve(r) \/ Fail(r)
    BY <2>1, <2>3 DEF Serve, SpendCode, LoginCommit, RefreshLookup, Gate, Rotate,
       ReuseScan, LogoutDeny, SweepRow, SweepCommit, BreakDeadlock, Fail, Rollback, Goto
  <2> QED
    BY <2>2, <2>3
<1>2. \A q \in Requests : token'[q] \in Issued'
  BY <1>0, <1>1, OthersUntouched DEF FamilyInv
<1> QED
  BY <1>0, <1>2 DEF FamilyInv

\* A step of r takes live tokens away only from under its own locks.
LEMMA LiveKept ==
  ASSUME TypeOK, MintInv, StageInv, FamilyInv, HeldInv, NEW r \in Requests,
         Call(r) \/ Serve(r) \/ Fail(r), NEW t \in Live, rowHolder[t] # r
  PROVE  t \in Live'
<1>1. CASE LoginCommit(r)
  BY <1>1, MintedRows
<1>2. CASE Rotate(r)
  <2>1. t # token[r]
    BY <1>2 DEF Rotate, HeldInv
  <2> QED
    BY <1>2, <2>1, MintedRows
<1>3. CASE SweepCommit(r)
  BY <1>3, SweptRows DEF Locked
<1>4. CASE UNCHANGED <<row, family>>
  BY <1>4 DEF Live
<1> QED
  BY <1>1, <1>2, <1>3, <1>4, RowSteps

\* What a request may come to hold.
LEMMA OwnLocks ==
  ASSUME TypeOK, HeldInv, NEW r \in Requests, Call(r) \/ Serve(r) \/ Fail(r)
  PROVE  \/ /\ \A t \in Tokens : rowHolder'[t] # r
            /\ stage'[r] # "rotate"
         \/ /\ Gate(r) /\ stage[r] = "gate" /\ stage'[r] = "rotate"
            /\ token' = token /\ want' = want /\ row' = row /\ family' = family
            /\ token[r] \in Live /\ rowHolder'[token[r]] = r
            /\ \A t \in Tokens : rowHolder'[t] = r => t = token[r]
         \/ /\ \E t \in Tokens : SweepRow(r, t)
            /\ stage[r] = "sweep" /\ stage'[r] = "sweep" /\ op' = op /\ token' = token
            /\ row' = row /\ family' = family
            /\ want'[r] \subseteq want[r]
            /\ \A t \in Tokens : rowHolder'[t] = r =>
                 rowHolder[t] = r \/ (t \in want[r] /\ t \in Live)
<1>0. \A t \in Tokens : stage[r] \notin {"rotate", "sweep"} => rowHolder[t] # r
  BY DEF HeldInv
<1>1. CASE Call(r)
  <2>1. stage[r] = "new" /\ rowHolder' = rowHolder /\ stage'[r] # "rotate"
    BY <1>1 DEF Call, LoginRead, RevokeAllBegin, PasswordBegin, SetStatus, RefreshBegin,
       RevokeBegin, LogoutBegin, Arrive, locks, TypeOK
  <2> QED
    BY <1>0, <2>1
<1>2. CASE Rotate(r) \/ SweepCommit(r) \/ Rollback(r)
  <2>1. Release(r) /\ stage'[r] \in {"done", "failed"}
    BY <1>2 DEF Rotate, SweepCommit, Rollback, Goto, TypeOK
  <2> QED
    BY <2>1, Freeing
<1>3. CASE SpendCode(r) \/ LoginCommit(r) \/ RefreshLookup(r) \/ ReuseScan(r) \/ LogoutDeny(r)
  <2>1. /\ stage[r] \notin {"rotate", "sweep"} /\ rowHolder' = rowHolder
        /\ stage'[r] # "rotate"
    BY <1>3 DEF SpendCode, LoginCommit, RefreshLookup, ReuseScan, LogoutDeny, Goto, locks,
       TypeOK
  <2> QED
    BY <1>0, <2>1
<1>4. CASE Gate(r) /\ token[r] \notin Live
  <2>1. stage[r] = "gate" /\ rowHolder' = rowHolder /\ stage'[r] = "family"
    BY <1>4 DEF Gate, Goto, TypeOK
  <2> QED
    BY <1>0, <2>1
<1>5. CASE Gate(r) /\ token[r] \in Live
  <2>1. /\ stage[r] = "gate" /\ rowHolder' = [rowHolder EXCEPT ![token[r]] = r]
        /\ stage'[r] = "rotate" /\ token' = token /\ want' = want /\ row' = row
        /\ family' = family
    BY <1>5 DEF Gate, Goto, TypeOK, tables
  <2>2. token[r] \in Tokens
    BY DEF TypeOK
  <2>3. /\ rowHolder'[token[r]] = r
        /\ \A t \in Tokens : rowHolder'[t] = r => t = token[r]
    BY <1>0, <2>1, <2>2 DEF TypeOK
  <2> QED
    BY <1>5, <2>1, <2>3
<1>6. ASSUME NEW u \in Tokens, SweepRow(r, u)
      PROVE  /\ stage[r] = "sweep" /\ stage'[r] = "sweep" /\ op' = op /\ token' = token
             /\ row' = row /\ family' = family
             /\ want'[r] \subseteq want[r]
             /\ \A t \in Tokens : rowHolder'[t] = r =>
                  rowHolder[t] = r \/ (t \in want[r] /\ t \in Live)
  BY <1>6 DEF SweepRow, TypeOK, tables
<1> QED
  BY <1>1, <1>2, <1>3, <1>4, <1>5, <1>6 DEF Serve, Fail, BreakDeadlock

LEMMA HeldStep ==
  ASSUME TypeOK, MintInv, StageInv, FamilyInv, HeldInv, NEW r \in Requests,
         Call(r) \/ Serve(r) \/ Fail(r)
  PROVE  HeldInv'
<1>1. ASSUME NEW q \in Requests, q # r, NEW t \in Tokens, rowHolder'[t] = q
      PROVE  t \in Live' /\ stage'[q] \in {"rotate", "sweep"}
  <2>1. rowHolder[t] = q /\ stage'[q] = stage[q]
    BY <1>1, OthersUntouched
  <2>2. t \in Live /\ stage[q] \in {"rotate", "sweep"} /\ rowHolder[t] # r
    BY <1>1, <2>1 DEF HeldInv
  <2> QED
    BY <2>1, <2>2, LiveKept
<1>2. ASSUME NEW q \in Requests, q # r, stage'[q] = "rotate"
      PROVE  rowHolder'[token'[q]] = q
  <2>1. stage[q] = "rotate" /\ token'[q] = token[q] /\ token[q] \in Tokens
    BY <1>2, OthersUntouched DEF TypeOK
  <2> QED
    BY <1>2, <2>1, OthersUntouched DEF HeldInv
<1>3. ASSUME NEW t \in Tokens, rowHolder'[t] = r
      PROVE  t \in Live' /\ stage'[r] \in {"rotate", "sweep"}
  BY <1>3, OwnLocks DEF HeldInv, Live
<1>4. ASSUME stage'[r] = "rotate" PROVE rowHolder'[token'[r]] = r
  BY <1>4, OwnLocks
<1> QED
  BY <1>1, <1>2, <1>3, <1>4 DEF HeldInv, Tokens

\* An issued token keeps its family.
LEMMA FamilyKept ==
  ASSUME TypeOK, MintInv, StageInv, FamilyInv, HeldInv, NEW r \in Requests,
         Call(r) \/ Serve(r) \/ Fail(r), NEW t \in Issued
  PROVE  t \in Issued' /\ family'[t] = family[t]
<1>0. t \in Tokens
  BY DEF Issued
<1>1. CASE LoginCommit(r) \/ Rotate(r)
  BY <1>0, <1>1, MintedRows
<1>2. CASE SweepCommit(r)
  BY <1>2, SweptRows
<1>3. CASE UNCHANGED <<row, family>>
  BY <1>0, <1>3 DEF Issued
<1> QED
  BY <1>1, <1>2, <1>3, RowSteps

LEMMA SweepStep ==
  ASSUME TypeOK, MintInv, StageInv, FamilyInv, HeldInv, SweepInv, NEW r \in Requests,
         Call(r) \/ Serve(r) \/ Fail(r)
  PROVE  SweepInv'
<1>1. ASSUME NEW q \in Requests, q # r, stage'[q] = "sweep",
             op'[q] \notin {"revokeAll", "password"},
             NEW t \in Tokens, t \in want'[q] \/ rowHolder'[t] = q
      PROVE  t \in Issued' /\ family'[t] = family'[token'[q]]
  <2>1. /\ stage[q] = "sweep" /\ op[q] \notin {"revokeAll", "password"}
        /\ t \in want[q] \/ rowHolder[t] = q
        /\ token'[q] = token[q]
    BY <1>1, OthersUntouched
  <2>2. t \in Issued /\ family[t] = family[token[q]] /\ token[q] \in Issued
    BY <2>1 DEF SweepInv, FamilyInv
  <2> QED
    BY <2>1, <2>2, FamilyKept
<1>2. ASSUME stage'[r] = "sweep", op'[r] \notin {"revokeAll", "password"},
             NEW t \in Tokens, t \in want'[r] \/ rowHolder'[t] = r
      PROVE  t \in Issued' /\ family'[t] = family'[token'[r]]
  <2>1. CASE \E u \in Tokens : SweepRow(r, u)
    <3>1. /\ stage[r] = "sweep" /\ op[r] \notin {"revokeAll", "password"}
          /\ t \in want[r] \/ rowHolder[t] = r
          /\ token' = token /\ row' = row /\ family' = family
      BY <1>2, <2>1 DEF SweepRow, tables, TypeOK
    <3> QED
      BY <3>1 DEF SweepInv, Issued
  <2>2. CASE ~ \E u \in Tokens : SweepRow(r, u)
    <3>1. rowHolder'[t] # r
      BY <1>2, <2>2, OwnLocks
    <3>2. t \in want'[r]
      BY <1>2, <3>1
    <3>3. /\ \E u \in Tokens : RevokeBegin(r, u)
             \/ ReuseScan(r) \/ LogoutDeny(r)
      BY <1>2, <2>2 DEF Call, LoginRead, RevokeAllBegin, PasswordBegin, SetStatus,
         RefreshBegin, LogoutBegin, Serve, SpendCode, LoginCommit, RefreshLookup, Gate,
         Rotate, SweepCommit, BreakDeadlock, Fail, Rollback, Arrive, Goto, TypeOK
    <3>4. row' = row /\ family' = family
      BY <3>3 DEF RevokeBegin, ReuseScan, LogoutDeny, tables
    <3>5. t \in Live /\ family[t] = family[token'[r]]
      <4>1. ASSUME NEW u \in Tokens, RevokeBegin(r, u)
            PROVE  want'[r] = InFamily(family[u]) /\ token'[r] = u
        BY <4>1 DEF RevokeBegin, Arrive, TypeOK
      <4>2. CASE ReuseScan(r)
        BY <3>2, <4>2 DEF ReuseScan, Goto, TypeOK, InFamily
      <4>3. CASE LogoutDeny(r)
        BY <1>2, <3>2, <4>3 DEF LogoutDeny, Goto, TypeOK
      <4> QED
        BY <3>2, <3>3, <4>1, <4>2, <4>3 DEF InFamily
    <3> QED
      BY <3>4, <3>5 DEF Live, Issued
  <2> QED
    BY <2>1, <2>2
<1> QED
  BY <1>1, <1>2 DEF SweepInv, Tokens

\* A family keeps one head: rotation takes the old one when it gives the new.
LEMMA HeadStep ==
  ASSUME TypeOK, MintInv, StageInv, FamilyInv, HeldInv, OneHead, NEW r \in Requests,
         Call(r) \/ Serve(r) \/ Fail(r)
  PROVE  OneHead'
<1>0. /\ Live \subseteq Issued /\ Issued \subseteq Tokens
      /\ \A t, u \in Live : family[t] = family[u] => t = u
  BY DEF OneHead, Live, Issued
<1>1. CASE LoginCommit(r)
  BY <1>0, <1>1, MintedRows DEF OneHead, FamilyInv
<1>2. CASE Rotate(r)
  <2>1. token[r] \in Live
    BY <1>2 DEF Rotate, HeldInv, TypeOK
  <2> QED
    BY <1>0, <1>2, <2>1, MintedRows DEF OneHead
<1>3. CASE SweepCommit(r)
  BY <1>0, <1>3, SweptRows DEF OneHead
<1>4. CASE UNCHANGED <<row, family>>
  BY <1>4 DEF OneHead, Live
<1> QED
  BY <1>1, <1>2, <1>3, <1>4, RowSteps

\* A step of another request leaves the rows a sweep has to lock in its view:
\* a row it adds is one the sweep misses.
LEMMA OthersCovered ==
  ASSUME TypeOK, MintInv, StageInv, FamilyInv, HeldInv, CoverInv, NEW r \in Requests,
         Call(r) \/ Serve(r) \/ Fail(r), Watch,
         NEW q \in Requests, q # r, stage'[q] = "sweep", op'[q] # "logout",
         NEW t \in Live', Covers(q, family[t])'
  PROVE  t \in want'[q] \/ rowHolder'[t] = q \/ t \in missed'[q]
<1>1. /\ stage[q] = "sweep" /\ op'[q] = op[q] /\ token'[q] = token[q] /\ want'[q] = want[q]
      /\ t \in Tokens /\ (rowHolder'[t] = q <=> rowHolder[t] = q)
      /\ Live \subseteq Issued /\ token[q] \in Issued
  BY OthersUntouched DEF Live, Issued, FamilyInv
<1>2. family'[token[q]] = family[token[q]]
  BY <1>1, FamilyKept
<1>3. Covers(q, family'[t])
  BY <1>1, <1>2 DEF Covers
<1>4. missed'[q] = missed[q] \cup (Live' \ Live)
  BY DEF Watch
<1>5. CASE t \notin Live
  BY <1>4, <1>5
<1>6. CASE t \in Live
  <2>1. family'[t] = family[t]
    BY <1>1, <1>6, FamilyKept
  <2> QED
    BY <1>1, <1>3, <1>4, <1>6, <2>1 DEF CoverInv
<1> QED
  BY <1>5, <1>6

\* A sweep starts with every such row in view and drops none that is live.
LEMMA OwnCovered ==
  ASSUME TypeOK, StageInv, CoverInv, NEW r \in Requests,
         Call(r) \/ Serve(r) \/ Fail(r), Watch,
         stage'[r] = "sweep", op'[r] # "logout",
         NEW t \in Live', Covers(r, family[t])'
  PROVE  t \in want'[r] \/ rowHolder'[t] = r \/ t \in missed'[r]
<1>0. missed[r] \subseteq missed'[r]
  BY DEF Watch
<1>1. ASSUME NEW u \in Tokens, SweepRow(r, u)
      PROVE  t \in want'[r] \/ rowHolder'[t] = r \/ t \in missed'[r]
  <2>1. /\ stage[r] = "sweep" /\ op' = op /\ token' = token /\ row' = row
        /\ family' = family
        /\ want'[r] = want[r] \ {u}
        /\ rowHolder' = IF u \in Live THEN [rowHolder EXCEPT ![u] = r] ELSE rowHolder
    BY <1>1 DEF SweepRow, tables, TypeOK
  <2>2. t \in Live /\ Covers(r, family[t])
    BY <2>1 DEF Live, Covers
  <2>3. t \in want[r] \/ rowHolder[t] = r \/ t \in missed[r]
    BY <2>1, <2>2 DEF CoverInv
  <2> QED
    BY <1>0, <2>1, <2>2, <2>3 DEF TypeOK, Live
<1>2. CASE ~ \E u \in Tokens : SweepRow(r, u)
  <2>1. \/ \E u \in Tokens : RevokeBegin(r, u)
        \/ RevokeAllBegin(r) \/ PasswordBegin(r) \/ ReuseScan(r)
    <3>1. ASSUME LogoutDeny(r) PROVE FALSE
      <4>1. op[r] = "logout"
        BY <3>1 DEF StageInv, LogoutDeny
      <4> QED
        BY <3>1, <4>1 DEF LogoutDeny, Goto
    <3> QED
      BY <1>2, <3>1 DEF Call, LoginRead, SetStatus, RefreshBegin, LogoutBegin, Serve,
         SpendCode, LoginCommit, RefreshLookup, Gate, Rotate, SweepCommit, BreakDeadlock,
         Fail, Rollback, Arrive, Goto, TypeOK
  <2>2. row' = row /\ family' = family
    BY <2>1 DEF RevokeBegin, RevokeAllBegin, PasswordBegin, ReuseScan, tables
  <2>3. t \in Live /\ (op'[r] \in {"revokeAll", "password"} \/ family[token'[r]] = family[t])
    BY <2>2 DEF Live, Covers
  <2>4. ASSUME NEW u \in Tokens, RevokeBegin(r, u) PROVE t \in want'[r]
    BY <2>3, <2>4 DEF RevokeBegin, Arrive, TypeOK, InFamily
  <2>5. CASE ReuseScan(r)
    <3>1. op[r] = "refresh"
      BY <2>5 DEF StageInv, ReuseScan
    <3> QED
      BY <2>3, <2>5, <3>1 DEF ReuseScan, Goto, TypeOK, InFamily
  <2>6. CASE RevokeAllBegin(r) \/ PasswordBegin(r)
    BY <2>3, <2>6 DEF RevokeAllBegin, PasswordBegin, TypeOK
  <2> QED
    BY <2>1, <2>4, <2>5, <2>6
<1> QED
  BY <1>1, <1>2

LEMMA CoverStep ==
  ASSUME TypeOK, MintInv, StageInv, FamilyInv, HeldInv, CoverInv, NEW r \in Requests,
         Call(r) \/ Serve(r) \/ Fail(r), Watch
  PROVE  CoverInv'
<1> SUFFICES ASSUME NEW q \in Requests, stage'[q] = "sweep", op'[q] # "logout",
                    NEW t \in Live', Covers(q, family[t])'
             PROVE  t \in want'[q] \/ rowHolder'[t] = q \/ t \in missed'[q]
  BY DEF CoverInv
<1> QED
  BY OthersCovered, OwnCovered

\* A backup code is taken out before it lets anyone in.
LEMMA CodeStep ==
  ASSUME TypeOK, CodeInv, BackupCodeOnce, NEW r \in Requests,
         Call(r) \/ Serve(r) \/ Fail(r)
  PROVE  CodeInv' /\ BackupCodeOnce'
<1>1. \A q \in Requests : q # r => code'[q] = code[q] /\ stage'[q] = stage[q]
  BY OthersUntouched
<1>2. CASE LoginRead(r)
  <2>1. PICK c \in codes \cup {NoCode} :
          /\ code' = [code EXCEPT ![r] = c]
          /\ Arrive(r, "login", token[r], IF c = NoCode THEN "mint" ELSE "code")
    BY <1>2 DEF LoginRead
  <2>2. /\ code'[r] = c /\ stage'[r] = IF c = NoCode THEN "mint" ELSE "code"
        /\ codes' = codes
    BY <1>2, <2>1 DEF Arrive, TypeOK, LoginRead, tables
  <2> QED
    BY <1>1, <2>2 DEF CodeInv, BackupCodeOnce
<1>3. CASE SpendCode(r) /\ code[r] \in codes
  <2>1. /\ stage[r] = "code" /\ codes' = codes \ {code[r]} /\ code' = code
        /\ stage'[r] = "mint"
    BY <1>3 DEF SpendCode, Goto, TypeOK
  <2> QED
    BY <1>1, <1>3, <2>1 DEF CodeInv, BackupCodeOnce
<1>4. CASE SpendCode(r) /\ code[r] \notin codes
  <2>1. codes' = codes /\ code'[r] = NoCode /\ stage'[r] = "failed"
    BY <1>4 DEF SpendCode, Goto, TypeOK
  <2> QED
    BY <1>1, <2>1 DEF CodeInv, BackupCodeOnce
<1>5. CASE ~ LoginRead(r) /\ ~ SpendCode(r)
  <2>1. codes' = codes /\ code' = code
    BY <1>5 DEF Call, RevokeAllBegin, PasswordBegin, SetStatus, RefreshBegin,
       RevokeBegin, LogoutBegin, Serve, LoginCommit, RefreshLookup, Gate, Rotate,
       ReuseScan, LogoutDeny, SweepRow, SweepCommit, BreakDeadlock, Fail, Rollback, tables
  <2>2. CASE Call(r)
    <3>1. stage[r] = "new"
      BY <1>5, <2>2 DEF Call, RevokeAllBegin, PasswordBegin, SetStatus, RefreshBegin,
         RevokeBegin, LogoutBegin, Arrive
    <3>2. code[r] = NoCode
      BY <3>1 DEF CodeInv
    <3> QED
      BY <1>1, <2>1, <3>2 DEF CodeInv, BackupCodeOnce
  <2>3. CASE Serve(r) \/ Fail(r)
    <3>1. \/ stage'[r] = "failed"
          \/ stage[r] \notin {"new", "code", "mint", "done", "failed"}
          \/ stage[r] = "mint" /\ stage'[r] = "done"
      BY <1>5, <2>3 DEF Serve, LoginCommit, RefreshLookup, Gate, Rotate,
         ReuseScan, LogoutDeny, SweepRow, SweepCommit, BreakDeadlock, Fail, Rollback, Goto,
         TypeOK
    <3> QED
      BY <1>1, <2>1, <3>1 DEF CodeInv, BackupCodeOnce
  <2> QED
    BY <2>2, <2>3
<1> QED
  BY <1>2, <1>3, <1>4, <1>5

-----------------------------------------------------------------------------
LEMMA IInvInit == Init => IInv
<1> SUFFICES ASSUME Init PROVE IInv
  OBVIOUS
<1>0. 1 \in Tokens
  BY AuthAssumption DEF Tokens
<1>1. TypeOK
  BY <1>0 DEF Init, TypeOK, Ops, Stages
<1>2. Issued = {1} /\ Live = {1}
  BY <1>0 DEF Init, Issued, Live
<1>3. MintInv
  <2>1. Minting = {}
    BY DEF Init, Minting
  <2> QED
    BY <2>1, FiniteSets, FS_EmptySet DEF MintInv
<1>4. StageInv /\ CodeInv /\ SweepInv /\ CoverInv /\ BackupCodeOnce
  BY DEF Init, StageInv, CodeInv, SweepInv, CoverInv, BackupCodeOnce
<1>5. FamilyInv /\ OneHead
  BY <1>2 DEF Init, FamilyInv, OneHead
<1>6. HeldInv
  BY AuthAssumption DEF Init, HeldInv
<1> QED
  BY <1>1, <1>3, <1>4, <1>5, <1>6 DEF IInv

LEMMA IInvStep == IInv /\ [Next]_vars => IInv'
<1> SUFFICES ASSUME IInv, [Next]_vars PROVE IInv'
  OBVIOUS
<1>1. /\ TypeOK /\ MintInv /\ StageInv /\ FamilyInv /\ HeldInv /\ SweepInv /\ OneHead
      /\ CoverInv /\ CodeInv /\ BackupCodeOnce
  BY DEF IInv
<1>2. CASE UNCHANGED vars
  BY <1>1, <1>2 DEF vars, tables, locks, IInv, TypeOK, MintInv, Minting, Issued, Live,
     StageInv, FamilyInv, HeldInv, SweepInv, OneHead, CoverInv, Covers, CodeInv,
     BackupCodeOnce, Tokens
<1>3. ASSUME NEW r \in Requests, Call(r) \/ Serve(r) \/ Fail(r), Watch PROVE IInv'
  <2>1. TypeOK'
    <3>1. missed \in [Requests -> SUBSET Tokens] /\ Live' \subseteq Tokens
      BY <1>1 DEF TypeOK, Live, Tokens
    <3>2. missed' \in [Requests -> SUBSET Tokens]
      BY <1>3, <3>1 DEF Watch
    <3> QED
      BY <1>1, <1>3, <3>2, CallTypes, ServeTypes
  <2>2. StageInv' /\ MintInv' /\ FamilyInv'
    BY <1>1, <1>3, StageStep, MintStep, FamilyStep
  <2>3. HeldInv' /\ SweepInv' /\ OneHead'
    BY <1>1, <1>3, HeldStep, SweepStep, HeadStep
  <2>4. CoverInv' /\ CodeInv' /\ BackupCodeOnce'
    BY <1>1, <1>3, CoverStep, CodeStep
  <2> QED
    BY <2>1, <2>2, <2>3, <2>4 DEF IInv
<1> QED
  BY <1>2, <1>3 DEF Next, Quiet

LEMMA Inductive == Spec => []IInv
BY IInvInit, IInvStep, PTL DEF Spec

-----------------------------------------------------------------------------
\* Tables, requests and locks keep their types.
THEOREM TypeCorrect == Spec => []TypeOK
<1>1. IInv => TypeOK
  BY DEF IInv
<1> QED
  BY <1>1, Inductive, PTL

\* No session has two live refresh tokens.
THEOREM SingleHead == Spec => []OneHead
<1>1. IInv => OneHead
  BY DEF IInv
<1> QED
  BY <1>1, Inductive, PTL

\* No backup code lets two logins in.
THEOREM CodesSpentOnce == Spec => []BackupCodeOnce
<1>1. IInv => BackupCodeOnce
  BY DEF IInv
<1> QED
  BY <1>1, Inductive, PTL

\* How a step moves the open sessions and the issued tokens' families.
LEMMA SessionStep ==
  ASSUME IInv, NEW r \in Requests, Call(r) \/ Serve(r) \/ Fail(r)
  PROVE  \/ OpenSessions' = OpenSessions /\ ClosedSessions' = ClosedSessions
         \/ \E f \in Tokens \ (OpenSessions \cup ClosedSessions) :
              OpenSessions' = OpenSessions \cup {f} /\ ClosedSessions' = ClosedSessions
         \/ /\ SweepCommit(r)
            /\ OpenSessions' \subseteq OpenSessions
            /\ ClosedSessions' = ClosedSessions \cup (OpenSessions \ OpenSessions')
            /\ \A f \in OpenSessions \ OpenSessions' : Ends(r, f)
<1>0. /\ TypeOK /\ MintInv /\ StageInv /\ FamilyInv /\ HeldInv /\ SweepInv /\ OneHead
      /\ Live \subseteq Issued /\ Issued \subseteq Tokens
  BY DEF IInv, Live, Issued
<1>1. CASE LoginCommit(r)
  <2>1. /\ NewToken \in Tokens /\ NewToken \notin Issued
        /\ Issued' = Issued \cup {NewToken} /\ Live' = Live \cup {NewToken}
        /\ family' = family
    BY <1>0, <1>1, MintedRows
  <2>2. family[NewToken] = NewToken /\ \A t \in Issued : family[t] \in Issued
    BY <1>0, <2>1 DEF FamilyInv
  <2> HIDE DEF NewToken
  <2>3. NewToken \notin OpenSessions \cup ClosedSessions
    BY <1>0, <2>1, <2>2 DEF OpenSessions, ClosedSessions
  <2>4. OpenSessions' = OpenSessions \cup {NewToken}
    BY <2>1, <2>2 DEF OpenSessions
  <2>5. ClosedSessions' = ClosedSessions
    BY <1>0, <2>1, <2>2, <2>3, <2>4 DEF ClosedSessions, OpenSessions
  <2> QED
    BY <2>1, <2>3, <2>4, <2>5
<1>2. CASE Rotate(r)
  <2>1. /\ NewToken \in Tokens /\ NewToken \notin Issued
        /\ Issued' = Issued \cup {NewToken}
        /\ Live' = (Live \ {token[r]}) \cup {NewToken}
        /\ \A t \in Tokens : t # NewToken => family'[t] = family[t]
        /\ family'[NewToken] = family[token[r]]
    BY <1>0, <1>2, MintedRows
  <2>2. token[r] \in Live
    BY <1>0, <1>2 DEF Rotate, HeldInv, TypeOK
  <2> HIDE DEF NewToken
  <2>3. \A t \in Issued : t # NewToken /\ family'[t] = family[t]
    BY <1>0, <2>1
  <2>4. OpenSessions' = OpenSessions
    BY <1>0, <2>1, <2>2, <2>3 DEF OpenSessions
  <2>5. {family'[t] : t \in Issued'} = {family[t] : t \in Issued}
    BY <1>0, <2>1, <2>2, <2>3
  <2> QED
    BY <2>4, <2>5 DEF ClosedSessions
<1>3. CASE SweepCommit(r)
  <2>1. family' = family /\ Issued' = Issued /\ Live' = Live \ Locked(r)
    BY <1>0, <1>3, SweptRows
  <2>2. OpenSessions' \subseteq OpenSessions
    BY <2>1 DEF OpenSessions
  <2>3. OpenSessions \subseteq {family[t] : t \in Issued}
    BY <1>0 DEF OpenSessions
  <2>4. ClosedSessions' = ClosedSessions \cup (OpenSessions \ OpenSessions')
    BY <2>1, <2>2, <2>3 DEF ClosedSessions
  <2>5. ASSUME NEW f \in OpenSessions \ OpenSessions' PROVE Ends(r, f)
    <3>1. stage[r] = "sweep" /\ stage'[r] = "done"
      BY <1>0, <1>3 DEF SweepCommit, Goto, TypeOK
    <3>2. PICK t \in Live : f = family[t] /\ t \in Locked(r)
      BY <2>1 DEF OpenSessions
    <3>3. op[r] \in {"revokeAll", "password"} \/ family[token[r]] = f
      BY <1>0, <3>1, <3>2 DEF SweepInv, Locked
    <3> QED
      BY <3>1, <3>3 DEF Ends, Covers
  <2> QED
    BY <1>3, <2>2, <2>4, <2>5
<1>4. CASE UNCHANGED <<row, family>>
  BY <1>4 DEF OpenSessions, ClosedSessions, Live, Issued
<1> QED
  BY <1>0, <1>1, <1>2, <1>3, <1>4, RowSteps

\* A session closes only when a request that was to end it commits.
THEOREM ClosingsRequested == Spec => OnlyRequestedClosings
<1> DEFINE Asked == \A f \in OpenSessions \ OpenSessions' : \E r \in Requests : Ends(r, f)
<1>1. IInv /\ [Next]_vars => [Asked]_vars
  <2> SUFFICES ASSUME IInv, Next PROVE Asked
    OBVIOUS
  <2>1. CASE UNCHANGED vars
    BY <2>1 DEF vars, tables, OpenSessions, Live
  <2>2. ASSUME NEW r \in Requests, Call(r) \/ Serve(r) \/ Fail(r) PROVE Asked
    BY <2>2, SessionStep
  <2> QED
    BY <2>1, <2>2 DEF Next, Quiet
<1> QED
  BY <1>1, Inductive, PTL DEF Spec, OnlyRequestedClosings

\* A sweep leaves no token of the sessions it ends but those minted while its
\* UPDATE was running.
THEOREM RevocationsHold == Spec => RevocationHolds
<1> DEFINE Held == \A r \in Requests :
                     stage[r] = "sweep" /\ stage'[r] = "done" /\ op[r] # "logout" =>
                       {t \in Live' : Covers(r, family[t])} \subseteq missed[r]
<1>1. IInv /\ [Next]_vars => [Held]_vars
  <2> SUFFICES ASSUME IInv, Next, NEW r \in Requests,
                      stage[r] = "sweep", stage'[r] = "done", op[r] # "logout",
                      NEW t \in Live', Covers(r, family[t])
               PROVE  t \in missed[r]
    OBVIOUS
  <2>1. /\ TypeOK /\ MintInv /\ StageInv /\ FamilyInv /\ HeldInv /\ CoverInv
    BY DEF IInv
  <2>2. PICK q \in Requests : Call(q) \/ Serve(q) \/ Fail(q)
    BY DEF Next, Quiet, vars
  <2>3. q = r
    BY <2>1, <2>2, OthersUntouched
  <2>4. SweepCommit(r)
    BY <2>1, <2>2, <2>3 DEF Call, LoginRead, RevokeAllBegin, PasswordBegin, SetStatus,
       RefreshBegin, RevokeBegin, LogoutBegin, Serve, SpendCode, LoginCommit, RefreshLookup,
       Gate, Rotate, ReuseScan, LogoutDeny, SweepRow, BreakDeadlock, Fail, Rollback, Arrive,
       Goto, TypeOK
  <2>5. want[r] = {} /\ Live' = Live \ Locked(r)
    BY <2>1, <2>4, SweptRows DEF SweepCommit
  <2>6. t \in Live /\ t \in Tokens /\ rowHolder[t] # r
    BY <2>5 DEF Live, Locked
  <2> QED
    BY <2>1, <2>5, <2>6 DEF CoverInv
<1> QED
  BY <1>1, Inductive, PTL DEF Spec, RevocationHolds

\* The tables implement the ledger: opened once, closed once.
THEOREM Refinement == Spec => ImplementsLedger
<1>1. Init => Ledger!Init
  <2> SUFFICES ASSUME Init PROVE Ledger!Init
    OBVIOUS
  <2>1. Issued = {1} /\ Live = {1} /\ 1 \in Tokens /\ family[1] = 1
    BY AuthAssumption DEF Init, Issued, Live, Tokens
  <2> QED
    BY <2>1 DEF Ledger!Init, OpenSessions, ClosedSessions, Sessions
<1>2. IInv /\ [Next]_vars => [Ledger!Next]_(Ledger!vars)
  <2> SUFFICES ASSUME IInv, [Next]_vars PROVE [Ledger!Next]_(Ledger!vars)
    OBVIOUS
  <2>1. CASE UNCHANGED vars
    BY <2>1 DEF vars, tables, OpenSessions, ClosedSessions, Live, Issued, Ledger!vars
  <2>2. ASSUME NEW r \in Requests, Call(r) \/ Serve(r) \/ Fail(r)
        PROVE  [Ledger!Next]_(Ledger!vars)
    <3>1. CASE OpenSessions' = OpenSessions /\ ClosedSessions' = ClosedSessions
      BY <3>1 DEF Ledger!vars
    <3>2. CASE \E f \in Tokens \ (OpenSessions \cup ClosedSessions) :
                 OpenSessions' = OpenSessions \cup {f} /\ ClosedSessions' = ClosedSessions
      BY <3>2 DEF Ledger!Next, Ledger!Open, Sessions
    <3>3. CASE /\ OpenSessions' \subseteq OpenSessions
               /\ ClosedSessions' = ClosedSessions \cup (OpenSessions \ OpenSessions')
      <4>1. Ledger!Close(OpenSessions \ OpenSessions')
        BY <3>3 DEF Ledger!Close
      <4> QED
        BY <4>1 DEF Ledger!Next
    <3> QED
      BY <2>2, <3>1, <3>2, <3>3, SessionStep
  <2> QED
    BY <2>1, <2>2 DEF Next, Quiet
<1> QED
  BY <1>1, <1>2, Inductive, PTL DEF Spec, ImplementsLedger, Ledger!Spec
=============================================================================
