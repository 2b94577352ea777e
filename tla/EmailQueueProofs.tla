-------------------------- MODULE EmailQueueProofs --------------------------
(***************************************************************************)
(* What the mail queue keeps for any number of mails, keys, replicas, any  *)
(* batch size and any retry budget, and that it implements Mailroom.       *)
(***************************************************************************)
EXTENDS EmailQueue, TLAPS

Budget == IF MaxRetries = 0 THEN 1 ELSE MaxRetries

\* A claim is paid for by a retry: of the claims of a row all but the one in
\* hand have been counted.
BudgetInv ==
  \A m \in Mail :
    /\ claims[m] <= retries[m] + 1
    /\ claims[m] <= Budget
    /\ status[m] = "queued" =>
         claims[m] <= retries[m] /\ (retries[m] < MaxRetries \/ retries[m] = 0)
    /\ status[m] \in {"new", "checked", "dropped"} => claims[m] = 0 /\ retries[m] = 0

\* A row whose sends are steady is in one worker's hands, and out of reach of
\* the others until that worker lets go of it.
SoloInv ==
  \A m \in Mail \ Unsteady, w \in Workers :
    send[w][m] # "idle" =>
      /\ status[m] \in {"sending", "erased"}
      /\ m \notin ripe
      /\ \A v \in Workers : v # w => send[v][m] = "idle"

\* A worker only has rows that were inserted, and "accepted" means that the
\* provider has the mail.
HandInv ==
  \A m \in Mail, w \in Workers :
    /\ send[w][m] # "idle" => status[m] \notin {"new", "checked", "dropped"}
    /\ send[w][m] = "accepted" => mails[KeyOf[m]] = 1

\* A key has at most one mail, as the provider honours it (Send); the mapping to
\* the mailroom needs this.
OneMailPerKey == \A k \in Keys : mails[k] <= 1

IInv == TypeOK /\ BudgetInv /\ SoloInv /\ OneMailPerKey /\ HandInv

-----------------------------------------------------------------------------
\* Enqueueing, and the statements about one row.
RowStep(m) ==
  \/ Check(m) \/ Insert(m) \/ EnqueueFails(m) \/ Ripen(m)
  \/ \E w \in Workers : Work(w, m)

\* The steps of Next, by what they touch.
LEMMA StepCases ==
  ASSUME Next
  PROVE  \/ \E m \in Mail : RowStep(m)
         \/ \E w \in Workers : Claim(w)
         \/ \E w \in Workers : Crash(w)
         \/ Erase
         \/ UNCHANGED vars
BY Zenon DEF Next, RowStep, Quiet

\* A statement about one row writes that row and the step of one worker.
LEMMA RowStepTypes ==
  ASSUME TypeOK, NEW m \in Mail, RowStep(m)
  PROVE  TypeOK'
<1>1. CASE Check(m) \/ Insert(m) \/ EnqueueFails(m) \/ Ripen(m)
  BY <1>1 DEF Check, Insert, EnqueueFails, Ripen, queueVars, TypeOK, Statuses, NoRow
<1>2. ASSUME NEW w \in Workers, Work(w, m) PROVE TypeOK'
  <2>1. CASE CheckPreferences(w, m)
    BY <2>1 DEF CheckPreferences, To, TypeOK, Steps
  <2>2. CASE Unsubscribe(w, m) \/ MarkSent(w, m)
    BY <2>2 DEF Unsubscribe, MarkSent, Write, To, TypeOK, Steps, Statuses, Settled
  <2>3. CASE Send(w, m)
    BY <2>3, EmailAssumption DEF Send, To, TypeOK, Steps
  <2>4. CASE MarkFailed(w, m)
    <3>1. send' \in [Workers -> [Mail -> Steps]]
      BY <2>4 DEF MarkFailed, To, TypeOK, Steps
    <3>2. status' \in [Mail -> Statuses]
      BY <2>4 DEF MarkFailed, Retry, TypeOK, Statuses, Settled
    <3>3. retries' \in [Mail -> Nat] /\ ripe' \subseteq Mail
      BY <2>4 DEF MarkFailed, Retry, TypeOK
    <3> QED
      BY <2>4, <3>1, <3>2, <3>3 DEF MarkFailed, TypeOK
  <2> QED
    BY <1>2, <2>1, <2>2, <2>3, <2>4 DEF Work
<1> QED
  BY <1>1, <1>2 DEF RowStep

\* What a claim does to each row.
LEMMA Claimed ==
  ASSUME TypeOK, NEW w \in Workers, Claim(w)
  PROVE  /\ \A m \in Mail :
              \/ /\ status'[m] = status[m] /\ retries'[m] = retries[m]
                 /\ claims'[m] = claims[m] /\ send'[w][m] = "idle"
              \/ /\ m \in ripe /\ m \notin ripe' /\ status[m] = "queued"
                 /\ status'[m] = "sending"
                 /\ retries'[m] = retries[m] /\ claims'[m] = claims[m] + 1
                 /\ send'[w][m] \in {"check", "send"}
              \/ /\ m \in ripe /\ m \notin ripe' /\ status[m] = "sending"
                 /\ status'[m] = "sending" /\ retries[m] + 1 < MaxRetries
                 /\ retries'[m] = retries[m] + 1 /\ claims'[m] = claims[m] + 1
                 /\ send'[w][m] \in {"check", "send"}
              \/ /\ m \in ripe /\ m \notin ripe' /\ status[m] = "sending"
                 /\ status'[m] = "failed" /\ retries[m] + 1 >= MaxRetries
                 /\ retries'[m] = retries[m] + 1 /\ claims'[m] = claims[m]
                 /\ send'[w][m] = "idle"
         /\ \A v \in Workers : v # w => send'[v] = send[v]
         /\ ripe' \subseteq ripe /\ UNCHANGED <<mails, erased>>
         /\ \A m \in Mail : send[w][m] = "idle"
         /\ TypeOK'
<1>1. PICK B \in Batches :
       LET reclaimed == {m \in B : status[m] = "sending"}
           spent == {m \in reclaimed : retries[m] + 1 >= MaxRetries}
           taken == B \ spent
       IN
       /\ status' = [m \in Mail |-> IF m \in spent THEN "failed"
                                    ELSE IF m \in taken THEN "sending"
                                    ELSE status[m]]
       /\ retries' = [m \in Mail |-> IF m \in reclaimed THEN retries[m] + 1
                                     ELSE retries[m]]
       /\ claims' = [m \in Mail |-> IF m \in taken THEN claims[m] + 1
                                    ELSE claims[m]]
       /\ send' = [send EXCEPT ![w] = [m \in Mail |->
                     IF m \notin taken THEN "idle"
                     ELSE IF m \in OwnedMail THEN "check" ELSE "send"]]
       /\ ripe' = ripe \ B
  BY DEF Claim
<1> DEFINE reclaimed == {m \in B : status[m] = "sending"}
           spent == {m \in reclaimed : retries[m] + 1 >= MaxRetries}
           taken == B \ spent
<1>2. /\ B \subseteq ripe /\ B \subseteq Mail
      /\ \A m \in B : status[m] \in {"queued", "sending"}
  BY DEF Batches, Due, TypeOK
<1>3. UNCHANGED <<mails, erased>> /\ \A m \in Mail : send[w][m] = "idle"
  BY DEF Claim, Idle
<1>4. \A v \in Workers : v # w => send'[v] = send[v]
  BY <1>1 DEF TypeOK
<1>5. send'[w] = [m \in Mail |-> IF m \notin taken THEN "idle"
                                 ELSE IF m \in OwnedMail THEN "check" ELSE "send"]
  BY <1>1 DEF TypeOK
<1>6. \A m \in Mail :
        /\ status'[m] = IF m \in spent THEN "failed"
                        ELSE IF m \in taken THEN "sending" ELSE status[m]
        /\ retries'[m] = IF m \in reclaimed THEN retries[m] + 1 ELSE retries[m]
        /\ claims'[m] = IF m \in taken THEN claims[m] + 1 ELSE claims[m]
        /\ send'[w][m] \in IF m \in taken THEN {"check", "send"} ELSE {"idle"}
        /\ m \in ripe' <=> m \in ripe /\ m \notin B
  BY <1>1, <1>5
<1>7. \A m \in B : retries[m] + 1 < MaxRetries \/ retries[m] + 1 >= MaxRetries
  BY <1>2, EmailAssumption DEF TypeOK
<1>8. TypeOK'
  <2>1. status' \in [Mail -> Statuses]
    BY <1>1 DEF TypeOK, Statuses, Settled
  <2>2. retries' \in [Mail -> Nat] /\ claims' \in [Mail -> Nat]
    BY <1>1 DEF TypeOK
  <2>3. send' \in [Workers -> [Mail -> Steps]]
    BY <1>1 DEF TypeOK, Steps
  <2> QED
    BY <1>1, <1>3, <2>1, <2>2, <2>3 DEF TypeOK
<1>9. ripe' \subseteq ripe
  BY <1>1
<1>10. ASSUME NEW m \in Mail
       PROVE  \/ /\ status'[m] = status[m] /\ retries'[m] = retries[m]
                 /\ claims'[m] = claims[m] /\ send'[w][m] = "idle"
              \/ /\ m \in ripe /\ m \notin ripe' /\ status[m] = "queued"
                 /\ status'[m] = "sending"
                 /\ retries'[m] = retries[m] /\ claims'[m] = claims[m] + 1
                 /\ send'[w][m] \in {"check", "send"}
              \/ /\ m \in ripe /\ m \notin ripe' /\ status[m] = "sending"
                 /\ status'[m] = "sending" /\ retries[m] + 1 < MaxRetries
                 /\ retries'[m] = retries[m] + 1 /\ claims'[m] = claims[m] + 1
                 /\ send'[w][m] \in {"check", "send"}
              \/ /\ m \in ripe /\ m \notin ripe' /\ status[m] = "sending"
                 /\ status'[m] = "failed" /\ retries[m] + 1 >= MaxRetries
                 /\ retries'[m] = retries[m] + 1 /\ claims'[m] = claims[m]
                 /\ send'[w][m] = "idle"
  <2>1. CASE m \notin B
    BY <1>6, <2>1
  <2>2. CASE m \in B /\ status[m] = "queued"
    BY <1>2, <1>6, <2>2
  <2>3. CASE m \in spent
    BY <1>2, <1>6, <2>3
  <2>4. CASE m \in reclaimed /\ m \notin spent
    BY <1>2, <1>6, <1>7, <2>4
  <2> QED
    BY <1>2, <2>1, <2>2, <2>3, <2>4
<1> QED
  BY <1>3, <1>4, <1>8, <1>9, <1>10

LEMMA TypeStep ==
  ASSUME TypeOK, [Next]_vars
  PROVE  TypeOK'
<1>1. CASE UNCHANGED vars
  BY <1>1 DEF vars, TypeOK
<1>2. ASSUME NEW w \in Workers, Crash(w) PROVE TypeOK'
  BY <1>2 DEF Crash, TypeOK, Steps
<1>3. CASE Erase
  BY <1>3 DEF Erase, TypeOK, Statuses, NoRow
<1> QED
  BY <1>1, <1>2, <1>3, StepCases, RowStepTypes, Claimed

-----------------------------------------------------------------------------
(* The budget. *)

\* A statement about a row counts no claim, and a failed send pays for one.
LEMMA RowStepBudget ==
  ASSUME TypeOK, BudgetInv, NEW m \in Mail, RowStep(m)
  PROVE  BudgetInv'
<1>1. /\ claims' = claims
      /\ \A n \in Mail : n # m => status'[n] = status[n] /\ retries'[n] = retries[n]
  BY DEF RowStep, Check, Insert, EnqueueFails, Ripen, queueVars, Work, CheckPreferences,
         Unsubscribe, MarkSent, Send, MarkFailed, Write, Retry, TypeOK
<1>2. \/ status'[m] = status[m] /\ retries'[m] = retries[m]
      \/ status[m] \in {"new", "checked"} /\ retries'[m] = retries[m]
      \/ status'[m] \in {"sent", "unsubscribed"} /\ retries'[m] = retries[m]
      \/ /\ retries'[m] = retries[m] + 1
         /\ status'[m] = IF retries[m] + 1 < MaxRetries THEN "queued" ELSE "failed"
  <2>1. CASE Check(m) \/ Insert(m) \/ EnqueueFails(m) \/ Ripen(m)
    BY <2>1 DEF Check, Insert, EnqueueFails, Ripen, queueVars
  <2>2. ASSUME NEW w \in Workers, Work(w, m)
        PROVE \/ status' = status /\ retries' = retries
              \/ status'[m] \in {"sent", "unsubscribed"} /\ retries'[m] = retries[m]
              \/ Retry(m)
    BY <2>2 DEF Work, CheckPreferences, Unsubscribe, MarkSent, Send, MarkFailed, Write, TypeOK
  <2>3. CASE Retry(m)
    BY <2>3 DEF Retry, TypeOK
  <2> QED
    BY <2>1, <2>2, <2>3 DEF RowStep
<1>3. retries[m] \in Nat /\ claims[m] \in Nat /\ MaxRetries \in Nat
  BY EmailAssumption DEF TypeOK
<1> SUFFICES ASSUME NEW n \in Mail
             PROVE  /\ claims'[n] <= retries'[n] + 1
                    /\ claims'[n] <= Budget
                    /\ status'[n] = "queued" =>
                         /\ claims'[n] <= retries'[n]
                         /\ retries'[n] < MaxRetries \/ retries'[n] = 0
                    /\ status'[n] \in {"new", "checked", "dropped"} =>
                         claims'[n] = 0 /\ retries'[n] = 0
  BY DEF BudgetInv, Budget
<1>4. CASE n # m
  BY <1>1, <1>4 DEF BudgetInv
<1>5. CASE n = m
  <2>1. /\ claims[m] <= retries[m] + 1 /\ claims[m] <= Budget
        /\ status[m] = "queued" =>
             claims[m] <= retries[m] /\ (retries[m] < MaxRetries \/ retries[m] = 0)
        /\ status[m] \in {"new", "checked", "dropped"} => claims[m] = 0 /\ retries[m] = 0
    BY DEF BudgetInv
  <2> QED
    BY <1>1, <1>2, <1>3, <1>5, <2>1
<1> QED
  BY <1>4, <1>5

LEMMA ClaimBudget ==
  ASSUME TypeOK, BudgetInv, NEW w \in Workers, Claim(w)
  PROVE  BudgetInv'
<1> SUFFICES ASSUME NEW m \in Mail
             PROVE  /\ claims'[m] <= retries'[m] + 1
                    /\ claims'[m] <= Budget
                    /\ status'[m] = "queued" =>
                         /\ claims'[m] <= retries'[m]
                         /\ retries'[m] < MaxRetries \/ retries'[m] = 0
                    /\ status'[m] \in {"new", "checked", "dropped"} =>
                         claims'[m] = 0 /\ retries'[m] = 0
  BY DEF BudgetInv, Budget
<1>1. retries[m] \in Nat /\ claims[m] \in Nat /\ MaxRetries \in Nat
  BY EmailAssumption DEF TypeOK
<1>2. /\ claims[m] <= retries[m] + 1 /\ claims[m] <= Budget
      /\ status[m] = "queued" =>
           claims[m] <= retries[m] /\ (retries[m] < MaxRetries \/ retries[m] = 0)
      /\ status[m] \in {"new", "checked", "dropped"} => claims[m] = 0 /\ retries[m] = 0
  BY DEF BudgetInv
<1>3. \/ /\ status'[m] = status[m] /\ retries'[m] = retries[m] /\ claims'[m] = claims[m]
      \/ /\ status[m] = "queued" /\ status'[m] = "sending"
         /\ retries'[m] = retries[m] /\ claims'[m] = claims[m] + 1
      \/ /\ status[m] = "sending" /\ status'[m] = "sending" /\ retries[m] + 1 < MaxRetries
         /\ retries'[m] = retries[m] + 1 /\ claims'[m] = claims[m] + 1
      \/ /\ status[m] = "sending" /\ status'[m] = "failed"
         /\ retries'[m] = retries[m] + 1 /\ claims'[m] = claims[m]
  BY Claimed
<1> QED
  BY <1>1, <1>2, <1>3 DEF Budget

LEMMA BudgetStep ==
  ASSUME TypeOK, BudgetInv, [Next]_vars
  PROVE  BudgetInv'
<1>1. CASE UNCHANGED vars
  BY <1>1 DEF vars, BudgetInv, Budget
<1>2. ASSUME NEW w \in Workers, Crash(w) PROVE BudgetInv'
  BY <1>2 DEF Crash, BudgetInv, Budget
<1>3. CASE Erase
  BY <1>3 DEF Erase, BudgetInv, Budget
<1> QED
  BY <1>1, <1>2, <1>3, StepCases, RowStepBudget, ClaimBudget

-----------------------------------------------------------------------------
(* One worker at a time. *)

\* Where no answer is lost, a worker's statement either fails, leaving the row
\* as it was, or ends the send.
LEMMA SteadyWork ==
  ASSUME TypeOK, NEW w \in Workers, NEW m \in Mail, Work(w, m)
  PROVE  /\ send[w][m] # "idle"
         /\ \A v \in Workers : v # w => send'[v] = send[v]
         /\ \A n \in Mail : n # m => send'[w][n] = send[w][n]
         /\ \A n \in Mail : n # m => status'[n] = status[n] /\ (n \in ripe' <=> n \in ripe)
         /\ m \notin Unsteady =>
              \/ send'[w][m] = "idle"
              \/ status' = status /\ ripe' = ripe
<1>1. /\ send[w][m] # "idle"
      /\ \E step \in Steps : To(w, m, step)
  BY DEF Work, CheckPreferences, Unsubscribe, MarkSent, Send, MarkFailed, Write, Steps
<1>2. /\ \A v \in Workers : v # w => send'[v] = send[v]
      /\ \A n \in Mail : n # m => send'[w][n] = send[w][n]
  BY <1>1 DEF To, TypeOK
<1>3. \A n \in Mail : n # m => status'[n] = status[n] /\ (n \in ripe' <=> n \in ripe)
  BY DEF Work, CheckPreferences, Unsubscribe, MarkSent, Send, MarkFailed, Write, Retry, TypeOK
<1>4. ASSUME m \notin Unsteady
      PROVE  To(w, m, "idle") \/ (status' = status /\ ripe' = ripe)
  BY <1>4 DEF Work, CheckPreferences, Unsubscribe, MarkSent, Send, MarkFailed, Write
<1>5. To(w, m, "idle") => send'[w][m] = "idle"
  BY DEF To, TypeOK
<1> QED
  BY <1>1, <1>2, <1>3, <1>4, <1>5

LEMMA SoloStep ==
  ASSUME TypeOK, SoloInv, [Next]_vars
  PROVE  SoloInv'
<1> SUFFICES ASSUME NEW m \in Mail \ Unsteady, NEW w \in Workers, send'[w][m] # "idle"
             PROVE  /\ status'[m] \in {"sending", "erased"}
                    /\ m \notin ripe'
                    /\ \A v \in Workers : v # w => send'[v][m] = "idle"
  BY DEF SoloInv
<1>0. ASSUME send[w][m] # "idle"
      PROVE  /\ status[m] \in {"sending", "erased"} /\ m \notin ripe
             /\ \A v \in Workers : v # w => send[v][m] = "idle"
  BY <1>0 DEF SoloInv
<1>1. CASE UNCHANGED vars
  BY <1>0, <1>1 DEF vars
<1>2. ASSUME NEW n \in Mail, Check(n) \/ Insert(n) \/ EnqueueFails(n) \/ Ripen(n)
      PROVE  SoloInv'
  <2> SUFFICES ASSUME NEW o \in Mail \ Unsteady, NEW u \in Workers, send[u][o] # "idle"
               PROVE  status'[o] = status[o] /\ (o \in ripe' <=> o \in ripe)
    BY <1>2 DEF SoloInv, Check, Insert, EnqueueFails, Ripen, queueVars
  <2>1. status[o] \in {"sending", "erased"}
    BY DEF SoloInv
  <2> QED
    BY <1>2, <2>1 DEF Check, Insert, EnqueueFails, Ripen, queueVars, TypeOK
<1>3. ASSUME NEW u \in Workers, NEW n \in Mail, Work(u, n)
      PROVE  /\ status'[m] \in {"sending", "erased"}
             /\ m \notin ripe'
             /\ \A v \in Workers : v # w => send'[v][m] = "idle"
  <2>1. CASE n # m
    BY <1>0, <1>3, <2>1, SteadyWork
  <2>2. CASE n = m
    <3>1. send[u][m] # "idle" /\ \A v \in Workers : v # u => send[v][m] = "idle"
      BY <1>3, <2>2, SteadyWork DEF SoloInv
    <3>2. w = u
      BY <1>3, <2>2, <3>1, SteadyWork
    <3>3. status' = status /\ ripe' = ripe /\ \A v \in Workers : v # u => send'[v] = send[v]
      BY <1>3, <2>2, <3>2, SteadyWork
    <3> QED
      BY <1>0, <3>1, <3>2, <3>3
  <2> QED
    BY <2>1, <2>2
<1>4. ASSUME NEW u \in Workers, Claim(u)
      PROVE  /\ status'[m] \in {"sending", "erased"}
             /\ m \notin ripe'
             /\ \A v \in Workers : v # w => send'[v][m] = "idle"
  <2>1. ripe' \subseteq ripe /\ \A v \in Workers : v # u => send'[v] = send[v]
    BY <1>4, Claimed
  <2>2. CASE send'[u][m] = "idle"
    <3>1. w # u /\ send[w][m] # "idle"
      BY <2>1, <2>2
    <3>2. status[m] \in {"sending", "erased"} /\ m \notin ripe
      BY <1>0, <3>1
    <3>3. status'[m] = status[m]
      BY <1>4, <3>2, Claimed
    <3> QED
      BY <1>0, <2>1, <2>2, <3>1, <3>2, <3>3
  <2>3. CASE send'[u][m] # "idle"
    <3>1. m \in ripe /\ m \notin ripe' /\ status'[m] = "sending"
      BY <1>4, <2>3, Claimed
    <3>2. \A v \in Workers : send[v][m] = "idle"
      BY <3>1 DEF SoloInv
    <3> QED
      BY <2>1, <3>1, <3>2
  <2> QED
    BY <2>2, <2>3
<1>5. ASSUME NEW u \in Workers, Crash(u)
      PROVE  /\ status'[m] \in {"sending", "erased"}
             /\ m \notin ripe'
             /\ \A v \in Workers : v # w => send'[v][m] = "idle"
  BY <1>0, <1>5 DEF Crash, TypeOK
<1>6. CASE Erase
  BY <1>0, <1>6 DEF Erase, TypeOK
<1>7. CASE SoloInv'
  BY <1>7 DEF SoloInv
<1> QED
  BY <1>1, <1>2, <1>3, <1>4, <1>5, <1>6, <1>7, StepCases DEF RowStep

-----------------------------------------------------------------------------
\* The provider counts one mail for a key, whatever is sent under it.
LEMMA KeyStep ==
  ASSUME TypeOK, OneMailPerKey, [Next]_vars
  PROVE  OneMailPerKey'
<1>1. ASSUME UNCHANGED mails PROVE OneMailPerKey'
  BY <1>1 DEF OneMailPerKey
<1>2. ASSUME NEW m \in Mail, RowStep(m) PROVE OneMailPerKey'
  <2>1. mails' = mails \/ mails' = [mails EXCEPT ![KeyOf[m]] = 1]
    BY <1>2 DEF RowStep, Check, Insert, EnqueueFails, Ripen, queueVars, Work,
       CheckPreferences, Unsubscribe, MarkSent, Send, MarkFailed, Write
  <2>2. CASE mails' = [mails EXCEPT ![KeyOf[m]] = 1]
    BY <2>2 DEF OneMailPerKey, TypeOK
  <2> QED
    BY <1>1, <2>1, <2>2
<1>3. ASSUME NEW w \in Workers, Claim(w) \/ Crash(w) PROVE OneMailPerKey'
  BY <1>1, <1>3 DEF Claim, Crash
<1>4. CASE Erase
  BY <1>1, <1>4 DEF Erase
<1> QED
  BY <1>1, <1>2, <1>3, <1>4, StepCases DEF vars

-----------------------------------------------------------------------------
(* What a worker has in hand. *)

\* A statement of a send finds an inserted row and leaves one, and is told
\* "accepted" only of a mail the provider has.
LEMMA WorkEffect ==
  ASSUME TypeOK, HandInv, NEW w \in Workers, NEW m \in Mail, Work(w, m)
  PROVE  /\ status'[m] \notin {"new", "checked", "dropped"}
         /\ send'[w][m] = "accepted" => mails'[KeyOf[m]] = 1
         /\ mails' = mails \/ mails' = [mails EXCEPT ![KeyOf[m]] = 1]
<1>1. status[m] \notin {"new", "checked", "dropped"}
  BY SteadyWork DEF HandInv
<1>2. status'[m] \notin {"new", "checked", "dropped"}
  BY <1>1 DEF Work, CheckPreferences, Unsubscribe, MarkSent, Send, MarkFailed, Write, Retry, TypeOK
<1>3. KeyOf[m] \in Keys
  BY EmailAssumption
<1>4. CASE Send(w, m)
  BY <1>2, <1>3, <1>4 DEF Send, To, TypeOK
<1>5. CASE ~Send(w, m)
  <2>1. mails' = mails /\ \E step \in Steps \ {"accepted"} : To(w, m, step)
    BY <1>5 DEF Work, CheckPreferences, Unsubscribe, MarkSent, MarkFailed, Write, Steps
  <2>2. send'[w][m] # "accepted"
    BY <2>1 DEF To, TypeOK
  <2> QED
    BY <1>2, <2>1, <2>2
<1> QED
  BY <1>4, <1>5

LEMMA HandStep ==
  ASSUME TypeOK, HandInv, [Next]_vars
  PROVE  HandInv'
<1> SUFFICES ASSUME NEW m \in Mail, NEW w \in Workers
             PROVE  /\ send'[w][m] # "idle" => status'[m] \notin {"new", "checked", "dropped"}
                    /\ send'[w][m] = "accepted" => mails'[KeyOf[m]] = 1
  BY DEF HandInv
<1>1. /\ send[w][m] # "idle" => status[m] \notin {"new", "checked", "dropped"}
      /\ send[w][m] = "accepted" => mails[KeyOf[m]] = 1
  BY DEF HandInv
<1>2. CASE UNCHANGED vars
  BY <1>1, <1>2 DEF vars
<1>3. ASSUME NEW n \in Mail, Check(n) \/ Insert(n) \/ EnqueueFails(n) \/ Ripen(n)
      PROVE  /\ send' = send /\ mails' = mails
             /\ send[w][m] # "idle" => status'[m] = status[m]
  BY <1>1, <1>3 DEF Check, Insert, EnqueueFails, Ripen, queueVars, TypeOK
<1>4. ASSUME NEW u \in Workers, NEW n \in Mail, Work(u, n)
      PROVE  /\ send'[w][m] # "idle" => status'[m] \notin {"new", "checked", "dropped"}
             /\ send'[w][m] = "accepted" => mails'[KeyOf[m]] = 1
  <2>1. \A k \in Keys : mails[k] = 1 => mails'[k] = 1
    BY <1>4, WorkEffect DEF TypeOK
  <2>2. KeyOf[m] \in Keys
    BY EmailAssumption
  <2>3. CASE n = m /\ u = w
    BY <1>4, <2>3, WorkEffect
  <2>4. CASE n # m
    BY <1>1, <1>4, <2>1, <2>2, <2>4, SteadyWork
  <2>5. CASE n = m /\ u # w
    <3>1. send'[w] = send[w]
      BY <1>4, <2>5, SteadyWork
    <3>2. status'[m] \notin {"new", "checked", "dropped"}
      BY <1>4, <2>5, WorkEffect
    <3> QED
      BY <1>1, <2>1, <2>2, <3>1, <3>2
  <2> QED
    BY <2>3, <2>4, <2>5
<1>5. ASSUME NEW u \in Workers, Claim(u)
      PROVE  /\ send'[w][m] # "idle" => status'[m] \notin {"new", "checked", "dropped"}
             /\ send'[w][m] = "accepted" => mails'[KeyOf[m]] = 1
  BY <1>1, <1>5, Claimed
<1>6. ASSUME NEW u \in Workers, Crash(u)
      PROVE  /\ send'[w][m] # "idle" => status'[m] \notin {"new", "checked", "dropped"}
             /\ send'[w][m] = "accepted" => mails'[KeyOf[m]] = 1
  BY <1>1, <1>6 DEF Crash, TypeOK
<1>7. CASE Erase
  BY <1>1, <1>7 DEF Erase, TypeOK
<1> QED
  BY <1>1, <1>2, <1>3, <1>4, <1>5, <1>6, <1>7, StepCases DEF RowStep

LEMMA IInvInit == Init => IInv
<1> SUFFICES ASSUME Init PROVE IInv
  OBVIOUS
<1>1. TypeOK
  BY DEF Init, TypeOK, Statuses, NoRow, Steps
<1>2. BudgetInv
  BY EmailAssumption DEF Init, BudgetInv, Budget
<1>3. SoloInv /\ OneMailPerKey /\ HandInv
  BY DEF Init, SoloInv, OneMailPerKey, HandInv
<1> QED
  BY <1>1, <1>2, <1>3 DEF IInv

LEMMA Inductive == Spec => []IInv
<1>1. IInv /\ [Next]_vars => IInv'
  BY TypeStep, BudgetStep, SoloStep, KeyStep, HandStep DEF IInv
<1> QED
  BY <1>1, IInvInit, PTL DEF Spec

-----------------------------------------------------------------------------
\* The rows, the workers and the provider keep their types.
THEOREM TypeCorrect == Spec => []TypeOK
<1>1. IInv => TypeOK
  BY DEF IInv
<1> QED
  BY <1>1, Inductive, PTL

\* No row is claimed more often than max_retries allows, steady or not.
THEOREM WithinBudget == Spec => []AttemptBudget
<1>1. IInv => AttemptBudget
  BY DEF IInv, BudgetInv, Budget, AttemptBudget
<1> QED
  BY <1>1, Inductive, PTL

\* A settled row whose sends are steady stays settled.
THEOREM SettledStays == Spec => SettledForGood
<1> DEFINE Kept == \A m \in Mail \ Unsteady :
                     status[m] \in Settled => status'[m] \in {status[m], "erased"}
<1>1. IInv /\ [Next]_vars => [Kept]_vars
  <2> SUFFICES ASSUME IInv, Next, NEW m \in Mail \ Unsteady, status[m] \in Settled
               PROVE  status'[m] \in {status[m], "erased"}
    OBVIOUS
  <2>1. TypeOK /\ SoloInv
    BY DEF IInv
  <2>2. \A w \in Workers : send[w][m] = "idle"
    BY <2>1 DEF SoloInv, Settled
  <2>3. CASE UNCHANGED vars
    BY <2>3 DEF vars
  <2>4. ASSUME NEW n \in Mail, RowStep(n) PROVE status'[m] = status[m]
    <3>1. CASE Check(n) \/ Insert(n) \/ EnqueueFails(n) \/ Ripen(n)
      BY <2>1, <3>1 DEF Check, Insert, EnqueueFails, Ripen, Settled, TypeOK
    <3>2. ASSUME NEW w \in Workers, Work(w, n) PROVE status'[m] = status[m]
      BY <2>1, <2>2, <3>2, SteadyWork
    <3> QED
      BY <2>4, <3>1, <3>2 DEF RowStep
  <2>5. ASSUME NEW w \in Workers, Claim(w) PROVE status'[m] = status[m]
    BY <2>1, <2>5, Claimed DEF Settled
  <2>6. ASSUME NEW w \in Workers, Crash(w) PROVE status'[m] = status[m]
    BY <2>6 DEF Crash
  <2>7. CASE Erase
    BY <2>1, <2>7 DEF Erase, TypeOK
  <2> QED
    BY <2>3, <2>4, <2>5, <2>6, <2>7, StepCases
<1> QED
  BY <1>1, Inductive, PTL DEF Spec, SettledForGood
-----------------------------------------------------------------------------
(* The mailroom. *)

\* The slips the rows stand for.
Slips == [m \in Mail |-> Shown(status[m])]

\* What each status shows.
LEMMA ShownAs ==
  /\ \A s \in {"new", "checked", "dropped"} : Shown(s) = "none"
  /\ \A s \in {"queued", "sending"} : Shown(s) = "open"
  /\ Shown("erased") = "shredded"
  /\ \A s \in Settled : Shown(s) = s
  /\ \A s \in Statuses : Shown(s) \in {"none", "open", "shredded"} \cup Settled
BY DEF Shown, Settled, Statuses, NoRow

\* One row written is one slip written.
LEMMA OneSlip ==
  ASSUME TypeOK, NEW m \in Mail, NEW s, status' = [status EXCEPT ![m] = s]
  PROVE  Slips' = [Slips EXCEPT ![m] = Shown(s)]
BY DEF TypeOK, Slips

\* The unique index admits a row only where no other row has its key.
LEMMA EnqueueMaps ==
  ASSUME TypeOK, NEW m \in Mail, Check(m) \/ Insert(m) \/ EnqueueFails(m) \/ Ripen(m)
  PROVE  Room!Next \/ UNCHANGED Room!vars
<1>1. mails' = mails
  BY DEF Check, Insert, EnqueueFails, Ripen, queueVars
<1>2. CASE \E s \in {"checked", "dropped"} :
             /\ status[m] \in {"new", "checked"}
             /\ status' = [status EXCEPT ![m] = s]
  <2>1. PICK s \in {"checked", "dropped"} : status' = [status EXCEPT ![m] = s]
    BY <1>2
  <2>2. Slips' = [Slips EXCEPT ![m] = "none"] /\ Slips[m] = "none"
    BY <1>2, <2>1, OneSlip, ShownAs DEF Slips
  <2>3. Slips' = Slips
    BY <2>2 DEF Slips
  <2> QED
    BY <1>1, <2>3 DEF Slips, Room!vars
<1>3. CASE status' = status
  BY <1>1, <1>3 DEF Room!vars
<1>4. CASE /\ status[m] = "checked" /\ ~Taken(KeyOf[m])
           /\ status' = [status EXCEPT ![m] = "queued"]
  <2>1. Slips[m] = "none" /\ Slips' = [Slips EXCEPT ![m] = "open"]
    <3>1. Shown("queued") = "open" /\ Shown("checked") = "none"
      BY ShownAs
    <3>2. Slips' = [Slips EXCEPT ![m] = Shown("queued")]
      BY <1>4, OneSlip
    <3> QED
      BY <1>4, <3>1, <3>2 DEF Slips
  <2>2. ASSUME NEW n \in Mail, KeyOf[n] = KeyOf[m] PROVE Slips[n] \in {"none", "shredded"}
    <3>1. status[n] \in NoRow
      BY <1>4, <2>2 DEF Taken, Rows
    <3> QED
      BY <3>1, ShownAs DEF NoRow, Slips
  <2>3. Room!Open(m)
    BY <1>1, <2>1, <2>2 DEF Room!Open, Slips
  <2> QED
    BY <2>3 DEF Room!Next
<1> QED
  BY <1>2, <1>3, <1>4 DEF Check, Insert, EnqueueFails, Ripen

\* A row some worker is busy with is undecided or erased, unless its sends are
\* unsteady, and then it may be settled.
LEMMA InHand ==
  ASSUME IInv, NEW w \in Workers, NEW m \in Mail, send[w][m] # "idle"
  PROVE  Slips[m] = "shredded" \/ Room!Undecided(m)
<1>1. TypeOK /\ SoloInv /\ HandInv
  BY DEF IInv
<1>2. CASE m \notin Unsteady
  BY <1>1, <1>2, ShownAs DEF SoloInv, Slips, Room!Undecided
<1>3. CASE m \in Unsteady
  <2>1. status[m] \in Settled \cup {"queued", "sending", "erased"}
    BY <1>1 DEF HandInv, TypeOK, Statuses, NoRow
  <2>2. CASE status[m] \in Settled
    BY <1>3, <2>2, ShownAs DEF Slips, Room!Undecided, Room!Settled, Settled
  <2> QED
    BY <2>1, <2>2, ShownAs DEF Slips, Room!Undecided
<1> QED
  BY <1>2, <1>3

\* A verdict written to a row that is still there settles or reopens its slip;
\* "sent" is only written after the provider took the mail.
LEMMA VerdictMaps ==
  ASSUME IInv, NEW w \in Workers, NEW m \in Mail, send[w][m] # "idle", m \in Rows,
         NEW s \in Settled \cup {"queued"}, status' = [status EXCEPT ![m] = s],
         s = "sent" => send[w][m] = "accepted", mails' = mails
  PROVE  Room!Next
<1>1. TypeOK /\ HandInv
  BY DEF IInv
<1>2. Room!Undecided(m)
  BY <1>1, InHand, ShownAs DEF Rows, NoRow, Slips, TypeOK, Statuses, Settled
<1>3. Slips' = [Slips EXCEPT ![m] = Shown(s)]
  BY <1>1, OneSlip
<1>4. CASE s = "queued"
  <2>1. Room!Reopen(m)
    BY <1>2, <1>3, <1>4, ShownAs DEF Room!Reopen, Slips
  <2> QED
    BY <2>1 DEF Room!Next
<1>5. CASE s \in Settled
  <2>1. s = "sent" => mails[KeyOf[m]] = 1
    BY <1>1 DEF HandInv
  <2>2. Room!Settle(m, s)
    BY <1>2, <1>3, <1>5, <2>1, ShownAs DEF Room!Settle, Slips
  <2>3. s \in Room!Settled
    BY <1>5 DEF Settled, Room!Settled
  <2> QED
    BY <2>2, <2>3 DEF Room!Next
<1> QED
  BY <1>4, <1>5

\* A first delivery is a Post; the provider drops what it delivered before.
LEMMA SendMaps ==
  ASSUME IInv, NEW w \in Workers, NEW m \in Mail, Send(w, m)
  PROVE  Room!Next \/ UNCHANGED Room!vars
<1>1. TypeOK /\ OneMailPerKey /\ KeyOf[m] \in Keys
  BY EmailAssumption DEF IInv
<1>2. status' = status /\ send[w][m] # "idle"
  BY DEF Send
<1>3. CASE mails' = mails
  BY <1>2, <1>3 DEF Room!vars
<1>4. CASE mails' = [mails EXCEPT ![KeyOf[m]] = 1]
  <2>1. mails[KeyOf[m]] = 0 \/ mails[KeyOf[m]] = 1
    BY <1>1 DEF OneMailPerKey, TypeOK
  <2>2. CASE mails[KeyOf[m]] = 1
    <3>1. mails' = mails
      BY <1>1, <1>4, <2>2 DEF TypeOK
    <3> QED
      BY <1>3, <3>1
  <2>3. CASE mails[KeyOf[m]] = 0
    <3>1. Room!Post(m)
      BY <1>2, <1>4, <2>3, InHand DEF Room!Post, Slips
    <3> QED
      BY <3>1 DEF Room!Next
  <2> QED
    BY <2>1, <2>2, <2>3
<1> QED
  BY <1>3, <1>4 DEF Send

LEMMA WorkMaps ==
  ASSUME IInv, NEW w \in Workers, NEW m \in Mail, Work(w, m)
  PROVE  Room!Next \/ UNCHANGED Room!vars
<1>1. TypeOK
  BY DEF IInv
<1>2. CASE status' = status /\ mails' = mails
  BY <1>2 DEF Room!vars
<1>3. CASE Send(w, m)
  BY <1>3, SendMaps
<1>4. CASE CheckPreferences(w, m)
  BY <1>2, <1>4 DEF CheckPreferences
<1>5. CASE Unsubscribe(w, m) \/ MarkSent(w, m)
  BY <1>2, <1>5, VerdictMaps DEF Unsubscribe, MarkSent, Write, Settled
<1>6. CASE MarkFailed(w, m)
  BY <1>2, <1>6, VerdictMaps DEF MarkFailed, Retry, Settled
<1> QED
  BY <1>3, <1>4, <1>5, <1>6 DEF Work

\* A claim shows only in the rows it finds to have spent their budget.
LEMMA ClaimMaps ==
  ASSUME TypeOK, NEW w \in Workers, Claim(w)
  PROVE  Room!Next
<1> DEFINE S == {m \in Mail : status[m] = "sending" /\ status'[m] = "failed"}
<1>1. mails' = mails /\ \A m \in S : Slips[m] = "open"
  BY Claimed, ShownAs DEF Slips
<1>2. ASSUME NEW m \in Mail
      PROVE  Shown(status'[m]) = IF m \in S THEN "failed" ELSE Slips[m]
  BY Claimed, ShownAs DEF Slips, Settled
<1>3. Room!GiveUp(S)
  BY <1>1, <1>2 DEF Room!GiveUp, Slips
<1> QED
  BY <1>3 DEF Room!Next

LEMMA EraseMaps ==
  ASSUME TypeOK, Erase
  PROVE  Room!Next
<1>1. ASSUME NEW m \in Mail
      PROVE  Shown(status'[m]) =
               IF m \in OwnedMail /\ Slips[m] # "none" THEN "shredded" ELSE Slips[m]
  <2>1. status[m] \in Statuses
    BY DEF TypeOK
  <2>2. status'[m] = IF m \in OwnedMail /\ m \in Rows THEN "erased" ELSE status[m]
    BY DEF Erase
  <2> QED
    BY <2>1, <2>2, ShownAs DEF Rows, Statuses, NoRow, Settled, Slips
<1>2. Room!Shred
  BY <1>1 DEF Erase, Room!Shred, Slips
<1> QED
  BY <1>2 DEF Room!Next

\* Every step is one of the postman's or does not show.
LEMMA RoomStep == IInv /\ [Next]_vars => [Room!Next]_(Room!vars)
<1> SUFFICES ASSUME IInv, [Next]_vars
             PROVE  Room!Next \/ UNCHANGED Room!vars
  OBVIOUS
<1>1. TypeOK
  BY DEF IInv
<1>2. CASE status' = status /\ mails' = mails
  BY <1>2 DEF Room!vars
<1>3. ASSUME NEW m \in Mail, RowStep(m) PROVE Room!Next \/ UNCHANGED Room!vars
  BY <1>1, <1>3, EnqueueMaps, WorkMaps DEF RowStep
<1>4. CASE UNCHANGED vars \/ \E w \in Workers : Crash(w)
  BY <1>2, <1>4 DEF vars, Crash
<1> QED
  BY <1>1, <1>3, <1>4, ClaimMaps, EraseMaps, StepCases

\* Concurrent replicas, stolen claims, lost answers, redelivered notifications
\* and an erasure in between show nothing but one postman's mailroom.
THEOREM Refinement == Spec => ImplementsMailroom
<1>1. Init => Room!Init
  BY ShownAs DEF Init, Room!Init
<1> QED
  BY <1>1, Inductive, RoomStep, PTL DEF Spec, ImplementsMailroom, Room!Spec
=============================================================================
