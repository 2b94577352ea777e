----------------------------- MODULE EmailQueue -----------------------------
(***************************************************************************)
(* Outgoing mail of service.notifications: two ways into email_queue (the  *)
(* SendEmail RPC, grpc/email-handlers.ts, and the notifications.created    *)
(* consumer, email/channel-adapter.ts), the worker that drains it in every *)
(* replica (email/worker.ts, email/queue.ts), and the mail provider        *)
(* (email/providers/resend.ts).                                            *)
(*                                                                         *)
(* Every statement of this code commits on its own, so each is one step,   *)
(* and each may fail, or be applied and still be reported as failed when   *)
(* the connection breaks.  No statement that ends a send names the attempt *)
(* it belongs to: a send that outlives the stale limit writes over         *)
(* whatever happened since.                                                *)
(*                                                                         *)
(* One user, who may opt out or be erased, owns the mail of OwnedMail.     *)
(* Rows of equal priority are claimed in any order.                        *)
(***************************************************************************)
EXTENDS Naturals, FiniteSets

CONSTANTS Mail,        \* attempts to enqueue; each is at most one row
          Keys,        \* idempotency keys
          KeyOf,       \* key of an attempt; shared by a redelivery or a retry
          NoticeMail,  \* attempts made by the notifications.created consumer
          OwnedMail,   \* rows that name a user
          Unsteady,    \* rows the operator's assumptions fail for: a send
                       \* outlives the stale limit, or a statement is applied
                       \* and the answer lost
          Rank,        \* 1 for 'urgent' up to 4 for 'low'
          Workers,     \* replicas of the service
          BatchSize,
          MaxRetries

ASSUME EmailAssumption ==
  /\ KeyOf \in [Mail -> Keys]
  /\ Rank \in [Mail -> 1..4]
  /\ NoticeMail \subseteq OwnedMail /\ OwnedMail \subseteq Mail
  /\ Unsteady \subseteq Mail
  /\ BatchSize \in Nat \ {0} /\ MaxRetries \in Nat

VARIABLES status,    \* email_queue.status, and where an attempt without a row is
          retries,   \* email_queue.current_retries
          ripe,      \* rows whose scheduled_for, or whose stale limit, is past
          send,      \* what each worker is doing for a row
          claims,    \* how often the row was claimed
          mails,     \* mails the provider delivered for a key
          erased     \* the user's rows were erased

vars == <<status, retries, ripe, send, claims, mails, erased>>

NoRow == {"new", "checked", "dropped", "erased"}
Settled == {"sent", "failed", "unsubscribed"}
Statuses == NoRow \cup Settled \cup {"queued", "sending"}
Steps == {"idle", "check", "closed", "send", "accepted", "refused", "error"}

TypeOK ==
  /\ status \in [Mail -> Statuses]
  /\ retries \in [Mail -> Nat]
  /\ ripe \subseteq Mail
  /\ send \in [Workers -> [Mail -> Steps]]
  /\ claims \in [Mail -> Nat]
  /\ mails \in [Keys -> Nat]
  /\ erased \in BOOLEAN

Init ==
  /\ status = [m \in Mail |-> "new"]
  /\ retries = [m \in Mail |-> 0]
  /\ ripe = {}
  /\ send = [w \in Workers |-> [m \in Mail |-> "idle"]]
  /\ claims = [m \in Mail |-> 0]
  /\ mails = [k \in Keys |-> 0]
  /\ erased = FALSE

-----------------------------------------------------------------------------
(* Enqueueing. *)

Rows == {m \in Mail : status[m] \notin NoRow}
Taken(k) == \E m \in Rows : KeyOf[m] = k

queueVars == <<retries, ripe, send, claims, mails, erased>>

\* SendEmail looks the key up first and answers alreadyQueued; the consumer
\* asks for the notification, which an erasure removes, and the user's
\* notification preferences.
Check(m) ==
  /\ status[m] = "new"
  /\ \E next \in {"checked", "dropped"} :
       /\ m \in NoticeMail => (erased => next = "dropped")
       /\ m \notin NoticeMail => (next = "dropped" <=> Taken(KeyOf[m]))
       /\ status' = [status EXCEPT ![m] = next]
  /\ UNCHANGED queueVars

\* The partial unique index on idempotency_key lets one row in.  The consumer
\* swallows the violation; SendEmail fails, as its look-up runs in the
\* transaction the violation aborted.
Insert(m) ==
  /\ status[m] = "checked"
  /\ IF Taken(KeyOf[m])
     THEN /\ status' = [status EXCEPT ![m] = "dropped"]
          /\ UNCHANGED ripe
     ELSE /\ status' = [status EXCEPT ![m] = "queued"]
          /\ ripe' \in IF m \in NoticeMail THEN {ripe \cup {m}}
                       ELSE {ripe, ripe \cup {m}}
  /\ UNCHANGED <<retries, send, claims, mails, erased>>

\* The process dies, or another statement of the handler fails.
EnqueueFails(m) ==
  /\ status[m] = "checked"
  /\ status' = [status EXCEPT ![m] = "dropped"]
  /\ UNCHANGED queueVars

-----------------------------------------------------------------------------
(* Claiming. *)

\* scheduled_for or the stale limit passes; the limit is chosen so that no
\* send that is alive reaches it.
Ripen(m) ==
  /\ \/ status[m] = "queued"
     \/ /\ status[m] = "sending"
        /\ m \in Unsteady \/ \A w \in Workers : send[w][m] = "idle"
  /\ ripe' = ripe \cup {m}
  /\ UNCHANGED <<status, retries, send, claims, mails, erased>>

Due == {m \in ripe : status[m] \in {"queued", "sending"}}

Batches ==
  {B \in SUBSET Due :
     /\ Cardinality(B) = IF Cardinality(Due) < BatchSize
                         THEN Cardinality(Due) ELSE BatchSize
     /\ \A m \in B, n \in Due \ B : Rank[m] <= Rank[n]}

Idle(w) == \A m \in Mail : send[w][m] = "idle"

\* Mutant: a row left in 'sending' by a crash is never looked at again.
ClaimQueuedOnly(w) ==
  /\ Idle(w) /\ Due # {}
  /\ \E B \in Batches :
       LET taken == {m \in B : status[m] = "queued"} IN
       /\ taken # {}
       /\ status' = [m \in Mail |-> IF m \in taken THEN "sending" ELSE status[m]]
       /\ claims' = [m \in Mail |-> IF m \in taken THEN claims[m] + 1 ELSE claims[m]]
       /\ send' = [send EXCEPT ![w] = [m \in Mail |->
                     IF m \notin taken THEN "idle"
                     ELSE IF m \in OwnedMail THEN "check" ELSE "send"]]
       /\ ripe' = ripe \ taken
  /\ UNCHANGED <<retries, mails, erased>>

\* Mutant: a reclaimed row does not count as a retry.
ClaimUncounted(w) ==
  /\ Idle(w) /\ Due # {}
  /\ \E B \in Batches :
       /\ status' = [m \in Mail |-> IF m \in B THEN "sending" ELSE status[m]]
       /\ claims' = [m \in Mail |-> IF m \in B THEN claims[m] + 1 ELSE claims[m]]
       /\ send' = [send EXCEPT ![w] = [m \in Mail |->
                     IF m \notin B THEN "idle"
                     ELSE IF m \in OwnedMail THEN "check" ELSE "send"]]
       /\ ripe' = ripe \ B
  /\ UNCHANGED <<retries, mails, erased>>

\* claimDueEmails: one statement.  A reclaimed row counts as one more retry
\* and, if that spends the budget, ends as 'failed' without being sent.
Claim(w) ==
  /\ Idle(w) /\ Due # {}
  /\ \E B \in Batches :
       LET reclaimed == {m \in B : status[m] = "sending"}
           spent == {m \in reclaimed : retries[m] + 1 >= MaxRetries}
           taken == B \ spent
       IN
       /\ status' = [m \in Mail |-> IF m \in spent THEN "failed"
                                    ELSE IF m \in taken THEN "sending"
                                    ELSE status[m]]
       /\ retries' = [m \in Mail |-> IF m \in reclaimed THEN retries[m] + 1
                                     ELSE retries[m]]
       /\ claims' = [m \in Mail |-> IF m \in taken THEN claims[m] + 1
                                    ELSE claims[m]]
       /\ send' = [send EXCEPT ![w] = [m \in Mail |->
                     IF m \notin taken THEN "idle"
                     ELSE IF m \in OwnedMail THEN "check" ELSE "send"]]
       /\ ripe' = ripe \ B
  /\ UNCHANGED <<mails, erased>>

-----------------------------------------------------------------------------
(* Sending: dispatchOne, one row of a batch; the rows go in parallel. *)

To(w, m, step) == send' = [send EXCEPT ![w][m] = step]

\* email_preferences changes at any time, so the answer is open.
CheckPreferences(w, m) ==
  /\ send[w][m] = "check"
  /\ \E step \in {"send", "closed", "error"} : To(w, m, step)
  /\ UNCHANGED <<status, retries, ripe, claims, mails, erased>>

\* UPDATE ... WHERE email_id: applied or not, and answered or not.  A row that
\* was erased is not updated.
Write(w, m, s, ok, ko) ==
  /\ \/ /\ status' = IF m \in Rows THEN [status EXCEPT ![m] = s] ELSE status
        /\ ripe' = ripe \ {m}
        /\ To(w, m, ok) \/ (m \in Unsteady /\ To(w, m, ko))
     \/ /\ To(w, m, ko)
        /\ UNCHANGED <<status, ripe>>
  /\ UNCHANGED <<retries, claims, mails, erased>>

\* Mutant: the early return after the opt-out is missing.
UnsubscribeAndGoOn(w, m) ==
  send[w][m] = "closed" /\ Write(w, m, "unsubscribed", "send", "error")

Unsubscribe(w, m) ==
  send[w][m] = "closed" /\ Write(w, m, "unsubscribed", "idle", "error")

\* Mutant: no Idempotency-Key: the provider delivers every call.
SendUnkeyed(w, m) ==
  /\ send[w][m] = "send"
  /\ \/ /\ mails' = [mails EXCEPT ![KeyOf[m]] = @ + 1]
        /\ (To(w, m, "accepted") \/ To(w, m, "refused"))
     \/ /\ To(w, m, "refused")
        /\ UNCHANGED mails
  /\ UNCHANGED <<status, retries, ripe, claims, erased>>

\* provider.send: the provider delivers one mail per Idempotency-Key.  A call
\* that times out may have been, or may yet be, accepted.
Send(w, m) ==
  /\ send[w][m] = "send"
  /\ \/ /\ mails' = [mails EXCEPT ![KeyOf[m]] = 1]
        /\ (To(w, m, "accepted") \/ To(w, m, "refused"))
     \/ /\ To(w, m, "refused")
        /\ UNCHANGED mails
  /\ UNCHANGED <<status, retries, ripe, claims, erased>>

MarkSent(w, m) ==
  send[w][m] = "accepted" /\ Write(w, m, "sent", "idle", "error")

\* Mutant: current_retries counts what is left.
RetryDownwards(m) ==
  /\ status' = [status EXCEPT ![m] = "failed"]
  /\ retries' = [retries EXCEPT ![m] = IF @ = 0 THEN 0 - 1 ELSE @ - 1]
  /\ UNCHANGED ripe

\* markFailed, always retriable: back to the queue while the budget lasts.
Retry(m) ==
  /\ status' = [status EXCEPT ![m] = IF retries[m] + 1 < MaxRetries
                                     THEN "queued" ELSE "failed"]
  /\ retries' = [retries EXCEPT ![m] = @ + 1]
  /\ ripe' = IF retries[m] + 1 < MaxRetries THEN ripe \cup {m} ELSE ripe \ {m}

\* Its error is caught and the row marked failed again; an error of that
\* second markFailed is dropped.
MarkFailed(w, m) ==
  /\ send[w][m] \in {"refused", "error"}
  /\ LET ko == IF send[w][m] = "refused" THEN "error" ELSE "idle" IN
     \/ /\ IF m \in Rows THEN Retry(m) ELSE UNCHANGED <<status, retries, ripe>>
        /\ To(w, m, "idle") \/ (m \in Unsteady /\ To(w, m, ko))
     \/ /\ To(w, m, ko)
        /\ UNCHANGED <<status, retries, ripe>>
  /\ UNCHANGED <<claims, mails, erased>>

-----------------------------------------------------------------------------
(* The world. *)

\* A replica dies and restarts: what it was sending is forgotten.
Crash(w) ==
  /\ ~Idle(w)
  /\ send' = [send EXCEPT ![w] = [m \in Mail |-> "idle"]]
  /\ UNCHANGED <<status, retries, ripe, claims, mails, erased>>

\* eraseNotifications: the user's rows, notifications and preferences go.
Erase ==
  /\ ~erased
  /\ erased' = TRUE
  /\ status' = [m \in Mail |-> IF m \in OwnedMail \cap Rows THEN "erased"
                               ELSE status[m]]
  /\ ripe' = ripe \ OwnedMail
  /\ UNCHANGED <<retries, send, claims, mails>>

Work(w, m) ==
  \/ CheckPreferences(w, m)
  \/ Unsubscribe(w, m)
  \/ Send(w, m)
  \/ MarkSent(w, m)
  \/ MarkFailed(w, m)

Quiet ==
  /\ \A m \in Mail : status[m] \in Settled \cup {"dropped", "erased"}
  /\ \A w \in Workers : Idle(w)
  /\ UNCHANGED vars

Next ==
  \/ \E m \in Mail : Check(m) \/ Insert(m) \/ EnqueueFails(m) \/ Ripen(m)
  \/ \E w \in Workers : Claim(w) \/ Crash(w)
  \/ \E w \in Workers, m \in Mail : Work(w, m)
  \/ Erase
  \/ Quiet

Spec == Init /\ [][Next]_vars

\* Time passes, the poll timer fires, Node runs a started send to its end.
\* Nobody has to enqueue, and nothing has to fail.
Fairness ==
  /\ \A m \in Mail : WF_vars(Ripen(m))
  /\ \A w \in Workers : WF_vars(Claim(w))
  /\ \A w \in Workers, m \in Mail : WF_vars(Work(w, m))

FairSpec == Spec /\ Fairness

-----------------------------------------------------------------------------
(* Properties. *)

\* What callers and operators see of a row in status s.
Shown(s) ==
  CASE s \in {"new", "checked", "dropped"} -> "none"
    [] s \in {"queued", "sending"} -> "open"
    [] s = "erased" -> "shredded"
    [] OTHER -> s

\* Replicas, crashes, redeliveries, lost answers and an erasure in between are
\* one postman's mailroom: one row and one mail per key, no mail for a row that
\* is settled, no row 'sent' without its mail, and no late statement that brings
\* an erased row back (queue.ts:225-322, worker.ts:53-94).
Room == INSTANCE Mailroom WITH
  Fickle <- Unsteady,
  Owned <- OwnedMail,
  slip <- [m \in Mail |-> Shown(status[m])],
  posted <- mails

ImplementsMailroom == Room!Spec

\* Crashes, refusals and stolen sends draw on one budget: no row is claimed
\* more often than max_retries allows (queue.ts:245-264 and 297-305).
AttemptBudget ==
  \A m \in Mail : claims[m] <= IF MaxRetries = 0 THEN 1 ELSE MaxRetries

\* Where sends keep within the stale limit and no answer of the database is
\* lost, a settled row stays as it is: several replicas, crashes, refusals and
\* failing statements never reopen it (worker.ts:42-45, queue.ts:225-322).
SettledForGood ==
  [][\A m \in Mail \ Unsteady :
       status[m] \in Settled => status'[m] \in {status[m], "erased"}]_vars

\* The queue drains: every row settles or is erased for good, whatever dies
\* on the way and however often a settled row is reopened
\* (queue.ts:195-201, worker.ts:127-152).
QueueDrains == <>[](\A m \in Mail : status[m] \notin {"queued", "sending"})
=============================================================================
