---------------------------- MODULE EventOutbox ----------------------------
(***************************************************************************)
(* The transactional outbox of packages/events: withTransaction            *)
(* (publish.ts), the inline flush and the background relay (outbox.ts),    *)
(* the outbox table (outbox-schema.ts), and the JetStream stream they      *)
(* publish to, which drops a publish whose Nats-Msg-Id it still remembers  *)
(* (stream.ts).                                                            *)
(*                                                                         *)
(* A service runs as several replicas over one Postgres schema.  Each      *)
(* replica runs any number of withTransaction calls and one relay.  Every  *)
(* network or database operation is a step of its own, so that a crash, a  *)
(* failure or another replica can come between any two of them.            *)
(***************************************************************************)
EXTENDS Naturals, Sequences, FiniteSets

CONSTANTS Replicas,   \* processes of one service sharing the outbox table
          Txns,       \* withTransaction calls
          Records,    \* outbox records (one per staged DomainEvent)
          Home,       \* [Txns -> Replicas]: the process that runs the call
          Staged,     \* [Txns -> Seq(Records)]: what fn stages, in order
          EventId,    \* [Records -> Nats-Msg-Id or NoId] (DomainEvent.id)
          NoId,       \* the id of an event that opts out of de-dup
          BatchSize,  \* rows a relay claims at once (100 in the code)
          MaxFaults   \* bound on crashes and failed calls

RecordsOf(t) == {Staged[t][i] : i \in DOMAIN Staged[t]}

ASSUME OutboxAssumption ==
  /\ Home \in [Txns -> Replicas]
  /\ Staged \in [Txns -> Seq(Records)]
  /\ \A t, u \in Txns : t # u => RecordsOf(t) \cap RecordsOf(u) = {}
  /\ \A t \in Txns : \A i, j \in DOMAIN Staged[t] :
       i # j => Staged[t][i] # Staged[t][j]
  /\ BatchSize \in Nat \ {0}
  /\ MaxFaults \in Nat

VARIABLES txn,        \* where each withTransaction call is
          flushed,    \* how many of its records the inline flush cleared
          committed,  \* transactions the database committed
          nextSeq,    \* the bigserial of event_outbox.seq
          rowSeq,     \* seq of each inserted row
          outbox,     \* committed rows of event_outbox
          relay,      \* where each replica's relay is
          batch,      \* rows its open transaction locked
          gone,       \* rows of the batch that transaction deleted
          stream,     \* what JetStream stored, in order
          window,     \* Nats-Msg-Ids inside the duplicate window
          faults      \* crashes and failures so far

txnVars    == <<txn, flushed, committed>>
tableVars  == <<nextSeq, rowSeq, outbox>>
relayVars  == <<relay, batch, gone>>
brokerVars == <<stream, window>>
vars == <<txnVars, tableVars, relayVars, brokerVars, faults>>

Ids == {EventId[x] : x \in Records}

TypeOK ==
  /\ txn \in [Txns -> {"open", "staged", "flushing", "published", "done", "failed"}]
  /\ flushed \in [Txns -> Nat]
  /\ committed \subseteq Txns
  /\ nextSeq \in Nat
  /\ rowSeq \in [Records -> Nat]
  /\ outbox \subseteq Records
  /\ relay \in [Replicas -> {"idle", "publishing", "deleting", "ending"}]
  /\ batch \in [Replicas -> SUBSET Records]
  /\ gone \in [Replicas -> SUBSET Records]
  /\ stream \in Seq(Records)
  /\ window \subseteq Ids \ {NoId}
  /\ faults \in 0..MaxFaults

Init ==
  /\ txn = [t \in Txns |-> "open"]
  /\ flushed = [t \in Txns |-> 0]
  /\ committed = {}
  /\ nextSeq = 0
  /\ rowSeq = [x \in Records |-> 0]
  /\ outbox = {}
  /\ relay = [r \in Replicas |-> "idle"]
  /\ batch = [r \in Replicas |-> {}]
  /\ gone = [r \in Replicas |-> {}]
  /\ stream = <<>>
  /\ window = {}
  /\ faults = 0

-----------------------------------------------------------------------------
(* Shared vocabulary. *)

Stored == {stream[i] : i \in DOMAIN stream}

\* Rows some relay holds FOR UPDATE until its COMMIT or ROLLBACK.
Locked == UNION {batch[r] : r \in Replicas}

\* Mutant: msgID is set also when the event has no id.
BrokerStoresMsgIdAlways(x) ==
  IF EventId[x] \in window
  THEN UNCHANGED brokerVars
  ELSE /\ stream' = Append(stream, x)
       /\ window' = window \cup {EventId[x]}

\* js.publish(subject, envelope, {msgID}): the broker stores the event unless
\* it carries an id the duplicate window still holds.
BrokerStores(x) ==
  IF EventId[x] \in window
  THEN UNCHANGED brokerVars
  ELSE /\ stream' = Append(stream, x)
       /\ window' = window \cup ({EventId[x]} \ {NoId})

\* A publish that throws: the broker refused it, or stored it and the ack
\* never arrived.
PublishThrows(x) == BrokerStores(x) \/ UNCHANGED brokerVars

Fault == faults < MaxFaults /\ faults' = faults + 1

-----------------------------------------------------------------------------
(* withTransaction (publish.ts:79-123). *)

\* fn has run; its staged events become rows of the same transaction.  The
\* sequence is advanced now, the rows stay invisible until COMMIT.
InsertOutboxRecords(t) ==
  /\ txn[t] = "open"
  /\ txn' = [txn EXCEPT ![t] = "staged"]
  /\ rowSeq' = [x \in Records |->
                  IF x \in RecordsOf(t)
                  THEN nextSeq + (CHOOSE i \in DOMAIN Staged[t] : Staged[t][i] = x)
                  ELSE rowSeq[x]]
  /\ nextSeq' = nextSeq + Len(Staged[t])
  /\ UNCHANGED <<flushed, committed, outbox, relayVars, brokerVars, faults>>

Durable(t) ==
  /\ txn[t] = "staged"
  /\ committed' = committed \cup {t}
  /\ outbox' = outbox \cup RecordsOf(t)
  /\ UNCHANGED <<flushed, nextSeq, rowSeq, relayVars, brokerVars>>

Commit(t) ==
  /\ Durable(t)
  /\ txn' = [txn EXCEPT ![t] = IF Staged[t] = <<>> THEN "done" ELSE "flushing"]
  /\ UNCHANGED faults

\* COMMIT took effect but its answer was lost: `committed` stays false, the
\* caller sees the error, and nothing is flushed inline.
CommitUnacknowledged(t) ==
  /\ Fault
  /\ Durable(t)
  /\ txn' = [txn EXCEPT ![t] = "failed"]

\* fn, the outbox INSERT or the COMMIT throws: ROLLBACK.
Rollback(t) ==
  /\ txn[t] \in {"open", "staged"}
  /\ txn' = [txn EXCEPT ![t] = "failed"]
  /\ UNCHANGED <<flushed, committed, tableVars, relayVars, brokerVars, faults>>

-----------------------------------------------------------------------------
(* flushInline (outbox.ts:134-161), on the client of the committed          *)
(* transaction: it holds no row lock.                                       *)

Current(t) == Staged[t][flushed[t] + 1]

\* Mutant: the events are published before COMMIT.
FlushPublishBeforeCommit(t) ==
  /\ txn[t] \in {"staged", "flushing"}
  /\ BrokerStores(Current(t))
  /\ txn' = [txn EXCEPT ![t] = IF @ = "staged" THEN "staged" ELSE "published"]
  /\ UNCHANGED <<flushed, committed, tableVars, relayVars, faults>>

FlushPublish(t) ==
  /\ txn[t] = "flushing"
  /\ BrokerStores(Current(t))
  /\ txn' = [txn EXCEPT ![t] = "published"]
  /\ UNCHANGED <<flushed, committed, tableVars, relayVars, faults>>

\* Mutant: publishRecord swallows the broker's error, so the row is deleted.
FlushPublishErrorIgnored(t) ==
  /\ Fault
  /\ txn[t] = "flushing"
  /\ PublishThrows(Current(t))
  /\ txn' = [txn EXCEPT ![t] = "published"]
  /\ UNCHANGED <<flushed, committed, tableVars, relayVars>>

\* Mutant: `continue` for `return` in the catch block.
FlushPublishFailsContinue(t) ==
  /\ Fault
  /\ txn[t] = "flushing"
  /\ PublishThrows(Current(t))
  /\ flushed' = [flushed EXCEPT ![t] = @ + 1]
  /\ txn' = [txn EXCEPT ![t] =
               IF flushed[t] + 1 = Len(Staged[t]) THEN "done" ELSE "flushing"]
  /\ UNCHANGED <<committed, tableVars, relayVars>>

FlushPublishFails(t) ==
  /\ Fault
  /\ txn[t] = "flushing"
  /\ PublishThrows(Current(t))
  /\ txn' = [txn EXCEPT ![t] = "done"]
  /\ UNCHANGED <<flushed, committed, tableVars, relayVars>>

\* The DELETE waits for a relay that holds the row; a row that is already
\* gone is deleted zero times, which is no error.
FlushDelete(t) ==
  /\ txn[t] = "published"
  /\ Current(t) \notin Locked
  /\ outbox' = outbox \ {Current(t)}
  /\ flushed' = [flushed EXCEPT ![t] = @ + 1]
  /\ txn' = [txn EXCEPT ![t] =
               IF flushed[t] + 1 = Len(Staged[t]) THEN "done" ELSE "flushing"]
  /\ UNCHANGED <<committed, nextSeq, rowSeq, relayVars, brokerVars, faults>>

FlushDeleteFails(t) ==
  /\ Fault
  /\ txn[t] = "published"
  /\ txn' = [txn EXCEPT ![t] = "done"]
  /\ UNCHANGED <<flushed, committed, tableVars, relayVars, brokerVars>>

-----------------------------------------------------------------------------
(* relayOutboxOnce (outbox.ts:196-251), driven by startOutboxRelay: one     *)
(* sweep at a time per replica.                                             *)

\* Mutant: SELECT without FOR UPDATE SKIP LOCKED.
FreeOrLocked == outbox

Free == outbox \ Locked

\* SELECT ... ORDER BY seq LIMIT BatchSize FOR UPDATE SKIP LOCKED.
RelayClaim(r) ==
  /\ relay[r] = "idle"
  /\ \E rows \in SUBSET Free :
       /\ rows # {}
       /\ Cardinality(rows) <= BatchSize
       /\ rows # Free => Cardinality(rows) = BatchSize
       /\ \A x \in rows, y \in Free \ rows : rowSeq[x] < rowSeq[y]
       /\ batch' = [batch EXCEPT ![r] = rows]
  /\ relay' = [relay EXCEPT ![r] = "publishing"]
  /\ UNCHANGED <<txnVars, tableVars, gone, brokerVars, faults>>

\* The loop takes the claimed rows in seq order.
IsNext(r, x) ==
  /\ x \in batch[r] \ gone[r]
  /\ \A y \in batch[r] \ gone[r] : rowSeq[x] <= rowSeq[y]

RelayPublish(r) ==
  /\ relay[r] = "publishing"
  /\ \E x \in Records : IsNext(r, x) /\ BrokerStores(x)
  /\ relay' = [relay EXCEPT ![r] = "deleting"]
  /\ UNCHANGED <<txnVars, tableVars, batch, gone, faults>>

\* Mutant: the DELETE runs in a `finally`, after a failed publish too.
RelayPublishFailsDeletes(r) ==
  /\ Fault
  /\ relay[r] = "publishing"
  /\ \E x \in Records : IsNext(r, x) /\ PublishThrows(x)
  /\ relay' = [relay EXCEPT ![r] = "deleting"]
  /\ UNCHANGED <<txnVars, tableVars, batch, gone>>

\* The UPDATE of attempts / last_error and the `break`: what was deleted so
\* far is committed next.
RelayPublishFails(r) ==
  /\ Fault
  /\ relay[r] = "publishing"
  /\ \E x \in Records : IsNext(r, x) /\ PublishThrows(x)
  /\ relay' = [relay EXCEPT ![r] = "ending"]
  /\ UNCHANGED <<txnVars, tableVars, batch, gone>>

RelayDelete(r) ==
  /\ relay[r] = "deleting"
  /\ \E x \in Records : IsNext(r, x) /\ gone' = [gone EXCEPT ![r] = @ \cup {x}]
  /\ relay' = [relay EXCEPT ![r] = "publishing"]
  /\ UNCHANGED <<txnVars, tableVars, batch, brokerVars, faults>>

Release(r) ==
  /\ relay' = [relay EXCEPT ![r] = "idle"]
  /\ batch' = [batch EXCEPT ![r] = {}]
  /\ gone' = [gone EXCEPT ![r] = {}]

RelayCommit(r) ==
  /\ \/ relay[r] = "ending"
     \/ relay[r] = "publishing" /\ gone[r] = batch[r]
  /\ outbox' = outbox \ gone[r]
  /\ Release(r)
  /\ UNCHANGED <<txnVars, nextSeq, rowSeq, brokerVars, faults>>

\* Mutant: the client is neither rolled back nor released after an error, so
\* its row locks stay.
RelayDatabaseFailsKeepsLocks(r) ==
  /\ Fault
  /\ relay[r] # "idle"
  /\ relay' = [relay EXCEPT ![r] = "idle"]
  /\ UNCHANGED <<txnVars, tableVars, batch, gone, brokerVars>>

\* A DELETE, UPDATE or COMMIT of the sweep throws: after a failed DELETE the
\* UPDATE in the inner catch runs in an aborted transaction and throws too,
\* so every database failure ends in ROLLBACK, which undoes the DELETEs of
\* rows the broker already has.
RelayDatabaseFails(r) ==
  /\ Fault
  /\ relay[r] # "idle"
  /\ Release(r)
  /\ UNCHANGED <<txnVars, tableVars, brokerVars>>

-----------------------------------------------------------------------------
(* The environment. *)

\* A replica dies and restarts: Postgres rolls its open transactions back and
\* its relay starts idle.
Crash(r) ==
  /\ Fault
  /\ txn' = [t \in Txns |->
               IF Home[t] # r THEN txn[t]
               ELSE CASE txn[t] \in {"open", "staged"} -> "failed"
                      [] txn[t] \in {"flushing", "published"} -> "done"
                      [] OTHER -> txn[t]]
  /\ Release(r)
  /\ UNCHANGED <<flushed, committed, tableVars, brokerVars>>

\* Two minutes after it was first stored, an id leaves the duplicate window.
WindowExpires ==
  /\ \E i \in window : window' = window \ {i}
  /\ UNCHANGED <<txnVars, tableVars, relayVars, stream, faults>>

TxnStep(t) ==
  \/ InsertOutboxRecords(t)
  \/ Commit(t)
  \/ CommitUnacknowledged(t)
  \/ Rollback(t)
  \/ FlushPublish(t)
  \/ FlushPublishFails(t)
  \/ FlushDelete(t)
  \/ FlushDeleteFails(t)

\* What the relay does when nothing goes wrong.
RelayWork(r) ==
  \/ RelayClaim(r)
  \/ RelayPublish(r)
  \/ RelayDelete(r)
  \/ RelayCommit(r)

RelayStep(r) ==
  \/ RelayWork(r)
  \/ RelayPublishFails(r)
  \/ RelayDatabaseFails(r)

Next ==
  \/ \E t \in Txns : TxnStep(t)
  \/ \E r \in Replicas : RelayStep(r) \/ Crash(r)
  \/ WindowExpires

Spec == Init /\ [][Next]_vars

\* startOutboxRelay sweeps every second on every replica, so a relay that can
\* do something eventually does.  Nothing is assumed of the inline flush.
Fairness == \A r \in Replicas : WF_vars(RelayWork(r))

FairSpec == Spec /\ Fairness

-----------------------------------------------------------------------------
(* Correctness. *)

\* The events the committed transactions staged.
Owed == UNION {RecordsOf(t) : t \in committed}

\* "No committed event is ever lost" (publish.ts:77-78): whatever crashed or
\* failed, an event of a committed transaction is still a row of the outbox or
\* has reached the stream.
NoLostEvent == Owed \subseteq outbox \cup Stored

\* "No phantom events on rollback" (publish.ts:77): the stream holds only
\* events whose transaction the database committed, also when the caller was
\* told that the COMMIT failed.
NoPhantomEvent == Stored \subseteq Owed

\* The claim lock held through publish and delete (outbox.ts:179-184): no two
\* relays work on the same row, and no claimed row disappears under the relay
\* that is about to publish it (the inline DELETE waits for it).
ClaimsExclusive ==
  /\ \A r \in Replicas : batch[r] \subseteq outbox
  /\ \A r, s \in Replicas : r # s => batch[r] \cap batch[s] = {}

\* Two relays hold rows of one transaction: the limit of one claim cut between
\* them, and the other claim skipped what was locked.
SplitClaim ==
  \E t \in Txns : \E r, s \in Replicas :
    r # s /\ batch[r] \cap RecordsOf(t) # {} /\ batch[s] \cap RecordsOf(t) # {}

\* "seq ... preserves intra-transaction publish order" (outbox-schema.ts:32-35,
\* outbox.ts:124-127, 191-193): before the first copy of an event comes a copy
\* of each event its transaction staged before it.
StageOrder ==
  \A t \in Txns : \A i, j \in DOMAIN Staged[t] : \A q \in DOMAIN stream :
    i < j /\ stream[q] = Staged[t][j]
      => \E p \in 1..(q - 1) : stream[p] = Staged[t][i]

\* Whichever mix of inline flush, relays, failures and crashes published them,
\* the events of a transaction keep their order as long as no two relays ever
\* split its rows between them.
OrderUnlessSplit == []~SplitClaim => []StageOrder

\* The outbox as its callers see it.
Delivery == INSTANCE EventDelivery
              WITH Events <- Records, owed <- Owed, delivered <- Stored

\* The promise of publish.ts:62-65 and :77-78 as a whole.  Safety: every step
\* commits one batch of events, delivers one owed event, or changes nothing a
\* caller can see.  Liveness: every event of a committed transaction reaches
\* the stream, although the inline flush may stop anywhere.
ImplementsDelivery == Delivery!FairSpec

\* The outbox is a self-cleaning queue (outbox.ts:191): whichever flushes and
\* sweeps failed, it is empty again and again, so no committed row stays in it
\* to be published over and over.
OutboxDrains == []<>(outbox = {})
=============================================================================
