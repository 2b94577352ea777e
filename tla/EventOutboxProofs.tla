------------------------- MODULE EventOutboxProofs -------------------------
(***************************************************************************)
(* Proofs about EventOutbox for every set of replicas, transactions and    *)
(* records, every batch size and any number of faults.                     *)
(*                                                                         *)
(* Four layers, each an invariant proved on top of the one before:         *)
(*   Bookkeeping  types, the sequence, the phases of withTransaction;      *)
(*   RowsInv      what the table and the claims hold;                      *)
(*   DeliveryInv  every copy that is deleted was stored before;            *)
(*   OrderInv     what was staged before a published event is stored, as   *)
(*                long as no claim splits a transaction.                   *)
(***************************************************************************)
EXTENDS EventOutbox, TLAPS, SequenceTheorems

(* --------------------------- Broker lemmas ----------------------------- *)

\* What a transaction stages are records, at the positions 1..Len.
LEMMA RecordsOfType ==
  \A t \in Txns : /\ RecordsOf(t) \subseteq Records
                  /\ \A i \in DOMAIN Staged[t] : Staged[t][i] \in RecordsOf(t)
                  /\ DOMAIN Staged[t] = 1..Len(Staged[t])
                  /\ Len(Staged[t]) \in Nat
  BY OutboxAssumption DEF RecordsOf

\* Two transactions stage different records.
LEMMA RecordsDisjoint ==
  \A t, u \in Txns : t # u => RecordsOf(t) \cap RecordsOf(u) = {}
  BY OutboxAssumption

\* Appending one event to the stream stores exactly that event.
LEMMA StoredAppend ==
  ASSUME NEW s \in Seq(Records), NEW x \in Records
  PROVE  /\ Append(s, x) \in Seq(Records)
         /\ {Append(s, x)[i] : i \in DOMAIN Append(s, x)} = {s[i] : i \in DOMAIN s} \cup {x}
<1>1. /\ DOMAIN Append(s, x) = 1..(Len(s) + 1)
      /\ DOMAIN s = 1..Len(s)
      /\ \A i \in 1..Len(s) : Append(s, x)[i] = s[i]
      /\ Append(s, x)[Len(s) + 1] = x
      /\ Len(s) \in Nat
  OBVIOUS
<1>2. \A i \in 1..(Len(s) + 1) : i \in 1..Len(s) \/ i = Len(s) + 1
  BY <1>1
<1>3. {Append(s, x)[i] : i \in DOMAIN Append(s, x)} \subseteq {s[i] : i \in DOMAIN s} \cup {x}
  BY <1>1, <1>2
<1>4. {s[i] : i \in DOMAIN s} \subseteq {Append(s, x)[i] : i \in DOMAIN Append(s, x)}
  <2>1. \A i \in DOMAIN s : i \in DOMAIN Append(s, x) /\ Append(s, x)[i] = s[i]
    BY <1>1
  <2>2. QED
    BY <2>1
<1>5. x \in {Append(s, x)[i] : i \in DOMAIN Append(s, x)}
  <2>1. Len(s) + 1 \in DOMAIN Append(s, x)
    BY <1>1
  <2>2. QED
    BY <1>1, <2>1
<1>6. Append(s, x) \in Seq(Records)
  OBVIOUS
<1>7. QED
  BY <1>3, <1>4, <1>5, <1>6

\* A publish never removes an event from the stream and adds at most the one
\* it was asked to store.
LEMMA PublishEffect ==
  ASSUME stream \in Seq(Records), window \subseteq Ids \ {NoId}, NEW x \in Records,
         BrokerStores(x) \/ PublishThrows(x)
  PROVE  /\ stream' \in Seq(Records)
         /\ window' \subseteq Ids \ {NoId}
         /\ Stored \subseteq Stored'
         /\ Stored' \subseteq Stored \cup {x}
<1>1. CASE UNCHANGED brokerVars
  BY <1>1 DEF brokerVars, Stored
<1>2. CASE BrokerStores(x) /\ EventId[x] \notin window
  <2>1. stream' = Append(stream, x) /\ window' = window \cup ({EventId[x]} \ {NoId})
    BY <1>2 DEF BrokerStores
  <2>2. stream' \in Seq(Records) /\ Stored' = Stored \cup {x}
    <3>1. Stored' = {Append(stream, x)[i] : i \in DOMAIN Append(stream, x)}
      BY <2>1 DEF Stored
    <3>2. Stored = {stream[i] : i \in DOMAIN stream}
      BY DEF Stored
    <3>3. QED
      BY <2>1, <3>1, <3>2, StoredAppend
  <2>3. QED
    BY <2>1, <2>2 DEF Ids
<1>3. QED
  BY <1>1, <1>2 DEF BrokerStores, PublishThrows

(* ----------------------------- Bookkeeping ----------------------------- *)

\* The phases of withTransaction agree with the database and the flush loop
\* is inside its bounds.
PhaseInv ==
  \A t \in Txns :
    /\ txn[t] \in {"open", "staged"} => t \notin committed
    /\ txn[t] \in {"flushing", "published"} => t \in committed /\ flushed[t] < Len(Staged[t])
    /\ txn[t] \in {"open", "staged"} => flushed[t] = 0

\* event_outbox.seq numbers the inserted rows without repetition.
SeqInv ==
  /\ \A x \in Records : rowSeq[x] <= nextSeq
  /\ \A x, y \in Records : rowSeq[x] # 0 /\ rowSeq[x] = rowSeq[y] => x = y
  /\ \A t \in Txns : txn[t] = "staged" \/ t \in committed
       => \A x \in RecordsOf(t) : rowSeq[x] # 0

Bookkeeping == TypeOK /\ PhaseInv /\ SeqInv

\* A step that uses up a fault stays within the bound.
LEMMA FaultCounted == ASSUME TypeOK, Fault PROVE faults' \in 0..MaxFaults
  BY OutboxAssumption DEF TypeOK, Fault

\* While withTransaction flushes inline, the record it is at is one it staged.
LEMMA CurrentType ==
  ASSUME Bookkeeping, NEW t \in Txns, txn[t] \in {"flushing", "published"}
  PROVE  /\ Current(t) \in RecordsOf(t)
         /\ Current(t) \in Records
         /\ t \in committed
<1>1. flushed[t] + 1 \in DOMAIN Staged[t]
  BY RecordsOfType DEF Bookkeeping, PhaseInv, TypeOK
<1>2. QED
  BY <1>1, RecordsOfType DEF Current, Bookkeeping, PhaseInv

\* The initial state has its types, phases and sequence in order.
LEMMA BookkeepingInit == Init => Bookkeeping
  BY OutboxAssumption, RecordsOfType DEF Init, Bookkeeping, TypeOK, PhaseInv, SeqInv

\* Every step keeps types, phases and sequence in order.
LEMMA BookkeepingStep == Bookkeeping /\ [Next]_vars => Bookkeeping'
<1> SUFFICES ASSUME Bookkeeping, [Next]_vars PROVE Bookkeeping'
  OBVIOUS
<1> USE DEF Bookkeeping
<1>1. ASSUME NEW t \in Txns, InsertOutboxRecords(t) PROVE Bookkeeping'
  <2> DEFINE pos(x) == CHOOSE i \in DOMAIN Staged[t] : Staged[t][i] = x
  <2>1. \A x \in RecordsOf(t) : pos(x) \in 1..Len(Staged[t]) /\ Staged[t][pos(x)] = x
    BY RecordsOfType DEF RecordsOf
  <2>2. \A x, y \in RecordsOf(t) : pos(x) = pos(y) => x = y
    BY <2>1
  <2> HIDE DEF pos
  <2>3. \A x \in Records : rowSeq'[x] = IF x \in RecordsOf(t) THEN nextSeq + pos(x)
                                        ELSE rowSeq[x]
    BY <1>1 DEF InsertOutboxRecords, pos
  <2>4. nextSeq \in Nat /\ nextSeq' = nextSeq + Len(Staged[t]) /\ Len(Staged[t]) \in Nat
    BY <1>1, RecordsOfType DEF InsertOutboxRecords, TypeOK
  <2>5. \A x \in RecordsOf(t) : rowSeq'[x] \in Nat /\ rowSeq'[x] > nextSeq /\ rowSeq'[x] <= nextSeq'
    BY <2>1, <2>3, <2>4, RecordsOfType
  <2>6. \A x \in Records \ RecordsOf(t) :
           rowSeq'[x] = rowSeq[x] /\ rowSeq[x] \in Nat /\ rowSeq[x] <= nextSeq
    BY <2>3 DEF TypeOK, SeqInv
  <2>7. TypeOK'
    <3>1. rowSeq' \in [Records -> Nat]
      BY <1>1, <2>5, <2>6 DEF InsertOutboxRecords
    <3>2. QED
      BY <1>1, <2>4, <3>1 DEF TypeOK, InsertOutboxRecords, relayVars, brokerVars
  <2>8. PhaseInv'
    BY <1>1 DEF TypeOK, PhaseInv, InsertOutboxRecords
  <2>9. SeqInv'
    <3>1. \A x \in Records : rowSeq'[x] <= nextSeq'
      BY <2>4, <2>5, <2>6
    <3>2. ASSUME NEW x \in Records, NEW y \in Records, rowSeq'[x] # 0, rowSeq'[x] = rowSeq'[y]
          PROVE  x = y
      <4>1. CASE x \in RecordsOf(t) /\ y \in RecordsOf(t)
        <5>1. pos(x) = pos(y)
          BY <4>1, <2>1, <2>3, <2>4, <3>2
        <5>2. QED
          BY <4>1, <5>1, <2>2
      <4>2. CASE x \in RecordsOf(t) /\ y \notin RecordsOf(t)
        BY <4>2, <3>2, <2>4, <2>5, <2>6
      <4>3. CASE x \notin RecordsOf(t) /\ y \in RecordsOf(t)
        BY <4>3, <3>2, <2>4, <2>5, <2>6
      <4>4. CASE x \notin RecordsOf(t) /\ y \notin RecordsOf(t)
        BY <4>4, <3>2, <2>6 DEF SeqInv
      <4>5. QED
        BY <4>1, <4>2, <4>3, <4>4
    <3>3. ASSUME NEW u \in Txns, txn'[u] = "staged" \/ u \in committed', NEW x \in RecordsOf(u)
          PROVE  rowSeq'[x] # 0
      <4>1. CASE u = t
        BY <4>1, <2>4, <2>5, <3>3
      <4>2. CASE u # t
        <5>1. x \in Records \ RecordsOf(t)
          BY <4>2, <3>3, RecordsOfType, RecordsDisjoint
        <5>2. txn[u] = "staged" \/ u \in committed
          BY <1>1, <4>2, <3>3 DEF InsertOutboxRecords, TypeOK
        <5>3. QED
          BY <5>1, <5>2, <2>6, <3>3 DEF SeqInv
      <4>3. QED
        BY <4>1, <4>2
    <3>4. QED
      BY <3>1, <3>2, <3>3 DEF SeqInv
  <2>10. QED
    BY <2>7, <2>8, <2>9
<1>2. ASSUME NEW t \in Txns, Commit(t) \/ CommitUnacknowledged(t) PROVE Bookkeeping'
  <2>1. TypeOK'
    <3>1. /\ committed' = committed \cup {t}
          /\ outbox' = outbox \cup RecordsOf(t)
          /\ UNCHANGED <<flushed, nextSeq, rowSeq, relay, batch, gone, stream, window>>
      BY <1>2 DEF Commit, CommitUnacknowledged, Durable, relayVars, brokerVars
    <3>2. faults' \in 0..MaxFaults
      BY <1>2, FaultCounted DEF TypeOK, Commit, CommitUnacknowledged
    <3>3. txn' \in [Txns -> {"open", "staged", "flushing", "published", "done", "failed"}]
      BY <1>2 DEF TypeOK, Commit, CommitUnacknowledged
    <3>4. Ids' = Ids
      BY DEF Ids
    <3>5. QED
      BY <3>1, <3>2, <3>3, <3>4, RecordsOfType DEF TypeOK
  <2>2. PhaseInv'
    <3>1. Staged[t] # <<>> => 0 < Len(Staged[t])
      BY RecordsOfType
    <3>2. QED
      BY <1>2, <3>1 DEF TypeOK, PhaseInv, Commit, CommitUnacknowledged, Durable
  <2>3. SeqInv'
    <3>1. /\ rowSeq' = rowSeq
          /\ nextSeq' = nextSeq
          /\ txn[t] = "staged"
          /\ \A u \in Txns : txn'[u] = "staged" \/ u \in committed'
                              => txn[u] = "staged" \/ u \in committed
      BY <1>2 DEF TypeOK, Commit, CommitUnacknowledged, Durable
    <3>2. QED
      BY <3>1 DEF SeqInv
  <2>4. QED
    BY <2>1, <2>2, <2>3
<1>3. ASSUME NEW t \in Txns, Rollback(t) PROVE Bookkeeping'
  BY <1>3 DEF TypeOK, PhaseInv, SeqInv, Rollback, tableVars, relayVars, brokerVars
<1>4. ASSUME NEW t \in Txns, FlushPublish(t) PROVE Bookkeeping'
  <2>1. Current(t) \in Records
    BY <1>4, CurrentType DEF FlushPublish
  <2>2. stream' \in Seq(Records) /\ window' \subseteq Ids \ {NoId}
    BY <1>4, <2>1, PublishEffect DEF FlushPublish, TypeOK
  <2>3. QED
    BY <1>4, <2>2 DEF TypeOK, PhaseInv, SeqInv, FlushPublish, tableVars, relayVars
<1>5. ASSUME NEW t \in Txns, FlushPublishFails(t) PROVE Bookkeeping'
  <2>1. Current(t) \in Records
    BY <1>5, CurrentType DEF FlushPublishFails
  <2>2. stream' \in Seq(Records) /\ window' \subseteq Ids \ {NoId}
    BY <1>5, <2>1, PublishEffect DEF FlushPublishFails, TypeOK
  <2>3. QED
    BY <1>5, <2>2, FaultCounted DEF TypeOK, PhaseInv, SeqInv, FlushPublishFails, tableVars, relayVars
<1>6. ASSUME NEW t \in Txns, FlushDelete(t) PROVE Bookkeeping'
  BY <1>6, RecordsOfType
  DEF TypeOK, PhaseInv, SeqInv, FlushDelete, relayVars, brokerVars
<1>7. ASSUME NEW t \in Txns, FlushDeleteFails(t) PROVE Bookkeeping'
  BY <1>7, FaultCounted DEF TypeOK, PhaseInv, SeqInv, FlushDeleteFails, tableVars, relayVars, brokerVars
<1>8. ASSUME NEW r \in Replicas, RelayClaim(r) PROVE Bookkeeping'
  <2>1. batch' \in [Replicas -> SUBSET Records]
    BY <1>8 DEF RelayClaim, Free, TypeOK
  <2>2. QED
    BY <1>8, <2>1 DEF TypeOK, PhaseInv, SeqInv, RelayClaim, txnVars, tableVars, brokerVars
<1>9. ASSUME NEW r \in Replicas, RelayPublish(r) \/ RelayPublishFails(r) PROVE Bookkeeping'
  <2>1. stream' \in Seq(Records) /\ window' \subseteq Ids \ {NoId}
    BY <1>9, PublishEffect DEF RelayPublish, RelayPublishFails, TypeOK
  <2>2. relay' \in [Replicas -> {"idle", "publishing", "deleting", "ending"}]
    BY <1>9 DEF RelayPublish, RelayPublishFails, TypeOK
  <2>3. faults' \in 0..MaxFaults
    BY <1>9, FaultCounted DEF RelayPublish, RelayPublishFails, TypeOK
  <2>4. UNCHANGED <<txn, flushed, committed, nextSeq, rowSeq, outbox, batch, gone>>
    BY <1>9 DEF RelayPublish, RelayPublishFails, txnVars, tableVars
  <2>5. QED
    BY <2>1, <2>2, <2>3, <2>4 DEF TypeOK, PhaseInv, SeqInv, Ids
<1>10. ASSUME NEW r \in Replicas, RelayDelete(r) PROVE Bookkeeping'
  <2>1. gone' \in [Replicas -> SUBSET Records]
    BY <1>10 DEF RelayDelete, IsNext, TypeOK
  <2>2. QED
    BY <1>10, <2>1 DEF TypeOK, PhaseInv, SeqInv, RelayDelete, txnVars, tableVars, brokerVars
<1>11. ASSUME NEW r \in Replicas, RelayCommit(r) PROVE Bookkeeping'
  BY <1>11 DEF TypeOK, PhaseInv, SeqInv, RelayCommit, Release, txnVars, brokerVars
<1>12. ASSUME NEW r \in Replicas, RelayDatabaseFails(r) PROVE Bookkeeping'
  BY <1>12, FaultCounted
  DEF TypeOK, PhaseInv, SeqInv, RelayDatabaseFails, Release, txnVars, tableVars, brokerVars
<1>13. ASSUME NEW r \in Replicas, Crash(r) PROVE Bookkeeping'
  <2>1. TypeOK'
    BY <1>13, FaultCounted DEF TypeOK, Crash, Release, tableVars, brokerVars
  <2>2. PhaseInv' /\ SeqInv'
    BY <1>13 DEF TypeOK, PhaseInv, SeqInv, Crash, tableVars
  <2>3. QED
    BY <2>1, <2>2
<1>14. ASSUME WindowExpires PROVE Bookkeeping'
  BY <1>14 DEF TypeOK, PhaseInv, SeqInv, WindowExpires, txnVars, tableVars, relayVars
<1>15. ASSUME UNCHANGED vars PROVE Bookkeeping'
  BY <1>15
  DEF TypeOK, PhaseInv, SeqInv, vars, txnVars, tableVars, relayVars, brokerVars
<1>16. QED
  BY <1>1, <1>2, <1>3, <1>4, <1>5, <1>6, <1>7, <1>8, <1>9, <1>10, <1>11, <1>12, <1>13, <1>14,
     <1>15
  DEF Next, TxnStep, RelayStep, RelayWork

\* Every variable keeps its type: the phases of withTransaction and of the
\* relay, the table, the claims, and a duplicate window that never holds the
\* absent id.
THEOREM TypeCorrect == Spec => []TypeOK
<1>1. Spec => []Bookkeeping
  BY BookkeepingInit, BookkeepingStep, PTL DEF Spec
<1>2. Bookkeeping => TypeOK
  BY DEF Bookkeeping
<1>3. QED
  BY <1>1, <1>2, PTL

(* ------------------------------- Rows ---------------------------------- *)

\* The table and the claims hold only events of committed transactions, and
\* what a relay deleted is part of what it claimed.
RowsInv ==
  /\ outbox \subseteq Owed
  /\ NoPhantomEvent
  /\ ClaimsExclusive
  /\ \A r \in Replicas : gone[r] \subseteq batch[r]
  /\ \A r \in Replicas : relay[r] = "idle" => batch[r] = {}

\* Before its commit no record of a transaction is owed, after it all are.
LEMMA OwedFacts ==
  ASSUME Bookkeeping
  PROVE  /\ Owed \subseteq Records
         /\ \A t \in Txns : t \in committed => RecordsOf(t) \subseteq Owed
         /\ \A x \in Owed : rowSeq[x] # 0
         /\ \A t \in Txns : t \notin committed => RecordsOf(t) \cap Owed = {}
<1>1. committed \subseteq Txns
  BY DEF Bookkeeping, TypeOK
<1>2. QED
  BY <1>1, RecordsOfType, RecordsDisjoint DEF Owed, Bookkeeping, SeqInv

\* The stream only grows, by events that are owed; nothing owed is forgotten.
LEMMA StepGrows ==
  ASSUME Bookkeeping, RowsInv, [Next]_vars
  PROVE  /\ Stored \subseteq Stored'
         /\ Stored' \subseteq Stored \cup Owed
         /\ Owed \subseteq Owed'
<1>1. committed \subseteq committed'
  BY DEF Next, TxnStep, RelayStep, RelayWork, InsertOutboxRecords, Commit, CommitUnacknowledged,
         Durable, Rollback, FlushPublish, FlushPublishFails, FlushDelete, FlushDeleteFails,
         RelayClaim, RelayPublish, RelayPublishFails, RelayDelete, RelayCommit,
         RelayDatabaseFails, Crash, WindowExpires, vars, txnVars
<1>2. Owed \subseteq Owed'
  BY <1>1 DEF Owed
<1>3. stream \in Seq(Records) /\ window \subseteq Ids \ {NoId}
  BY DEF Bookkeeping, TypeOK
<1>4. ASSUME NEW t \in Txns, FlushPublish(t) \/ FlushPublishFails(t)
      PROVE  Stored \subseteq Stored' /\ Stored' \subseteq Stored \cup Owed
  <2>1. Current(t) \in Records /\ Current(t) \in Owed
    BY <1>4, CurrentType, OwedFacts DEF FlushPublish, FlushPublishFails
  <2>2. QED
    BY <1>3, <1>4, <2>1, PublishEffect DEF FlushPublish, FlushPublishFails
<1>5. ASSUME NEW r \in Replicas, RelayPublish(r) \/ RelayPublishFails(r)
      PROVE  Stored \subseteq Stored' /\ Stored' \subseteq Stored \cup Owed
  <2>1. PICK x \in Records : IsNext(r, x) /\ (BrokerStores(x) \/ PublishThrows(x))
    BY <1>5 DEF RelayPublish, RelayPublishFails
  <2>2. x \in Owed
    BY <2>1 DEF IsNext, RowsInv, ClaimsExclusive
  <2>3. QED
    BY <1>3, <2>1, <2>2, PublishEffect
<1>6. CASE UNCHANGED stream
  BY <1>2, <1>6 DEF Stored
<1>7. \/ \E t \in Txns : FlushPublish(t) \/ FlushPublishFails(t)
      \/ \E r \in Replicas : RelayPublish(r) \/ RelayPublishFails(r)
      \/ UNCHANGED stream
  BY DEF Next, TxnStep, RelayStep, RelayWork, InsertOutboxRecords, Commit, CommitUnacknowledged,
         Durable, Rollback, FlushDelete, FlushDeleteFails, RelayClaim, RelayDelete, RelayCommit,
         RelayDatabaseFails, Crash, WindowExpires, vars, brokerVars
<1>8. QED
  BY <1>2, <1>4, <1>5, <1>6, <1>7

\* What the steps that end or shrink a claim have in common.
LEMMA ReleaseEffect ==
  ASSUME TypeOK, NEW r \in Replicas, Release(r)
  PROVE  /\ relay'[r] = "idle" /\ batch'[r] = {} /\ gone'[r] = {}
         /\ \A s \in Replicas \ {r} :
              relay'[s] = relay[s] /\ batch'[s] = batch[s] /\ gone'[s] = gone[s]
  BY DEF Release, TypeOK

\* The initial table is empty and unclaimed.
LEMMA RowsInit == Init => RowsInv
  BY DEF Init, RowsInv, Owed, NoPhantomEvent, ClaimsExclusive, Stored

\* Every step keeps the rows owed and the claims disjoint.
LEMMA RowsStep == Bookkeeping /\ RowsInv /\ [Next]_vars => RowsInv'
<1> SUFFICES ASSUME Bookkeeping, RowsInv, [Next]_vars PROVE RowsInv'
  OBVIOUS
<1>1. NoPhantomEvent' /\ Owed \subseteq Owed'
  BY StepGrows DEF NoPhantomEvent, RowsInv
<1>2. TypeOK
  BY DEF Bookkeeping
<1>3. ASSUME UNCHANGED relayVars, outbox \subseteq outbox', outbox' \subseteq Owed'
      PROVE  RowsInv'
  BY <1>1, <1>3 DEF RowsInv, ClaimsExclusive, relayVars
<1>4. ASSUME NEW t \in Txns, TxnStep(t), UNCHANGED outbox PROVE RowsInv'
  <2>1. UNCHANGED relayVars
    BY <1>4 DEF TxnStep, InsertOutboxRecords, Commit, CommitUnacknowledged, Durable, Rollback,
                FlushPublish, FlushPublishFails, FlushDelete, FlushDeleteFails
  <2>2. QED
    BY <1>1, <1>3, <1>4, <2>1 DEF RowsInv
<1>5. ASSUME NEW t \in Txns, Commit(t) \/ CommitUnacknowledged(t) PROVE RowsInv'
  <2>1. outbox' = outbox \cup RecordsOf(t) /\ t \in committed' /\ UNCHANGED relayVars
    BY <1>5 DEF Commit, CommitUnacknowledged, Durable
  <2>2. RecordsOf(t) \subseteq Owed'
    BY <2>1 DEF Owed
  <2>3. QED
    BY <1>1, <1>3, <2>1, <2>2 DEF RowsInv
<1>6. ASSUME NEW t \in Txns, FlushDelete(t) PROVE RowsInv'
  <2>1. outbox' = outbox \ {Current(t)} /\ Current(t) \notin Locked /\ UNCHANGED relayVars
    BY <1>6 DEF FlushDelete
  <2>2. \A r \in Replicas : batch[r] \subseteq outbox'
    BY <2>1 DEF Locked, RowsInv, ClaimsExclusive
  <2>3. QED
    BY <1>1, <2>1, <2>2 DEF RowsInv, ClaimsExclusive, relayVars
<1>7. ASSUME NEW r \in Replicas, RelayClaim(r) PROVE RowsInv'
  <2>1. PICK rows \in SUBSET Free : batch' = [batch EXCEPT ![r] = rows]
    BY <1>7 DEF RelayClaim
  <2>2. /\ batch'[r] = rows
        /\ \A s \in Replicas \ {r} : batch'[s] = batch[s]
        /\ relay' = [relay EXCEPT ![r] = "publishing"]
        /\ relay[r] = "idle"
        /\ UNCHANGED <<outbox, gone>>
    BY <1>2, <1>7, <2>1 DEF TypeOK, RelayClaim, tableVars
  <2>3. \A s \in Replicas : batch'[s] \subseteq outbox'
    BY <2>1, <2>2 DEF Free, RowsInv, ClaimsExclusive
  <2>4. \A s \in Replicas : rows \cap batch[s] = {}
    BY <2>1 DEF Free, Locked
  <2>5. \A s, u \in Replicas : s # u => batch'[s] \cap batch'[u] = {}
    BY <2>2, <2>4 DEF RowsInv, ClaimsExclusive
  <2>6. \A s \in Replicas : gone'[s] \subseteq batch'[s]
    <3>1. gone[r] = {}
      BY <2>2 DEF RowsInv
    <3>2. QED
      BY <2>2, <3>1 DEF RowsInv
  <2>7. \A s \in Replicas : relay'[s] = "idle" => batch'[s] = {}
    BY <1>2, <2>2 DEF TypeOK, RowsInv
  <2>8. outbox' \subseteq Owed'
    BY <1>1, <2>2 DEF RowsInv
  <2>9. QED
    BY <1>1, <2>3, <2>5, <2>6, <2>7, <2>8 DEF RowsInv, ClaimsExclusive
<1>8. ASSUME NEW r \in Replicas, RelayPublish(r) \/ RelayPublishFails(r) PROVE RowsInv'
  <2>1. /\ UNCHANGED <<outbox, batch, gone>>
        /\ \A s \in Replicas : relay'[s] = "idle" => relay[s] = "idle"
    BY <1>2, <1>8 DEF TypeOK, RelayPublish, RelayPublishFails, tableVars
  <2>2. QED
    BY <1>1, <2>1 DEF RowsInv, ClaimsExclusive
<1>9. ASSUME NEW r \in Replicas, RelayDelete(r) PROVE RowsInv'
  <2>1. PICK x \in Records : IsNext(r, x) /\ gone' = [gone EXCEPT ![r] = @ \cup {x}]
    BY <1>9 DEF RelayDelete
  <2>2. /\ UNCHANGED <<outbox, batch>>
        /\ \A s \in Replicas : relay'[s] = "idle" => relay[s] = "idle"
    BY <1>2, <1>9 DEF TypeOK, RelayDelete, tableVars
  <2>3. \A s \in Replicas : gone'[s] \subseteq batch'[s]
    BY <1>2, <2>1, <2>2 DEF TypeOK, IsNext, RowsInv
  <2>4. QED
    BY <1>1, <2>2, <2>3 DEF RowsInv, ClaimsExclusive
<1>10. ASSUME NEW r \in Replicas, RelayCommit(r) PROVE RowsInv'
  <2>1. Release(r) /\ outbox' = outbox \ gone[r]
    BY <1>10 DEF RelayCommit
  <2>2. \A s \in Replicas : batch'[s] \subseteq outbox'
    <3>1. \A s \in Replicas \ {r} : batch[s] \cap gone[r] = {}
      BY DEF RowsInv, ClaimsExclusive
    <3>2. QED
      BY <1>2, <2>1, <3>1, ReleaseEffect DEF RowsInv, ClaimsExclusive
  <2>3. QED
    BY <1>1, <1>2, <2>1, <2>2, ReleaseEffect DEF RowsInv, ClaimsExclusive
<1>11. ASSUME NEW r \in Replicas, RelayDatabaseFails(r) \/ Crash(r) PROVE RowsInv'
  <2>1. Release(r) /\ UNCHANGED outbox
    BY <1>11 DEF RelayDatabaseFails, Crash, tableVars
  <2>2. QED
    BY <1>1, <1>2, <2>1, ReleaseEffect DEF RowsInv, ClaimsExclusive
<1>12. ASSUME WindowExpires \/ UNCHANGED vars PROVE RowsInv'
  <2>1. UNCHANGED <<outbox, relayVars>>
    BY <1>12 DEF WindowExpires, vars, tableVars
  <2>2. QED
    BY <1>1, <1>3, <2>1 DEF RowsInv
<1>13. ASSUME NEW t \in Txns, TxnStep(t) PROVE RowsInv'
  <2>1. \/ Commit(t) \/ CommitUnacknowledged(t) \/ FlushDelete(t)
        \/ UNCHANGED outbox
    BY <1>13 DEF TxnStep, InsertOutboxRecords, Rollback, FlushPublish, FlushPublishFails,
                 FlushDeleteFails, tableVars
  <2>2. QED
    BY <1>4, <1>5, <1>6, <1>13, <2>1
<1>14. QED
  BY <1>7, <1>8, <1>9, <1>10, <1>11, <1>12, <1>13 DEF Next, RelayStep, RelayWork

\* The first two layers hold in every reachable state.
LEMMA RowsCorrect == Spec => [](Bookkeeping /\ RowsInv)
  BY BookkeepingInit, BookkeepingStep, RowsInit, RowsStep, PTL DEF Spec

\* No rolled-back transaction ever leaks an event into the stream.
THEOREM NoPhantom == Spec => []NoPhantomEvent
<1>1. RowsInv => NoPhantomEvent
  BY DEF RowsInv
<1>2. QED
  BY <1>1, RowsCorrect, PTL

\* The claim lock keeps relays on disjoint rows that stay in the table.
THEOREM Exclusive == Spec => []ClaimsExclusive
<1>1. RowsInv => ClaimsExclusive
  BY DEF RowsInv
<1>2. QED
  BY <1>1, RowsCorrect, PTL

(* ----------------------------- Delivery -------------------------------- *)

\* The obligation publish.ts:11-14 puts on callers: an id names one event.
IdsUnique ==
  \A x, y \in Records : EventId[x] = EventId[y] /\ EventId[x] # NoId => x = y

\* Every copy the code deletes was stored before, and the broker only drops a
\* publish of an event it already has.
DeliveryInv ==
  /\ NoLostEvent
  /\ \A r \in Replicas : gone[r] \subseteq Stored
  /\ \A t \in Txns : txn[t] = "published" => Current(t) \in Stored
  /\ \A r \in Replicas : relay[r] = "deleting" =>
       \A x \in Records : IsNext(r, x) => x \in Stored
  /\ \A x \in Records : EventId[x] \in window => x \in Stored

\* After an acknowledged publish the event is in the stream, whether it was
\* stored now or dropped as a duplicate.
LEMMA PublishStores ==
  ASSUME Bookkeeping, DeliveryInv, NEW x \in Records, BrokerStores(x)
  PROVE  x \in Stored'
<1>1. CASE EventId[x] \in window
  BY <1>1 DEF BrokerStores, DeliveryInv, Stored, brokerVars
<1>2. CASE EventId[x] \notin window
  <2>1. stream' = Append(stream, x) /\ stream \in Seq(Records)
    BY <1>2 DEF BrokerStores, Bookkeeping, TypeOK
  <2>2. Len(stream) + 1 \in DOMAIN stream' /\ stream'[Len(stream) + 1] = x
    BY <2>1
  <2>3. QED
    BY <2>2 DEF Stored
<1>3. QED
  BY <1>1, <1>2

\* Ids enter the duplicate window only together with the event they name.
LEMMA WindowHeld ==
  ASSUME IdsUnique, Bookkeeping, RowsInv, DeliveryInv, [Next]_vars
  PROVE  \A y \in Records : EventId[y] \in window' => y \in Stored'
<1>1. Stored \subseteq Stored'
  BY StepGrows
<1>2. ASSUME NEW x \in Records, BrokerStores(x)
      PROVE  \A y \in Records : EventId[y] \in window' => y \in Stored'
  <2>1. x \in Stored'
    BY <1>2, PublishStores
  <2>2. window' \subseteq window \cup ({EventId[x]} \ {NoId})
    BY <1>2 DEF BrokerStores, brokerVars
  <2>3. QED
    BY <1>1, <2>1, <2>2 DEF IdsUnique, DeliveryInv
<1>3. CASE window' \subseteq window
  BY <1>1, <1>3 DEF DeliveryInv
<1>4. ASSUME NEW t \in Txns, FlushPublish(t) \/ FlushPublishFails(t)
      PROVE  \A y \in Records : EventId[y] \in window' => y \in Stored'
  <2>1. Current(t) \in Records
    BY <1>4, CurrentType DEF FlushPublish, FlushPublishFails
  <2>2. BrokerStores(Current(t)) \/ window' = window
    BY <1>4 DEF FlushPublish, FlushPublishFails, PublishThrows, brokerVars
  <2>3. QED
    BY <1>2, <1>3, <2>1, <2>2
<1>5. ASSUME NEW r \in Replicas, RelayPublish(r) \/ RelayPublishFails(r)
      PROVE  \A y \in Records : EventId[y] \in window' => y \in Stored'
  <2>1. PICK x \in Records : BrokerStores(x) \/ window' = window
    BY <1>5 DEF RelayPublish, RelayPublishFails, PublishThrows, brokerVars
  <2>2. QED
    BY <1>2, <1>3, <2>1
<1>6. \/ \E t \in Txns : FlushPublish(t) \/ FlushPublishFails(t)
      \/ \E r \in Replicas : RelayPublish(r) \/ RelayPublishFails(r)
      \/ window' \subseteq window
  BY DEF Next, TxnStep, RelayStep, RelayWork, InsertOutboxRecords, Commit, CommitUnacknowledged,
         Durable, Rollback, FlushDelete, FlushDeleteFails, RelayClaim, RelayDelete, RelayCommit,
         RelayDatabaseFails, Crash, WindowExpires, vars, brokerVars
<1>7. QED
  BY <1>3, <1>4, <1>5, <1>6

\* The row after which a relay asks is one row: seq never repeats.
LEMMA NextUnique ==
  ASSUME Bookkeeping, RowsInv, NEW r \in Replicas,
         NEW x \in Records, NEW y \in Records, IsNext(r, x), IsNext(r, y)
  PROVE  x = y
<1>1. x \in Owed /\ y \in Owed
  BY DEF IsNext, RowsInv, ClaimsExclusive
<1>2. rowSeq[x] = rowSeq[y]
  BY DEF IsNext, Bookkeeping, TypeOK
<1>3. QED
  BY <1>1, <1>2, OwedFacts DEF Bookkeeping, SeqInv

\* Leaving the stream alone, a step that neither shrinks the table nor
\* touches the relays nor sends a transaction to "published" keeps the
\* delivery invariant.
LEMMA QuietStep ==
  ASSUME IdsUnique, Bookkeeping, RowsInv, DeliveryInv, [Next]_vars,
         UNCHANGED <<relayVars, flushed>>, outbox \subseteq outbox',
         Owed' \subseteq Owed \cup outbox',
         \A t \in Txns : txn'[t] = "published" => txn[t] = "published",
         \A r \in Replicas : \A x \in batch[r] : rowSeq'[x] = rowSeq[x]
  PROVE  DeliveryInv'
<1>1. Stored \subseteq Stored'
  BY StepGrows
<1>2. NoLostEvent'
  BY <1>1 DEF NoLostEvent, DeliveryInv
<1>3. \A t \in Txns : txn'[t] = "published" => Current(t)' \in Stored'
  BY <1>1 DEF DeliveryInv, Current
<1>4. \A r \in Replicas : \A x \in Records : IsNext(r, x)' => IsNext(r, x)
  BY DEF IsNext, relayVars
<1>5. QED
  BY <1>1, <1>2, <1>3, <1>4, WindowHeld DEF DeliveryInv, relayVars

\* Initially nothing is owed, so nothing is missing.
LEMMA DeliveryInit == Init => DeliveryInv
  BY DEF Init, DeliveryInv, NoLostEvent, Owed, Stored

\* When ids are unique, no step deletes the last copy of an owed event: one
\* case for each action that deletes a row, drops a claim or publishes.
LEMMA DeliveryStep ==
  ASSUME IdsUnique
  PROVE  Bookkeeping /\ RowsInv /\ DeliveryInv /\ [Next]_vars => DeliveryInv'
<1> SUFFICES ASSUME Bookkeeping, RowsInv, DeliveryInv, [Next]_vars PROVE DeliveryInv'
  OBVIOUS
<1>1. /\ Stored \subseteq Stored'
      /\ \A x \in Records : EventId[x] \in window' => x \in Stored'
  BY StepGrows, WindowHeld
<1>2. TypeOK
  BY DEF Bookkeeping
<1>3. ASSUME NEW t \in Txns, InsertOutboxRecords(t) PROVE DeliveryInv'
  <2>1. t \notin committed
    BY <1>3 DEF InsertOutboxRecords, Bookkeeping, PhaseInv
  <2>2. \A r \in Replicas : \A x \in batch[r] : x \in Records /\ x \notin RecordsOf(t)
    BY <2>1, OwedFacts DEF RowsInv, ClaimsExclusive
  <2>3. \A r \in Replicas : \A x \in batch[r] : rowSeq'[x] = rowSeq[x]
    BY <1>3, <2>2 DEF InsertOutboxRecords
  <2>4. \A u \in Txns : txn'[u] = "published" => txn[u] = "published"
    BY <1>2, <1>3 DEF TypeOK, InsertOutboxRecords
  <2>5. Owed' = Owed /\ UNCHANGED <<relayVars, flushed, outbox>>
    BY <1>3 DEF InsertOutboxRecords, Owed
  <2>6. QED
    BY <2>3, <2>4, <2>5, QuietStep
<1>4. ASSUME NEW t \in Txns, Commit(t) \/ CommitUnacknowledged(t) PROVE DeliveryInv'
  <2>1. /\ UNCHANGED <<relayVars, flushed, rowSeq>>
        /\ outbox' = outbox \cup RecordsOf(t)
        /\ committed' = committed \cup {t}
    BY <1>4 DEF Commit, CommitUnacknowledged, Durable
  <2>2. \A u \in Txns : txn'[u] = "published" => txn[u] = "published"
    BY <1>2, <1>4 DEF TypeOK, Commit, CommitUnacknowledged
  <2>3. Owed' \subseteq Owed \cup outbox'
    BY <2>1 DEF Owed
  <2>4. QED
    BY <2>1, <2>2, <2>3, QuietStep
<1>5. ASSUME NEW t \in Txns, Rollback(t) \/ FlushPublishFails(t) \/ FlushDeleteFails(t)
      PROVE  DeliveryInv'
  <2>1. /\ UNCHANGED <<relayVars, flushed, committed, rowSeq, outbox>>
        /\ \A u \in Txns : txn'[u] = "published" => txn[u] = "published"
    BY <1>2, <1>5 DEF TypeOK, Rollback, FlushPublishFails, FlushDeleteFails, tableVars
  <2>2. QED
    BY <2>1, QuietStep DEF Owed
<1>6. ASSUME NEW t \in Txns, FlushPublish(t) PROVE DeliveryInv'
  <2>1. /\ UNCHANGED <<relayVars, flushed, committed, rowSeq, outbox>>
        /\ \A u \in Txns : txn'[u] = "published" => u = t \/ txn[u] = "published"
    BY <1>2, <1>6 DEF TypeOK, FlushPublish, tableVars
  <2>2. Current(t) \in Stored'
    BY <1>6, CurrentType, PublishStores DEF FlushPublish
  <2>3. \A u \in Txns : txn'[u] = "published" => Current(u)' \in Stored'
    BY <1>1, <2>1, <2>2 DEF Current, DeliveryInv
  <2>4. \A r \in Replicas : \A x \in Records : IsNext(r, x)' => IsNext(r, x)
    BY <2>1 DEF IsNext, relayVars
  <2>5. NoLostEvent'
    BY <1>1, <2>1 DEF NoLostEvent, DeliveryInv, Owed
  <2>6. QED
    BY <1>1, <2>1, <2>3, <2>4, <2>5 DEF DeliveryInv, relayVars
<1>7. ASSUME NEW t \in Txns, FlushDelete(t) PROVE DeliveryInv'
  <2>1. /\ UNCHANGED <<relayVars, committed, rowSeq, stream>>
        /\ outbox' = outbox \ {Current(t)}
        /\ Current(t) \in Stored
        /\ \A u \in Txns : txn'[u] = "published" => txn[u] = "published" /\ flushed'[u] = flushed[u]
    BY <1>2, <1>7 DEF TypeOK, FlushDelete, DeliveryInv, brokerVars
  <2>2. NoLostEvent'
    BY <1>1, <2>1 DEF NoLostEvent, DeliveryInv, Owed
  <2>3. \A u \in Txns : txn'[u] = "published" => Current(u)' \in Stored'
    BY <1>1, <2>1 DEF Current, DeliveryInv
  <2>4. \A r \in Replicas : \A x \in Records : IsNext(r, x)' => IsNext(r, x)
    BY <2>1 DEF IsNext, relayVars
  <2>5. QED
    BY <1>1, <2>1, <2>2, <2>3, <2>4 DEF DeliveryInv, relayVars
\* The relay's steps leave the transactions and their records alone.
<1>8. ASSUME UNCHANGED txnVars,
             outbox \subseteq outbox' \cup Stored,
             \A r \in Replicas : gone'[r] \subseteq Stored',
             \A r \in Replicas : relay'[r] = "deleting" =>
               \A x \in Records : IsNext(r, x)' => x \in Stored'
      PROVE  DeliveryInv'
  <2>1. NoLostEvent'
    BY <1>1, <1>8 DEF NoLostEvent, DeliveryInv, Owed, txnVars
  <2>2. \A t \in Txns : txn'[t] = "published" => Current(t)' \in Stored'
    BY <1>1, <1>8 DEF Current, DeliveryInv, txnVars
  <2>3. QED
    BY <1>1, <1>8, <2>1, <2>2 DEF DeliveryInv
<1>9. ASSUME NEW r \in Replicas, RelayClaim(r) PROVE DeliveryInv'
  <2>1. UNCHANGED <<txnVars, outbox, gone, rowSeq>>
    BY <1>9 DEF RelayClaim, tableVars
  <2>2. \A s \in Replicas : relay'[s] = "deleting" => relay[s] = "deleting" /\ batch'[s] = batch[s]
    BY <1>2, <1>9 DEF TypeOK, RelayClaim
  <2>3. \A s \in Replicas : relay'[s] = "deleting" =>
           \A x \in Records : IsNext(s, x)' => x \in Stored'
    BY <1>1, <2>1, <2>2 DEF IsNext, DeliveryInv
  <2>4. QED
    BY <1>1, <1>8, <2>1, <2>3 DEF DeliveryInv
<1>10. ASSUME NEW r \in Replicas, RelayPublish(r) PROVE DeliveryInv'
  <2>1. PICK x \in Records : IsNext(r, x) /\ BrokerStores(x)
    BY <1>10 DEF RelayPublish
  <2>2. x \in Stored'
    BY <2>1, PublishStores
  <2>3. /\ UNCHANGED <<txnVars, outbox, batch, gone, rowSeq>>
        /\ \A s \in Replicas : relay'[s] = "deleting" => s = r \/ relay[s] = "deleting"
    BY <1>2, <1>10 DEF TypeOK, RelayPublish, tableVars
  <2>4. \A s \in Replicas : \A y \in Records : IsNext(s, y)' => IsNext(s, y)
    BY <2>3 DEF IsNext
  <2>5. \A y \in Records : IsNext(r, y) => y = x
    BY <2>1, NextUnique
  <2>6. \A s \in Replicas : relay'[s] = "deleting" =>
           \A y \in Records : IsNext(s, y)' => y \in Stored'
    BY <1>1, <2>2, <2>3, <2>4, <2>5 DEF DeliveryInv
  <2>7. QED
    BY <1>1, <1>8, <2>3, <2>6 DEF DeliveryInv
<1>11. ASSUME NEW r \in Replicas, RelayPublishFails(r) PROVE DeliveryInv'
  <2>1. /\ UNCHANGED <<txnVars, outbox, batch, gone, rowSeq>>
        /\ \A s \in Replicas : relay'[s] = "deleting" => relay[s] = "deleting"
    BY <1>2, <1>11 DEF TypeOK, RelayPublishFails, tableVars
  <2>2. \A s \in Replicas : \A y \in Records : IsNext(s, y)' => IsNext(s, y)
    BY <2>1 DEF IsNext
  <2>3. QED
    BY <1>1, <1>8, <2>1, <2>2 DEF DeliveryInv
<1>12. ASSUME NEW r \in Replicas, RelayDelete(r) PROVE DeliveryInv'
  <2>1. PICK x \in Records : IsNext(r, x) /\ gone' = [gone EXCEPT ![r] = @ \cup {x}]
    BY <1>12 DEF RelayDelete
  <2>2. x \in Stored
    BY <1>12, <2>1 DEF RelayDelete, DeliveryInv
  <2>3. \A s \in Replicas : gone'[s] \subseteq Stored'
    BY <1>1, <1>2, <2>1, <2>2 DEF TypeOK, DeliveryInv
  <2>4. /\ UNCHANGED <<txnVars, outbox, batch, rowSeq>>
        /\ \A s \in Replicas : relay'[s] = "deleting" =>
             relay[s] = "deleting" /\ gone'[s] = gone[s]
    BY <1>2, <1>12, <2>1 DEF TypeOK, RelayDelete, tableVars
  <2>5. \A s \in Replicas : relay'[s] = "deleting" =>
           \A y \in Records : IsNext(s, y)' => y \in Stored'
    BY <1>1, <2>4 DEF IsNext, DeliveryInv
  <2>6. QED
    BY <1>8, <2>3, <2>4, <2>5
<1>13. ASSUME NEW r \in Replicas, Release(r), UNCHANGED rowSeq
       PROVE  /\ \A s \in Replicas : gone'[s] \subseteq Stored'
              /\ \A s \in Replicas : relay'[s] = "deleting" =>
                   \A y \in Records : IsNext(s, y)' => y \in Stored'
  <2>1. \A s \in Replicas : gone'[s] \subseteq Stored'
    BY <1>1, <1>2, <1>13, ReleaseEffect DEF DeliveryInv
  <2>2. \A s \in Replicas : relay'[s] = "deleting" =>
          relay[s] = "deleting" /\ batch'[s] = batch[s] /\ gone'[s] = gone[s]
    BY <1>2, <1>13, ReleaseEffect
  <2>3. QED
    BY <1>1, <1>13, <2>1, <2>2 DEF IsNext, DeliveryInv
<1>14. ASSUME NEW r \in Replicas, RelayCommit(r) PROVE DeliveryInv'
  <2>1. Release(r) /\ outbox' = outbox \ gone[r] /\ UNCHANGED <<txnVars, rowSeq>>
    BY <1>14 DEF RelayCommit
  <2>2. outbox \subseteq outbox' \cup Stored
    BY <2>1 DEF DeliveryInv
  <2>3. QED
    BY <1>8, <1>13, <2>1, <2>2
<1>15. ASSUME NEW r \in Replicas, RelayDatabaseFails(r) PROVE DeliveryInv'
  <2>1. Release(r) /\ UNCHANGED <<txnVars, outbox, rowSeq>>
    BY <1>15 DEF RelayDatabaseFails, tableVars
  <2>2. QED
    BY <1>8, <1>13, <2>1
<1>16. ASSUME NEW r \in Replicas, Crash(r) PROVE DeliveryInv'
  <2>1. Release(r) /\ UNCHANGED <<flushed, committed, outbox, rowSeq>>
    BY <1>16 DEF Crash, tableVars
  <2>2. \A t \in Txns : txn'[t] = "published" => txn[t] = "published"
    BY <1>2, <1>16 DEF TypeOK, Crash
  <2>3. NoLostEvent'
    BY <1>1, <2>1 DEF NoLostEvent, DeliveryInv, Owed
  <2>4. \A t \in Txns : txn'[t] = "published" => Current(t)' \in Stored'
    BY <1>1, <2>1, <2>2 DEF Current, DeliveryInv
  <2>5. QED
    BY <1>1, <1>13, <2>1, <2>3, <2>4 DEF DeliveryInv
<1>17. ASSUME WindowExpires \/ UNCHANGED vars PROVE DeliveryInv'
  <2>1. UNCHANGED <<txnVars, relayVars, rowSeq, outbox>>
    BY <1>17 DEF WindowExpires, vars, tableVars
  <2>2. QED
    BY <2>1, QuietStep DEF txnVars, Owed
<1>18. QED
  BY <1>3, <1>4, <1>5, <1>6, <1>7, <1>9, <1>10, <1>11, <1>12, <1>14, <1>15, <1>16, <1>17
  DEF Next, TxnStep, RelayStep, RelayWork

\* When an id names one event, no crash, failed call, lost answer, rollback,
\* concurrent relay or expired duplicate window loses a committed event.
THEOREM NothingLost ==
  ASSUME IdsUnique
  PROVE  Spec => []NoLostEvent
<1>1. Bookkeeping /\ RowsInv /\ DeliveryInv /\ [Next]_vars => DeliveryInv'
  BY DeliveryStep
<1>2. DeliveryInv => NoLostEvent
  BY DEF DeliveryInv
<1>3. QED
  BY <1>1, <1>2, RowsCorrect, DeliveryInit, PTL DEF Spec

(* ------------------------------- Order --------------------------------- *)

\* The rows of a transaction are numbered in the order it staged them.
SeqOrder ==
  \A t \in Txns : txn[t] = "staged" \/ t \in committed =>
    \A i, j \in DOMAIN Staged[t] : i < j => rowSeq[Staged[t][i]] < rowSeq[Staged[t][j]]

\* The inline flush passes only records the stream holds.
FlushInv ==
  \A t \in Txns : txn[t] \in {"flushing", "published"} =>
    \A i \in DOMAIN Staged[t] : i <= flushed[t] => Staged[t][i] \in Stored

\* What a transaction staged before a claimed row is stored, or claimed too.
BatchInv ==
  \A r \in Replicas, t \in Txns : \A i, j \in DOMAIN Staged[t] :
    i < j /\ Staged[t][j] \in batch[r] => Staged[t][i] \in Stored \cup batch[r]

OrderInv == StageOrder /\ SeqOrder /\ FlushInv /\ BatchInv

\* Publishing an event whose predecessors are stored keeps the order.
LEMMA PublishInOrder ==
  ASSUME Bookkeeping, StageOrder, NEW x \in Records, BrokerStores(x) \/ PublishThrows(x),
         \A t \in Txns : \A i, j \in DOMAIN Staged[t] :
           i < j /\ Staged[t][j] = x => Staged[t][i] \in Stored
  PROVE  StageOrder'
<1>1. stream \in Seq(Records)
  BY DEF Bookkeeping, TypeOK
<1>2. CASE UNCHANGED stream
  BY <1>2 DEF StageOrder
<1>3. CASE stream' = Append(stream, x)
  <2>1. /\ Len(stream) \in Nat /\ DOMAIN stream = 1..Len(stream)
        /\ DOMAIN stream' = 1..(Len(stream) + 1)
        /\ stream'[Len(stream) + 1] = x
        /\ \A p \in 1..Len(stream) : stream'[p] = stream[p]
    BY <1>1, <1>3
  <2> SUFFICES ASSUME NEW t \in Txns, NEW i \in DOMAIN Staged[t], NEW j \in DOMAIN Staged[t],
                      NEW q \in DOMAIN stream', i < j, stream'[q] = Staged[t][j]
               PROVE  \E p \in 1..(q - 1) : stream'[p] = Staged[t][i]
    BY DEF StageOrder
  <2>2. CASE q \in DOMAIN stream
    <3>1. PICK p \in 1..(q - 1) : stream[p] = Staged[t][i]
      BY <2>1, <2>2 DEF StageOrder
    <3>2. p \in 1..Len(stream)
      BY <2>1, <2>2
    <3>3. QED
      BY <2>1, <3>1, <3>2
  <2>3. CASE q = Len(stream) + 1
    <3>1. PICK p \in DOMAIN stream : stream[p] = Staged[t][i]
      BY <2>1, <2>3 DEF Stored
    <3>2. p \in 1..(q - 1) /\ stream'[p] = Staged[t][i]
      BY <2>1, <2>3, <3>1
    <3>3. QED
      BY <3>2
  <2>4. QED
    BY <2>1, <2>2, <2>3
<1>4. QED
  BY <1>2, <1>3 DEF BrokerStores, PublishThrows, brokerVars

\* Initially nothing is staged, stored or claimed.
LEMMA OrderInit == Init => OrderInv
  BY DEF Init, OrderInv, StageOrder, SeqOrder, FlushInv, BatchInv

\* seq follows the staging order: the rows of a transaction get consecutive
\* numbers in one INSERT, and keep them.
LEMMA SeqOrderStep ==
  ASSUME Bookkeeping, SeqOrder, [Next]_vars
  PROVE  SeqOrder'
<1>1. TypeOK
  BY DEF Bookkeeping
<1>2. ASSUME NEW t \in Txns, InsertOutboxRecords(t) PROVE SeqOrder'
  <2> DEFINE pos(x) == CHOOSE i \in DOMAIN Staged[t] : Staged[t][i] = x
  <2>1. \A i \in DOMAIN Staged[t] : pos(Staged[t][i]) = i
    BY OutboxAssumption
  <2> HIDE DEF pos
  <2>2. \A x \in Records : rowSeq'[x] = IF x \in RecordsOf(t) THEN nextSeq + pos(x)
                                        ELSE rowSeq[x]
    BY <1>2 DEF InsertOutboxRecords, pos
  <2>3. ASSUME NEW i \in DOMAIN Staged[t]
        PROVE  rowSeq'[Staged[t][i]] = nextSeq + i
    BY <2>1, <2>2, RecordsOfType
  <2>4. nextSeq \in Nat /\ DOMAIN Staged[t] \subseteq Nat
    BY <1>1, RecordsOfType DEF TypeOK
  <2>5. ASSUME NEW u \in Txns \ {t}, NEW i \in DOMAIN Staged[u]
        PROVE  rowSeq'[Staged[u][i]] = rowSeq[Staged[u][i]]
    <3>1. Staged[u][i] \in Records \ RecordsOf(t)
      BY RecordsOfType, RecordsDisjoint
    <3>2. QED
      BY <2>2, <3>1
  <2>6. \A u \in Txns \ {t} : txn'[u] = txn[u]
    BY <1>1, <1>2 DEF InsertOutboxRecords, TypeOK
  <2>7. committed' = committed
    BY <1>2 DEF InsertOutboxRecords
  <2>8. ASSUME NEW u \in Txns, txn'[u] = "staged" \/ u \in committed',
               NEW i \in DOMAIN Staged[u], NEW j \in DOMAIN Staged[u], i < j
        PROVE  rowSeq'[Staged[u][i]] < rowSeq'[Staged[u][j]]
    <3>1. CASE u = t
      <4>1. rowSeq'[Staged[t][i]] = nextSeq + i /\ rowSeq'[Staged[t][j]] = nextSeq + j
        BY <2>3, <2>8, <3>1
      <4>2. QED
        BY <2>4, <2>8, <3>1, <4>1
    <3>2. CASE u # t
      BY <2>5, <2>6, <2>7, <2>8, <3>2 DEF SeqOrder
    <3>3. QED
      BY <3>1, <3>2
  <2>9. QED
    BY <2>8 DEF SeqOrder
<1>3. CASE /\ UNCHANGED rowSeq
           /\ \A u \in Txns : txn'[u] = "staged" \/ u \in committed'
                => txn[u] = "staged" \/ u \in committed
  BY <1>3 DEF SeqOrder
<1>4. ASSUME NEW t \in Txns, TxnStep(t), ~InsertOutboxRecords(t)
      PROVE  /\ UNCHANGED rowSeq
             /\ \A u \in Txns : txn'[u] = "staged" \/ u \in committed'
                  => txn[u] = "staged" \/ u \in committed
  BY <1>1, <1>4 DEF TypeOK, TxnStep, Commit, CommitUnacknowledged, Durable, Rollback,
     FlushPublish, FlushPublishFails, FlushDelete, FlushDeleteFails, tableVars
<1>5. ASSUME NEW r \in Replicas, Crash(r)
      PROVE  /\ UNCHANGED rowSeq
             /\ \A u \in Txns : txn'[u] = "staged" \/ u \in committed'
                  => txn[u] = "staged" \/ u \in committed
  BY <1>1, <1>5 DEF TypeOK, Crash, tableVars
<1>6. ASSUME \/ \E r \in Replicas : RelayStep(r)
             \/ WindowExpires
             \/ UNCHANGED vars
      PROVE  UNCHANGED <<rowSeq, txn, committed>>
  BY <1>6 DEF RelayStep, RelayWork, RelayClaim, RelayPublish, RelayPublishFails, RelayDelete,
     RelayCommit, RelayDatabaseFails, WindowExpires, vars, txnVars, tableVars
<1>7. QED
  BY <1>2, <1>3, <1>4, <1>5, <1>6 DEF Next

\* What the inline flush has passed was published before.
LEMMA FlushStep ==
  ASSUME Bookkeeping, RowsInv, DeliveryInv, FlushInv, [Next]_vars
  PROVE  FlushInv'
<1>1. TypeOK /\ Stored \subseteq Stored'
  BY StepGrows DEF Bookkeeping
<1>2. ASSUME NEW t \in Txns, Commit(t) PROVE FlushInv'
  <2>1. flushed' = flushed /\ flushed[t] = 0 /\ DOMAIN Staged[t] \subseteq Nat \ {0}
    BY <1>2, RecordsOfType DEF Commit, Durable, Bookkeeping, PhaseInv
  <2>2. \A u \in Txns \ {t} : txn'[u] = txn[u]
    BY <1>1, <1>2 DEF Commit, TypeOK
  <2>3. QED
    BY <1>1, <2>1, <2>2 DEF FlushInv
<1>3. ASSUME NEW t \in Txns, FlushDelete(t) PROVE FlushInv'
  <2>1. flushed' = [flushed EXCEPT ![t] = @ + 1] /\ Current(t) \in Stored
        /\ txn[t] = "published"
    BY <1>3 DEF FlushDelete, DeliveryInv
  <2>2. flushed[t] \in Nat /\ flushed'[t] = flushed[t] + 1 /\ DOMAIN Staged[t] \subseteq Nat
    BY <1>1, <2>1, RecordsOfType DEF TypeOK
  <2>3. \A u \in Txns \ {t} : txn'[u] = txn[u] /\ flushed'[u] = flushed[u]
    BY <1>1, <1>3, <2>1 DEF FlushDelete, TypeOK
  <2>4. \A i \in DOMAIN Staged[t] : i <= flushed'[t] => i <= flushed[t] \/ i = flushed[t] + 1
    BY <2>2
  <2>5. \A i \in DOMAIN Staged[t] : i <= flushed'[t] => Staged[t][i] \in Stored'
    BY <1>1, <2>1, <2>4 DEF FlushInv, Current
  <2>6. QED
    BY <1>1, <2>3, <2>5 DEF FlushInv
<1>4. CASE /\ UNCHANGED flushed
           /\ \A u \in Txns : txn'[u] \in {"flushing", "published"}
                => txn[u] \in {"flushing", "published"}
  BY <1>1, <1>4 DEF FlushInv
<1>5. ASSUME NEW t \in Txns, TxnStep(t), ~Commit(t), ~FlushDelete(t)
      PROVE  /\ UNCHANGED flushed
             /\ \A u \in Txns : txn'[u] \in {"flushing", "published"}
                  => txn[u] \in {"flushing", "published"}
  BY <1>1, <1>5 DEF TypeOK, TxnStep, InsertOutboxRecords, CommitUnacknowledged, Durable,
     Rollback, FlushPublish, FlushPublishFails, FlushDeleteFails
<1>6. ASSUME NEW r \in Replicas, Crash(r)
      PROVE  /\ UNCHANGED flushed
             /\ \A u \in Txns : txn'[u] \in {"flushing", "published"}
                  => txn[u] \in {"flushing", "published"}
  BY <1>1, <1>6 DEF TypeOK, Crash
<1>7. ASSUME \/ \E r \in Replicas : RelayStep(r)
             \/ WindowExpires
             \/ UNCHANGED vars
      PROVE  UNCHANGED <<flushed, txn>>
  BY <1>7 DEF RelayStep, RelayWork, RelayClaim, RelayPublish, RelayPublishFails, RelayDelete,
     RelayCommit, RelayDatabaseFails, WindowExpires, vars, txnVars
<1>8. QED
  BY <1>2, <1>3, <1>4, <1>5, <1>6, <1>7 DEF Next

\* A claim takes rows in seq order; what it leaves out of a transaction is
\* stored, or another relay holds it.
LEMMA BatchStep ==
  ASSUME Bookkeeping, RowsInv, DeliveryInv, SeqOrder, BatchInv, [Next]_vars, ~SplitClaim'
  PROVE  BatchInv'
<1>1. TypeOK /\ Stored \subseteq Stored'
  BY StepGrows DEF Bookkeeping
<1>2. ASSUME NEW r \in Replicas, RelayClaim(r) PROVE BatchInv'
  <2>1. PICK rows \in SUBSET Free :
          /\ \A x \in rows, y \in Free \ rows : rowSeq[x] < rowSeq[y]
          /\ batch' = [batch EXCEPT ![r] = rows]
    BY <1>2 DEF RelayClaim
  <2>2. batch'[r] = rows /\ \A s \in Replicas \ {r} : batch'[s] = batch[s]
    BY <1>1, <2>1 DEF TypeOK
  <2>3. batch[r] = {} /\ UNCHANGED stream
    BY <1>2 DEF RelayClaim, RowsInv, brokerVars
  <2>4. ASSUME NEW t \in Txns, NEW i \in DOMAIN Staged[t], NEW j \in DOMAIN Staged[t],
               i < j, Staged[t][j] \in rows
        PROVE  Staged[t][i] \in Stored \cup rows
    <3> DEFINE x == Staged[t][i]
               y == Staged[t][j]
    <3>1. x \in RecordsOf(t) /\ y \in RecordsOf(t) /\ RecordsOf(t) \subseteq Records
      BY RecordsOfType
    <3>2. y \in Owed
      BY <2>4 DEF Free, RowsInv
    <3>3. t \in committed /\ x \in Owed
      BY <3>1, <3>2, OwedFacts
    <3>4. rowSeq[x] < rowSeq[y] /\ rowSeq[x] \in Nat /\ rowSeq[y] \in Nat
      BY <1>1, <2>4, <3>1, <3>3 DEF SeqOrder, TypeOK
    <3>5. CASE x \in Stored
      BY <3>5
    <3>6. CASE x \in Free
      BY <2>1, <2>4, <3>4, <3>6
    <3>7. CASE x \in Locked
      <4>1. PICK s \in Replicas : x \in batch[s]
        BY <3>7 DEF Locked
      <4>2. s # r /\ x \in batch'[s] /\ y \in batch'[r]
        BY <2>2, <2>3, <2>4, <4>1
      <4>3. SplitClaim'
        BY <3>1, <4>2 DEF SplitClaim
      <4>4. QED
        BY <4>3
    <3>8. x \in outbox \cup Stored
      BY <3>3 DEF DeliveryInv, NoLostEvent
    <3>9. QED
      BY <3>5, <3>6, <3>7, <3>8 DEF Free
  <2>5. QED
    BY <1>1, <2>2, <2>4 DEF BatchInv
<1>3. CASE \A r \in Replicas : batch'[r] \in {batch[r], {}}
  BY <1>1, <1>3 DEF BatchInv
<1>4. ASSUME NEW r \in Replicas, Release(r)
      PROVE  \A s \in Replicas : batch'[s] \in {batch[s], {}}
  BY <1>1, <1>4, ReleaseEffect
<1>5. ASSUME NEW r \in Replicas, RelayStep(r), ~RelayClaim(r)
      PROVE  Release(r) \/ UNCHANGED batch
  BY <1>5 DEF RelayStep, RelayWork, RelayPublish, RelayPublishFails, RelayDelete, RelayCommit,
     RelayDatabaseFails
<1>6. ASSUME NEW r \in Replicas, Crash(r) PROVE Release(r)
  BY <1>6 DEF Crash
<1>7. ASSUME (\E t \in Txns : TxnStep(t)) \/ WindowExpires \/ UNCHANGED vars
      PROVE  UNCHANGED batch
  BY <1>7 DEF TxnStep, InsertOutboxRecords, Commit, CommitUnacknowledged, Durable, Rollback,
     FlushPublish, FlushPublishFails, FlushDelete, FlushDeleteFails, WindowExpires, vars,
     relayVars
<1>8. QED
  BY <1>2, <1>3, <1>4, <1>5, <1>6, <1>7 DEF Next

\* Both publishers publish an event only when its predecessors are stored: the
\* flush follows the staging order, a relay the seq order of what it claimed.
LEMMA StageStep ==
  ASSUME Bookkeeping, RowsInv, DeliveryInv, OrderInv, [Next]_vars
  PROVE  StageOrder'
<1>1. ASSUME NEW t \in Txns, FlushPublish(t) \/ FlushPublishFails(t) PROVE StageOrder'
  <2> DEFINE x == Current(t)
  <2>1. /\ x \in Records /\ x \in RecordsOf(t)
        /\ txn[t] = "flushing"
        /\ BrokerStores(x) \/ PublishThrows(x)
    BY <1>1, CurrentType DEF FlushPublish, FlushPublishFails
  <2>2. flushed[t] + 1 \in DOMAIN Staged[t] /\ x = Staged[t][flushed[t] + 1]
        /\ flushed[t] \in Nat
    BY <2>1, RecordsOfType DEF Bookkeeping, PhaseInv, TypeOK, Current
  <2> HIDE DEF x
  <2>3. ASSUME NEW u \in Txns, NEW i \in DOMAIN Staged[u], NEW j \in DOMAIN Staged[u],
               i < j, Staged[u][j] = x
        PROVE  Staged[u][i] \in Stored
    <3>1. u = t
      BY <2>1, <2>3, RecordsOfType, RecordsDisjoint
    <3>2. j = flushed[t] + 1
      BY <2>2, <2>3, <3>1, OutboxAssumption
    <3>3. i \in Nat /\ i <= flushed[t]
      BY <2>2, <2>3, <3>1, <3>2, RecordsOfType
    <3>4. QED
      BY <2>1, <3>1, <3>3 DEF OrderInv, FlushInv
  <2>4. QED
    BY <2>1, <2>3, PublishInOrder DEF OrderInv
<1>2. ASSUME NEW r \in Replicas, RelayPublish(r) \/ RelayPublishFails(r) PROVE StageOrder'
  <2>1. PICK x \in Records : IsNext(r, x) /\ (BrokerStores(x) \/ PublishThrows(x))
    BY <1>2 DEF RelayPublish, RelayPublishFails
  <2>2. ASSUME NEW u \in Txns, NEW i \in DOMAIN Staged[u], NEW j \in DOMAIN Staged[u],
               i < j, Staged[u][j] = x
        PROVE  Staged[u][i] \in Stored
    <3> DEFINE y == Staged[u][i]
    <3>1. x \in batch[r] /\ x \in Owed
      BY <2>1 DEF IsNext, RowsInv, ClaimsExclusive
    <3>2. x \in RecordsOf(u) /\ y \in RecordsOf(u) /\ RecordsOf(u) \subseteq Records
      BY <2>2, RecordsOfType
    <3>3. u \in committed
      BY <3>1, <3>2, OwedFacts
    <3>4. rowSeq[y] < rowSeq[x] /\ rowSeq[y] \in Nat /\ rowSeq[x] \in Nat
      BY <2>2, <3>2, <3>3 DEF OrderInv, SeqOrder, Bookkeeping, TypeOK
    <3>5. y \in Stored \cup batch[r]
      BY <2>2, <3>1 DEF OrderInv, BatchInv
    <3>6. y \notin batch[r] \ gone[r]
      BY <2>1, <3>4 DEF IsNext
    <3>7. gone[r] \subseteq Stored
      BY DEF DeliveryInv
    <3>8. QED
      BY <3>5, <3>6, <3>7
  <2>3. QED
    BY <2>1, <2>2, PublishInOrder DEF OrderInv
<1>3. CASE UNCHANGED stream
  BY <1>3 DEF OrderInv, StageOrder
<1>4. \/ \E t \in Txns : FlushPublish(t) \/ FlushPublishFails(t)
      \/ \E r \in Replicas : RelayPublish(r) \/ RelayPublishFails(r)
      \/ UNCHANGED stream
  BY DEF Next, TxnStep, RelayStep, RelayWork, InsertOutboxRecords, Commit, CommitUnacknowledged,
         Durable, Rollback, FlushDelete, FlushDeleteFails, RelayClaim, RelayDelete, RelayCommit,
         RelayDatabaseFails, Crash, WindowExpires, vars, brokerVars
<1>5. QED
  BY <1>1, <1>2, <1>3, <1>4

\* When ids are unique and no two relays ever split the rows of a transaction,
\* its events reach the stream in the order it staged them, whichever mix of
\* flush, relays, failures and crashes published them.
THEOREM InOrder ==
  ASSUME IdsUnique
  PROVE  Spec => OrderUnlessSplit
<1>1. Bookkeeping /\ RowsInv /\ DeliveryInv /\ [Next]_vars => DeliveryInv'
  BY DeliveryStep
<1>2. Spec => []DeliveryInv
  BY <1>1, RowsCorrect, DeliveryInit, PTL DEF Spec
<1>3. Bookkeeping /\ RowsInv /\ DeliveryInv /\ OrderInv /\ [Next]_vars /\ ~SplitClaim'
        => OrderInv'
  BY SeqOrderStep, FlushStep, BatchStep, StageStep DEF OrderInv
<1>4. OrderInv => StageOrder
  BY DEF OrderInv
<1>5. QED
  BY <1>2, <1>3, <1>4, RowsCorrect, OrderInit, PTL DEF Spec, OrderUnlessSplit

(* ----------------------------- Refinement ------------------------------ *)

\* A step leaves what is owed alone or adds what one transaction staged.
LEMMA OwedStep ==
  ASSUME Bookkeeping, [Next]_vars
  PROVE  \/ Owed' = Owed
         \/ \E batchOfEvents \in SUBSET Records :
              /\ batchOfEvents \cap Owed = {}
              /\ Owed' = Owed \cup batchOfEvents
              /\ UNCHANGED stream
<1>1. CASE UNCHANGED committed
  BY <1>1 DEF Owed
<1>2. ASSUME NEW t \in Txns, Commit(t) \/ CommitUnacknowledged(t)
      PROVE  \E batchOfEvents \in SUBSET Records :
               /\ batchOfEvents \cap Owed = {}
               /\ Owed' = Owed \cup batchOfEvents
               /\ UNCHANGED stream
  <2>1. committed' = committed \cup {t} /\ UNCHANGED stream /\ t \notin committed
    BY <1>2 DEF Commit, CommitUnacknowledged, Durable, brokerVars, Bookkeeping, PhaseInv
  <2>2. Owed' = Owed \cup RecordsOf(t) /\ RecordsOf(t) \cap Owed = {}
    BY <2>1, OwedFacts DEF Owed
  <2>3. QED
    BY <2>1, <2>2, RecordsOfType
<1>3. \/ \E t \in Txns : Commit(t) \/ CommitUnacknowledged(t)
      \/ UNCHANGED committed
  BY DEF Next, TxnStep, RelayStep, RelayWork, InsertOutboxRecords, Rollback, FlushPublish,
         FlushPublishFails, FlushDelete, FlushDeleteFails, RelayClaim, RelayPublish,
         RelayPublishFails, RelayDelete, RelayCommit, RelayDatabaseFails, Crash, WindowExpires,
         vars, txnVars
<1>4. QED
  BY <1>1, <1>2, <1>3

\* A step stores at most one event.
LEMMA OneStored ==
  ASSUME Bookkeeping, [Next]_vars
  PROVE  \/ Stored' = Stored
         \/ \E x \in Records : Stored' = Stored \cup {x} /\ UNCHANGED committed
<1>1. stream \in Seq(Records) /\ window \subseteq Ids \ {NoId}
  BY DEF Bookkeeping, TypeOK
<1>2. ASSUME NEW t \in Txns, FlushPublish(t) \/ FlushPublishFails(t)
      PROVE  \E x \in Records : Stored' \in {Stored, Stored \cup {x}} /\ UNCHANGED committed
  <2>1. Current(t) \in Records
    BY <1>2, CurrentType DEF FlushPublish, FlushPublishFails
  <2>2. Stored \subseteq Stored' /\ Stored' \subseteq Stored \cup {Current(t)}
    BY <1>1, <1>2, <2>1, PublishEffect DEF FlushPublish, FlushPublishFails
  <2>3. QED
    BY <1>2, <2>1, <2>2 DEF FlushPublish, FlushPublishFails
<1>3. ASSUME NEW r \in Replicas, RelayPublish(r) \/ RelayPublishFails(r)
      PROVE  \E x \in Records : Stored' \in {Stored, Stored \cup {x}} /\ UNCHANGED committed
  <2>1. PICK x \in Records : BrokerStores(x) \/ PublishThrows(x)
    BY <1>3 DEF RelayPublish, RelayPublishFails
  <2>2. Stored \subseteq Stored' /\ Stored' \subseteq Stored \cup {x}
    BY <1>1, <2>1, PublishEffect
  <2>3. QED
    BY <1>3, <2>2 DEF RelayPublish, RelayPublishFails, txnVars
<1>4. CASE UNCHANGED stream
  BY <1>4 DEF Stored
<1>5. \/ \E t \in Txns : FlushPublish(t) \/ FlushPublishFails(t)
      \/ \E r \in Replicas : RelayPublish(r) \/ RelayPublishFails(r)
      \/ UNCHANGED stream
  BY DEF Next, TxnStep, RelayStep, RelayWork, InsertOutboxRecords, Commit, CommitUnacknowledged,
         Durable, Rollback, FlushDelete, FlushDeleteFails, RelayClaim, RelayDelete, RelayCommit,
         RelayDatabaseFails, Crash, WindowExpires, vars, brokerVars
<1>6. QED
  BY <1>2, <1>3, <1>4, <1>5

\* The safety half of the promise to callers: the outbox implements the
\* abstract event delivery, step by step.
THEOREM Refinement == Spec => Delivery!Spec
<1>1. Init => Delivery!Init
  BY DEF Init, Delivery!Init, Owed, Stored
<1>2. Bookkeeping /\ RowsInv /\ [Next]_vars => [Delivery!Next]_(Delivery!vars)
  <2> SUFFICES ASSUME Bookkeeping, RowsInv, [Next]_vars
               PROVE  [Delivery!Next]_(Delivery!vars)
    OBVIOUS
  <2>1. CASE UNCHANGED stream
    <3>1. Stored' = Stored
      BY <2>1 DEF Stored
    <3>2. QED
      BY <3>1, OwedStep DEF Delivery!Next, Delivery!Commit, Delivery!vars
  <2>2. CASE ~UNCHANGED stream
    <3>1. Owed' = Owed
      BY <2>2, OwedStep
    <3>2. Stored' \subseteq Stored \cup Owed
      BY StepGrows
    <3>3. \/ Stored' = Stored
          \/ \E x \in Records : x \in Owed /\ Stored' = Stored \cup {x}
      BY <3>2, OneStored
    <3>4. QED
      BY <3>1, <3>3 DEF Delivery!Next, Delivery!Deliver, Delivery!vars
  <2>3. QED
    BY <2>1, <2>2
<1>3. QED
  BY <1>1, <1>2, RowsCorrect, PTL DEF Spec, Delivery!Spec
=============================================================================
