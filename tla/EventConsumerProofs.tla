------------------------ MODULE EventConsumerProofs ------------------------
(***************************************************************************)
(* Proofs about EventConsumer for every set of workers and messages, every *)
(* assignment of event ids, any delivery budget and any number of faults,  *)
(* ending in the refinement to EventInbox.                                 *)
(***************************************************************************)
EXTENDS EventConsumer, TLAPS

\* Everything starts out well typed.
LEMMA TypeInit == Init => TypeOK
  BY ConsumerAssumption DEF Init, TypeOK, Ids

\* A step that uses up a fault stays within the bound.
LEMMA FaultCounted == ASSUME TypeOK, Fault PROVE faults' \in 0..MaxFaults /\ faults' > 0
  BY ConsumerAssumption DEF TypeOK, Fault

\* A worker that is not idle has a message.
LEMMA InHand ==
  ASSUME TypeOK, NEW w \in Workers, phase[w] # "idle"
  PROVE  hand[w] \in Messages
  BY DEF TypeOK

\* Every step keeps every variable in its type: deliveries stay in budget, and
\* a worker has a message exactly while it is not idle.
LEMMA TypeStep == TypeOK /\ [Next]_vars => TypeOK'
<1> SUFFICES ASSUME TypeOK, [Next]_vars PROVE TypeOK'
  OBVIOUS
<1> USE ConsumerAssumption DEF TypeOK, brokerVars
<1>1. ASSUME NEW w \in Workers, NEW m \in Messages, Deliver(w, m) PROVE TypeOK'
  <2>1. deliveries[m] + 1 \in 0..MaxDeliver
    BY <1>1 DEF Deliver
  <2>2. QED
    BY <1>1, <2>1 DEF Deliver
<1>2. ASSUME NEW m \in Messages, LeaseExpires(m) PROVE TypeOK'
  BY <1>2 DEF LeaseExpires
<1>3. ASSUME NEW w \in Workers, \/ RejectMalformed(w) \/ Ack(w) \/ Nak(w)
                                \/ Term(w) \/ AckLost(w) \/ Crash(w)
      PROVE  TypeOK'
  <2>1. hand[w] \in Messages
    BY <1>3, InHand DEF RejectMalformed, Ack, Nak, Term, AckLost, Crash
  <2>2. QED
    BY <1>3, <2>1, FaultCounted DEF RejectMalformed, Ack, Nak, Term, AckLost, Crash, Settle,
       BackToLoop
<1>4. ASSUME NEW w \in Workers, \/ HandleInTx(w) \/ ClaimOnPool(w) \/ FanOut(w)
                                \/ HandlerThrows(w) \/ DeadLetter(w)
      PROVE  TypeOK'
  <2>1. hand[w] \in Messages /\ phase[w] # "idle"
    BY <1>4, InHand DEF HandleInTx, ClaimOnPool, FanOut, HandlerThrows, DeadLetter, Handling
  <2>2. EventOf[hand[w]] \in Ids \cup {NoId}
    BY <2>1 DEF Ids
  <2>3. claimed' \subseteq Ids
    BY <1>4, <2>2 DEF HandleInTx, ClaimOnPool, FanOut, HandlerThrows, DeadLetter, Claim
  <2>4. effects' \in [Messages -> Nat]
    BY <1>4, <2>1 DEF HandleInTx, ClaimOnPool, FanOut, HandlerThrows, DeadLetter
  <2>5. /\ phase' \in [Workers -> {"idle", "handling", "claimed", "done", "failed", "parked"}]
        /\ \A v \in Workers : (phase'[v] = "idle") <=> (hand[v] = None)
    BY <1>4, <2>1 DEF HandleInTx, ClaimOnPool, FanOut, HandlerThrows, DeadLetter
  <2>6. dlq' \subseteq Messages
    BY <1>4, <2>1 DEF HandleInTx, ClaimOnPool, FanOut, HandlerThrows, DeadLetter
  <2>7. QED
    BY <1>4, <2>3, <2>4, <2>5, <2>6 DEF HandleInTx, ClaimOnPool, FanOut, HandlerThrows,
       DeadLetter
<1>5. CASE UNCHANGED vars
  BY <1>5 DEF vars
<1>6. QED
  BY <1>1, <1>2, <1>3, <1>4, <1>5 DEF Next, Dispatch

\* Every variable keeps its type; no message is delivered beyond MAX_DELIVER.
THEOREM TypeCorrect == Spec => []TypeOK
  BY TypeInit, TypeStep, PTL DEF Spec

(* -------------------- At most one effect per event --------------------- *)

\* An effect is covered by a claim; a claim on the pool whose fan-out is still
\* to come is held by one worker, and nothing with that id has had its effect.
ClaimInv ==
  /\ \A m \in Messages : EventOf[m] \in Ids /\ effects[m] > 0 => EventOf[m] \in claimed
  /\ \A w \in Workers : phase[w] = "claimed" /\ EventOf[hand[w]] \in Ids =>
       /\ EventOf[hand[w]] \in claimed
       /\ \A m \in Copies(EventOf[hand[w]]) : effects[m] = 0
       /\ \A v \in Workers :
            phase[v] = "claimed" /\ EventOf[hand[v]] = EventOf[hand[w]] => v = w
  /\ AtMostOnce

\* Nothing is claimed and nothing has had an effect at the start.
LEMMA ClaimInit == Init => ClaimInv
  BY DEF Init, ClaimInv, AtMostOnce, Copies

\* Every step keeps the claims in order: only the two handlers claim or produce
\* an effect, and no other step puts a worker between the two.
LEMMA ClaimStep == TypeOK /\ ClaimInv /\ [Next]_vars => ClaimInv'
<1> SUFFICES ASSUME TypeOK, ClaimInv, [Next]_vars PROVE ClaimInv'
  OBVIOUS
<1> USE DEF Copies
<1>1. ASSUME NEW w \in Workers, HandleInTx(w) PROVE ClaimInv'
  <2>1. /\ hand[w] \in Messages /\ UNCHANGED hand
        /\ phase' = [phase EXCEPT ![w] = "done"]
        /\ claimed' = claimed \cup ({EventOf[hand[w]]} \ {NoId})
        /\ effects' = IF Wins(hand[w]) THEN [effects EXCEPT ![hand[w]] = @ + 1] ELSE effects
    BY <1>1, InHand DEF HandleInTx, Handling, Claim
  <2>2. \A v \in Workers : phase'[v] = "claimed" => phase[v] = "claimed" /\ v # w
    BY <2>1 DEF TypeOK
  <2>3. CASE ~Wins(hand[w])
    BY <2>1, <2>2, <2>3 DEF ClaimInv, AtMostOnce
  <2>4. CASE Wins(hand[w])
    <3>1. effects' = [effects EXCEPT ![hand[w]] = @ + 1] /\ EventOf[hand[w]] \notin claimed
      BY <2>1, <2>4 DEF Wins
    <3>2. EventOf[hand[w]] \in Ids =>
            \A m \in Messages : EventOf[m] = EventOf[hand[w]] => effects[m] = 0
      BY <3>1 DEF ClaimInv, TypeOK
    <3>3. \A m \in Messages : effects'[m] = IF m = hand[w] THEN effects[m] + 1 ELSE effects[m]
      BY <2>1, <3>1 DEF TypeOK
    <3>4. \A m \in Messages : EventOf[m] \in Ids /\ effects'[m] > 0 => EventOf[m] \in claimed'
      BY <2>1, <3>3 DEF ClaimInv, Ids
    <3>5. \A v \in Workers : phase'[v] = "claimed" /\ EventOf[hand[v]] \in Ids =>
            EventOf[hand[v]] # EventOf[hand[w]]
      BY <2>2, <3>1 DEF ClaimInv
    <3>6. AtMostOnce'
      BY <2>1, <3>2, <3>3 DEF ClaimInv, AtMostOnce, TypeOK
    <3>7. QED
      BY <2>1, <2>2, <3>3, <3>4, <3>5, <3>6 DEF ClaimInv
  <2>5. QED
    BY <2>3, <2>4
<1>2. ASSUME NEW w \in Workers, ClaimOnPool(w) PROVE ClaimInv'
  <2>1. /\ hand[w] \in Messages /\ UNCHANGED <<hand, effects>>
        /\ phase' = [phase EXCEPT ![w] = IF Wins(hand[w]) THEN "claimed" ELSE "done"]
        /\ claimed' = claimed \cup ({EventOf[hand[w]]} \ {NoId})
    BY <1>2, InHand DEF ClaimOnPool, Handling, Claim
  <2>2. \A v \in Workers : phase'[v] = "claimed" =>
          \/ phase[v] = "claimed" /\ v # w
          \/ v = w /\ EventOf[hand[w]] \notin claimed
    BY <2>1 DEF TypeOK, Wins
  <2>3. EventOf[hand[w]] \in Ids /\ EventOf[hand[w]] \notin claimed =>
          \A m \in Messages : EventOf[m] = EventOf[hand[w]] => effects[m] = 0
    BY DEF ClaimInv, TypeOK
  <2>4. QED
    BY <2>1, <2>2, <2>3 DEF ClaimInv, AtMostOnce, Ids
<1>3. ASSUME NEW w \in Workers, FanOut(w) PROVE ClaimInv'
  <2>1. /\ hand[w] \in Messages /\ phase[w] = "claimed" /\ UNCHANGED <<hand, claimed>>
        /\ phase' = [phase EXCEPT ![w] = "done"]
        /\ effects' = [effects EXCEPT ![hand[w]] = @ + 1]
    BY <1>3, InHand DEF FanOut
  <2>2. \A v \in Workers : phase'[v] = "claimed" => phase[v] = "claimed" /\ v # w
    BY <2>1 DEF TypeOK
  <2>3. \A m \in Messages : effects'[m] = IF m = hand[w] THEN effects[m] + 1 ELSE effects[m]
    BY <2>1 DEF TypeOK
  <2>4. EventOf[hand[w]] \in Ids =>
          /\ EventOf[hand[w]] \in claimed
          /\ \A m \in Messages : EventOf[m] = EventOf[hand[w]] => effects[m] = 0
          /\ \A v \in Workers :
               phase[v] = "claimed" /\ EventOf[hand[v]] = EventOf[hand[w]] => v = w
    BY <2>1 DEF ClaimInv
  <2>5. AtMostOnce'
    BY <2>1, <2>3, <2>4 DEF ClaimInv, AtMostOnce, TypeOK
  <2>6. QED
    BY <2>1, <2>2, <2>3, <2>4, <2>5 DEF ClaimInv
<1>4. CASE /\ UNCHANGED <<claimed, effects>>
           /\ \A v \in Workers : phase'[v] = "claimed" =>
                phase[v] = "claimed" /\ hand'[v] = hand[v]
  BY <1>4 DEF ClaimInv, AtMostOnce
<1>5. ASSUME NEW w \in Workers, NEW m \in Messages, Deliver(w, m) PROVE ClaimInv'
  BY <1>4, <1>5 DEF Deliver, TypeOK
<1>6. ASSUME NEW w \in Workers, \/ RejectMalformed(w) \/ HandlerThrows(w) \/ Ack(w) \/ Nak(w)
                                \/ DeadLetter(w) \/ Term(w) \/ AckLost(w) \/ Crash(w)
      PROVE  ClaimInv'
  BY <1>4, <1>6 DEF RejectMalformed, HandlerThrows, Ack, Nak, DeadLetter, Term, AckLost, Crash,
     BackToLoop, TypeOK
<1>7. CASE (\E m \in Messages : LeaseExpires(m)) \/ UNCHANGED vars
  BY <1>4, <1>7 DEF LeaseExpires, vars
<1>8. QED
  BY <1>1, <1>2, <1>3, <1>5, <1>6, <1>7 DEF Next, Dispatch

\* The processed_events claim makes all copies of one event have at most one
\* effect, for a claim in the transaction and for one on the pool.
THEOREM OneEffect == Spec => []AtMostOnce
<1>1. ClaimInv => AtMostOnce
  BY DEF ClaimInv
<1>2. QED
  BY <1>1, TypeInit, TypeStep, ClaimInit, ClaimStep, PTL DEF Spec

(* ------------------------ No ack without effect ------------------------ *)

\* The event of m has had its effect, through m or through a copy of it.
Happened(m) ==
  \/ effects[m] > 0
  \/ EventOf[m] \in Ids /\ \E n \in Copies(EventOf[m]) : effects[n] > 0

\* With the claim in the transaction a claim is as good as an effect, and a
\* worker acks only what happened and terms only what it parked.
EffectInv ==
  /\ ClaimInTx =>
       /\ \A id \in claimed : \E n \in Copies(id) : effects[n] > 0
       /\ \A w \in Workers : phase[w] # "claimed"
       /\ \A w \in Workers : phase[w] = "done" => Happened(hand[w])
       /\ NoAckWithoutEffect
  /\ \A w \in Workers : phase[w] = "parked" => hand[w] \in dlq

\* No worker is busy and nothing is claimed at the start.
LEMMA EffectInit == Init => EffectInv
  BY DEF Init, EffectInv, NoAckWithoutEffect

\* A step that claims, handles and settles nothing keeps the invariant.
LEMMA QuietStep ==
  ASSUME EffectInv, UNCHANGED <<ClaimInTx, claimed, effects, settled>>, dlq \subseteq dlq',
         \A w \in Workers : phase'[w] \in {"done", "claimed", "parked"} =>
           \/ phase'[w] = phase[w] /\ hand'[w] = hand[w]
           \/ phase'[w] = "parked" /\ hand'[w] \in dlq'
  PROVE  EffectInv'
  BY DEF EffectInv, NoAckWithoutEffect, Happened, Copies

\* Every step keeps it: the handler in the transaction claims and acts at once,
\* and the steps that settle a message do so for a reason.
LEMMA EffectStep == TypeOK /\ EffectInv /\ [Next]_vars => EffectInv'
<1> SUFFICES ASSUME TypeOK, EffectInv, [Next]_vars PROVE EffectInv'
  OBVIOUS
<1>1. ASSUME NEW w \in Workers, HandleInTx(w) PROVE EffectInv'
  <2>1. /\ ClaimInTx /\ hand[w] \in Messages /\ UNCHANGED <<ClaimInTx, hand, settled, dlq>>
        /\ phase' = [phase EXCEPT ![w] = "done"]
        /\ claimed' = claimed \cup ({EventOf[hand[w]]} \ {NoId})
        /\ effects' = IF Wins(hand[w]) THEN [effects EXCEPT ![hand[w]] = @ + 1] ELSE effects
    BY <1>1, InHand DEF HandleInTx, Handling, Claim, brokerVars
  <2>2. \A v \in Workers : phase'[v] = IF v = w THEN "done" ELSE phase[v]
    BY <2>1 DEF TypeOK
  <2>3. \A m \in Messages : effects[m] > 0 => effects'[m] > 0
    BY <2>1 DEF TypeOK
  <2>4. \A m \in Messages : Happened(m) => Happened(m)'
    BY <2>3 DEF Happened, Copies
  <2>5. \/ Wins(hand[w]) /\ effects'[hand[w]] > 0
        \/ ~Wins(hand[w]) /\ EventOf[hand[w]] \in claimed
    BY <2>1 DEF Wins, TypeOK
  <2>6. Happened(hand[w])'
    <3>1. CASE effects'[hand[w]] > 0
      BY <2>1, <3>1 DEF Happened
    <3>2. CASE EventOf[hand[w]] \in claimed
      <4>1. PICK n \in Copies(EventOf[hand[w]]) : effects[n] > 0
        BY <2>1, <3>2 DEF EffectInv
      <4>2. EventOf[hand[w]] \in Ids
        BY <3>2 DEF TypeOK
      <4>3. QED
        BY <2>1, <2>4, <4>1, <4>2 DEF Happened
    <3>3. QED
      BY <2>5, <3>1, <3>2
  <2>7. \A id \in claimed' : \E n \in Copies(id) : effects'[n] > 0
    <3>1. ASSUME NEW id \in claimed PROVE \E n \in Copies(id) : effects'[n] > 0
      BY <2>1, <2>3 DEF EffectInv, Copies
    <3>2. EventOf[hand[w]] \in claimed' =>
            \E n \in Copies(EventOf[hand[w]]) : effects'[n] > 0
      BY <2>1, <2>5, <3>1 DEF Copies
    <3>3. QED
      BY <2>1, <3>1, <3>2
  <2>8. NoAckWithoutEffect'
    BY <2>1, <2>4 DEF EffectInv, NoAckWithoutEffect, Happened, TypeOK
  <2>9. \A v \in Workers : phase[v] # "idle" => hand[v] \in Messages
    BY InHand
  <2>10. \A v \in Workers : phase'[v] = "done" => Happened(hand[v])'
    BY <2>1, <2>2, <2>4, <2>6, <2>9 DEF EffectInv
  <2>11. /\ \A v \in Workers : phase'[v] # "claimed"
         /\ \A v \in Workers : phase'[v] = "parked" => hand'[v] \in dlq'
    BY <2>1, <2>2 DEF EffectInv
  <2>12. QED
    BY <2>7, <2>8, <2>10, <2>11, Zenon DEF EffectInv
<1>2. ASSUME NEW w \in Workers, ClaimOnPool(w) \/ FanOut(w) PROVE EffectInv'
  <2>1. /\ ~ClaimInTx' /\ UNCHANGED <<hand, dlq>>
        /\ \A v \in Workers : phase'[v] = "parked" => phase[v] = "parked"
    BY <1>2 DEF ClaimOnPool, FanOut, brokerVars, EffectInv, TypeOK
  <2>2. QED
    BY <2>1 DEF EffectInv
<1>3. ASSUME NEW w \in Workers, RejectMalformed(w) \/ Ack(w) \/ Term(w) PROVE EffectInv'
  <2>1. /\ settled' = settled \cup {hand[w]}
        /\ UNCHANGED <<ClaimInTx, claimed, effects, dlq>>
        /\ \A v \in Workers : phase'[v] # "idle" => phase'[v] = phase[v] /\ hand'[v] = hand[v]
    BY <1>3 DEF RejectMalformed, Ack, Term, Settle, BackToLoop, TypeOK
  <2>2. ClaimInTx => hand[w] \in Malformed \cup dlq \/ Happened(hand[w])
    BY <1>3 DEF RejectMalformed, Ack, Term, EffectInv
  <2>3. ClaimInTx => NoAckWithoutEffect'
    BY <2>1, <2>2 DEF EffectInv, NoAckWithoutEffect, Happened, Copies
  <2>4. QED
    BY <2>1, <2>3 DEF EffectInv, Happened, Copies
<1>4. ASSUME NEW w \in Workers, \/ HandlerThrows(w) \/ Nak(w) \/ DeadLetter(w)
                                \/ AckLost(w) \/ Crash(w)
      PROVE  EffectInv'
  BY <1>4, QuietStep DEF HandlerThrows, Nak, DeadLetter, AckLost, Crash, BackToLoop, brokerVars,
     TypeOK
<1>5. ASSUME NEW w \in Workers, NEW m \in Messages, Deliver(w, m) PROVE EffectInv'
  BY <1>5, QuietStep DEF Deliver, TypeOK
<1>6. CASE (\E m \in Messages : LeaseExpires(m)) \/ UNCHANGED vars
  BY <1>6, QuietStep DEF LeaseExpires, vars, brokerVars
<1>7. QED
  BY <1>1, <1>2, <1>3, <1>4, <1>5, <1>6 DEF Next, Dispatch

\* With the claim in the transaction, as createNotification has it, no message
\* leaves the broker before its event had its effect, unless it does not parse
\* or is in the dead-letter stream.
THEOREM AckAfterEffect == Spec => []NoAckWithoutEffect
<1>1. EffectInv => NoAckWithoutEffect
  BY DEF EffectInv, NoAckWithoutEffect
<1>2. QED
  BY <1>1, TypeInit, TypeStep, EffectInit, EffectStep, PTL DEF Spec

(* ------------------------- The delivery budget ------------------------- *)

\* Until something fails, the last delivery of an unsettled message is in the
\* hands of a worker, who may not nak it.
LastDelivery ==
  faults = 0 =>
    \A m \in Messages \ settled : deliveries[m] = MaxDeliver =>
      \E w \in Workers : hand[w] = m /\ attempt[w] = MaxDeliver

\* No delivery is used up at the start.
LEMMA LastInit == Init => LastDelivery
  BY ConsumerAssumption DEF Init, LastDelivery

\* A worker lets go of a last delivery only by settling it or through a fault.
LEMMA LastStep == TypeOK /\ LastDelivery /\ [Next]_vars => LastDelivery'
<1> SUFFICES ASSUME TypeOK, LastDelivery, [Next]_vars PROVE LastDelivery'
  OBVIOUS
<1>1. ASSUME NEW w \in Workers, NEW m \in Messages, Deliver(w, m) PROVE LastDelivery'
  <2>1. /\ hand[w] = None /\ UNCHANGED <<settled, faults>>
        /\ hand' = [hand EXCEPT ![w] = m]
        /\ attempt' = [attempt EXCEPT ![w] = deliveries[m] + 1]
        /\ deliveries' = [deliveries EXCEPT ![m] = @ + 1]
    BY <1>1 DEF Deliver, TypeOK
  <2>2. QED
    BY <2>1, ConsumerAssumption DEF LastDelivery, TypeOK
<1>2. ASSUME NEW w \in Workers, AckLost(w) \/ Crash(w) PROVE LastDelivery'
  <2>1. faults' > 0 /\ faults' \in Nat
    BY <1>2, FaultCounted, ConsumerAssumption DEF AckLost, Crash
  <2>2. QED
    BY <2>1 DEF LastDelivery
<1>3. ASSUME NEW w \in Workers, RejectMalformed(w) \/ Ack(w) \/ Term(w) PROVE LastDelivery'
  BY <1>3 DEF RejectMalformed, Ack, Term, Settle, BackToLoop, LastDelivery, TypeOK
<1>4. ASSUME NEW w \in Workers, Nak(w) PROVE LastDelivery'
  <2>1. /\ attempt[w] # MaxDeliver
        /\ hand' = [hand EXCEPT ![w] = None]
        /\ UNCHANGED <<attempt, deliveries, settled, faults>>
    BY <1>4, ConsumerAssumption DEF Nak, BackToLoop, TypeOK
  <2>2. QED
    BY <2>1 DEF LastDelivery, TypeOK
<1>5. CASE UNCHANGED <<hand, attempt, deliveries, settled, faults>>
  BY <1>5 DEF LastDelivery
<1>6. QED
  BY <1>1, <1>2, <1>3, <1>4, <1>5 DEF Next, Dispatch, HandleInTx, ClaimOnPool, FanOut,
     HandlerThrows, DeadLetter, LeaseExpires, vars, brokerVars

\* handleFailure never runs a message out of deliveries without parking it:
\* only a crash or a failed dead-letter publish can.
THEOREM Budget == Spec => []NothingDroppedQuietly
<1>1. TypeOK /\ LastDelivery => NothingDroppedQuietly
  BY DEF TypeOK, LastDelivery, NothingDroppedQuietly, Exhausted
<1>2. QED
  BY <1>1, TypeInit, TypeStep, LastInit, LastStep, PTL DEF Spec

(* ----------------------------- Refinement ------------------------------ *)

\* A worker that acts, fails or parks has a message that parses; one that is
\* done has seen its effect or its event's claim.
HandInv ==
  \A w \in Workers :
    /\ phase[w] \in {"claimed", "failed"} => hand[w] \notin Malformed
    /\ phase[w] = "done" => effects[hand[w]] > 0 \/ EventOf[hand[w]] \in claimed

\* A step that keeps claims and effects, and ends no handler, keeps it.
LEMMA HandKept ==
  ASSUME HandInv, UNCHANGED <<claimed, effects>>,
         \A w \in Workers : phase'[w] \in {"claimed", "failed", "done"} =>
           \/ phase'[w] = phase[w] /\ hand'[w] = hand[w]
           \/ phase'[w] = "failed" /\ hand'[w] \notin Malformed
  PROVE  HandInv'
  BY DEF HandInv

LEMMA HandStep == TypeOK /\ HandInv /\ [Next]_vars => HandInv'
<1> SUFFICES ASSUME TypeOK, HandInv, [Next]_vars PROVE HandInv'
  OBVIOUS
<1>1. ASSUME NEW w \in Workers, HandleInTx(w) \/ ClaimOnPool(w) PROVE HandInv'
  <2>1. /\ hand[w] \in Messages /\ hand[w] \notin Malformed /\ UNCHANGED hand
        /\ phase' = [phase EXCEPT ![w] = IF phase'[w] = "done" THEN "done" ELSE "claimed"]
        /\ claimed' = claimed \cup ({EventOf[hand[w]]} \ {NoId})
        /\ \A m \in Messages : effects[m] > 0 => effects'[m] > 0
        /\ phase'[w] = "done" =>
             effects'[hand[w]] > 0 \/ EventOf[hand[w]] \in claimed
    BY <1>1, InHand DEF HandleInTx, ClaimOnPool, Handling, Claim, Wins, TypeOK
  <2>2. \A v \in Workers : phase[v] # "idle" => hand[v] \in Messages
    BY InHand
  <2>3. \A v \in Workers : v # w => phase'[v] = phase[v]
    BY <2>1 DEF TypeOK
  <2>4. QED
    BY <2>1, <2>2, <2>3 DEF HandInv
<1>2. ASSUME NEW w \in Workers, FanOut(w) PROVE HandInv'
  <2>1. /\ hand[w] \in Messages /\ UNCHANGED <<hand, claimed>>
        /\ phase' = [phase EXCEPT ![w] = "done"]
        /\ \A m \in Messages : effects[m] > 0 => effects'[m] > 0
        /\ effects'[hand[w]] > 0
    BY <1>2, InHand DEF FanOut, TypeOK
  <2>2. \A v \in Workers : phase[v] # "idle" => hand[v] \in Messages
    BY InHand
  <2>3. QED
    BY <2>1, <2>2 DEF HandInv, TypeOK
<1>3. ASSUME NEW w \in Workers, HandlerThrows(w) PROVE HandInv'
  <2>1. hand[w] \notin Malformed
    BY <1>3 DEF HandlerThrows, Handling, HandInv
  <2>2. QED
    BY <1>3, <2>1, HandKept DEF HandlerThrows, TypeOK
<1>4. ASSUME NEW w \in Workers, \/ RejectMalformed(w) \/ Ack(w) \/ Nak(w) \/ DeadLetter(w)
                                \/ Term(w) \/ AckLost(w) \/ Crash(w)
      PROVE  HandInv'
  BY <1>4, HandKept DEF RejectMalformed, Ack, Nak, DeadLetter, Term, AckLost, Crash, BackToLoop,
     TypeOK
<1>5. ASSUME NEW w \in Workers, NEW m \in Messages, Deliver(w, m) PROVE HandInv'
  BY <1>5, HandKept DEF Deliver, TypeOK
<1>6. CASE (\E m \in Messages : LeaseExpires(m)) \/ UNCHANGED vars
  BY <1>6, HandKept DEF LeaseExpires, vars
<1>7. QED
  BY <1>1, <1>2, <1>3, <1>4, <1>5, <1>6 DEF Next, Dispatch

\* A handler in a transaction begins and acts, or finds the event claimed.
LEMMA InTxMaps ==
  ASSUME TypeOK, NEW w \in Workers, HandleInTx(w)
  PROVE  Inbox!Next \/ UNCHANGED Inbox!vars
<1>1. hand[w] \in Messages \ Malformed
  BY InHand DEF HandleInTx, Handling
<1>2. CASE Wins(hand[w])
  <2>1. Inbox!BeginAndAct(hand[w])
    BY <1>2 DEF HandleInTx, Claim, Wins, brokerVars, Inbox!BeginAndAct, Inbox!Count, Inbox!Id
  <2>2. QED
    BY <1>1, <2>1 DEF Inbox!Next
<1>3. CASE ~Wins(hand[w])
  BY <1>3 DEF HandleInTx, Claim, Wins, brokerVars, Inbox!vars
<1>4. QED
  BY <1>2, <1>3

\* A claim on the pool begins an event, or finds it begun.
LEMMA PoolMaps ==
  ASSUME TypeOK, NEW w \in Workers, ClaimOnPool(w)
  PROVE  Inbox!Next \/ UNCHANGED Inbox!vars
<1>1. hand[w] \in Messages \ Malformed
  BY InHand DEF ClaimOnPool, Handling
<1>2. CASE Wins(hand[w])
  <2>1. Inbox!Begin(hand[w])
    BY <1>2 DEF ClaimOnPool, Claim, Wins, brokerVars, Inbox!Begin, Inbox!Id
  <2>2. QED
    BY <1>1, <2>1 DEF Inbox!Next
<1>3. CASE ~Wins(hand[w])
  BY <1>3 DEF ClaimOnPool, Claim, Wins, brokerVars, Inbox!vars
<1>4. QED
  BY <1>2, <1>3

\* The fan-out acts on an event only its worker has begun.
LEMMA FanOutMaps ==
  ASSUME TypeOK, ClaimInv, EffectInv, HandInv, NEW w \in Workers, FanOut(w)
  PROVE  Inbox!Next
<1>1. hand[w] \in Messages \ Malformed /\ ~ClaimInTx
  BY InHand DEF FanOut, HandInv, EffectInv
<1>2. EventOf[hand[w]] # NoId => EventOf[hand[w]] \in Ids
  BY <1>1 DEF Ids
<1>3. Inbox!Act(hand[w])
  BY <1>1, <1>2 DEF FanOut, brokerVars, ClaimInv, Copies, Inbox!Act, Inbox!Count
<1>4. QED
  BY <1>1, <1>3 DEF Inbox!Next

\* What a worker settles has a reason to leave.
LEMMA SettleMaps ==
  ASSUME TypeOK, EffectInv, HandInv, NEW w \in Workers,
         RejectMalformed(w) \/ Ack(w) \/ Term(w)
  PROVE  Inbox!Next
<1>1. hand[w] \in Messages
  BY InHand DEF RejectMalformed, Ack, Term
<1>2. \/ hand[w] \in Malformed \cup dlq
      \/ EventOf[hand[w]] \in claimed
      \/ effects[hand[w]] > 0
  BY DEF RejectMalformed, Ack, Term, EffectInv, HandInv
<1>3. Inbox!Leave(hand[w])
  BY <1>2 DEF RejectMalformed, Ack, Term, Settle, Inbox!Leave
<1>4. QED
  BY <1>1, <1>3 DEF Inbox!Next

LEMMA ParkMaps ==
  ASSUME TypeOK, HandInv, NEW w \in Workers, DeadLetter(w)
  PROVE  Inbox!Next
<1>1. hand[w] \in Messages \ Malformed
  BY InHand DEF DeadLetter, HandInv
<1>2. Inbox!Park(hand[w])
  BY DEF DeadLetter, Inbox!Park
<1>3. QED
  BY <1>1, <1>2 DEF Inbox!Next

\* Every step is one of the clerk's or does not show.
LEMMA InboxStep ==
  TypeOK /\ ClaimInv /\ EffectInv /\ HandInv /\ [Next]_vars => [Inbox!Next]_(Inbox!vars)
<1> SUFFICES ASSUME TypeOK, ClaimInv, EffectInv, HandInv, [Next]_vars
             PROVE  Inbox!Next \/ UNCHANGED Inbox!vars
  OBVIOUS
<1>1. ASSUME NEW w \in Workers, HandlerThrows(w) \/ Nak(w) \/ AckLost(w) \/ Crash(w)
      PROVE  UNCHANGED Inbox!vars
  BY <1>1 DEF HandlerThrows, Nak, AckLost, Crash, brokerVars, Inbox!vars
<1>2. ASSUME NEW w \in Workers, NEW m \in Messages, Deliver(w, m) PROVE UNCHANGED Inbox!vars
  BY <1>2 DEF Deliver, Inbox!vars
<1>3. ASSUME NEW m \in Messages, LeaseExpires(m) PROVE UNCHANGED Inbox!vars
  BY <1>3 DEF LeaseExpires, Inbox!vars
<1>4. CASE UNCHANGED vars
  BY <1>4 DEF vars, brokerVars, Inbox!vars
<1>5. QED
  BY <1>1, <1>2, <1>3, <1>4, InTxMaps, PoolMaps, FanOutMaps, SettleMaps, ParkMaps
     DEF Next, Dispatch

\* Several workers that share messages without knowing it, lost acks, crashes
\* and copies of an event show nothing but one clerk who empties an inbox.
THEOREM Refinement == Spec => ImplementsInbox
<1>1. Init => Inbox!Init /\ HandInv
  BY DEF Init, Inbox!Init, HandInv
<1>2. QED
  BY <1>1, TypeInit, TypeStep, ClaimInit, ClaimStep, EffectInit, EffectStep, HandStep,
     InboxStep, PTL DEF Spec, ImplementsInbox, Inbox!Spec
=============================================================================
