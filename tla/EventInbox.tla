----------------------------- MODULE EventInbox -----------------------------
(***************************************************************************)
(* What a durable consumer promises, as if one clerk emptied an inbox and  *)
(* was never interrupted: an event is acted on at most once, whatever      *)
(* number of messages carries it; a message leaves the inbox only when it  *)
(* does not parse, was parked for triage, had its effect, or carries an    *)
(* event that was begun.  A careful clerk begins and acts in one step, so  *)
(* what he has begun is done; another one may fall asleep in between.      *)
(***************************************************************************)
EXTENDS Naturals

CONSTANTS Messages, Malformed,
          EventOf,  \* the event a message carries, or NoId: then every copy
          NoId      \* counts as an event of its own, and may be acted on again

VARIABLES careful, begun, effects, parked, gone

vars == <<careful, begun, effects, parked, gone>>

Id(m) == {EventOf[m]} \ {NoId}

Init ==
  /\ careful \in BOOLEAN
  /\ begun = {}
  /\ effects = [m \in Messages |-> 0]
  /\ parked = {}
  /\ gone = {}

Count(m) == effects' = [effects EXCEPT ![m] = @ + 1]

BeginAndAct(m) ==
  /\ careful
  /\ EventOf[m] \notin begun
  /\ begun' = begun \cup Id(m)
  /\ Count(m)
  /\ UNCHANGED <<careful, parked, gone>>

Begin(m) ==
  /\ ~careful
  /\ EventOf[m] \notin begun
  /\ begun' = begun \cup Id(m)
  /\ UNCHANGED <<careful, effects, parked, gone>>

Act(m) ==
  /\ ~careful
  /\ EventOf[m] # NoId =>
       /\ EventOf[m] \in begun
       /\ \A n \in Messages : EventOf[n] = EventOf[m] => effects[n] = 0
  /\ Count(m)
  /\ UNCHANGED <<careful, begun, parked, gone>>

Park(m) ==
  /\ parked' = parked \cup {m}
  /\ UNCHANGED <<careful, begun, effects, gone>>

Leave(m) ==
  /\ m \in Malformed \cup parked \/ EventOf[m] \in begun \/ effects[m] > 0
  /\ gone' = gone \cup {m}
  /\ UNCHANGED <<careful, begun, effects, parked>>

Next ==
  \/ \E m \in Messages \ Malformed : BeginAndAct(m) \/ Begin(m) \/ Act(m) \/ Park(m)
  \/ \E m \in Messages : Leave(m)

Spec == Init /\ [][Next]_vars
=============================================================================
