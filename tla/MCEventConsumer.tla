-------------------------- MODULE MCEventConsumer --------------------------
(***************************************************************************)
(* Two workers; two stored copies of one event, and a message that does    *)
(* not parse.                                                              *)
(***************************************************************************)
EXTENDS EventConsumer

CONSTANTS w1, w2, m1, m2, m3, event1

MCWorkers == {w1, w2}
MCMessages == {m1, m2, m3}
MCMalformed == {m3}
MCEventOf == [m \in MCMessages |-> IF m = m3 THEN NoId ELSE event1]
=============================================================================
