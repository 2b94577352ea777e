---------------------------- MODULE MCEmailQueue ----------------------------
(***************************************************************************)
(* Two replicas.  notice and again are two deliveries of one notification; *)
(* other is a SendEmail call for somebody without preferences.             *)
(***************************************************************************)
EXTENDS EmailQueue, TLC

CONSTANTS notice, again, other, k1, k2, w1, w2

MCMail == {notice, again, other}
MCKeys == {k1, k2}
MCKeyOf == notice :> k1 @@ again :> k1 @@ other :> k2
MCNoticeMail == {notice, again}
MCUnsteady == {notice}
MCOwnedMail == {notice, again}
MCRank == notice :> 3 @@ again :> 3 @@ other :> 1
MCWorkers == {w1, w2}
=============================================================================
