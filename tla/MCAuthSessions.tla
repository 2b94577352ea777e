-------------------------- MODULE MCAuthSessions ---------------------------
(***************************************************************************)
(* Three concurrent requests on an account with one open session.          *)
(***************************************************************************)
EXTENDS AuthSessions, TLC

CONSTANTS r1, r2, r3, code1

MCRequests == {r1, r2, r3}
MCCodes == {code1}
=============================================================================
