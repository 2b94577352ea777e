----------------------------- MODULE MCGdprSaga -----------------------------
(***************************************************************************)
(* Two participants and one audit replica sweeping.  EmailKeyed is empty   *)
(* where no property looks at email-keyed rows.                            *)
(***************************************************************************)
EXTENDS GdprSaga

CONSTANTS pets, rescue, a1

MCServices == {pets, rescue}
MCEmailKeyed == {rescue}
MCNoneEmailKeyed == {}
MCSweepers == {a1}
=============================================================================
