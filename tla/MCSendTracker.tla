--------------------------- MODULE MCSendTracker ---------------------------
(***************************************************************************)
(* Three turns with a cap of two sends, for TLC.                           *)
(***************************************************************************)
EXTENDS SendTracker
=============================================================================
