---------------------------- MODULE MCChatState ----------------------------
(***************************************************************************)
(* Two peers, four messages and three turns, for TLC.                      *)
(***************************************************************************)
EXTENDS ChatState, TLC

Interchangeable == Permutations(Peers)
=============================================================================
