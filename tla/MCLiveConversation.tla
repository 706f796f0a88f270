------------------------- MODULE MCLiveConversation -------------------------
(***************************************************************************)
(* LiveConversation on small instances: the bounds are in the configs.     *)
(***************************************************************************)
EXTENDS LiveConversation, TLC

============================================================================
