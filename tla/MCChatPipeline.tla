--------------------------- MODULE MCChatPipeline ---------------------------
(***************************************************************************)
(* Instances of ChatPipeline; the participants are those of MCChatStore.   *)
(***************************************************************************)
EXTENDS ChatPipeline, MCChatStore
=============================================================================
