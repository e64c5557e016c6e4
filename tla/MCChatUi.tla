------------------------------ MODULE MCChatUi ------------------------------
(* Two conversations and two phrases. *)
EXTENDS ChatUi
=============================================================================
