--------------------------- MODULE ChannelChatMC ---------------------------
(***************************************************************************)
(* Small instance of ChannelChat: two accounts, so that a switch, a sibling *)
(* of a pinned account and a lapsed account before a usable one exist.     *)
(***************************************************************************)
EXTENDS ChannelChat

CONSTANTS a1, a2

MCOrder == <<a1, a2>>
=============================================================================
