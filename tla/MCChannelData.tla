--------------------------- MODULE MCChannelData ---------------------------
(***************************************************************************)
(* TLC instance of ChannelData: the constants come from the .cfg files.    *)
(***************************************************************************)
EXTENDS ChannelData
=============================================================================
