------------------------ MODULE MCChannelLifecycle -------------------------
(* ChannelLifecycle for TLC: the user may start the object twice.          *)
EXTENDS ChannelLifecycle
=============================================================================
