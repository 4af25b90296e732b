---------------------------- MODULE MCChannelBus ----------------------------
(* ChannelBus with few agents, posters and connections. *)
EXTENDS ChannelBus

=============================================================================
