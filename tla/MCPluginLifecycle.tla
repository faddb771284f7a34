------------------------- MODULE MCPluginLifecycle -------------------------
(* An instance of PluginLifecycle for TLC. *)
EXTENDS PluginLifecycle
=============================================================================
