---------------------------- MODULE MCSharedStep ----------------------------
(* SharedStep with its bounds; the properties are those of the modules. *)
EXTENDS SharedStep
=============================================================================
