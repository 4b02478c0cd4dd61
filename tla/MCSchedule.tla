---------------------------- MODULE MCSchedule ----------------------------
(* Schedule with its bounds; the properties are those of the module. *)
EXTENDS Schedule
===========================================================================
