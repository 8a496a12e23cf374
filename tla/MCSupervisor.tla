---------------------------- MODULE MCSupervisor ----------------------------
(***************************************************************************)
(* Two files, fetched by two threads.                                      *)
(***************************************************************************)
EXTENDS Supervisor

CONSTANTS f, g

FilesDef == {f, g}

=============================================================================
