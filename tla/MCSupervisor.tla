---------------------------- MODULE MCSupervisor ----------------------------
(* Supervisor for TLC.  The .cfg files give it one scheduler job and at    *)
(* most one /rescan thread and one reindex call at a time.                 *)
EXTENDS Supervisor
=============================================================================
