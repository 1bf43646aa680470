---------------------------- MODULE MCRemoteRun -----------------------------
(* RemoteRun on a restart or two and a few lines of output. *)
EXTENDS RemoteRun
=============================================================================
