----------------------------- MODULE MCRecorder -----------------------------
(* Instances of Recorder for TLC. *)
EXTENDS Recorder

MCInitialPage == {"stack"}
MCPages == {"stack", "new"}
=============================================================================
