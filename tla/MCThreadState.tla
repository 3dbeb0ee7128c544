---------------------------- MODULE MCThreadState ----------------------------
(* Two callers on one ThreadState object. *)
EXTENDS ThreadState

MCState == {"Reserved", "Ready", "Inactive", "ShuttingDown", "Done", "TransitionRequested"}
MCWaitSet == {{"Ready", "ShuttingDown", "Done"}, {"TransitionRequested", "ShuttingDown"}}
=============================================================================
