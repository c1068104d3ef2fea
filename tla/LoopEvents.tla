----------------------------- MODULE LoopEvents -----------------------------
(***************************************************************************)
(* The events pd_receiver_loop_run passes to its callback, and the order   *)
(* in which it does: ReceivePipeline is shown to keep to it, ReceiverApp   *)
(* relies on it.                                                           *)
(***************************************************************************)
Event == {"READY", "FILE_STARTED", "PROGRESS", "VERIFYING", "COMPLETE", "FAILED"}

\* The events that may follow e; "NONE" stands for the call of the loop.
EventAfter(e) ==
    CASE e = "NONE"                      -> {"READY"}
      [] e = "READY"                     -> {"FILE_STARTED", "VERIFYING", "FAILED"}
      [] e \in {"FILE_STARTED", "PROGRESS"} -> {"PROGRESS", "VERIFYING", "FAILED"}
      [] e = "VERIFYING"                 -> {"COMPLETE", "FAILED"}
      [] OTHER                           -> {}
=============================================================================
