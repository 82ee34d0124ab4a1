---------------------- MODULE MCHybridModelAsyncExecutor ----------------------
(***************************************************************************)
(* Three stages on two executors, calls of one to four iterations, two     *)
(* inputs and two rounds of Start and Stop.                                *)
(***************************************************************************)
EXTENDS HybridModelAsyncExecutor

MCLoopCounts == 1 .. 4

MCFaults == {"context", "reset", "register", "launch", "callback", "sync", "outputs", "device",
             "prerun", "copy"}

=============================================================================
