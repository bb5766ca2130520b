---------------------- MODULE MCExecutionOptimizerLoop ----------------------
(* Four units, so that a replacement may come in several sizes, and three    *)
(* cycles, so that a replacement may itself be replaced before the timeout.  *)
EXTENDS ExecutionOptimizerLoop
=============================================================================
