-------------------------------- MODULE Traffic --------------------------------
(* What the pooler and the gateway have in common: the inference calls that  *)
(* pass through both, and the time.                                          *)
EXTENDS Integers, SequencesExt, FiniteSetsExt

CONSTANT Requests   \* inference calls
VARIABLE now
===============================================================================
