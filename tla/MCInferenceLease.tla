-------------------------- MODULE MCInferenceLease --------------------------
(***************************************************************************)
(* Instances of InferenceLease for TLC: the worker with one analysis at a  *)
(* time; the bot with a forced reanalysis and with two cycles, the older   *)
(* of which was robbed of the pipeline lock.                               *)
(***************************************************************************)
EXTENDS InferenceLease, TLC

CONSTANTS worker, bot, w1, b1, b2, b3

Processes == w1 :> worker @@ b1 :> bot @@ b2 :> bot @@ b3 :> bot
Kinds     == w1 :> "cycle" @@ b1 :> "cycle" @@ b2 :> "cycle" @@ b3 :> "reanalyse"
=============================================================================
