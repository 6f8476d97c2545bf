--------------------------- MODULE MCPipelineLock ---------------------------
(***************************************************************************)
(* The instance of PipelineLock for TLC: the worker, the incarnation that  *)
(* takes its place or runs beside it, and a command of the bot, which      *)
(* nothing keeps starting.  A TTL of seven units against a heartbeat every *)
(* two leaves room for a call of one unit, as the configuration demands,   *)
(* and for one beat to be missed.                                          *)
(***************************************************************************)
EXTENDS PipelineLock

CONSTANTS w1, w2, b1        \* the holder ids

=============================================================================
