--------------------------- MODULE MCPublication ---------------------------
(***************************************************************************)
(* Instances of Publication for TLC: two tasks in processes of their own.  *)
(***************************************************************************)
EXTENDS Publication, TLC

CONSTANTS t1, t2, h1, h2

\* The worker and the bot, or the worker and the catch-up script.
OwnProcess == t1 :> h1 @@ t2 :> h2

AllCommands == {"publish", "enrich", "resume"}
CycleCatchUp == t1 :> AllCommands @@ t2 :> {"publish", "enrich"}

\* Side by side with one fault; in turn with three.
BothWorlds  == {[exclusive |-> FALSE, faults |-> 1], [exclusive |-> TRUE, faults |-> 3]}
\* Side by side, and nothing fails.
Overlapping == {[exclusive |-> FALSE, faults |-> 0]}
=============================================================================
