-------------------------- MODULE MCPipelineCycle --------------------------
(***************************************************************************)
(* An instance of PipelineCycle for TLC: two sources of one article each.  *)
(***************************************************************************)
EXTENDS PipelineCycle, TLC

CONSTANTS s1, s2, a1, a2

TwoSources == a1 :> s1 @@ a2 :> s2

Delays == <<1, 2>>

\* Every fault; and those that interrupt no cycle, while articles are edited.
Gentle == {"registry", "fetch", "analysis", "discord"}
Faulty  == [kinds |-> Gentle \cup Interrupting, versions |-> 1, faults |-> 2]
Edited  == [kinds |-> Gentle, versions |-> 2, faults |-> 1]
Both    == {Faulty, Edited}
=============================================================================
