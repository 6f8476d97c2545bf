-------------------------- MODULE MCAnalysisAttempts --------------------------
(***************************************************************************)
(* Instances of AnalysisAttempts for TLC: a cycle, a forced reanalysis and *)
(* the catch-up script on one folder.                                      *)
(***************************************************************************)
EXTENDS AnalysisAttempts, TLC

CONSTANTS cycle, bot, script

Kinds == cycle :> "cycle" @@ bot :> "reanalyse" @@ script :> "catch_up"

Gives(composite) == [composite |-> composite, worthiness |-> "medium", facts |-> 1]

\* To be held; to be held or published.
Middling == {Gives(60)}
HeldOrNot == {Gives(60), Gives(80)}

\* Three analyses at a time; a number is tried twice.
Concurrent == [tasks |-> Task, exclusive |-> FALSE, importance |-> "ordinary",
               answers |-> Middling, tries |-> 2, versions |-> 2, analyses |-> 3]
\* One analysis at a time, five in all, with the deterministic fallback.
Serial     == [tasks |-> Task, exclusive |-> TRUE, importance |-> "major",
               answers |-> HeldOrNot, tries |-> 5, versions |-> 2, analyses |-> 5]
\* A critical announcement, which does not wait for the model.
Critical   == [tasks |-> {cycle, script}, exclusive |-> FALSE, importance |-> "critical",
               answers |-> HeldOrNot, tries |-> 5, versions |-> 2, analyses |-> 4]
\* One content, analysed five times by two tasks.
Repeated   == [tasks |-> {cycle, script}, exclusive |-> FALSE, importance |-> "ordinary",
               answers |-> Middling, tries |-> 2, versions |-> 1, analyses |-> 5]

All == {Concurrent, Serial, Critical, Repeated}
===============================================================================
