-------------------------- MODULE MCMatchingStage --------------------------
(***************************************************************************)
(* Instances of MatchingStage for TLC: three articles about one            *)
(* organisation, or another, with and without a version.                   *)
(***************************************************************************)
EXTENDS MatchingStage, TLC

CONSTANTS a1, a2, a3, c1, c2

Says(product, version, nature, prose, url, day) ==
    [product |-> product, version |-> version, nature |-> nature, names |-> {"model"},
     prose |-> prose, cats |-> {"ai"}, url |-> url, day |-> day, thin |-> FALSE]

Price == {<<"price", "20">>}

Texts ==
    {Says("openai", None, "launch", {}, "u1", 0),
     Says("openai", "gpt-5", "launch", {}, "u2", 20),
     Says("openai", "gpt-6", "launch", Price, "u1", 0),
     Says("openai", "gpt-5", "update", Price, None, None),
     Says(None, None, "paper", Price, "u3", 0),
     [Says("meta", None, "other", {}, "u4", None) EXCEPT !.names = {}]}

TwoTexts ==
    {Says("openai", None, "launch", {}, "u1", 0),
     Says("openai", "gpt-6", "launch", Price, "u1", 0)}

\* Cycles of one article each, whatever they say, with every folder a candidate or
\* only the latest; and two cycles of two articles side by side, while an article
\* is edited.
OneByOne   == [cycles |-> {c1}, texts |-> Texts, take |-> 3, batch |-> 1, edits |-> 0]
LatestOnly == [OneByOne EXCEPT !.take = 1]
Overlap    == [cycles |-> {c1, c2}, texts |-> TwoTexts, take |-> 3, batch |-> 2, edits |-> 1]
Worlds     == {OneByOne, LatestOnly, Overlap}
=============================================================================
