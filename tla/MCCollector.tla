----------------------------- MODULE MCCollector -----------------------------
EXTENDS Collector, TLC
CONSTANTS s1, s2, u1, u2, pub, priv

Urls == s1 :> u1 @@ s2 :> u2

Item(ext, url, track, text) ==
    [ext |-> ext, url |-> url, track |-> track, text |-> text, ok |-> TRUE]

\* s1: an item whose link gets another campaign, and one that has no title at first.
\* s2: an item without an id, then two with ids, one of them the id of an item of s1.
Feeds ==
    s1 :> << <<Item("g", "p", "x", "a"), [Item("h", "p", "x", "b") EXCEPT !.ok = FALSE]>>,
             <<Item("g", "p", "y", "a"), Item("h", "p", "y", "b")>> >>
 @@ s2 :> << <<Item(None, "q", "x", "c")>>,
             <<Item("g", "q", "x", "c"), Item("h", "q", "x", "d")>> >>

V(v1, v2) == s1 :> v1 @@ s2 :> v2
Sound == [faults |-> FALSE, versions |-> V(2, 2)]
Faulty == [faults |-> TRUE, versions |-> V(1, 2)]
AllWorlds == {Sound, Faulty}
===============================================================================
