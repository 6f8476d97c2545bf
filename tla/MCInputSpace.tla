---------------------------- MODULE MCInputSpace ----------------------------
(***************************************************************************)
(* An instance of InputSpace for TLC: scores and lengths on both sides of  *)
(* each threshold, folders that fit, that are cut and that are refused,    *)
(* and registries of up to three entries of every kind.                    *)
(***************************************************************************)
EXTENDS InputSpace

SomeScores == {0, 44, 50, 64, 75, 86, 100}

\* 2624 is what the other parts of the longest embed leave to its summary.
SomeMainInputs ==
    [title : {0, 1, 88, 92, 256, 300}, summary : {0, 1, 2616, 3000, 4096, 5000},
     category : {5, 1024, 1100}, pertinence : {8, 1024, 1100}, list : {0, 40, 1024, 2000},
     url : {0, 20, 1741, 2100}, id : {25}] \cap MainInput

SomeEnrichmentInputs ==
    [facts : {0, 1, 4096, 5000}, list : {0, 40, 1024, 2000}, url : {0, 20, 1975, 2100},
     id : {25}, fingerprint : {0, 4, 64}] \cap EnrichmentInput

SomeWords == {"id", "t", "h", "i", "j", "k", "e", "p", "q", "v2", "a", "b", "c", "d",
              "x", "y", "z", "r", "s", "u", "w"}

Article(role, at, head, body) ==
    [role |-> role, attachedAt |-> at, meta |-> <<"id">>, head |-> head, body |-> body]

\* A primary article and two enrichments, attached in either order, of few words or
\* of more than an article may have, with short heads and with long ones.
SomeFolders ==
    {[title |-> <<"t">>,
      articles |-> <<Article("primary", 0, h, b),
                     Article("enrichment", at, <<"e">>, <<"p", "q", "v2">>),
                     Article("enrichment", 2, h, c)>>,
      facts |-> f] :
        h \in {<<"h">>, <<"h", "i", "j", "k">>},
        b \in {<<>>, <<"a", "b">>, <<"a", "b", "c", "d">>},
        c \in {<<>>, <<"x">>, <<"x", "y", "a", "z">>},
        at \in {1, 2, 3},
        f \in {<<>>,
               <<[priority |-> 3, line |-> <<"r">>], [priority |-> 0, line |-> <<"s", "u">>]>>,
               <<[priority |-> 1, line |-> <<"s", "u">>], [priority |-> 1, line |-> <<"r", "w">>]>>}}

Fact(key, value, support) == [key |-> key, value |-> value, support |-> support]

SomeProposals ==
    {<<Fact("k", <<v>>, "explicit"), Fact("l", <<"v2", v>>, "explicit"),
       Fact("k", <<v, w>>, "explicit"), Fact("m", <<w>>, "inferred")>> :
        v, w \in {"a", "d", "h", "q", "r", "y"}}

AnEntry(id, page, form, shaped, provider, enabled) ==
    [id |-> id, url |-> [page |-> page, form |-> form], shaped |-> shaped,
     provider |-> provider, enabled |-> enabled]

SomeEntries ==
    {AnEntry(id, page, form, shaped, "rss", TRUE) :
        id \in {"i", "j"}, page \in {"p", "q"}, form \in {"plain", "slash"}, shaped \in BOOLEAN}
    \cup {AnEntry("i", "p", "plain", TRUE, "html", enabled) : enabled \in BOOLEAN}
=============================================================================
