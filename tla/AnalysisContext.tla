---------------------------- MODULE AnalysisContext ----------------------------
(***************************************************************************)
(* What the model is shown of a folder, and which of the facts it proposes *)
(* are retained: packages/analysis/src/analysis-context-builder.ts and     *)
(* analysis-fact-validation.ts.                                            *)
(*                                                                         *)
(* A text is a sequence of words, each of length one.  An article has a    *)
(* role, metadata (its id and tier), a head (its title and URL), a body    *)
(* (summary and content) and the time it was attached at.  Headings and    *)
(* separators count with the texts they go with.  A token is looked for    *)
(* among the words: that it may be a part of a longer one is left out.     *)
(***************************************************************************)
EXTENDS Integers, Sequences, FiniteSets, FiniteSetsExt, SequencesExt

CONSTANTS
    CONTEXT_BODY_MAX_CHARS,
    CONTEXT_ARTICLE_MAX_CHARS,
    CONTEXT_FACTS_MAX_CHARS,
    Word,
    Short      \* the words too short to be significant

ASSUME ContextAssumption ==
    {CONTEXT_BODY_MAX_CHARS, CONTEXT_ARTICLE_MAX_CHARS, CONTEXT_FACTS_MAX_CHARS} \subseteq Nat

Text == Seq(Word)

Enrichments(in) == {n \in DOMAIN in.articles : in.articles[n].role = "enrichment"}
Primary(in) == DOMAIN in.articles \ Enrichments(in)

\* One article is the primary one.  Facts are prior by what their keys speak of, then by
\* their keys.
Folder ==
    {in \in [title : Text,
             articles : Seq([role : {"primary", "enrichment"}, attachedAt : Nat,
                             meta : Text, head : Text, body : Text]),
             facts : Seq([priority : Nat, line : Text])] : Cardinality(Primary(in)) = 1}

Truncate(text, max) == SubSeq(text, 1, IF Len(text) <= max THEN Len(text) ELSE max)

\* How many of S go before n.
Rank(S, before, n) == Cardinality({m \in S : <<m, n>> \in before})

\* Dates, versions and availability first.
PrioritizeFacts(facts) ==
    LET before == {p \in (DOMAIN facts) \X (DOMAIN facts) :
                      \/ facts[p[1]].priority < facts[p[2]].priority
                      \/ facts[p[1]].priority = facts[p[2]].priority /\ p[1] < p[2]}
    IN  [k \in DOMAIN facts |->
            CHOOSE n \in DOMAIN facts : Rank(DOMAIN facts, before, n) = k - 1]

\* The lines of the facts up to the first that does not fit.
TruncateFactsText(facts, max) ==
    LET order == PrioritizeFacts(facts)
        First(n) == FlattenSeq([k \in 1 .. n |-> facts[order[k]].line])
    IN  First(Max({n \in 0 .. Len(facts) : Len(First(n)) <= max}))

\* What is left of an article.
Slice(in, emptied, n) ==
    in.articles[n].head \o (IF n \in emptied THEN <<>>
                            ELSE Truncate(in.articles[n].body, CONTEXT_ARTICLE_MAX_CHARS))

\* The prompt, without the bodies of the articles emptied.
RenderBody(in, emptied, factsText) ==
    in.title
    \o FlattenSeq([n \in DOMAIN in.articles |-> in.articles[n].meta \o Slice(in, emptied, n)])
    \o factsText

Fits(in, emptied, factsText) ==
    Len(RenderBody(in, emptied, factsText)) <= CONTEXT_BODY_MAX_CHARS

OldestFirst(in) ==
    {p \in Enrichments(in) \X Enrichments(in) :
        \/ in.articles[p[1]].attachedAt < in.articles[p[2]].attachedAt
        \/ in.articles[p[1]].attachedAt = in.articles[p[2]].attachedAt /\ p[1] < p[2]}

\* The articles emptied: as many enrichments, from the oldest, as it takes, then the
\* primary article.
Emptied(in, factsText) ==
    LET First(n) == {m \in Enrichments(in) : Rank(Enrichments(in), OldestFirst(in), m) < n}
        enough == {n \in 0 .. Cardinality(Enrichments(in)) : Fits(in, First(n), factsText)}
    IN  IF enough = {} THEN DOMAIN in.articles ELSE First(Min(enough))

\* The budgets the facts are given in turn: the first one, then halved each time.
Budgets ==
    LET Halved(n) == CONTEXT_FACTS_MAX_CHARS \div (2 ^ n)
    IN  {CONTEXT_FACTS_MAX_CHARS}
        \cup {b \in 0 .. CONTEXT_FACTS_MAX_CHARS :
                 \E n \in 1 .. CONTEXT_FACTS_MAX_CHARS : b = Halved(n)}

BuildAnalysisContext(in) ==
    LET whole == TruncateFactsText(in.facts, CONTEXT_FACTS_MAX_CHARS)
        emptied == Emptied(in, whole)
        enough == {b \in Budgets : Fits(in, emptied, TruncateFactsText(in.facts, b))}
        factsText == IF enough = {} THEN <<>> ELSE TruncateFactsText(in.facts, Max(enough))
    IN  [ok |-> Fits(in, emptied, factsText), emptied |-> emptied, factsText |-> factsText]

AnchorText(in, emptied, factsText) ==
    in.title \o FlattenSeq([n \in DOMAIN in.articles |-> Slice(in, emptied, n)]) \o factsText

\* Mutant of AggregateAnchorText: the articles as they were before the reduction.
AggregateAnchorTextUnreduced(in, c) == AnchorText(in, {}, c.factsText)

\* The text that facts are anchored in: what is shown, without the ids and the tiers.
AggregateAnchorText(in, c) == AnchorText(in, c.emptied, c.factsText)

-----------------------------------------------------------------------------
Words(text) == Range(text)
SignificantTokens(text) == Words(text) \ Short

\* A value is found as it stands, or all its significant words are.
IsFactAnchored(fact, text) ==
    /\ fact.value # <<>>
    /\ \/ fact.value \in SubSeqs(text)
       \/ /\ SignificantTokens(fact.value) # {}
          /\ SignificantTokens(fact.value) \subseteq Words(text)

\* Inferred facts are dropped, and of those with one key all but the first.
ValidateAndAnchorFacts(proposed, text) ==
    LET Candidate(n) == proposed[n].support # "inferred" /\ IsFactAnchored(proposed[n], text)
    IN  {n \in DOMAIN proposed :
            /\ Candidate(n)
            /\ \A m \in 1 .. n - 1 : Candidate(m) => proposed[m].key # proposed[n].key}

-----------------------------------------------------------------------------
(***************************************************************************)
(* A fact that is retained stands in what the model was shown, not in a    *)
(* part of an article that the reduction took away: two texts, built by    *)
(* two functions, have to agree.                                           *)
(***************************************************************************)
FactsWereShown(in, proposed) ==
    LET c == BuildAnalysisContext(in)
        prompt == RenderBody(in, c.emptied, c.factsText)
    IN  c.ok => \A n \in ValidateAndAnchorFacts(proposed, AggregateAnchorText(in, c)) :
                    SignificantTokens(proposed[n].value) \subseteq Words(prompt)

(***************************************************************************)
(* A folder is refused only when its title and the heads of its articles   *)
(* are too long by themselves, and then it is.                             *)
(***************************************************************************)
OnlyHeadsRefuse(in) ==
    BuildAnalysisContext(in).ok <=> Fits(in, DOMAIN in.articles, <<>>)

(***************************************************************************)
(* What is taken away follows the order the code documents: an enrichment  *)
(* before a more recent one, the enrichments before the primary article,   *)
(* the articles before the facts.                                          *)
(***************************************************************************)
ReductionOrder(in) ==
    LET c == BuildAnalysisContext(in)
    IN  /\ \A m, n \in Enrichments(in) :
              in.articles[m].attachedAt < in.articles[n].attachedAt /\ n \in c.emptied
                  => m \in c.emptied
        /\ c.emptied \cap Primary(in) # {} => Enrichments(in) \subseteq c.emptied
        /\ c.factsText # TruncateFactsText(in.facts, CONTEXT_FACTS_MAX_CHARS)
               => c.emptied = DOMAIN in.articles
=============================================================================
