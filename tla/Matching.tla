------------------------------ MODULE Matching ------------------------------
(***************************************************************************)
(* The deterministic matching engine of packages/shared/src: does an       *)
(* article tell of the event of an existing folder, and does it bring      *)
(* something new?  Pure operators, no state.                               *)
(*                                                                         *)
(* The text of an article is abstracted to what the regular expressions of *)
(* matching-signals.ts extract from it:                                    *)
(*   product   the first known organisation named, or None                 *)
(*   version   the version named, or None                                  *)
(*   nature    the first announcement nature that matches                  *)
(*   names     the other proper nouns kept as entities                     *)
(*   prose     the fact keys found (prices, dates, status, availability),  *)
(*             other than the version and correction facts                 *)
(*   cats, url, day   categories, canonical URL, day of publication        *)
(*   thin      whether the text is shorter than minPrimaryTextLength       *)
(* Source tiers only add a favourable signal no decision reads: left out.  *)
(***************************************************************************)
EXTENDS Integers, FiniteSets, FiniteSetsExt, Sequences

CONSTANTS
    None,                   \* undefined
    TemporalProximityDays,  \* 14
    MinSharedEntities       \* 1

ASSUME ThresholdAssumption ==
    TemporalProximityDays \in Nat /\ MinSharedEntities \in Nat \ {0}

Nature == {"launch", "update", "acquisition", "paper", "denial", "availability",
           "correction", "other"}
Issue == {"create_dossier", "attach_enrich", "duplicate_editorial", "ambiguous_no_action"}
Confidence == {"none", "low", "medium", "high"}

Defined(S) == S \ {None}

Facts(text) ==
    text.prose
      \cup {<<"version", v>> : v \in Defined({text.version})}
      \cup (IF text.nature = "denial" THEN {<<"correction", "denial">>} ELSE {})
      \cup (IF text.nature = "correction" THEN {<<"correction", "erratum">>} ELSE {})

FingerprintOf(text) ==
    [entities |-> text.names \cup Defined({text.product, text.version}),
     product  |-> text.product,
     version  |-> text.version,
     nature   |-> text.nature,
     known    |-> Facts(text),
     cats     |-> text.cats,
     urls     |-> Defined({text.url}),
     day      |-> text.day]

HasPrimaryInformation(text) ==
    /\ ~text.thin
    /\ \/ FingerprintOf(text).entities # {}
       \/ text.nature # "other"

\* The fingerprint of a folder, from the texts of its members in the order in
\* which they were attached: base ?? extra for the scalars, unions for the sets.
FirstOnly(s) == Head(s)

FirstDefined(s) ==
    LET defined == {i \in DOMAIN s : s[i] # None}
    IN  IF defined = {} THEN None ELSE s[Min(defined)]

MergeFingerprints(ps) ==
    LET All(f(_)) == UNION {f(ps[i]) : i \in DOMAIN ps}
        First(f(_)) == FirstDefined([i \in DOMAIN ps |-> f(ps[i])])
    IN  [entities |-> All(LAMBDA p : p.entities),
         product  |-> First(LAMBDA p : p.product),
         version  |-> First(LAMBDA p : p.version),
         nature   |-> ps[1].nature,
         known    |-> All(LAMBDA p : p.known),
         cats     |-> All(LAMBDA p : p.cats),
         urls     |-> All(LAMBDA p : p.urls),
         day      |-> First(LAMBDA p : p.day)]

-----------------------------------------------------------------------------
IncompatibleNatures ==
    {{"launch", "acquisition"}, {"paper", "acquisition"},
     {"availability", "acquisition"}, {"launch", "paper"}}

NaturesIncompatible(m, n) == {m, n} \in IncompatibleNatures

\* The signals between the fingerprint p of an article and q of a folder.
SameUrl(p, q)      == p.urls # {} /\ p.urls \subseteq q.urls
SameEntities(p, q) == Cardinality(p.entities \cap q.entities) >= MinSharedEntities
SameProduct(p, q)  == p.product # None /\ p.product = q.product
SameVersion(p, q)  == p.version # None /\ p.version = q.version
SameNature(p, q)   == p.nature # "other" /\ p.nature = q.nature
CategoryOverlap(p, q) == p.cats \cap q.cats # {}
TemporalProximity(p, q) ==
    /\ p.day # None /\ q.day # None
    /\ p.day - q.day \in -TemporalProximityDays .. TemporalProximityDays

Differ(x, y) == x # None /\ y # None /\ x # y

StrongIdentity(p) == p.product # None \/ p.version # None

\* Every conflict the code raises is both blocking and clearly distinct.
BlockingConflict(p, q) ==
    \/ Differ(p.product, q.product)
    \/ NaturesIncompatible(p.nature, q.nature)
    \/ Differ(p.version, q.version)
    \/ /\ StrongIdentity(p) \/ StrongIdentity(q)
       /\ ~SameEntities(p, q) /\ ~SameProduct(p, q)
       /\ p.entities # {} /\ q.entities # {} /\ p.entities \cap q.entities = {}

StrongCore(p, q) ==
    \/ SameUrl(p, q)
    \/ SameEntities(p, q) /\ SameNature(p, q) /\ SameVersion(p, q)
    \/ SameProduct(p, q) /\ SameNature(p, q) /\ SameVersion(p, q)
    \/ SameEntities(p, q) /\ SameVersion(p, q) /\ SameProduct(p, q)

MediumCore(p, q) ==
    \/ SameEntities(p, q) /\ SameNature(p, q)
    \/ SameEntities(p, q) /\ SameVersion(p, q)
    \/ SameProduct(p, q) /\ SameNature(p, q) /\ TemporalProximity(p, q)

CompareFingerprints(p, q) ==
    CASE BlockingConflict(p, q) -> "none"
      [] ~BlockingConflict(p, q) /\ StrongCore(p, q) -> "high"
      [] ~BlockingConflict(p, q) /\ ~StrongCore(p, q) /\ MediumCore(p, q) -> "medium"
      [] ~BlockingConflict(p, q) /\ ~StrongCore(p, q) /\ ~MediumCore(p, q) ->
            IF \/ SameEntities(p, q) \/ SameProduct(p, q)
               \/ CategoryOverlap(p, q) \/ TemporalProximity(p, q)
            THEN "low" ELSE "none"

Attachable(p, q) == CompareFingerprints(p, q) \in {"high", "medium"}

NovelFacts(p, q) == p.known \ q.known

-----------------------------------------------------------------------------
\* What the engine proposes for a text, given the candidate folders and their
\* fingerprints: an issue, and the folder the article is attached to or repeats.
Proposal(issue, folder) == [issue |-> issue, folder |-> folder]

EvaluateArticleHighOnly(text, candidates) ==
    LET p == FingerprintOf(text)
        top == {f \in DOMAIN candidates : CompareFingerprints(p, candidates[f]) = "high"}
    IN  IF top = {}
        THEN Proposal("create_dossier", None)
        ELSE Proposal("attach_enrich", CHOOSE f \in top : TRUE)

EvaluateArticle(text, candidates) ==
    LET p == FingerprintOf(text)
        Rated(c) == {f \in DOMAIN candidates : CompareFingerprints(p, candidates[f]) = c}
        top == IF Rated("high") # {} THEN Rated("high") ELSE Rated("medium")
    IN  IF ~HasPrimaryInformation(text) \/ Cardinality(top) > 1
          THEN Proposal("ambiguous_no_action", None)
        ELSE IF top # {}
          THEN LET best == CHOOSE f \in top : TRUE
               IN  IF NovelFacts(p, candidates[best]) # {}
                   THEN Proposal("attach_enrich", best)
                   ELSE Proposal("duplicate_editorial", best)
        ELSE IF Rated("low") # {}
          THEN Proposal("ambiguous_no_action", None)
        ELSE Proposal("create_dossier", None)
=============================================================================
