--------------------------- MODULE AnalysisDecision ---------------------------
(***************************************************************************)
(* What the backend makes of the scores the model gave to a folder, in     *)
(* packages/analysis/src: the scoring by source tier (analysis-scoring.ts),*)
(* the publication decision and the channel hint (analysis-decision.ts),   *)
(* and those of the deterministic fallback.  Pure operators, no state.     *)
(*                                                                         *)
(* The multipliers are in hundredths and the weights in fifths: for scores *)
(* from 0 to 100 the doubles of the code round to the same integers.       *)
(***************************************************************************)
EXTENDS Integers

Tier == {"S", "A", "B", "C", "D", "E"}
Worthiness == {"none", "low", "medium", "high"}
Score == 0 .. 100

TierRank == [S |-> 6, A |-> 5, B |-> 4, C |-> 3, D |-> 2, E |-> 1]

TierMultiplier == [S |-> 110, A |-> 105, B |-> 100, C |-> 95, D |-> 90, E |-> 85]

IsTierStrictlyHigher(t, u) == TierRank[t] > TierRank[u]

\* The best tier among those of the articles, E when there is none.
ResolveBestSourceTier(tiers) ==
    IF tiers = {} THEN "E"
    ELSE CHOOSE t \in tiers : \A u \in tiers : ~IsTierStrictlyHigher(u, t)

ClampInt(x, low, high) == IF x < low THEN low ELSE IF x > high THEN high ELSE x

Effective(score, tier) == ClampInt((score * TierMultiplier[tier]) \div 100, 0, 100)

\* round(0.4 relevance + 0.4 impact + 0.2 novelty)
Composite(relevance, impact, novelty, tier) ==
    LET fifths == 2 * Effective(relevance, tier) + 2 * Effective(impact, tier) + novelty
    IN  ClampInt((2 * fifths + 5) \div 10, 0, 100)

-----------------------------------------------------------------------------
MeetsPublish(composite, worthiness, hasMain) ==
    /\ ~hasMain
    /\ composite >= 70
    /\ worthiness = "none" => composite >= 90
    /\ worthiness = "low"  => composite >= 85

MeetsEnrichThreadOnly(composite, hasMain, material, facts) ==
    /\ hasMain /\ material
    /\ composite >= 50 \/ facts >= 1

\* Mutant of MeetsRejectEditorialScores: the worthiness is read the wrong way.
RejectWorthy(composite, worthiness) ==
    composite < 45 \/ (worthiness # "none" /\ composite < 70)

MeetsRejectEditorialScores(composite, worthiness) ==
    composite < 45 \/ (worthiness = "none" /\ composite < 70)

\* For an accepted proposal.  holds: the decisions hold already recorded for the
\* same content of the folder.
DecidePublication(composite, worthiness, hasMain, material, facts, holds) ==
    IF MeetsPublish(composite, worthiness, hasMain) THEN "publish"
    ELSE IF MeetsEnrichThreadOnly(composite, hasMain, material, facts) THEN "enrich_thread_only"
    ELSE IF holds >= 2 \/ MeetsRejectEditorialScores(composite, worthiness)
      THEN "reject_editorial"
    ELSE "hold"

\* Mutant of MapChannelSalonHint: a strict threshold.
ChannelHintAboveSeventy(composite, impact, major, role) ==
    IF composite >= 85 /\ (impact >= 80 \/ major) THEN "annonces_majeures"
    ELSE IF composite > 70 /\ role = "flux_ia" THEN "flux_ia"
    ELSE IF composite > 70 THEN "veille_pertinente"
    ELSE "none"

\* impact: the effective one.  major: the category is model_release or funding_or_corp.
MapChannelSalonHint(composite, impact, major, role) ==
    IF composite >= 85 /\ (impact >= 80 \/ major) THEN "annonces_majeures"
    ELSE IF composite >= 70 /\ role = "flux_ia" THEN "flux_ia"
    ELSE IF composite >= 70 THEN "veille_pertinente"
    ELSE "none"
-----------------------------------------------------------------------------
\* The deterministic fallback publishes with scores of its own ...
FallbackComposite(tier) == Composite(90, 88, 85, tier)

\* ... and a channel hint of its own.
FallbackChannel(tier) ==
    IF FallbackComposite(tier) >= 85 THEN "annonces_majeures" ELSE "veille_pertinente"
=============================================================================
