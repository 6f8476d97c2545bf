------------------------------ MODULE RulesProofs ------------------------------
(***************************************************************************)
(* What holds of the pure functions (InputSpace) for inputs of any size,   *)
(* and of the matching of articles to folders (MatchingStage) for any      *)
(* number of articles, cycles and candidates.                              *)
(*                                                                         *)
(* The payloads of DiscordContent fit.  The embed of a main publication    *)
(* may be too long, but its parts other than the description sum to less   *)
(* than the total: the description is cut to what they leave, and nothing  *)
(* else happens to it.  The embed of an enrichment is never too long.      *)
(*                                                                         *)
(* The decision is monotone because each of its parts is: the effective    *)
(* scores in the score and the tier, the composite in the effective        *)
(* scores, and the decision in the composite, the worthiness and the facts.*)
(*                                                                         *)
(* The two readings of a registry agree as long as they are taken entry by *)
(* entry: until one is rejected they are the same, and then one stands.    *)
(*                                                                         *)
(* The context of an analysis rests on what FlattenSeq makes of texts, and *)
(* on ranks following an order: induction over a number is that of UpTo,   *)
(* on a set of numbers, for the provers know none on an operator.          *)
(*                                                                         *)
(* The matching stage rests on StageInv, by which the folders partition    *)
(* what is placed and the rows are those of articles met, and on EventInv, *)
(* by which a cycle that runs alone has the folders as they are.           *)
(***************************************************************************)
EXTENDS InputSpace, MatchingStage, FiniteSetTheorems, SequenceTheorems,
        WellFoundedInduction, TLAPS

-----------------------------------------------------------------------------
(* Numbers and sequences.                                                 *)

LEMMA MinOfNat ==
    ASSUME NEW T, T \subseteq Nat, T # {}
    PROVE  Min(T) \in T /\ \A y \in T : Min(T) <= y
<1>. DEFINE less == {p \in Nat \X Nat : p[1] < p[2]}
<1>1. IsWellFoundedOn(less, Nat)
  BY Zenon, NatLessThanWellFounded DEF OpToRel
<1>2. PICK x \in T : \A y \in T : <<y, x>> \notin less
  BY <1>1, WFMin
<1>3. ASSUME NEW y \in T PROVE x <= y
  <2>1. x \in Nat /\ y \in Nat /\ ~(<<y, x>> \in less)
    BY <1>2
  <2>2. <<y, x>> \in Nat \X Nat /\ <<y, x>>[1] = y /\ <<y, x>>[2] = x
    BY <2>1
  <2>3. ~(y < x)
    BY <2>1, <2>2
  <2>. QED
    BY <2>1, <2>3
<1>. QED
  BY <1>3 DEF Min

LEMMA UpTo ==
    ASSUME NEW T, NEW n \in Nat, 0 \in T, \A k \in 0 .. n - 1 : k \in T => k + 1 \in T
    PROVE  0 .. n \subseteq T
<1>. DEFINE left == (0 .. n) \ T
<1>1. CASE left # {}
  <2>1. /\ Min(left) \in left /\ \A y \in left : Min(left) <= y
    BY <1>1, MinOfNat
  <2>2. Min(left) - 1 \in 0 .. n - 1 /\ Min(left) - 1 \notin left
    BY <2>1
  <2>3. Min(left) - 1 \in T /\ Min(left) - 1 + 1 = Min(left)
    BY <2>1, <2>2
  <2>. QED
    BY <2>1, <2>2, <2>3
<1>. QED
  BY <1>1

LEMMA MaxOfBounded ==
    ASSUME NEW n \in Nat, NEW S, S \subseteq 0 .. n, S # {}
    PROVE  Max(S) \in S /\ \A y \in S : y <= Max(S)
<1>. DEFINE T == {n - x : x \in S}
<1>1. T \subseteq Nat /\ T # {}
  <2>1. \A x \in S : n - x \in Nat
    OBVIOUS
  <2>. QED
    BY <2>1
<1>2. Min(T) \in T /\ \A y \in T : Min(T) <= y
  BY <1>1, MinOfNat
<1>3. PICK x \in S : Min(T) = n - x
  BY <1>2
<1>4. ASSUME NEW y \in S PROVE x >= y
  <2>1. n - x <= n - y
    BY <1>2, <1>3
  <2>. QED
    BY <2>1
<1>5. \A y \in S : Max(S) >= y /\ Max(S) \in S
  BY <1>4 DEF Max
<1>. QED
  BY <1>5

LEMMA ElementOf ==
    ASSUME NEW S, NEW s \in Seq(S)
    PROVE  /\ DOMAIN s = 1 .. Len(s) /\ Len(s) \in Nat
           /\ \A n \in DOMAIN s : s[n] \in S
  OBVIOUS


-----------------------------------------------------------------------------
(* The content for Discord.                                                *)

Embed == [title : Nat, description : Nat, category : Nat, pertinence : Nat,
          sources : Nat, date : Nat, footer : Nat]

\* What the description has to leave to the other parts.
Others(e) == EmbedCharacterCount(e) - e.description

\* A field is as long as its name and the limit of a value at most.
LEMMA FieldBound ==
    ASSUME NEW name \in Nat, NEW value \in Nat
    PROVE  /\ PushField(name, value) \in Nat
           /\ PushField(name, value) <= name + EMBED_FIELD_VALUE
BY DEF PushField, TruncateDiscordText, EMBED_FIELD_VALUE

\* An embed that is not too long is left alone.
LEMMA ShortIsKept ==
    ASSUME NEW e, ~TooLong(e)
    PROVE  EnforceEmbedTotal(e) = e
BY DEF EnforceEmbedTotal, Shrink, DropFields, PopField

\* Where the other parts leave room, the description alone is cut, to fit it.
LEMMA DescriptionIsCut ==
    ASSUME NEW e \in Embed, e.description > 0, Others(e) < EMBED_TOTAL
    PROVE  \E d \in Nat : /\ d > 0 /\ d <= e.description
                          /\ EnforceEmbedTotal(e) = [e EXCEPT !.description = d]
                          /\ ~TooLong([e EXCEPT !.description = d])
<1>1. CASE ~TooLong(e)
  <2>1. e = [e EXCEPT !.description = e.description]
    BY DEF Embed
  <2>2. e.description \in Nat
    BY DEF Embed
  <2>3. QED
    BY <1>1, <2>1, <2>2, ShortIsKept
<1>2. CASE TooLong(e)
  <2> DEFINE d == Budget(e, "description")
             cut == [e EXCEPT !.description = d]
  <2>1. /\ EmbedCharacterCount(e) \in Nat
        /\ e.description \in Nat
    BY DEF Embed, EmbedCharacterCount
  <2>2. d = EMBED_TOTAL - Others(e)
    BY DEF Budget, Others
  <2>3. d \in Nat /\ d > 0 /\ d < e.description
    BY <1>2, <2>1, <2>2 DEF TooLong, Others, EMBED_TOTAL
  <2>4. Shrink(e, "description") = cut
    <3>1. TruncateDiscordText(e.description, d) = d
      BY <2>1, <2>3 DEF TruncateDiscordText
    <3>2. QED
      BY <1>2, <3>1 DEF Shrink
  <2>5. EmbedCharacterCount(cut) = EMBED_TOTAL
    <3>1. EmbedCharacterCount(cut) = EmbedCharacterCount(e) - e.description + d
      BY <2>1, <2>3 DEF Embed, EmbedCharacterCount
    <3>2. QED
      BY <2>1, <2>2, <2>3, <3>1 DEF Others, EMBED_TOTAL
  <2>6. ~TooLong(cut)
    BY <2>5 DEF TooLong, EMBED_TOTAL
  <2>7. EnforceEmbedTotal(e) = cut
    BY <2>4, <2>6 DEF EnforceEmbedTotal, Shrink, DropFields, PopField
  <2>8. QED
    BY <2>1, <2>3, <2>6, <2>7
<1>3. QED
  BY <1>1, <1>2

\* The embed of a main publication before its total is enforced: all but its
\* description leave room for it.
LEMMA MainEmbedBound ==
    ASSUME NEW i \in MainInput
    PROVE  LET e == MainEmbed(i)
           IN  /\ e \in Embed
               /\ e.title > 0 /\ e.title <= EMBED_TITLE
               /\ e.description > 0 /\ e.description <= EMBED_DESCRIPTION
               /\ e.category <= Category + EMBED_FIELD_VALUE
               /\ e.pertinence <= Pertinence + EMBED_FIELD_VALUE
               /\ e.sources <= Sources + EMBED_FIELD_VALUE
               /\ e.footer <= 16
               /\ Others(e) < EMBED_TOTAL
<1> DEFINE e == MainEmbed(i)
<1>1. /\ TitleOf(i) \in Nat /\ TitleOf(i) > 0
      /\ SummaryOf(i) \in Nat /\ SummaryOf(i) > 0
  BY DEF MainInput, TitleOf, SummaryOf, FallbackTitle, FallbackSummary
<1>2. e.title \in Nat /\ e.title > 0 /\ e.title <= EMBED_TITLE
  BY <1>1 DEF MainEmbed, TruncateDiscordText, EMBED_TITLE
<1>3. e.description \in Nat /\ e.description > 0 /\ e.description <= EMBED_DESCRIPTION
  BY <1>1 DEF MainEmbed, TruncateDiscordText, EMBED_DESCRIPTION
<1>4. e.category \in Nat /\ e.category <= Category + EMBED_FIELD_VALUE
  BY FieldBound DEF MainEmbed, MainInput, Category
<1>5. e.pertinence \in Nat /\ e.pertinence <= Pertinence + EMBED_FIELD_VALUE
  BY FieldBound DEF MainEmbed, MainInput, Pertinence
<1>6. e.sources \in Nat /\ e.sources <= Sources + EMBED_FIELD_VALUE
  <2>1. TruncateDiscordText(i.list, EMBED_FIELD_VALUE) \in Nat
    BY DEF TruncateDiscordText, MainInput, EMBED_FIELD_VALUE
  <2>2. QED
    BY <2>1, FieldBound DEF MainEmbed, Sources
<1>7. e.date \in Nat /\ e.date <= 14
  BY DEF MainEmbed, PushField, Date, UsefulDate, TruncateDiscordText, EMBED_FIELD_VALUE
<1>8. e.footer \in Nat /\ e.footer <= 16
  <2>1. FolderFooterSuffix(i.id) \in Nat /\ FolderFooterSuffix(i.id) <= 16
    BY DEF TruncateDiscordText, MainInput, FolderFooterSuffix
  <2>2. QED
    BY <2>1 DEF MainEmbed, TruncateDiscordText, EMBED_FOOTER
<1>9. e \in Embed
  BY <1>2, <1>3, <1>4, <1>5, <1>6, <1>7, <1>8 DEF MainEmbed, Embed
<1>10. Others(e) < EMBED_TOTAL
  <2>1. Others(e) = e.title + e.category + e.pertinence + e.sources + e.date + e.footer
    BY <1>2, <1>3, <1>4, <1>5, <1>6, <1>7, <1>8 DEF Others, EmbedCharacterCount
  <2>2. QED
    BY <1>2, <1>4, <1>5, <1>6, <1>7, <1>8, <2>1
       DEF EMBED_TOTAL, EMBED_TITLE, Category, Pertinence, Sources, EMBED_FIELD_VALUE
<1>11. QED
  BY <1>2, <1>3, <1>4, <1>5, <1>6, <1>8, <1>9, <1>10

\* A message, with a link or without, is within its limit and not empty.
LEMMA MessageBound ==
    ASSUME NEW n \in Nat, n > 0, NEW url \in Nat
    PROVE  TruncateDiscordText(WithUrl(n, url), MESSAGE_CONTENT) \in 1 .. MESSAGE_CONTENT
<1>1. WithUrl(n, url) \in Nat /\ WithUrl(n, url) > 0
  BY DEF WithUrl, Dash
<1>2. QED
  BY <1>1 DEF TruncateDiscordText, MESSAGE_CONTENT

(***************************************************************************)
(* The total of a main publication is enforced at the cost of its summary  *)
(* only, which is never lost altogether (enforceEmbedTotal).               *)
(***************************************************************************)
THEOREM SummaryAlwaysGivesWay == \A i \in MainInput : SummaryGivesWay(i)
<1>1. SUFFICES ASSUME NEW i \in MainInput
               PROVE  SummaryGivesWay(i)
  OBVIOUS
<1> DEFINE e == MainEmbed(i)
<1>2. e \in Embed /\ e.description > 0 /\ Others(e) < EMBED_TOTAL
  BY MainEmbedBound
<1>3. PICK d \in Nat : d > 0 /\ EnforceEmbedTotal(e) = [e EXCEPT !.description = d]
  BY <1>2, DescriptionIsCut
<1>4. BuildMainPublicationContent(i).embed = [e EXCEPT !.description = d]
  BY <1>3 DEF BuildMainPublicationContent
<1>5. [e EXCEPT !.description = d].description = d
  BY <1>2 DEF Embed
<1>6. QED
  BY <1>3, <1>4, <1>5 DEF SummaryGivesWay

(***************************************************************************)
(* Discord takes every main publication (buildMainPublicationContent): no  *)
(* length of a title, summary, source or link makes a part too long, the   *)
(* message empty or the thread nameless.                                   *)
(***************************************************************************)
THEOREM MainAlwaysFits == \A i \in MainInput : MainFits(i)
<1>1. SUFFICES ASSUME NEW i \in MainInput
               PROVE  MainFits(i)
  OBVIOUS
<1> DEFINE e == MainEmbed(i)
           p == BuildMainPublicationContent(i)
<1>2. p.content \in 1 .. MESSAGE_CONTENT
  <2>1. e.title \in Nat /\ e.title > 0 /\ i.url \in Nat
    BY MainEmbedBound DEF Embed, MainInput
  <2>2. QED
    BY <2>1, MessageBound DEF BuildMainPublicationContent
<1>3. p.thread \in 1 .. THREAD_NAME
  <2>1. i.title \in Nat
    BY DEF MainInput
  <2>2. BuildThreadName(i.title) \in 1 .. THREAD_NAME
    BY <2>1 DEF BuildThreadName, TruncateDiscordText, ThreadPrefix, FallbackTitle, THREAD_NAME
  <2>3. QED
    BY <2>2 DEF BuildMainPublicationContent
<1>4. EmbedFits(p.embed)
  <2>1. /\ e \in Embed /\ e.description > 0 /\ Others(e) < EMBED_TOTAL
        /\ e.description <= EMBED_DESCRIPTION
        /\ e.title <= EMBED_TITLE
        /\ e.category <= Category + EMBED_FIELD_VALUE
        /\ e.pertinence <= Pertinence + EMBED_FIELD_VALUE
        /\ e.sources <= Sources + EMBED_FIELD_VALUE
        /\ e.footer <= 16
    BY MainEmbedBound
  <2>2. PICK d \in Nat : /\ d <= e.description
                         /\ EnforceEmbedTotal(e) = [e EXCEPT !.description = d]
                         /\ ~TooLong([e EXCEPT !.description = d])
    BY <2>1, DescriptionIsCut
  <2> DEFINE c == [e EXCEPT !.description = d]
  <2>3. p.embed = c
    BY <2>2 DEF BuildMainPublicationContent
  <2>4. /\ c.title = e.title /\ c.description = d /\ c.category = e.category
        /\ c.pertinence = e.pertinence /\ c.sources = e.sources /\ c.footer = e.footer
    BY <2>1 DEF Embed
  <2>5. c.description <= EMBED_DESCRIPTION /\ c.footer <= EMBED_FOOTER
    BY <2>1, <2>2, <2>4 DEF Embed, EMBED_DESCRIPTION, EMBED_FOOTER
  <2>6. c.sources <= NewSources + EMBED_FIELD_VALUE
    BY <2>1, <2>4 DEF Embed, NewSources, Sources, EMBED_FIELD_VALUE
  <2>7. EmbedFits(c)
    BY <2>1, <2>2, <2>4, <2>5, <2>6 DEF EmbedFits
  <2>8. QED
    BY <2>3, <2>7
<1>5. QED
  BY <1>2, <1>3, <1>4 DEF MainFits

(***************************************************************************)
(* Discord takes every enrichment, which loses facts only to the limit of  *)
(* a description (buildEnrichmentPublicationContent).                      *)
(***************************************************************************)
THEOREM EnrichmentAlwaysFits == \A i \in EnrichmentInput : EnrichmentFits(i)
<1>1. SUFFICES ASSUME NEW i \in EnrichmentInput
               PROVE  EnrichmentFits(i)
  OBVIOUS
<1> DEFINE e == EnrichmentEmbed(i)
<1>2. e.title = 14 /\ e.category = 0 /\ e.pertinence = 0 /\ e.date = 0
  BY DEF EnrichmentEmbed, Enrichment
<1>3. e.description \in Nat /\ e.description <= EMBED_DESCRIPTION
  BY DEF EnrichmentEmbed, EnrichmentInput, TruncateDiscordText, FallbackFacts,
         EMBED_DESCRIPTION
<1>4. e.sources \in Nat /\ e.sources <= NewSources + EMBED_FIELD_VALUE
  <2>1. TruncateDiscordText(i.list, EMBED_FIELD_VALUE) \in Nat
    BY DEF TruncateDiscordText, EnrichmentInput, EMBED_FIELD_VALUE
  <2>2. QED
    BY <2>1, FieldBound DEF EnrichmentEmbed, NewSources
<1>5. e.footer \in Nat /\ e.footer <= 27
  <2>1. FolderFooterSuffix(i.id) \in Nat /\ FolderFooterSuffix(i.id) <= 16
    BY DEF TruncateDiscordText, EnrichmentInput, FolderFooterSuffix
  <2>2. TruncateDiscordText(i.fingerprint, 8) \in Nat /\ TruncateDiscordText(i.fingerprint, 8) <= 8
    BY DEF TruncateDiscordText, EnrichmentInput
  <2>3. QED
    BY <2>1, <2>2 DEF EnrichmentEmbed, TruncateDiscordText, EMBED_FOOTER
<1>6. ~TooLong(e)
  <2>1. EmbedCharacterCount(e) = 14 + e.description + e.sources + e.footer
    BY <1>2, <1>3, <1>4, <1>5 DEF EmbedCharacterCount
  <2>2. QED
    BY <1>3, <1>4, <1>5, <2>1
       DEF TooLong, EMBED_TOTAL, EMBED_DESCRIPTION, NewSources, EMBED_FIELD_VALUE
<1>7. BuildEnrichmentPublicationContent(i).embed = e
  BY <1>6, ShortIsKept DEF BuildEnrichmentPublicationContent
<1>8. EmbedFits(e)
  BY <1>2, <1>3, <1>4, <1>5, <1>6
     DEF EmbedFits, EMBED_TITLE, Category, Pertinence, EMBED_FIELD_VALUE, EMBED_FOOTER
<1>9. BuildEnrichmentPublicationContent(i).content \in 1 .. MESSAGE_CONTENT
  <2>1. FolderUpdate \in Nat /\ FolderUpdate > 0 /\ i.url \in Nat
    BY DEF FolderUpdate, EnrichmentInput
  <2>2. QED
    BY <2>1, MessageBound DEF BuildEnrichmentPublicationContent
<1>10. QED
  BY <1>7, <1>8, <1>9 DEF EnrichmentFits

-----------------------------------------------------------------------------
(* The types.                                                              *)

LEMMA TypeInit == InputInit => InputTypeOK
<1>1. ASSUME Decision PROVE InputTypeOK
  BY <1>1, ScoresAssumption DEF Decision, InputTypeOK, DecisionInput, Tier, Worthiness
<1>2. <<>> \in Seq(Entries)
  OBVIOUS
<1> QED
  BY <1>1, <1>2 DEF InputInit, InputTypeOK

LEMMA TypeStep == InputTypeOK /\ [InputNext]_inputVars => InputTypeOK'
<1> SUFFICES ASSUME InputTypeOK, [InputNext]_inputVars
             PROVE  InputTypeOK'
  OBVIOUS
<1>1. CASE ScoreHigher
  BY <1>1 DEF ScoreHigher, Vary, InputTypeOK, DecisionInput
<1>2. CASE BetterSource
  BY <1>2 DEF BetterSource, NextTiers, Vary, InputTypeOK, DecisionInput
<1>3. CASE MoreWorthy
  BY <1>3 DEF MoreWorthy, Vary, InputTypeOK, DecisionInput
<1>4. CASE AnchorFact
  BY <1>4 DEF AnchorFact, Vary, InputTypeOK, DecisionInput
<1>5. CASE OneMoreHold
  BY <1>5 DEF OneMoreHold, Vary, InputTypeOK, DecisionInput
<1>6. CASE AppendEntry
  BY <1>6 DEF AppendEntry, InputTypeOK
<1>7. CASE UNCHANGED inputVars
  BY <1>7 DEF inputVars, InputTypeOK
<1> QED
  BY <1>1, <1>2, <1>3, <1>4, <1>5, <1>6, <1>7 DEF InputNext

LEMMA TypeCorrect == InputSpec => []InputTypeOK
  BY TypeInit, TypeStep, PTL DEF InputSpec

-----------------------------------------------------------------------------
(* Contents.                                                               *)

(***************************************************************************)
(* Discord takes what is published, for texts and links of any length.     *)
(***************************************************************************)
THEOREM ContentAlwaysFits == InputSpec => []ContentFits
<1>1. InputTypeOK => ContentFits
  BY LengthsAssumption, MainAlwaysFits, SummaryAlwaysGivesWay, EnrichmentAlwaysFits
     DEF InputTypeOK, ContentFits
<1> QED
  BY <1>1, TypeCorrect, PTL

-----------------------------------------------------------------------------
(* Channels.                                                               *)

\* A publication has a composite that the channel hint accepts too.
LEMMA ChannelOfPublished ==
    ASSUME NEW c, NEW w, NEW main, NEW material, NEW facts, NEW holds,
           NEW impact, NEW major, NEW role,
           DecidePublication(c, w, main, material, facts, holds) = "publish"
    PROVE  MapChannelSalonHint(c, impact, major, role) # "none"
<1>1. c >= 70
  BY DEF DecidePublication, MeetsPublish
<1> QED
  BY <1>1 DEF MapChannelSalonHint

\* The scores of the fallback, tier by tier.
LEMMA FallbackScores ==
    ASSUME NEW t \in Tier
    PROVE  /\ Effective(88, t) \in Int /\ FallbackComposite(t) \in Int
           /\ FallbackComposite(t) >= 70
           /\ FallbackComposite(t) >= 85 => Effective(88, t) >= 80
<1>1. CASE t = "S"
  BY <1>1 DEF FallbackComposite, Composite, Effective, TierMultiplier, ClampInt
<1>2. CASE t = "A"
  BY <1>2 DEF FallbackComposite, Composite, Effective, TierMultiplier, ClampInt
<1>3. CASE t = "B"
  BY <1>3 DEF FallbackComposite, Composite, Effective, TierMultiplier, ClampInt
<1>4. CASE t = "C"
  BY <1>4 DEF FallbackComposite, Composite, Effective, TierMultiplier, ClampInt
<1>5. CASE t = "D"
  BY <1>5 DEF FallbackComposite, Composite, Effective, TierMultiplier, ClampInt
<1>6. CASE t = "E"
  BY <1>6 DEF FallbackComposite, Composite, Effective, TierMultiplier, ClampInt
<1> QED
  BY <1>1, <1>2, <1>3, <1>4, <1>5, <1>6 DEF Tier

(***************************************************************************)
(* What is published has a channel, and what the fallback publishes keeps  *)
(* the channel it was made for, for every score there is.                  *)
(***************************************************************************)
THEOREM ChannelInvHolds == InputSpec => []ChannelInv
<1>1. InputTypeOK => PublishedHasChannel
  BY ChannelOfPublished DEF PublishedHasChannel, DecisionOf
<1>2. InputTypeOK => FallbackKeepsChannel
  <2> SUFFICES ASSUME InputTypeOK, subject = "decision", NEW major \in BOOLEAN
               PROVE  MapChannelSalonHint(FallbackComposite(input.tier),
                          Effective(88, input.tier), major, "other")
                      = FallbackChannel(input.tier)
    BY DEF FallbackKeepsChannel
  <2>1. input.tier \in Tier
    BY DEF InputTypeOK, DecisionInput
  <2> QED
    BY <2>1, FallbackScores DEF MapChannelSalonHint, FallbackChannel
<1>3. InputTypeOK => ChannelInv
  BY <1>1, <1>2 DEF ChannelInv
<1> QED
  BY <1>3, TypeCorrect, PTL

-----------------------------------------------------------------------------
(* Monotony.                                                               *)

LEMMA EffectiveOfScore ==
    ASSUME NEW s \in Score, NEW r \in Score, s <= r, NEW t \in Tier
    PROVE  /\ Effective(s, t) \in Score /\ Effective(r, t) \in Score
           /\ Effective(s, t) <= Effective(r, t)
<1>1. CASE t = "S"
  BY <1>1 DEF Effective, TierMultiplier, ClampInt, Score
<1>2. CASE t = "A"
  BY <1>2 DEF Effective, TierMultiplier, ClampInt, Score
<1>3. CASE t = "B"
  BY <1>3 DEF Effective, TierMultiplier, ClampInt, Score
<1>4. CASE t = "C"
  BY <1>4 DEF Effective, TierMultiplier, ClampInt, Score
<1>5. CASE t = "D"
  BY <1>5 DEF Effective, TierMultiplier, ClampInt, Score
<1>6. CASE t = "E"
  BY <1>6 DEF Effective, TierMultiplier, ClampInt, Score
<1> QED
  BY <1>1, <1>2, <1>3, <1>4, <1>5, <1>6 DEF Tier

LEMMA EffectiveOfTier ==
    ASSUME NEW s \in Score, NEW t \in Tier, NEW u \in NextTiers(t)
    PROVE  /\ u \in Tier
           /\ Effective(s, t) \in Score /\ Effective(s, u) \in Score
           /\ Effective(s, t) <= Effective(s, u)
<1>1. u \in Tier /\ TierRank[u] = TierRank[t] + 1
  BY DEF NextTiers
<1>2. CASE t = "S"
  BY <1>1, <1>2 DEF Tier, TierRank
<1>3. CASE t = "A" /\ u = "S"
  BY <1>1, <1>3 DEF Effective, TierMultiplier, ClampInt, Score
<1>4. CASE t = "B" /\ u = "A"
  BY <1>1, <1>4 DEF Effective, TierMultiplier, ClampInt, Score
<1>5. CASE t = "C" /\ u = "B"
  BY <1>1, <1>5 DEF Effective, TierMultiplier, ClampInt, Score
<1>6. CASE t = "D" /\ u = "C"
  BY <1>1, <1>6 DEF Effective, TierMultiplier, ClampInt, Score
<1>7. CASE t = "E" /\ u = "D"
  BY <1>1, <1>7 DEF Effective, TierMultiplier, ClampInt, Score
<1> QED
  BY <1>1, <1>2, <1>3, <1>4, <1>5, <1>6, <1>7 DEF Tier, TierRank

\* The composite of effective scores e and i, and of novelty n.
Weighted(e, i, n) == ClampInt((2 * (2 * e + 2 * i + n) + 5) \div 10, 0, 100)

LEMMA WeightedMonotone ==
    ASSUME NEW e \in Score, NEW i \in Score, NEW n \in Score,
           NEW f \in Score, NEW j \in Score, NEW o \in Score,
           e <= f, i <= j, n <= o
    PROVE  /\ Weighted(e, i, n) \in Int /\ Weighted(f, j, o) \in Int
           /\ Weighted(e, i, n) <= Weighted(f, j, o)
  BY DEF Weighted, ClampInt, Score

\* A decision is not worse for a higher composite, a better worthiness or more facts.
LEMMA DecisionMonotone ==
    ASSUME NEW c \in Int, NEW d \in Int, c <= d,
           NEW w \in Worthiness, NEW x \in Worthiness, WorthinessRank[w] <= WorthinessRank[x],
           NEW f \in 0 .. 1, NEW g \in 0 .. 1, f <= g,
           NEW main \in BOOLEAN, NEW material \in BOOLEAN, NEW h \in 0 .. 3
    PROVE  DecisionRank[DecidePublication(c, w, main, material, f, h)]
               <= DecisionRank[DecidePublication(d, x, main, material, g, h)]
<1>1. MeetsPublish(c, w, main) => MeetsPublish(d, x, main)
  BY DEF MeetsPublish, Worthiness, WorthinessRank
<1>2. MeetsEnrichThreadOnly(c, main, material, f) => MeetsEnrichThreadOnly(d, main, material, g)
  BY DEF MeetsEnrichThreadOnly
<1>3. MeetsRejectEditorialScores(d, x) => MeetsRejectEditorialScores(c, w)
  BY DEF MeetsRejectEditorialScores, Worthiness, WorthinessRank
<1> QED
  BY <1>1, <1>2, <1>3 DEF DecidePublication, DecisionRank

\* What makes input j no worse than input i.
Dominates(j, i) ==
    /\ Effective(i.relevance, i.tier) \in Score /\ Effective(j.relevance, j.tier) \in Score
    /\ Effective(i.relevance, i.tier) <= Effective(j.relevance, j.tier)
    /\ Effective(i.impact, i.tier) \in Score /\ Effective(j.impact, j.tier) \in Score
    /\ Effective(i.impact, i.tier) <= Effective(j.impact, j.tier)
    /\ i.novelty \in Score /\ j.novelty \in Score /\ i.novelty <= j.novelty
    /\ i.worthiness \in Worthiness /\ j.worthiness \in Worthiness
    /\ WorthinessRank[i.worthiness] <= WorthinessRank[j.worthiness]
    /\ i.facts \in 0 .. 1 /\ j.facts \in 0 .. 1 /\ i.facts <= j.facts
    /\ i.main \in BOOLEAN /\ i.material \in BOOLEAN /\ i.holds \in 0 .. 3
    /\ i.main = j.main /\ i.material = j.material /\ i.holds = j.holds

LEMMA ComparedDecisions ==
    ASSUME NEW i, NEW j, Dominates(j, i)
    PROVE  DecisionRank[DecisionOf(j)] >= DecisionRank[DecisionOf(i)]
<1> DEFINE c == CompositeOf(i)
           d == CompositeOf(j)
<1>1. /\ c = Weighted(Effective(i.relevance, i.tier), Effective(i.impact, i.tier), i.novelty)
      /\ d = Weighted(Effective(j.relevance, j.tier), Effective(j.impact, j.tier), j.novelty)
  BY DEF CompositeOf, Composite, Weighted
<1>2. c \in Int /\ d \in Int /\ c <= d
  <2>1. ASSUME NEW e \in Score, NEW p \in Score, NEW n \in Score,
               NEW f \in Score, NEW q \in Score, NEW o \in Score,
               e <= f, p <= q, n <= o, c = Weighted(e, p, n), d = Weighted(f, q, o)
        PROVE  c \in Int /\ d \in Int /\ c <= d
    <3> HIDE DEF c, d
    <3> QED
      BY <2>1, WeightedMonotone
  <2> HIDE DEF c, d
  <2> QED
    BY <1>1, <2>1 DEF Dominates
<1> HIDE DEF c, d
<1>3. DecisionRank[DecidePublication(c, i.worthiness, i.main, i.material, i.facts, i.holds)]
        <= DecisionRank[DecidePublication(d, j.worthiness, i.main, i.material, j.facts, i.holds)]
  BY <1>2, DecisionMonotone DEF Dominates
<1>4. \A w, main, material, f, h :
          DecisionRank[DecidePublication(d, w, main, material, f, h)] \in 0 .. 2
  BY DEF DecidePublication, DecisionRank
<1>5. \A w, main, material, f, h :
          DecisionRank[DecidePublication(c, w, main, material, f, h)] \in 0 .. 2
  BY DEF DecidePublication, DecisionRank
<1> QED
  BY <1>3, <1>4, <1>5 DEF DecisionOf, Dominates, c, d

\* The steps that vary one part of the input.
LEMMA ScoreDominates ==
    ASSUME NEW i \in DecisionInput, NEW f \in {"relevance", "impact", "novelty"},
           NEW s \in Scores, s > i[f]
    PROVE  Dominates([i EXCEPT ![f] = s], i)
<1> DEFINE j == [i EXCEPT ![f] = s]
<1>1. /\ i.relevance \in Score /\ i.impact \in Score /\ i.novelty \in Score /\ s \in Score
      /\ i.tier \in Tier /\ i.worthiness \in Worthiness /\ i.facts \in 0 .. 1
      /\ i.main \in BOOLEAN /\ i.material \in BOOLEAN /\ i.holds \in 0 .. 3
  BY ScoresAssumption DEF DecisionInput
<1>2. /\ j.tier = i.tier /\ j.worthiness = i.worthiness /\ j.facts = i.facts
      /\ j.main = i.main /\ j.material = i.material /\ j.holds = i.holds
  BY DEF DecisionInput
<1>3. /\ j.relevance \in Score /\ i.relevance <= j.relevance
      /\ j.impact \in Score /\ i.impact <= j.impact
      /\ j.novelty \in Score /\ i.novelty <= j.novelty
  <2>1. CASE f = "relevance"
    BY <1>1, <2>1 DEF DecisionInput, Score
  <2>2. CASE f = "impact"
    BY <1>1, <2>2 DEF DecisionInput, Score
  <2>3. CASE f = "novelty"
    BY <1>1, <2>3 DEF DecisionInput, Score
  <2> QED
    BY <2>1, <2>2, <2>3
<1>4. WorthinessRank[i.worthiness] <= WorthinessRank[j.worthiness] /\ i.facts <= j.facts
  BY <1>1, <1>2 DEF Worthiness, WorthinessRank
<1> HIDE DEF j
<1>5. /\ Effective(i.relevance, i.tier) \in Score /\ Effective(j.relevance, j.tier) \in Score
      /\ Effective(i.relevance, i.tier) <= Effective(j.relevance, j.tier)
      /\ Effective(i.impact, i.tier) \in Score /\ Effective(j.impact, j.tier) \in Score
      /\ Effective(i.impact, i.tier) <= Effective(j.impact, j.tier)
  BY <1>1, <1>2, <1>3, EffectiveOfScore
<1>6. Dominates(j, i)
  BY <1>1, <1>2, <1>3, <1>4, <1>5 DEF Dominates
<1> QED
  BY <1>6 DEF j

LEMMA TierDominates ==
    ASSUME NEW i \in DecisionInput, NEW u \in NextTiers(i.tier)
    PROVE  Dominates([i EXCEPT !["tier"] = u], i)
<1> DEFINE j == [i EXCEPT !["tier"] = u]
<1>1. /\ i.relevance \in Score /\ i.impact \in Score /\ i.novelty \in Score
      /\ i.tier \in Tier /\ i.worthiness \in Worthiness /\ i.facts \in 0 .. 1
      /\ i.main \in BOOLEAN /\ i.material \in BOOLEAN /\ i.holds \in 0 .. 3
  BY ScoresAssumption DEF DecisionInput
<1>2. /\ j.tier = u /\ j.worthiness = i.worthiness /\ j.facts = i.facts
      /\ j.main = i.main /\ j.material = i.material /\ j.holds = i.holds
      /\ j.relevance = i.relevance /\ j.impact = i.impact /\ j.novelty = i.novelty
  BY DEF DecisionInput
<1>3. /\ WorthinessRank[i.worthiness] <= WorthinessRank[j.worthiness]
      /\ i.facts <= j.facts /\ i.novelty <= j.novelty
  BY <1>1, <1>2 DEF Worthiness, WorthinessRank, Score
<1> HIDE DEF j
<1>4. /\ Effective(i.relevance, i.tier) \in Score /\ Effective(j.relevance, j.tier) \in Score
      /\ Effective(i.relevance, i.tier) <= Effective(j.relevance, j.tier)
      /\ Effective(i.impact, i.tier) \in Score /\ Effective(j.impact, j.tier) \in Score
      /\ Effective(i.impact, i.tier) <= Effective(j.impact, j.tier)
  BY <1>1, <1>2, EffectiveOfTier
<1>5. Dominates(j, i)
  BY <1>1, <1>2, <1>3, <1>4 DEF Dominates
<1> QED
  BY <1>5 DEF j

LEMMA RestDominates ==
    ASSUME NEW i \in DecisionInput, NEW j \in DecisionInput,
           j.relevance = i.relevance, j.impact = i.impact, j.novelty = i.novelty,
           j.tier = i.tier, j.main = i.main, j.material = i.material, j.holds = i.holds,
           WorthinessRank[i.worthiness] <= WorthinessRank[j.worthiness], i.facts <= j.facts
    PROVE  Dominates(j, i)
<1>1. /\ i.relevance \in Score /\ i.impact \in Score /\ i.novelty \in Score
      /\ i.tier \in Tier /\ i.worthiness \in Worthiness /\ i.facts \in 0 .. 1
      /\ j.worthiness \in Worthiness /\ j.facts \in 0 .. 1
      /\ i.main \in BOOLEAN /\ i.material \in BOOLEAN /\ i.holds \in 0 .. 3
  BY ScoresAssumption DEF DecisionInput
<1>2. /\ i.relevance <= i.relevance /\ i.impact <= i.impact /\ i.novelty <= i.novelty
  BY <1>1 DEF Score
<1>3. /\ Effective(i.relevance, i.tier) \in Score /\ Effective(i.impact, i.tier) \in Score
  BY <1>1, <1>2, EffectiveOfScore
<1>4. /\ Effective(i.relevance, i.tier) <= Effective(i.relevance, i.tier)
      /\ Effective(i.impact, i.tier) <= Effective(i.impact, i.tier)
  BY <1>3 DEF Score
<1> QED
  BY <1>1, <1>2, <1>3, <1>4 DEF Dominates

(***************************************************************************)
(* Better scores, sources, worthiness or facts never earn a worse          *)
(* decision, for every score there is.                                     *)
(***************************************************************************)
THEOREM BetterIsNeverWorse == InputSpec => BetterIsNotWorse
<1>1. InputTypeOK /\ [InputNext]_inputVars =>
        [subject = "decision" /\ input'.holds = input.holds =>
           DecisionRank[DecisionOf(input')] >= DecisionRank[DecisionOf(input)]]_inputVars
  <2> SUFFICES ASSUME InputTypeOK, InputNext, subject = "decision", input'.holds = input.holds
               PROVE  DecisionRank[DecisionOf(input')] >= DecisionRank[DecisionOf(input)]
    OBVIOUS
  <2>1. input \in DecisionInput
    BY DEF InputTypeOK
  <2>2. CASE ScoreHigher
    BY <2>1, <2>2, ScoreDominates, ComparedDecisions DEF ScoreHigher, Vary
  <2>3. CASE BetterSource
    BY <2>1, <2>3, TierDominates, ComparedDecisions DEF BetterSource, Vary
  <2>4. CASE MoreWorthy
    <3>1. PICK w \in Worthiness :
            /\ WorthinessRank[w] > WorthinessRank[input.worthiness]
            /\ input' = [input EXCEPT !["worthiness"] = w]
      BY <2>4 DEF MoreWorthy, Vary
    <3>2. /\ input' \in DecisionInput /\ input'.worthiness = w /\ input'.facts = input.facts
          /\ input.worthiness \in Worthiness /\ input.facts \in 0 .. 1
          /\ input'.relevance = input.relevance /\ input'.impact = input.impact
          /\ input'.novelty = input.novelty /\ input'.tier = input.tier
          /\ input'.main = input.main /\ input'.material = input.material
          /\ input'.holds = input.holds
      BY <2>1, <3>1 DEF DecisionInput
    <3>3. WorthinessRank[input.worthiness] <= WorthinessRank[w] /\ input.facts <= input.facts
      BY <3>1, <3>2 DEF Worthiness, WorthinessRank
    <3>4. Dominates(input', input)
      BY <2>1, <3>2, <3>3, RestDominates
    <3> QED
      BY <3>4, ComparedDecisions
  <2>5. CASE AnchorFact
    <3>1. input.facts = 0 /\ input' = [input EXCEPT !["facts"] = 1]
      BY <2>5 DEF AnchorFact, Vary
    <3>2. /\ input' \in DecisionInput /\ input'.facts = 1
          /\ input.worthiness \in Worthiness /\ input'.worthiness = input.worthiness
          /\ input'.relevance = input.relevance /\ input'.impact = input.impact
          /\ input'.novelty = input.novelty /\ input'.tier = input.tier
          /\ input'.main = input.main /\ input'.material = input.material
          /\ input'.holds = input.holds
      BY <2>1, <3>1 DEF DecisionInput
    <3>3. /\ WorthinessRank[input.worthiness] <= WorthinessRank[input'.worthiness]
          /\ input.facts <= input'.facts
      BY <3>1, <3>2 DEF Worthiness, WorthinessRank
    <3>4. Dominates(input', input)
      BY <2>1, <3>2, <3>3, RestDominates
    <3> QED
      BY <3>4, ComparedDecisions
  <2>6. CASE OneMoreHold
    <3>1. input'.holds = input.holds + 1 /\ input.holds \in 0 .. 3
      BY <2>1, <2>6 DEF OneMoreHold, Vary, DecisionInput
    <3> QED
      BY <3>1
  <2>7. CASE AppendEntry
    BY <2>7 DEF AppendEntry
  <2> QED
    BY <2>2, <2>3, <2>4, <2>5, <2>6, <2>7 DEF InputNext
<1> QED
  BY <1>1, TypeCorrect, PTL DEF InputSpec, BetterIsNotWorse

-----------------------------------------------------------------------------
(* The registry.                                                           *)

IsReading(r) ==
    r = [sources |-> r.sources, seenIds |-> r.seenIds, seenUrls |-> r.seenUrls,
         reports |-> r.reports, threw |-> r.threw]

LEMMA Rejected ==
    ASSUME NEW r, IsReading(r), NEW n, NEW mode, NEW g, g = RejectOrSkipSource(r, n, mode)
    PROVE  /\ IsReading(g)
           /\ g.sources = r.sources /\ g.seenIds = r.seenIds /\ g.seenUrls = r.seenUrls
           /\ g.reports = Append(r.reports, n) /\ (g.threw <=> mode = "strict")
<1>. DEFINE reports == Append(r.reports, n)
            threw == mode = "strict"
<1>1. g = [r EXCEPT !.reports = reports, !.threw = threw]
  BY DEF RejectOrSkipSource
<1>. HIDE DEF reports, threw
<1>2. g = [sources |-> r.sources, seenIds |-> r.seenIds, seenUrls |-> r.seenUrls,
           reports |-> reports, threw |-> threw]
  BY <1>1 DEF IsReading
<1>3. /\ IsReading(g)
      /\ g.sources = r.sources /\ g.seenIds = r.seenIds /\ g.seenUrls = r.seenUrls
      /\ g.reports = reports /\ g.threw = threw
  BY <1>2 DEF IsReading
<1>. QED
  BY <1>3 DEF reports, threw

LEMMA Accepted ==
    ASSUME NEW r, IsReading(r), NEW n, NEW raw, NEW g, g = AcceptSource(r, n, raw)
    PROVE  /\ IsReading(g)
           /\ g.sources = Append(r.sources, n) /\ g.seenIds = r.seenIds \cup {raw.id}
           /\ g.seenUrls = r.seenUrls \cup {raw.url.page}
           /\ g.reports = r.reports /\ g.threw = r.threw
<1>. DEFINE sources == Append(r.sources, n)
            ids == r.seenIds \cup {raw.id}
            urls == r.seenUrls \cup {raw.url.page}
<1>1. g = [r EXCEPT !.sources = sources, !.seenIds = ids, !.seenUrls = urls]
  BY DEF AcceptSource, NormalizeSourceUrl
<1>. HIDE DEF sources, ids, urls
<1>2. g = [sources |-> sources, seenIds |-> ids, seenUrls |-> urls,
           reports |-> r.reports, threw |-> r.threw]
  BY <1>1 DEF IsReading
<1>3. /\ IsReading(g)
      /\ g.sources = sources /\ g.seenIds = ids /\ g.seenUrls = urls
      /\ g.reports = r.reports /\ g.threw = r.threw
  BY <1>2 DEF IsReading
<1>. QED
  BY <1>3 DEF sources, ids, urls

\* What was read of the entries so far, none of which ends the reading.
Resilient(raws, r) ==
    /\ IsReading(r)
    /\ r.sources \in Seq(1 .. Len(raws)) /\ r.reports \in Seq(1 .. Len(raws))
    /\ \A x : x \in r.seenIds <=> \E k \in Range(r.sources) : raws[k].id = x
    /\ \A x : x \in r.seenUrls <=> \E k \in Range(r.sources) : raws[k].url.page = x
    /\ FirstValidWins(raws, r)

LEMMA RangeOfAppend ==
    ASSUME NEW S, NEW s \in Seq(S), NEW x
    PROVE  Range(Append(s, x)) = Range(s) \cup {x}
<1>0. PICK t : t = Append(s, x)
  OBVIOUS
<1>1. /\ Len(s) \in Nat /\ DOMAIN s = 1 .. Len(s) /\ DOMAIN t = 1 .. Len(s) + 1
      /\ \A i \in 1 .. Len(s) : t[i] = s[i]
      /\ t[Len(s) + 1] = x
  BY <1>0
<1>3. ASSUME NEW i \in DOMAIN t PROVE t[i] \in Range(s) \cup {x}
  <2>1. i \in DOMAIN s \/ i = Len(s) + 1
    BY <1>1
  <2>. QED
    BY <1>1, <2>1 DEF Range
<1>4. ASSUME NEW i \in DOMAIN s PROVE s[i] \in Range(t)
  <2>1. i \in DOMAIN t /\ t[i] = s[i]
    BY <1>1
  <2>. QED
    BY <2>1 DEF Range
<1>5. x \in Range(t)
  <2>1. Len(s) + 1 \in DOMAIN t /\ t[Len(s) + 1] = x
    BY <1>1
  <2>. QED
    BY <2>1 DEF Range
<1>. QED
  BY <1>0, <1>3, <1>4, <1>5 DEF Range

LEMMA ResilientStep ==
    ASSUME NEW raws \in Seq(Entries), NEW r, Resilient(raws, r), NEW e \in Entries,
           NEW all, all = Append(raws, e),
           NEW q, q = ParseSourceRegistry(r, Len(raws) + 1, e, "resilient")
    PROVE  Resilient(all, q)
<1>. DEFINE n == Len(raws) + 1
            kept == Range(r.sources)
<1>0. /\ Len(raws) \in Nat /\ DOMAIN raws = 1 .. Len(raws)
      /\ all \in Seq(Entries) /\ Len(all) = n /\ DOMAIN all = 1 .. n
      /\ all[n] = e /\ \A k \in 1 .. Len(raws) : all[k] = raws[k]
  OBVIOUS
<1>1. /\ r.sources \in Seq(1 .. Len(raws)) /\ r.reports \in Seq(1 .. Len(raws))
      /\ kept \subseteq 1 .. Len(raws) /\ Range(r.reports) = DOMAIN raws \ kept
      /\ ~r.threw
      /\ \A m \in DOMAIN raws :
            m \in kept <=> /\ ValidateSourceDefinition(raws[m])
                           /\ \A k \in kept : k < m => ~Same(raws[k], raws[m])
  <2>1. r.sources \in Seq(1 .. Len(raws))
    BY DEF Resilient
  <2>2. kept \subseteq 1 .. Len(raws)
    BY <2>1 DEF Range
  <2>. QED
    BY <2>1, <2>2 DEF Resilient, FirstValidWins, kept
<1>2. q = ReadSource(r, n, e, "resilient")
  BY <1>1 DEF ParseSourceRegistry
<1>8. /\ \A x : x \in r.seenIds <=> \E k \in kept : all[k].id = x
      /\ \A x : x \in r.seenUrls <=> \E k \in kept : all[k].url.page = x
  <2>1. \A k \in kept : all[k] = raws[k]
    BY <1>0, <1>1
  <2>. QED
    BY <2>1 DEF Resilient
<1>. HIDE DEF kept
<1>3. Duplicate(r, e) <=> \E k \in kept : Same(all[k], all[n])
  <2>1. e = all[n]
    BY <1>0
  <2>. QED
    BY <1>8, <2>1 DEF Duplicate, Same, NormalizeSourceUrl
<1>4. Append(r.sources, n) \in Seq(1 .. n) /\ Append(r.reports, n) \in Seq(1 .. n)
      /\ r.sources \in Seq(1 .. n) /\ r.reports \in Seq(1 .. n)
  <2>1. 1 .. Len(raws) \subseteq 1 .. n /\ n \in 1 .. n
    BY <1>0
  <2>. QED
    BY <1>1, <2>1
<1>5. Range(Append(r.sources, n)) = kept \cup {n}
      /\ Range(Append(r.reports, n)) = Range(r.reports) \cup {n}
  BY <1>1, RangeOfAppend DEF kept
<1>6. CASE ~ValidateSourceDefinition(e) \/ Duplicate(r, e)
  <2>0. q = RejectOrSkipSource(r, n, "resilient") /\ IsReading(r)
    BY <1>2, <1>6 DEF ReadSource, Resilient
  <2>2. /\ IsReading(q) /\ q.sources = r.sources /\ q.seenIds = r.seenIds
        /\ q.seenUrls = r.seenUrls /\ q.reports = Append(r.reports, n) /\ ~q.threw
    BY <2>0, Rejected
  <2>4. \A m \in DOMAIN all :
            m \in kept <=> /\ ValidateSourceDefinition(all[m])
                           /\ \A k \in kept : k < m => ~Same(all[k], all[m])
    <3>1. ASSUME NEW m \in 1 .. Len(raws)
          PROVE  m \in kept <=> /\ ValidateSourceDefinition(all[m])
                                /\ \A k \in kept : k < m => ~Same(all[k], all[m])
      BY <1>0, <1>1
    <3>2. n \notin kept /\ \A k \in kept : k < n
      BY <1>0, <1>1
    <3>3. ~ValidateSourceDefinition(all[n]) \/ \E k \in kept : Same(all[k], all[n])
      BY <1>0, <1>3, <1>6
    <3>4. ASSUME NEW m \in DOMAIN all
          PROVE  m \in kept <=> /\ ValidateSourceDefinition(all[m])
                                /\ \A k \in kept : k < m => ~Same(all[k], all[m])
      <4>1. m \in 1 .. Len(raws) \/ m = n
        BY <1>0
      <4>2. CASE m = n
        BY <3>2, <3>3, <4>2
      <4>. QED
        BY <3>1, <4>1, <4>2
    <3>. QED
      BY <3>4
  <2>5. Range(q.reports) = DOMAIN all \ kept
    <3>1. Range(q.reports) = (DOMAIN raws \ kept) \cup {n}
      BY <1>1, <1>5, <2>2
    <3>2. n \notin kept
      BY <1>0, <1>1
    <3>. QED
      BY <1>0, <3>1, <3>2
  <2>6. FirstValidWins(all, q)
    BY <2>2, <2>4, <2>5 DEF FirstValidWins, kept
  <2>. QED
    BY <1>0, <1>4, <1>8, <2>2, <2>6 DEF Resilient, kept
<1>7. CASE ValidateSourceDefinition(e) /\ ~Duplicate(r, e)
  <2>1. q = AcceptSource(r, n, e) /\ IsReading(r)
    BY <1>2, <1>7 DEF ReadSource, Resilient
  <2>2. /\ IsReading(q) /\ q.sources = Append(r.sources, n)
        /\ q.seenIds = r.seenIds \cup {e.id} /\ q.seenUrls = r.seenUrls \cup {e.url.page}
        /\ q.reports = r.reports /\ ~q.threw
    BY <1>1, <2>1, Accepted
  <2>. DEFINE more == kept \cup {n}
  <2>3. Range(q.sources) = more
    BY <1>5, <2>2
  <2>4. /\ \A x : x \in q.seenIds <=> \E k \in more : all[k].id = x
        /\ \A x : x \in q.seenUrls <=> \E k \in more : all[k].url.page = x
    <3>1. e = all[n] /\ n \in more /\ kept \subseteq more
      BY <1>0
    <3>2. ASSUME NEW x PROVE x \in q.seenIds <=> \E k \in more : all[k].id = x
      BY <1>8, <2>2, <3>1
    <3>3. ASSUME NEW x PROVE x \in q.seenUrls <=> \E k \in more : all[k].url.page = x
      BY <1>8, <2>2, <3>1
    <3>. QED
      BY <3>2, <3>3
  <2>5. \A m \in DOMAIN all :
            m \in more <=> /\ ValidateSourceDefinition(all[m])
                           /\ \A k \in more : k < m => ~Same(all[k], all[m])
    <3>1. ASSUME NEW m \in 1 .. Len(raws)
          PROVE  m \in more <=> /\ ValidateSourceDefinition(all[m])
                                /\ \A k \in more : k < m => ~Same(all[k], all[m])
      <4>1. ~(n < m) /\ m # n
        BY <1>0
      <4>. QED
        BY <1>0, <1>1, <4>1
    <3>2. ValidateSourceDefinition(all[n]) /\ \A k \in kept : ~Same(all[k], all[n])
      BY <1>0, <1>3, <1>7
    <3>3. ~(n < n)
      BY <1>0
    <3>4. ASSUME NEW m \in DOMAIN all
          PROVE  m \in more <=> /\ ValidateSourceDefinition(all[m])
                                /\ \A k \in more : k < m => ~Same(all[k], all[m])
      <4>1. m \in 1 .. Len(raws) \/ m = n
        BY <1>0
      <4>2. CASE m = n
        BY <3>2, <3>3, <4>2
      <4>. QED
        BY <3>1, <4>1, <4>2
    <3>. QED
      BY <3>4
  <2>6. Range(q.reports) = DOMAIN all \ more
    BY <1>0, <1>1, <2>2
  <2>. HIDE DEF more
  <2>7. FirstValidWins(all, q)
    BY <2>2, <2>3, <2>5, <2>6 DEF FirstValidWins
  <2>. QED
    BY <1>0, <1>4, <2>2, <2>3, <2>4, <2>7 DEF Resilient
<1>. QED
  BY <1>6, <1>7

LEMMA ModesStep ==
    ASSUME NEW S, NEW r, NEW t, IsReading(r), IsReading(t), r.reports \in Seq(S),
           ~r.threw, ModesAgree(t, r), NEW n \in S, NEW e,
           NEW q, q = ParseSourceRegistry(r, n, e, "resilient"),
           NEW u, u = ParseSourceRegistry(t, n, e, "strict")
    PROVE  IsReading(u) /\ ModesAgree(u, q)
<1>1. q = ReadSource(r, n, e, "resilient")
  BY DEF ParseSourceRegistry
<1>2. CASE r.reports # <<>>
  <2>1. t.threw /\ t.reports = <<Head(r.reports)>>
    BY <1>2 DEF ModesAgree
  <2>2. u = t
    BY <2>1 DEF ParseSourceRegistry
  <2>3. q.reports = r.reports \/ q.reports = Append(r.reports, n)
    BY <1>1, Rejected, Accepted DEF ReadSource
  <2>4. q.reports # <<>> /\ Head(q.reports) = Head(r.reports)
    BY <1>2, <2>3
  <2>. QED
    BY <2>1, <2>2, <2>4 DEF ModesAgree
<1>3. CASE r.reports = <<>>
  <2>1. t = r /\ u = ReadSource(r, n, e, "strict")
    BY <1>3 DEF ModesAgree, ParseSourceRegistry
  <2>2. CASE ~ValidateSourceDefinition(e) \/ Duplicate(r, e)
    <3>1. q = RejectOrSkipSource(r, n, "resilient") /\ u = RejectOrSkipSource(r, n, "strict")
      BY <1>1, <2>1, <2>2 DEF ReadSource
    <3>2. q.reports = Append(<<>>, n)
      BY <1>3, <3>1, Rejected
    <3>3. IsReading(u) /\ u.reports = Append(<<>>, n) /\ u.threw
      BY <1>3, <3>1, Rejected
    <3>4. Append(<<>>, n) = <<n>> /\ Head(<<n>>) = n /\ <<n>> # <<>>
      OBVIOUS
    <3>. QED
      BY <3>2, <3>3, <3>4 DEF ModesAgree
  <2>3. CASE ValidateSourceDefinition(e) /\ ~Duplicate(r, e)
    <3>1. q = AcceptSource(r, n, e) /\ u = AcceptSource(r, n, e)
      BY <1>1, <2>1, <2>3 DEF ReadSource
    <3>2. IsReading(u) /\ q.reports = <<>>
      BY <1>3, <3>1, Accepted
    <3>. QED
      BY <3>1, <3>2 DEF ModesAgree
  <2>. QED
    BY <2>2, <2>3
<1>. QED
  BY <1>2, <1>3

\* What holds of a registry read so far.
ReadingInv ==
    /\ reading = [mode \in Mode |-> reading[mode]]
    /\ subject = "registry" =>
          /\ input \in Seq(Entries)
          /\ Resilient(input, reading["resilient"]) /\ IsReading(reading["strict"])
          /\ ModesAgree(reading["strict"], reading["resilient"])

LEMMA NothingIsRead == IsReading(NothingRead) /\ Resilient(<<>>, NothingRead)
<1>1. IsReading(NothingRead)
  BY DEF IsReading, NothingRead
<1>2. /\ NothingRead.sources = <<>> /\ NothingRead.reports = <<>> /\ ~NothingRead.threw
      /\ NothingRead.seenIds = {} /\ NothingRead.seenUrls = {}
  BY DEF NothingRead
<1>3. Range(<<>>) = {} /\ DOMAIN <<>> = {} /\ \A S : <<>> \in Seq(S)
  BY DEF Range
<1>4. FirstValidWins(<<>>, NothingRead)
  BY <1>2, <1>3 DEF FirstValidWins
<1>. QED
  BY <1>1, <1>2, <1>3, <1>4 DEF Resilient

LEMMA ReadingStep == ReadingInv /\ [InputNext]_inputVars => ReadingInv'
<1>. SUFFICES ASSUME ReadingInv, [InputNext]_inputVars PROVE ReadingInv'
  OBVIOUS
<1>1. CASE subject = "registry" /\ AppendEntry
  <2>1. PICK e \in Entries :
          /\ input' = Append(input, e)
          /\ reading' = [mode \in Mode |->
                 ParseSourceRegistry(reading[mode], Len(input) + 1, e, mode)]
    BY <1>1 DEF AppendEntry
  <2>. DEFINE r == reading["resilient"]
              t == reading["strict"]
              n == Len(input) + 1
  <2>2. /\ input \in Seq(Entries) /\ Resilient(input, r) /\ IsReading(t) /\ ModesAgree(t, r)
    BY <1>1 DEF ReadingInv
  <2>3. /\ reading'["resilient"] = ParseSourceRegistry(r, n, e, "resilient")
        /\ reading'["strict"] = ParseSourceRegistry(t, n, e, "strict")
        /\ reading' = [mode \in Mode |-> reading'[mode]]
    BY <2>1 DEF Mode
  <2>4. Resilient(input', reading'["resilient"])
    BY <2>1, <2>2, <2>3, ResilientStep
  <2>5. IsReading(reading'["strict"])
        /\ ModesAgree(reading'["strict"], reading'["resilient"])
    <3>1. IsReading(r) /\ ~r.threw /\ r.reports \in Seq(Nat) /\ n \in Nat
      <4>1. IsReading(r) /\ ~r.threw /\ r.reports \in Seq(1 .. Len(input))
        BY <2>2 DEF Resilient, FirstValidWins
      <4>2. Len(input) \in Nat /\ 1 .. Len(input) \subseteq Nat
        BY <2>2
      <4>. QED
        BY <4>1, <4>2
    <3>. QED
      BY <2>2, <2>3, <3>1, ModesStep
  <2>. QED
    BY <1>1, <2>1, <2>2, <2>3, <2>4, <2>5 DEF ReadingInv, AppendEntry
<1>2. CASE UNCHANGED reading /\ subject' = subject /\ (subject = "registry" => input' = input)
  BY <1>2 DEF ReadingInv
<1>. QED
  BY <1>1, <1>2 DEF InputNext, inputVars, ScoreHigher, BetterSource, MoreWorthy, AnchorFact,
                    OneMoreHold, Vary, AppendEntry

(***************************************************************************)
(* A registry of any length is read alike by both modes, up to the entry   *)
(* that makes the strict one throw, and a bad entry costs nothing but      *)
(* itself (parseSourceRegistry).                                           *)
(***************************************************************************)
THEOREM RegistryInvHolds == InputSpec => []RegistryInv
<1>1. InputInit => ReadingInv
  <2>1. <<>> \in Seq(Entries)
    OBVIOUS
  <2>2. ModesAgree(NothingRead, NothingRead)
    BY DEF ModesAgree, NothingRead
  <2>. QED
    BY <2>1, <2>2, NothingIsRead DEF InputInit, Decision, ReadingInv, Mode
<1>2. ReadingInv => RegistryInv
  BY DEF ReadingInv, RegistryInv, Resilient
<1>. QED
  BY <1>1, <1>2, ReadingStep, PTL DEF InputSpec

-----------------------------------------------------------------------------
(* The context of an analysis.                                            *)

LEMMA ConcatText ==
    ASSUME NEW a \in Text, NEW b \in Text
    PROVE  /\ a \o b \in Text
           /\ Len(a \o b) = Len(a) + Len(b)
           /\ Words(a \o b) = Words(a) \cup Words(b)
<1>1. a \o b \in Text /\ Len(a \o b) = Len(a) + Len(b)
  BY DEF Text
<1>2. Words(a \o b) \subseteq Words(a) \cup Words(b)
  <2> SUFFICES ASSUME NEW i \in DOMAIN (a \o b)
               PROVE  (a \o b)[i] \in Words(a) \cup Words(b)
    BY DEF Words, Range
  <2>1. CASE i <= Len(a)
    <3>1. i \in DOMAIN a /\ (a \o b)[i] = a[i]
      BY <2>1 DEF Text
    <3> QED
      BY <3>1 DEF Words, Range
  <2>2. CASE i > Len(a)
    <3>1. i - Len(a) \in DOMAIN b /\ (a \o b)[i] = b[i - Len(a)]
      BY <2>2 DEF Text
    <3> QED
      BY <3>1 DEF Words, Range
  <2>3. i \in Int /\ Len(a) \in Int
    BY DEF Text
  <2> QED
    BY <2>1, <2>2, <2>3
<1>3. Words(a) \subseteq Words(a \o b)
  <2> SUFFICES ASSUME NEW i \in DOMAIN a
               PROVE  a[i] \in Words(a \o b)
    BY DEF Words, Range
  <2>1. i \in DOMAIN (a \o b) /\ (a \o b)[i] = a[i]
    BY DEF Text
  <2> QED
    BY <2>1 DEF Words, Range
<1>4. Words(b) \subseteq Words(a \o b)
  <2> SUFFICES ASSUME NEW i \in DOMAIN b
               PROVE  b[i] \in Words(a \o b)
    BY DEF Words, Range
  <2>1. Len(a) + i \in DOMAIN (a \o b) /\ (a \o b)[Len(a) + i] = b[i]
    BY DEF Text
  <2> QED
    BY <2>1 DEF Words, Range
<1> QED
  BY <1>1, <1>2, <1>3, <1>4

\* f[i] is the first i texts of s put together.
Flattens(f, s) ==
    f = [i \in 1 .. Len(s) |-> IF i = 1 THEN s[i] ELSE f[i - 1] \o s[i]]

LEMMA Flatten ==
    ASSUME NEW s \in Seq(Text), s # <<>>
    PROVE  \E f : Flattens(f, s) /\ FlattenSeq(s) = f[Len(s)]
<1>. DEFINE n == Len(s)
            T == {k \in Nat : \E f : f = [i \in 1 .. k |-> IF i = 1 THEN s[i] ELSE f[i - 1] \o s[i]]}
<1>1. n \in Nat /\ n # 0
  OBVIOUS
<1>2. 0 \in T
  <2>. DEFINE f == [i \in 1 .. 0 |-> s[i]]
  <2>1. f = [i \in 1 .. 0 |-> IF i = 1 THEN s[i] ELSE f[i - 1] \o s[i]]
    OBVIOUS
  <2>. QED
    BY <2>1
<1>3. ASSUME NEW k \in 0 .. n - 1, k \in T
      PROVE  k + 1 \in T
  <2>1. PICK f : f = [i \in 1 .. k |-> IF i = 1 THEN s[i] ELSE f[i - 1] \o s[i]]
    BY <1>3
  <2>. DEFINE g == [i \in 1 .. k + 1 |-> IF i = 1 THEN s[i]
                                         ELSE IF i = k + 1 THEN f[k] \o s[i] ELSE f[i]]
  <2>2. ASSUME NEW i \in 1 .. k + 1
        PROVE  g[i] = IF i = 1 THEN s[i] ELSE g[i - 1] \o s[i]
    <3>1. CASE i = 1
      BY <3>1
    <3>2. CASE i # 1
      <4>1. i - 1 \in 1 .. k /\ g[i - 1] = f[i - 1]
        <5>1. i - 1 \in 1 .. k
          BY <3>2
        <5>2. CASE i - 1 = 1
          <6>1. f[1] = s[1]
            BY <2>1, <5>1, <5>2
          <6>2. g[1] = s[1]
            OBVIOUS
          <6>. QED
            BY <5>1, <5>2, <6>1, <6>2
        <5>3. CASE i - 1 # 1
          BY <5>1, <5>3
        <5>. QED
          BY <5>1, <5>2, <5>3
      <4>2. CASE i = k + 1
        <5>1. g[i] = f[k] \o s[i]
          BY <3>2, <4>2
        <5>2. i - 1 = k
          BY <4>2
        <5>. QED
          BY <3>2, <4>1, <5>1, <5>2
      <4>3. CASE i # k + 1
        <5>1. i \in 1 .. k
          BY <4>3
        <5>2. f[i] = f[i - 1] \o s[i]
          BY <2>1, <3>2, <5>1
        <5>. QED
          BY <3>2, <4>1, <4>3, <5>2
      <4>. QED
        BY <4>2, <4>3
    <3>. QED
      BY <3>1, <3>2
  <2>3. g = [i \in 1 .. k + 1 |-> IF i = 1 THEN s[i] ELSE g[i - 1] \o s[i]]
    BY <2>2
  <2>. HIDE DEF g
  <2>4. k + 1 \in Nat
    BY <1>1
  <2>. QED
    BY <2>3, <2>4
<1>. HIDE DEF T, n
<1>4. n \in T
  <2>1. 0 .. n \subseteq T
    BY <1>1, <1>2, <1>3, UpTo
  <2>. QED
    BY <1>1, <2>1
<1>5. \E f : Flattens(f, s)
  BY <1>4 DEF T, n, Flattens
<1>6. FlattenSeq(s) = (CHOOSE f : Flattens(f, s))[Len(s)]
  BY <1>1 DEF n, FlattenSeq, Flattens
<1>. QED
  BY <1>5, <1>6

LEMMA FlattensAt ==
    ASSUME NEW s, NEW f, Flattens(f, s), NEW i \in 1 .. Len(s)
    PROVE  f[i] = IF i = 1 THEN s[i] ELSE f[i - 1] \o s[i]
  BY DEF Flattens

\* What is put together is a text, of all their words.
LEMMA FlattenText ==
    ASSUME NEW s \in Seq(Text)
    PROVE  /\ FlattenSeq(s) \in Text
           /\ Words(FlattenSeq(s)) = UNION {Words(s[i]) : i \in DOMAIN s}
<1>1. CASE s = <<>>
  BY <1>1 DEF FlattenSeq, Text, Words, Range
<1>2. CASE s # <<>>
  <2>. DEFINE n == Len(s)
              of(i) == UNION {Words(s[j]) : j \in 1 .. i}
  <2>1. PICK f : Flattens(f, s) /\ FlattenSeq(s) = f[n]
    BY <1>2, Flatten
  <2>. DEFINE T == {i \in Nat : i >= 1 /\ i <= n => f[i] \in Text /\ Words(f[i]) = of(i)}
  <2>2. n \in Nat /\ n >= 1 /\ DOMAIN s = 1 .. n
    BY <1>2
  <2>3. 0 \in T
    OBVIOUS
  <2>4. ASSUME NEW i \in 0 .. n - 1, i \in T
        PROVE  i + 1 \in T
    <3>1. PICK j \in 1 .. n : j = i + 1
      BY <2>2
    <3>2. s[j] \in Text /\ j - 1 = i
      BY <2>2, <3>1
    <3>3. of(j) = of(i) \cup Words(s[j])
      <4>1. 1 .. j = (1 .. i) \cup {j}
        BY <2>2, <3>1
      <4>. QED
        BY <4>1
    <3>4. f[j] = IF j = 1 THEN s[j] ELSE f[j - 1] \o s[j]
      BY <2>1, FlattensAt
    <3>5. CASE i = 0
      <4>1. j = 1 /\ f[j] = s[j]
        BY <3>1, <3>4, <3>5
      <4>2. of(0) = {}
        OBVIOUS
      <4>3. f[j] \in Text /\ Words(f[j]) = of(j)
        BY <3>2, <3>3, <3>5, <4>1, <4>2
      <4>. HIDE DEF of
      <4>. QED
        BY <3>1, <4>3
    <3>6. CASE i # 0
      <4>1. f[j] = f[i] \o s[j]
        <5>1. j # 1
          BY <2>2, <3>1, <3>6
        <5>. QED
          BY <3>2, <3>4, <5>1
      <4>2. f[i] \in Text /\ Words(f[i]) = of(i)
        BY <2>4, <2>2, <3>6
      <4>3. f[j] \in Text /\ Words(f[j]) = of(i) \cup Words(s[j])
        BY <3>2, <4>1, <4>2, ConcatText
      <4>4. Words(f[j]) = of(j)
        BY <3>3, <4>3
      <4>. HIDE DEF of
      <4>. QED
        BY <3>1, <4>3, <4>4
    <3>. QED
      BY <3>5, <3>6
  <2>. HIDE DEF T, n
  <2>5. n \in T
    <3>1. 0 .. n \subseteq T
      BY <2>2, <2>3, <2>4, UpTo
    <3>. QED
      BY <2>2, <3>1
  <2>. QED
    BY <2>1, <2>2, <2>5 DEF T
<1>. QED
  BY <1>1, <1>2

\* Longer texts make a longer one.
LEMMA FlattenLength ==
    ASSUME NEW s \in Seq(Text), NEW t \in Seq(Text), Len(s) = Len(t),
           \A i \in DOMAIN s : Len(s[i]) <= Len(t[i])
    PROVE  Len(FlattenSeq(s)) <= Len(FlattenSeq(t))
<1>1. CASE s = <<>>
  BY <1>1
<1>2. CASE s # <<>>
  <2>. DEFINE n == Len(s)
  <2>1. n \in Nat /\ n >= 1 /\ n = Len(t) /\ t # <<>> /\ DOMAIN s = 1 .. n
    BY <1>2
  <2>2. PICK f : Flattens(f, s) /\ FlattenSeq(s) = f[n]
    BY <1>2, Flatten
  <2>3. PICK g : Flattens(g, t) /\ FlattenSeq(t) = g[n]
    BY <2>1, Flatten
  <2>. DEFINE T == {i \in Nat : i >= 1 /\ i <= n =>
                        f[i] \in Text /\ g[i] \in Text /\ Len(f[i]) <= Len(g[i])}
  <2>4. 0 \in T
    OBVIOUS
  <2>5. ASSUME NEW i \in 0 .. n - 1, i \in T
        PROVE  i + 1 \in T
    <3>1. PICK j \in 1 .. n : j = i + 1
      BY <2>1
    <3>2. s[j] \in Text /\ t[j] \in Text /\ Len(s[j]) <= Len(t[j]) /\ j - 1 = i
      BY <2>1, <3>1
    <3>3. /\ f[j] = IF j = 1 THEN s[j] ELSE f[j - 1] \o s[j]
          /\ g[j] = IF j = 1 THEN t[j] ELSE g[j - 1] \o t[j]
      BY <2>1, <2>2, <2>3, FlattensAt
    <3>4. CASE i = 0
      BY <3>1, <3>2, <3>3, <3>4
    <3>5. CASE i # 0
      <4>1. f[j] = f[i] \o s[j] /\ g[j] = g[i] \o t[j]
        <5>1. j # 1
          BY <2>1, <3>1, <3>5
        <5>. QED
          BY <3>2, <3>3, <5>1
      <4>2. f[i] \in Text /\ g[i] \in Text /\ Len(f[i]) <= Len(g[i])
        BY <2>5, <2>1, <3>5
      <4>3. f[j] \in Text /\ Len(f[j]) = Len(f[i]) + Len(s[j])
        BY <3>2, <4>1, <4>2, ConcatText
      <4>4. g[j] \in Text /\ Len(g[j]) = Len(g[i]) + Len(t[j])
        BY <3>2, <4>1, <4>2, ConcatText
      <4>5. /\ Len(f[i]) \in Nat /\ Len(g[i]) \in Nat
            /\ Len(s[j]) \in Nat /\ Len(t[j]) \in Nat
        BY <3>2, <4>2 DEF Text
      <4>6. Len(f[j]) <= Len(g[j])
        <5>1. \A a, b, c, d \in Nat : a <= b /\ c <= d => a + c <= b + d
          OBVIOUS
        <5>. QED
          BY <3>2, <4>2, <4>3, <4>4, <4>5, <5>1
      <4>7. j \in T
        <5>1. j \in Nat
          BY <2>1
        <5>2. f[j] \in Text /\ g[j] \in Text /\ Len(f[j]) <= Len(g[j])
          BY <4>3, <4>4, <4>6
        <5>. QED
          BY Zenon, <5>1, <5>2
      <4>. QED
        BY <3>1, <4>7
    <3>. QED
      BY <3>4, <3>5
  <2>. HIDE DEF T, n
  <2>6. n \in T
    <3>1. 0 .. n \subseteq T
      BY <2>1, <2>4, <2>5, UpTo
    <3>. QED
      BY <2>1, <3>1
  <2>. QED
    BY <2>1, <2>2, <2>3, <2>6 DEF T
<1>. QED
  BY <1>1, <1>2

\* Ranks follow the order.
LEMMA RankFollows ==
    ASSUME NEW S, IsFiniteSet(S), NEW before,
           \A a, b, c \in S : <<a, b>> \in before /\ <<b, c>> \in before => <<a, c>> \in before,
           \A a \in S : <<a, a>> \notin before,
           NEW a \in S, NEW b \in S, <<a, b>> \in before
    PROVE  /\ Rank(S, before, a) \in Nat /\ Rank(S, before, b) \in Nat
           /\ Rank(S, before, a) < Rank(S, before, b)
<1>. DEFINE A == {m \in S : <<m, a>> \in before}
            B == {m \in S : <<m, b>> \in before}
<1>1. IsFiniteSet(A) /\ IsFiniteSet(B)
  BY FS_Subset
<1>2. a \notin A /\ A \cup {a} \subseteq B
  OBVIOUS
<1>3. Cardinality(A \cup {a}) = Cardinality(A) + 1 /\ IsFiniteSet(A \cup {a})
  BY <1>1, <1>2, FS_AddElement
<1>4. Cardinality(A \cup {a}) <= Cardinality(B)
  BY <1>1, <1>2, FS_Subset
<1>5. Cardinality(A) \in Nat /\ Cardinality(B) \in Nat
  BY <1>1, FS_CardinalityType
<1>6. Rank(S, before, a) = Cardinality(A) /\ Rank(S, before, b) = Cardinality(B)
  BY DEF Rank
<1>. QED
  BY <1>3, <1>4, <1>5, <1>6

\* In a linear order there is one of each rank.
LEMMA EachRank ==
    ASSUME NEW S, IsFiniteSet(S), NEW before,
           \A a, b, c \in S : <<a, b>> \in before /\ <<b, c>> \in before => <<a, c>> \in before,
           \A a \in S : <<a, a>> \notin before,
           \A a, b \in S : a # b => <<a, b>> \in before \/ <<b, a>> \in before,
           NEW k \in 0 .. Cardinality(S) - 1
    PROVE  \E a \in S : Rank(S, before, a) = k
<1>. DEFINE n == Cardinality(S)
            f == [a \in S |-> Rank(S, before, a)]
<1>1. n \in Nat
  BY FS_CardinalityType
<1>2. ASSUME NEW a \in S PROVE Rank(S, before, a) \in 0 .. n - 1
  <2>. DEFINE A == {m \in S : <<m, a>> \in before}
  <2>1. IsFiniteSet(A) /\ A \subseteq S \ {a}
    BY FS_Subset
  <2>2. Cardinality(S \ {a}) = n - 1 /\ IsFiniteSet(S \ {a})
    BY FS_RemoveElement
  <2>3. Cardinality(A) <= n - 1
    <3>1. Cardinality(A) <= Cardinality(S \ {a})
      BY <2>1, <2>2, FS_Subset
    <3>. QED
      BY <2>2, <3>1
  <2>4. Cardinality(A) \in Nat
    BY <2>1, FS_CardinalityType
  <2>5. Rank(S, before, a) = Cardinality(A)
    BY DEF Rank
  <2>. QED
    BY <1>1, <2>3, <2>4, <2>5
<1>3. ASSUME NEW a \in S, NEW b \in S, a # b
      PROVE  Rank(S, before, a) # Rank(S, before, b)
  <2>1. CASE <<a, b>> \in before
    BY <2>1, RankFollows
  <2>2. CASE <<b, a>> \in before
    BY <2>2, RankFollows
  <2>. QED
    BY <1>3, <2>1, <2>2
<1>4. IsFiniteSet(0 .. n - 1) /\ Cardinality(0 .. n - 1) = n
  BY <1>1, FS_Interval
<1>5. f \in Injection(S, 0 .. n - 1)
  BY <1>2, <1>3 DEF Injection, IsInjective
<1>. HIDE DEF f
<1>6. f \in Surjection(S, 0 .. n - 1)
  BY <1>4, <1>5, FS_Injection
<1>7. PICK a \in S : f[a] = k
  BY <1>6 DEF Surjection
<1>. QED
  BY <1>7 DEF f

FactList == Seq([priority : Nat, line : Text])

LEMMA FactParts ==
    ASSUME NEW facts \in FactList, NEW n \in DOMAIN facts
    PROVE  facts[n].priority \in Nat /\ facts[n].line \in Text
<1>1. facts[n] \in [priority : Nat, line : Text]
  BY ElementOf DEF FactList
<1>. QED
  BY <1>1

\* The order of the facts is one of them all.
LEMMA EachFactInTurn ==
    ASSUME NEW facts \in FactList, NEW k \in DOMAIN facts
    PROVE  PrioritizeFacts(facts)[k] \in DOMAIN facts
<1>. DEFINE S == DOMAIN facts
            before == {p \in S \X S :
                          \/ facts[p[1]].priority < facts[p[2]].priority
                          \/ facts[p[1]].priority = facts[p[2]].priority /\ p[1] < p[2]}
<1>1. S = 1 .. Len(facts) /\ Len(facts) \in Nat
  BY DEF FactList
<1>2. IsFiniteSet(S) /\ Cardinality(S) = Len(facts)
  <2>1. IsFiniteSet(1 .. Len(facts)) /\ Cardinality(1 .. Len(facts)) = Len(facts)
    <3>1. /\ IsFiniteSet(1 .. Len(facts))
          /\ Cardinality(1 .. Len(facts)) = IF 1 > Len(facts) THEN 0 ELSE Len(facts) - 1 + 1
      BY <1>1, FS_Interval
    <3>. QED
      BY <1>1, <3>1
  <2>. QED
    BY <1>1, <2>1
<1>3. \A a \in S : facts[a].priority \in Nat /\ a \in Nat
  BY <1>1, FactParts
<1>4. ASSUME NEW a \in S, NEW b \in S
      PROVE  <<a, b>> \in before <=> \/ facts[a].priority < facts[b].priority
                                     \/ facts[a].priority = facts[b].priority /\ a < b
  OBVIOUS
<1>5. PrioritizeFacts(facts)[k] = CHOOSE n \in S : Rank(S, before, n) = k - 1
  BY DEF PrioritizeFacts
<1>. HIDE DEF before, S
<1>6. ASSUME NEW a \in S, NEW b \in S, NEW c \in S, <<a, b>> \in before, <<b, c>> \in before
      PROVE  <<a, c>> \in before
  BY <1>3, <1>4, <1>6
<1>7. \A a \in S : <<a, a>> \notin before
  BY <1>3, <1>4
<1>8. ASSUME NEW a \in S, NEW b \in S, a # b
      PROVE  <<a, b>> \in before \/ <<b, a>> \in before
  BY <1>3, <1>4, <1>8
<1>9. k - 1 \in 0 .. Cardinality(S) - 1
  BY <1>1, <1>2 DEF S
<1>10. \E n \in S : Rank(S, before, n) = k - 1
  BY <1>2, <1>6, <1>7, <1>8, <1>9, EachRank
<1>11. (CHOOSE n \in S : Rank(S, before, n) = k - 1) \in S
  BY <1>10
<1>. QED
  BY <1>5, <1>11 DEF S

LEMMA FactsText ==
    ASSUME NEW facts \in FactList, NEW max \in Nat
    PROVE  TruncateFactsText(facts, max) \in Text
<1>. DEFINE order == PrioritizeFacts(facts)
            First(n) == FlattenSeq([k \in 1 .. n |-> facts[order[k]].line])
            fit == {n \in 0 .. Len(facts) : Len(First(n)) <= max}
<1>1. Len(facts) \in Nat /\ DOMAIN facts = 1 .. Len(facts)
  BY DEF FactList
<1>2. ASSUME NEW n \in 0 .. Len(facts)
      PROVE  First(n) \in Text
  <2>1. ASSUME NEW k \in 1 .. n PROVE facts[order[k]].line \in Text
    <3>1. order[k] \in DOMAIN facts
      BY <1>1, EachFactInTurn
    <3>. HIDE DEF order
    <3>. QED
      BY <3>1, FactParts
  <2>. HIDE DEF order
  <2>2. [k \in 1 .. n |-> facts[order[k]].line] \in Seq(Text)
    BY <1>1, <2>1
  <2>. QED
    BY <2>2, FlattenText
<1>3. 0 \in fit
  <2>1. [k \in 1 .. 0 |-> facts[order[k]].line] = <<>>
    OBVIOUS
  <2>2. First(0) = <<>>
    BY <2>1 DEF FlattenSeq
  <2>. HIDE DEF First
  <2>. QED
    BY <1>1, <2>2
<1>. HIDE DEF First
<1>4. Max(fit) \in fit
  BY <1>1, <1>3, MaxOfBounded
<1>5. TruncateFactsText(facts, max) = First(Max(fit))
  BY DEF TruncateFactsText, First
<1>. QED
  BY <1>2, <1>4, <1>5

\* Texts.
LEMMA EmptyText == <<>> \in Text /\ Len(<<>>) = 0 /\ Words(<<>>) = {}
  BY DEF Text, Words, Range

LEMMA Truncated ==
    ASSUME NEW all \in Text, NEW max \in Nat
    PROVE  Truncate(all, max) \in Text
  BY DEF Truncate, Text

\* A part of a all has none but its words.
LEMMA PartOfText ==
    ASSUME NEW all \in Text, NEW part \in SubSeqs(all)
    PROVE  Words(part) \subseteq Words(all)
<1>1. PICK i \in 0 .. Len(all), j \in 0 .. Len(all) : part = SubSeq(all, i + 1, j)
  BY DEF SubSeqs
<1>2. Len(all) \in Nat /\ DOMAIN all = 1 .. Len(all)
  BY DEF Text
<1>3. ASSUME NEW x \in DOMAIN part PROVE part[x] \in Words(all)
  <2>1. x \in 1 .. j - i /\ part[x] = all[i + x]
    BY <1>1, <1>2 DEF Text
  <2>2. i + x \in DOMAIN all
    BY <1>2, <2>1
  <2>. QED
    BY <2>1, <2>2 DEF Words, Range
<1>. QED
  BY <1>3 DEF Words, Range

LEMMA ArticleText ==
    ASSUME NEW in \in Folder, NEW n \in DOMAIN in.articles
    PROVE  /\ in.articles[n].meta \in Text /\ in.articles[n].head \in Text
           /\ in.articles[n].body \in Text /\ in.articles[n].attachedAt \in Nat
<1>1. in.articles \in Seq([role : {"primary", "enrichment"}, attachedAt : Nat,
                           meta : Text, head : Text, body : Text])
  BY DEF Folder
<1>2. in.articles[n] \in [role : {"primary", "enrichment"}, attachedAt : Nat,
                          meta : Text, head : Text, body : Text]
  BY <1>1, ElementOf
<1>. QED
  BY <1>2

LEMMA FolderParts ==
    ASSUME NEW in \in Folder
    PROVE  /\ in.title \in Text /\ in.facts \in FactList
           /\ DOMAIN in.articles = 1 .. Len(in.articles) /\ Len(in.articles) \in Nat
<1>1. in.articles \in Seq([role : {"primary", "enrichment"}, attachedAt : Nat,
                           meta : Text, head : Text, body : Text])
  BY DEF Folder
<1>. QED
  BY <1>1 DEF Folder, FactList

LEMMA SliceText ==
    ASSUME NEW in \in Folder, NEW emptied, NEW n \in DOMAIN in.articles
    PROVE  /\ Slice(in, emptied, n) \in Text
           /\ Len(Slice(in, DOMAIN in.articles, n)) <= Len(Slice(in, emptied, n))
<1>. DEFINE a == in.articles[n]
            rest == IF n \in emptied THEN <<>> ELSE Truncate(a.body, CONTEXT_ARTICLE_MAX_CHARS)
<1>1. a.head \in Text /\ a.body \in Text
  BY ArticleText
<1>2. rest \in Text /\ Len(rest) \in Nat
  <2>1. Truncate(a.body, CONTEXT_ARTICLE_MAX_CHARS) \in Text
    BY <1>1, Truncated, ContextAssumption
  <2>2. rest \in Text
    BY <2>1, EmptyText
  <2>. QED
    BY <2>2 DEF Text
<1>3. Slice(in, emptied, n) = a.head \o rest /\ Slice(in, DOMAIN in.articles, n) = a.head \o <<>>
  BY DEF Slice
<1>. HIDE DEF a, rest
<1>4. /\ a.head \o rest \in Text /\ Len(a.head \o rest) = Len(a.head) + Len(rest)
      /\ Len(a.head \o <<>>) = Len(a.head) + Len(<<>>)
  BY <1>1, <1>2, EmptyText, ConcatText
<1>5. Len(a.head) \in Nat
  BY <1>1 DEF Text
<1>6. Len(a.head) + Len(<<>>) <= Len(a.head) + Len(rest)
  BY <1>2, <1>5, EmptyText
<1>. QED
  BY <1>3, <1>4, <1>6

\* The articles as the prompt has them, and as facts are anchored in them.
Rendered(in, emptied) ==
    [n \in DOMAIN in.articles |-> in.articles[n].meta \o Slice(in, emptied, n)]
Anchored(in, emptied) == [n \in DOMAIN in.articles |-> Slice(in, emptied, n)]

LEMMA ArticlesText ==
    ASSUME NEW in \in Folder, NEW emptied
    PROVE  /\ Rendered(in, emptied) \in Seq(Text) /\ Anchored(in, emptied) \in Seq(Text)
           /\ Len(Rendered(in, emptied)) = Len(in.articles)
           /\ \A n \in DOMAIN in.articles :
                 /\ Words(Slice(in, emptied, n)) \subseteq Words(Rendered(in, emptied)[n])
                 /\ Len(Rendered(in, DOMAIN in.articles)[n]) <= Len(Rendered(in, emptied)[n])
<1>1. ASSUME NEW n \in DOMAIN in.articles
      PROVE  /\ Slice(in, emptied, n) \in Text
             /\ in.articles[n].meta \o Slice(in, emptied, n) \in Text
             /\ Words(Slice(in, emptied, n)) \subseteq Words(in.articles[n].meta \o Slice(in, emptied, n))
             /\ Len(in.articles[n].meta \o Slice(in, DOMAIN in.articles, n))
                  <= Len(in.articles[n].meta \o Slice(in, emptied, n))
  <2>1. /\ Slice(in, emptied, n) \in Text /\ Slice(in, DOMAIN in.articles, n) \in Text
        /\ Len(Slice(in, DOMAIN in.articles, n)) <= Len(Slice(in, emptied, n))
        /\ in.articles[n].meta \in Text
    BY SliceText, ArticleText
  <2>2. /\ Len(Slice(in, emptied, n)) \in Nat /\ Len(Slice(in, DOMAIN in.articles, n)) \in Nat
        /\ Len(in.articles[n].meta) \in Nat
    BY <2>1 DEF Text
  <2>3. /\ Len(in.articles[n].meta \o Slice(in, DOMAIN in.articles, n))
             = Len(in.articles[n].meta) + Len(Slice(in, DOMAIN in.articles, n))
        /\ Len(in.articles[n].meta \o Slice(in, emptied, n))
             = Len(in.articles[n].meta) + Len(Slice(in, emptied, n))
        /\ in.articles[n].meta \o Slice(in, emptied, n) \in Text
        /\ Words(in.articles[n].meta \o Slice(in, emptied, n))
             = Words(in.articles[n].meta) \cup Words(Slice(in, emptied, n))
    BY <2>1, ConcatText
  <2>4. \A a, b, c \in Nat : b <= c => a + b <= a + c
    OBVIOUS
  <2>. QED
    BY <2>1, <2>2, <2>3, <2>4
<1>2. DOMAIN in.articles = 1 .. Len(in.articles) /\ Len(in.articles) \in Nat
  BY FolderParts
<1>3. \A n \in DOMAIN in.articles :
         /\ Rendered(in, emptied)[n] = in.articles[n].meta \o Slice(in, emptied, n)
         /\ Rendered(in, DOMAIN in.articles)[n]
              = in.articles[n].meta \o Slice(in, DOMAIN in.articles, n)
  BY DEF Rendered
<1>4. /\ Rendered(in, emptied) \in Seq(Text) /\ Anchored(in, emptied) \in Seq(Text)
      /\ Len(Rendered(in, emptied)) = Len(in.articles)
  <2>. DEFINE r(n) == in.articles[n].meta \o Slice(in, emptied, n)
              l == Len(in.articles)
  <2>1. Rendered(in, emptied) = [n \in 1 .. l |-> r(n)]
    BY <1>2 DEF Rendered
  <2>2. Anchored(in, emptied) = [n \in 1 .. l |-> Slice(in, emptied, n)]
    BY <1>2 DEF Anchored
  <2>3. l \in Nat /\ \A n \in 1 .. l : r(n) \in Text /\ Slice(in, emptied, n) \in Text
    BY <1>1, <1>2
  <2>. HIDE DEF r, l
  <2>4. [n \in 1 .. l |-> r(n)] \in Seq(Text) /\ Len([n \in 1 .. l |-> r(n)]) = l
    BY <2>3
  <2>5. [n \in 1 .. l |-> Slice(in, emptied, n)] \in Seq(Text)
    BY <2>3
  <2>. QED
    BY <2>1, <2>2, <2>4, <2>5 DEF l
<1>. QED
  BY <1>1, <1>3, <1>4

\* The two texts: the facts are anchored in words of the prompt.
LEMMA AnchoredInPrompt ==
    ASSUME NEW in \in Folder, NEW emptied, NEW factsText \in Text
    PROVE  /\ AnchorText(in, emptied, factsText) \in Text
           /\ Words(AnchorText(in, emptied, factsText))
                \subseteq Words(RenderBody(in, emptied, factsText))
<1>. DEFINE a == FlattenSeq(Anchored(in, emptied))
            r == FlattenSeq(Rendered(in, emptied))
<1>1. /\ a \in Text /\ r \in Text
      /\ Words(a) = UNION {Words(Anchored(in, emptied)[i]) : i \in DOMAIN Anchored(in, emptied)}
      /\ Words(r) = UNION {Words(Rendered(in, emptied)[i]) : i \in DOMAIN Rendered(in, emptied)}
  BY ArticlesText, FlattenText
<1>2. Words(a) \subseteq Words(r)
  <2>1. ASSUME NEW i \in DOMAIN in.articles
        PROVE  Words(Anchored(in, emptied)[i]) \subseteq Words(Rendered(in, emptied)[i])
    <3>1. Anchored(in, emptied)[i] = Slice(in, emptied, i)
      BY DEF Anchored
    <3>. QED
      BY <3>1, ArticlesText
  <2>2. /\ DOMAIN Anchored(in, emptied) = DOMAIN in.articles
        /\ DOMAIN Rendered(in, emptied) = DOMAIN in.articles
    BY DEF Anchored, Rendered
  <2>. HIDE DEF a, r
  <2>. QED
    BY <1>1, <2>1, <2>2
<1>3. /\ AnchorText(in, emptied, factsText) = (in.title \o a) \o factsText
      /\ RenderBody(in, emptied, factsText) = (in.title \o r) \o factsText
  BY DEF AnchorText, RenderBody, Anchored, Rendered
<1>. HIDE DEF a, r
<1>4. in.title \in Text
  BY FolderParts
<1>5. /\ in.title \o a \in Text /\ Words(in.title \o a) = Words(in.title) \cup Words(a)
      /\ in.title \o r \in Text /\ Words(in.title \o r) = Words(in.title) \cup Words(r)
  BY <1>1, <1>4, ConcatText
<1>6. /\ (in.title \o a) \o factsText \in Text
      /\ Words((in.title \o a) \o factsText) = Words(in.title \o a) \cup Words(factsText)
      /\ Words((in.title \o r) \o factsText) = Words(in.title \o r) \cup Words(factsText)
  BY <1>5, ConcatText
<1>. QED
  BY <1>2, <1>3, <1>5, <1>6

\* No prompt is shorter than that of the heads alone.
LEMMA HeadsAreShortest ==
    ASSUME NEW in \in Folder, NEW emptied, NEW factsText \in Text, Fits(in, emptied, factsText)
    PROVE  Fits(in, DOMAIN in.articles, <<>>)
<1>. DEFINE h == FlattenSeq(Rendered(in, DOMAIN in.articles))
            r == FlattenSeq(Rendered(in, emptied))
<1>1. /\ Rendered(in, emptied) \in Seq(Text) /\ Rendered(in, DOMAIN in.articles) \in Seq(Text)
      /\ Len(Rendered(in, emptied)) = Len(Rendered(in, DOMAIN in.articles))
  BY ArticlesText
<1>2. \A n \in DOMAIN Rendered(in, DOMAIN in.articles) :
          Len(Rendered(in, DOMAIN in.articles)[n]) <= Len(Rendered(in, emptied)[n])
  <2>1. DOMAIN Rendered(in, DOMAIN in.articles) = DOMAIN in.articles
    BY DEF Rendered
  <2>. QED
    BY <2>1, ArticlesText
<1>3. h \in Text /\ r \in Text /\ Len(h) <= Len(r)
  BY <1>1, <1>2, FlattenText, FlattenLength
<1>4. /\ RenderBody(in, DOMAIN in.articles, <<>>) = (in.title \o h) \o <<>>
      /\ RenderBody(in, emptied, factsText) = (in.title \o r) \o factsText
  BY DEF RenderBody, Rendered
<1>. HIDE DEF h, r
<1>5. in.title \in Text
  BY FolderParts
<1>6. /\ in.title \o h \in Text /\ Len(in.title \o h) = Len(in.title) + Len(h)
      /\ in.title \o r \in Text /\ Len(in.title \o r) = Len(in.title) + Len(r)
  BY <1>3, <1>5, ConcatText
<1>7. /\ Len((in.title \o h) \o <<>>) = Len(in.title \o h) + 0
      /\ Len((in.title \o r) \o factsText) = Len(in.title \o r) + Len(factsText)
  BY <1>6, EmptyText, ConcatText
<1>8. Len(in.title) \in Nat /\ Len(h) \in Nat /\ Len(r) \in Nat /\ Len(factsText) \in Nat
  BY <1>3, <1>5 DEF Text
<1>9. \A t, x, y, f \in Nat : x <= y => t + x + 0 <= t + y + f
  OBVIOUS
<1>10. Len(RenderBody(in, DOMAIN in.articles, <<>>)) <= Len(RenderBody(in, emptied, factsText))
  BY <1>3, <1>4, <1>6, <1>7, <1>8, <1>9
<1>11. /\ Len(RenderBody(in, DOMAIN in.articles, <<>>)) \in Nat
       /\ Len(RenderBody(in, emptied, factsText)) \in Nat
  BY <1>4, <1>6, <1>7, <1>8
<1>12. Len(RenderBody(in, emptied, factsText)) <= CONTEXT_BODY_MAX_CHARS /\ CONTEXT_BODY_MAX_CHARS \in Nat
  BY ContextAssumption DEF Fits
<1>13. \A a, b, c \in Nat : a <= b /\ b <= c => a <= c
  OBVIOUS
<1>. QED
  BY <1>10, <1>11, <1>12, <1>13 DEF Fits

\* The articles emptied are all of them, or the oldest enrichments that it takes.
Oldest(in, n) == {m \in Enrichments(in) : Rank(Enrichments(in), OldestFirst(in), m) < n}

LEMMA EmptiedIs ==
    ASSUME NEW in \in Folder, NEW factsText
    PROVE  \/ Emptied(in, factsText) = DOMAIN in.articles
           \/ \E n \in Nat : /\ Emptied(in, factsText) = Oldest(in, n)
                             /\ Fits(in, Oldest(in, n), factsText)
<1>. DEFINE enough == {n \in 0 .. Cardinality(Enrichments(in)) : Fits(in, Oldest(in, n), factsText)}
<1>1. Emptied(in, factsText) = IF enough = {} THEN DOMAIN in.articles ELSE Oldest(in, Min(enough))
  BY DEF Emptied, Oldest
<1>2. CASE enough # {}
  <2>1. enough \subseteq Nat
    OBVIOUS
  <2>2. Min(enough) \in enough
    BY <1>2, <2>1, MinOfNat
  <2>. QED
    BY <1>1, <1>2, <2>1, <2>2
<1>. QED
  BY <1>1, <1>2

\* An enrichment goes before a more recent one.
LEMMA OldestGoFirst ==
    ASSUME NEW in \in Folder, NEW n \in Nat,
           NEW a \in Enrichments(in), NEW b \in Enrichments(in),
           in.articles[a].attachedAt < in.articles[b].attachedAt, b \in Oldest(in, n)
    PROVE  a \in Oldest(in, n)
<1>. DEFINE S == Enrichments(in)
            before == OldestFirst(in)
<1>1. S \subseteq DOMAIN in.articles /\ IsFiniteSet(S)
  <2>1. S \subseteq DOMAIN in.articles
    BY DEF Enrichments
  <2>2. IsFiniteSet(1 .. Len(in.articles))
    BY FolderParts, FS_Interval
  <2>. QED
    BY <2>1, <2>2, FolderParts, FS_Subset
<1>2. \A x \in S : x \in Nat /\ in.articles[x].attachedAt \in Nat
  BY <1>1, FolderParts, ArticleText
<1>3. ASSUME NEW x \in S, NEW y \in S
      PROVE  <<x, y>> \in before <=>
                \/ in.articles[x].attachedAt < in.articles[y].attachedAt
                \/ in.articles[x].attachedAt = in.articles[y].attachedAt /\ x < y
  BY DEF OldestFirst
<1>4. Rank(S, before, b) < n
  BY DEF Oldest
<1>. HIDE DEF S, before
<1>5. ASSUME NEW x \in S, NEW y \in S, NEW z \in S, <<x, y>> \in before, <<y, z>> \in before
      PROVE  <<x, z>> \in before
  BY <1>2, <1>3, <1>5
<1>6. \A x \in S : <<x, x>> \notin before
  BY <1>2, <1>3
<1>7. a \in S /\ b \in S /\ <<a, b>> \in before
  BY <1>3 DEF S
<1>8. /\ Rank(S, before, a) \in Nat /\ Rank(S, before, b) \in Nat
      /\ Rank(S, before, a) < Rank(S, before, b)
  BY <1>1, <1>5, <1>6, <1>7, RankFollows
<1>9. Rank(S, before, a) < n
  BY <1>4, <1>8
<1>. QED
  BY <1>7, <1>9 DEF Oldest, S, before

\* The facts that are kept: none, all that there is room for at first, or those that fit.
LEMMA FactsKept ==
    ASSUME NEW in \in Folder
    PROVE  LET c == BuildAnalysisContext(in)
               whole == TruncateFactsText(in.facts, CONTEXT_FACTS_MAX_CHARS)
           IN  /\ whole \in Text /\ c.factsText \in Text
               /\ c.emptied = Emptied(in, whole)
               /\ c.ok <=> Fits(in, c.emptied, c.factsText)
               /\ Fits(in, c.emptied, whole) => c.factsText = whole
               /\ c.factsText = <<>> \/ Fits(in, c.emptied, c.factsText)
<1>. DEFINE C == CONTEXT_FACTS_MAX_CHARS
            whole == TruncateFactsText(in.facts, C)
            emptied == Emptied(in, whole)
            enough == {b \in Budgets : Fits(in, emptied, TruncateFactsText(in.facts, b))}
            factsText == IF enough = {} THEN <<>> ELSE TruncateFactsText(in.facts, Max(enough))
            c == BuildAnalysisContext(in)
<1>1. c = [ok |-> Fits(in, emptied, factsText), emptied |-> emptied, factsText |-> factsText]
  BY DEF BuildAnalysisContext
<1>2. /\ c.emptied = emptied /\ c.factsText = factsText
      /\ c.ok <=> Fits(in, emptied, factsText)
  BY <1>1
<1>3. C \in Nat /\ Budgets \subseteq 0 .. C /\ C \in Budgets
  BY ContextAssumption DEF Budgets
<1>4. \A b \in Budgets : TruncateFactsText(in.facts, b) \in Text
  BY <1>3, FolderParts, FactsText
<1>. HIDE DEF C, c
<1>5. enough # {} => Max(enough) \in enough /\ \A b \in enough : b <= Max(enough)
  <2>1. enough \subseteq 0 .. C
    BY <1>3
  <2>. HIDE DEF enough
  <2>. QED
    BY <1>3, <2>1, MaxOfBounded
<1>6. ASSUME Fits(in, emptied, whole)
      PROVE  factsText = whole
  <2>1. C \in enough
    BY <1>3, <1>6
  <2>2. Max(enough) = C
    <3>1. Max(enough) \in 0 .. C /\ C <= Max(enough)
      BY <1>3, <1>5, <2>1
    <3>. QED
      BY <1>3, <3>1
  <2>. QED
    BY <2>1, <2>2
<1>7. whole \in Text /\ factsText \in Text
  BY <1>3, <1>4, <1>5, EmptyText
<1>8. factsText = <<>> \/ Fits(in, emptied, factsText)
  BY <1>5
<1>. QED
  BY <1>2, <1>6, <1>7, <1>8 DEF C, c

\* The three parts of ContextInv.
LEMMA RetainedWereShown ==
    ASSUME NEW in \in Folder, NEW proposed
    PROVE  FactsWereShown(in, proposed)
<1>. DEFINE c == BuildAnalysisContext(in)
            anchor == AggregateAnchorText(in, c)
            prompt == RenderBody(in, c.emptied, c.factsText)
<1>1. anchor \in Text /\ Words(anchor) \subseteq Words(prompt)
  BY FactsKept, AnchoredInPrompt DEF AggregateAnchorText
<1>2. SUFFICES ASSUME NEW n \in ValidateAndAnchorFacts(proposed, anchor)
               PROVE  SignificantTokens(proposed[n].value) \subseteq Words(prompt)
  BY DEF FactsWereShown
<1>. HIDE DEF anchor, prompt
<1>3. IsFactAnchored(proposed[n], anchor)
  BY DEF ValidateAndAnchorFacts
<1>4. CASE proposed[n].value \in SubSeqs(anchor)
  <2>1. Words(proposed[n].value) \subseteq Words(anchor)
    BY <1>1, <1>4, PartOfText
  <2>. QED
    BY <1>1, <2>1 DEF SignificantTokens
<1>5. CASE SignificantTokens(proposed[n].value) \subseteq Words(anchor)
  BY <1>1, <1>5
<1>. QED
  BY <1>3, <1>4, <1>5 DEF IsFactAnchored

LEMMA HeadsAloneRefuse ==
    ASSUME NEW in \in Folder
    PROVE  OnlyHeadsRefuse(in)
<1>. DEFINE c == BuildAnalysisContext(in)
            whole == TruncateFactsText(in.facts, CONTEXT_FACTS_MAX_CHARS)
<1>1. /\ whole \in Text /\ c.factsText \in Text
      /\ c.emptied = Emptied(in, whole)
      /\ c.ok <=> Fits(in, c.emptied, c.factsText)
      /\ Fits(in, c.emptied, whole) => c.factsText = whole
      /\ c.factsText = <<>> \/ Fits(in, c.emptied, c.factsText)
  BY FactsKept
<1>. HIDE DEF c, whole
<1>2. c.ok => Fits(in, DOMAIN in.articles, <<>>)
  BY <1>1, HeadsAreShortest
<1>3. ASSUME Fits(in, DOMAIN in.articles, <<>>)
      PROVE  c.ok
  <2>1. CASE c.emptied = DOMAIN in.articles
    BY <1>1, <1>3, <2>1
  <2>2. CASE Fits(in, c.emptied, whole)
    BY <1>1, <2>2
  <2>. QED
    BY <1>1, <2>1, <2>2, EmptiedIs
<1>. QED
  BY <1>2, <1>3 DEF OnlyHeadsRefuse, c

LEMMA ReducedInOrder ==
    ASSUME NEW in \in Folder
    PROVE  ReductionOrder(in)
<1>. DEFINE c == BuildAnalysisContext(in)
            whole == TruncateFactsText(in.facts, CONTEXT_FACTS_MAX_CHARS)
<1>1. /\ c.emptied = Emptied(in, whole)
      /\ Fits(in, c.emptied, whole) => c.factsText = whole
  BY FactsKept
<1>. HIDE DEF c
<1>2. \/ c.emptied = DOMAIN in.articles
      \/ \E n \in Nat : c.emptied = Oldest(in, n) /\ Fits(in, c.emptied, whole)
  <2>. HIDE DEF whole
  <2>. QED
    BY <1>1, EmptiedIs
<1>3. Enrichments(in) \subseteq DOMAIN in.articles
  BY DEF Enrichments
<1>4. CASE c.emptied = DOMAIN in.articles
  BY <1>3, <1>4 DEF ReductionOrder, c
<1>5. CASE \E n \in Nat : c.emptied = Oldest(in, n) /\ Fits(in, c.emptied, whole)
  <2>1. PICK n \in Nat : c.emptied = Oldest(in, n) /\ Fits(in, c.emptied, whole)
    BY <1>5
  <2>2. ASSUME NEW a \in Enrichments(in), NEW b \in Enrichments(in),
               in.articles[a].attachedAt < in.articles[b].attachedAt, b \in c.emptied
        PROVE  a \in c.emptied
    BY <2>1, <2>2, OldestGoFirst
  <2>3. c.emptied \cap Primary(in) = {}
    BY <2>1 DEF Oldest, Primary
  <2>4. c.factsText = whole
    BY <1>1, <2>1
  <2>. QED
    BY <2>2, <2>3, <2>4 DEF ReductionOrder, c
<1>. QED
  BY <1>2, <1>4, <1>5

(***************************************************************************)
(* Of a folder of any number of articles, texts and facts, the facts that  *)
(* are retained stand in the prompt, it is refused only for its heads, and *)
(* what is taken away follows the order documented (buildAnalysisContext). *)
(***************************************************************************)
THEOREM ContextInvHolds == InputSpec => []ContextInv
<1>1. InputTypeOK => ContextInv
  BY FoldersAssumption, RetainedWereShown, HeadsAloneRefuse, ReducedInOrder
     DEF InputTypeOK, ContextInv
<1>. QED
  BY <1>1, TypeCorrect, PTL

-----------------------------------------------------------------------------
(* Lemmas on the first defined of a sequence, and on fingerprints.           *)

LEMMA FirstDefinedIs ==
    ASSUME NEW s, DOMAIN s \subseteq Nat
    PROVE  /\ FirstDefined(s) # None => \E i \in DOMAIN s : s[i] = FirstDefined(s)
           /\ FirstDefined(s) = None => \A i \in DOMAIN s : s[i] = None
<1>. DEFINE defined == {i \in DOMAIN s : s[i] # None}
<1>1. CASE defined = {}
  BY <1>1 DEF FirstDefined
<1>2. CASE defined # {}
  <2>1. Min(defined) \in defined
    BY <1>2, MinOfNat
  <2>2. FirstDefined(s) = s[Min(defined)]
    BY <1>2 DEF FirstDefined
  <2>. QED
    BY <2>1, <2>2
<1>. QED
  BY <1>1, <1>2

\* The scalars of the fingerprint of a folder, and its entities.
LEMMA PrintOfFolder ==
    ASSUME NEW f
    PROVE  LET m == members[f]  q == FolderPrint(f)
           IN  /\ q.product = FirstDefined([i \in DOMAIN m |-> text[m[i]].product])
               /\ q.version = FirstDefined([i \in DOMAIN m |-> text[m[i]].version])
               /\ q.entities = UNION {FingerprintOf(text[m[i]]).entities : i \in DOMAIN m}
<1>. DEFINE m == members[f]
            ps == [i \in DOMAIN m |-> FingerprintOf(text[m[i]])]
<1>1. DOMAIN ps = DOMAIN m /\ \A i \in DOMAIN m : ps[i] = FingerprintOf(text[m[i]])
  OBVIOUS
<1>. HIDE DEF ps, m
<1>2. /\ MergeFingerprints(ps).product = FirstDefined([i \in DOMAIN ps |-> ps[i].product])
      /\ MergeFingerprints(ps).version = FirstDefined([i \in DOMAIN ps |-> ps[i].version])
      /\ MergeFingerprints(ps).entities = UNION {ps[i].entities : i \in DOMAIN ps}
  BY DEF MergeFingerprints
<1>3. \A i \in DOMAIN m : ps[i].product = text[m[i]].product /\ ps[i].version = text[m[i]].version
  <2>1. \A x : FingerprintOf(x).product = x.product /\ FingerprintOf(x).version = x.version
    BY DEF FingerprintOf
  <2>. QED
    BY <1>1, <2>1
<1>4. /\ [i \in DOMAIN ps |-> ps[i].product] = [i \in DOMAIN m |-> text[m[i]].product]
      /\ [i \in DOMAIN ps |-> ps[i].version] = [i \in DOMAIN m |-> text[m[i]].version]
      /\ {ps[i].entities : i \in DOMAIN ps} = {FingerprintOf(text[m[i]]).entities : i \in DOMAIN m}
  BY <1>1, <1>3
<1>5. FolderPrint(f) = MergeFingerprints(ps)
  BY DEF FolderPrint, ps, m
<1>. QED
  BY <1>2, <1>4, <1>5 DEF m

-----------------------------------------------------------------------------
(* The engine.                                                             *)

LEMMA NamedEntities ==
    \A x : LET p == FingerprintOf(x)
           IN  /\ p.product = x.product /\ p.version = x.version
               /\ p.entities = x.names \cup Defined({x.product, x.version})
               /\ p.product # None => p.product \in p.entities
BY DEF FingerprintOf, Defined

LEMMA OneSharedEntity ==
    ASSUME NEW p, NEW q, IsFiniteSet(p.entities), MinSharedEntities = 1
    PROVE  SameEntities(p, q) <=> p.entities \cap q.entities # {}
<1>. DEFINE shared == p.entities \cap q.entities
<1>1. IsFiniteSet(shared) /\ Cardinality(shared) \in Nat
  <2>1. IsFiniteSet(shared)
    BY FS_Subset
  <2>. QED
    BY <2>1, FS_CardinalityType
<1>2. Cardinality(shared) = 0 <=> shared = {}
  BY <1>1, FS_EmptySet
<1>. HIDE DEF shared
<1>3. Cardinality(shared) >= 1 <=> shared # {}
  BY <1>1, <1>2
<1>. QED
  BY <1>3 DEF SameEntities, shared

\* With one shared entity enough, a product in common is an entity in common.
LEMMA EventDecides ==
    ASSUME NEW p, NEW q, IsFiniteSet(p.entities), MinSharedEntities = 1,
           p.product # None => p.product \in p.entities,
           q.product # None => q.product \in q.entities
    PROVE  Attachable(p, q) <=> SameEvent(p, q)
<1>1. SameProduct(p, q) => SameEntities(p, q)
  BY OneSharedEntity DEF SameProduct
<1>2. Attachable(p, q) <=> ~BlockingConflict(p, q) /\ (StrongCore(p, q) \/ MediumCore(p, q))
  BY DEF Attachable, CompareFingerprints
<1>3. StrongCore(p, q) \/ MediumCore(p, q) <=>
        SameUrl(p, q) \/ (SameEntities(p, q) /\ (SameNature(p, q) \/ SameVersion(p, q)))
  BY <1>1 DEF StrongCore, MediumCore
<1>. QED
  BY <1>2, <1>3 DEF SameEvent

LEMMA EvaluateArticleIs ==
    ASSUME NEW t, NEW candidates
    PROVE  LET d == EvaluateArticle(t, candidates)  p == FingerprintOf(t)
           IN  /\ d.issue \in Issue
               /\ d.issue = "create_dossier" =>
                    \A f \in DOMAIN candidates : ~Attachable(p, candidates[f])
               /\ d.issue = "attach_enrich" =>
                    d.folder \in DOMAIN candidates /\ Attachable(p, candidates[d.folder])
<1>. DEFINE d == EvaluateArticle(t, candidates)
            p == FingerprintOf(t)
            Rated(c) == {f \in DOMAIN candidates : CompareFingerprints(p, candidates[f]) = c}
            top == IF Rated("high") # {} THEN Rated("high") ELSE Rated("medium")
            best == CHOOSE f \in top : TRUE
<1>1. \A i, f : Proposal(i, f).issue = i /\ Proposal(i, f).folder = f
  BY DEF Proposal
<1>2. top # {} => best \in DOMAIN candidates /\ Attachable(p, candidates[best])
  BY DEF Attachable
<1>3. top = {} => \A f \in DOMAIN candidates : ~Attachable(p, candidates[f])
  BY DEF Attachable
<1>4. \/ d = Proposal("ambiguous_no_action", None)
      \/ top # {} /\ d = Proposal("attach_enrich", best)
      \/ top # {} /\ d = Proposal("duplicate_editorial", best)
      \/ top = {} /\ d = Proposal("create_dossier", None)
  BY DEF EvaluateArticle
<1>. HIDE DEF d, top, best
<1>5. \/ d.issue = "ambiguous_no_action"
      \/ top # {} /\ d.issue = "attach_enrich" /\ d.folder = best
      \/ top # {} /\ d.issue = "duplicate_editorial"
      \/ top = {} /\ d.issue = "create_dossier"
  BY <1>1, <1>4
<1>. QED
  BY <1>2, <1>3, <1>5 DEF Issue, d

-----------------------------------------------------------------------------
(* The order of the folders.                                               *)

LEMMA RemoveAtIs ==
    ASSUME NEW S, NEW s \in Seq(S), NEW k \in 1 .. Len(s)
    PROVE  /\ RemoveAt(s, k) \in Seq(S) /\ Len(RemoveAt(s, k)) = Len(s) - 1
           /\ \A i \in 1 .. Len(s) - 1 :
                 RemoveAt(s, k)[i] = IF i < k THEN s[i] ELSE s[i + 1]
<1>. DEFINE a == SubSeq(s, 1, k - 1)  b == SubSeq(s, k + 1, Len(s))
<1>1. /\ a \in Seq(S) /\ Len(a) = k - 1
      /\ \A i \in 1 .. k - 1 : a[i] = s[i]
  BY SubSeqProperties
<1>2. /\ b \in Seq(S) /\ Len(b) = Len(s) - k
      /\ \A i \in 1 .. Len(s) - k : b[i] = s[k + i]
  BY SubSeqProperties
<1>. HIDE DEF a, b
<1>3. /\ a \o b \in Seq(S) /\ Len(a \o b) = Len(s) - 1
      /\ \A i \in 1 .. Len(s) - 1 : (a \o b)[i] = IF i < k THEN s[i] ELSE s[i + 1]
  <2>0. Len(s) \in Nat /\ k \in 1 .. Len(s)
    OBVIOUS
  <2>1. /\ a \o b \in Seq(S) /\ Len(a \o b) = Len(a) + Len(b)
        /\ \A i \in 1 .. Len(a) + Len(b) :
              (a \o b)[i] = IF i <= Len(a) THEN a[i] ELSE b[i - Len(a)]
    BY <1>1, <1>2, ConcatProperties
  <2>2. Len(a) + Len(b) = Len(s) - 1
    BY <1>1, <1>2, <2>0
  <2>3. ASSUME NEW i \in 1 .. Len(s) - 1
        PROVE  (a \o b)[i] = IF i < k THEN s[i] ELSE s[i + 1]
    <3>1. (a \o b)[i] = IF i <= Len(a) THEN a[i] ELSE b[i - Len(a)]
      BY <2>1, <2>2
    <3>2. CASE i < k
      BY <1>1, <2>0, <3>1, <3>2
    <3>3. CASE i >= k
      <4>1. i - (k - 1) \in 1 .. Len(s) - k /\ k + (i - (k - 1)) = i + 1 /\ ~(i <= k - 1)
        BY <2>0, <3>3
      <4>. QED
        BY <1>1, <1>2, <2>0, <3>1, <3>3, <4>1
    <3>4. i < k \/ i >= k
      BY <2>0
    <3>. QED
      BY <3>2, <3>3, <3>4
  <2>. QED
    BY <2>1, <2>2, <2>3
<1>. QED
  BY <1>3 DEF RemoveAt, a, b

IsWithout(S, s, e, r) ==
    /\ r \in Seq(S) /\ IsInjective(r)
    /\ {r[i] : i \in DOMAIN r} = {s[i] : i \in DOMAIN s} \ {e}

LEMMA RemoveFirstIs ==
    ASSUME NEW S, NEW s \in Seq(S), IsInjective(s), NEW e
    PROVE  IsWithout(S, s, e, RemoveFirst(s, e))
<1>0. PICK r : r = RemoveFirst(s, e)
  OBVIOUS
<1>. DEFINE at == {i \in 1 .. Len(s) : s[i] = e}
<1>1. CASE at = {}
  <2>1. r = s
    BY <1>0, <1>1 DEF RemoveFirst
  <2>. QED
    BY <1>0, <1>1, <2>1 DEF IsWithout
<1>2. CASE at # {}
  <2>. DEFINE k == Min(at)
  <2>1. k \in at
    <3>1. at \subseteq Nat
      OBVIOUS
    <3>. QED
      BY <1>2, <3>1, MinOfNat
  <2>2. r = RemoveAt(s, k)
    BY <1>0, <1>2 DEF RemoveFirst, SelectInSeq
  <2>. HIDE DEF k
  <2>3. /\ r \in Seq(S) /\ Len(r) = Len(s) - 1 /\ k \in 1 .. Len(s) /\ s[k] = e
        /\ \A i \in 1 .. Len(s) - 1 : r[i] = IF i < k THEN s[i] ELSE s[i + 1]
    BY <2>1, <2>2, RemoveAtIs
  <2>4. \A i, j \in 1 .. Len(s) : s[i] = s[j] => i = j
    BY DEF IsInjective
  <2>5. IsInjective(r)
    <3>1. ASSUME NEW i \in 1 .. Len(s) - 1, NEW j \in 1 .. Len(s) - 1, r[i] = r[j]
          PROVE  i = j
      BY <2>3, <2>4, <3>1
    <3>. QED
      BY <2>3, <3>1 DEF IsInjective
  <2>6. ASSUME NEW i \in DOMAIN r PROVE r[i] \in {s[j] : j \in DOMAIN s} \ {e}
    BY <2>3, <2>4
  <2>7. ASSUME NEW j \in DOMAIN s, s[j] # e PROVE s[j] \in {r[i] : i \in DOMAIN r}
    <3>1. CASE j < k
      <4>1. j \in DOMAIN r /\ r[j] = s[j]
        BY <2>3, <3>1
      <4>. QED
        BY <4>1
    <3>2. CASE j > k
      <4>1. j - 1 \in DOMAIN r /\ r[j - 1] = s[j]
        BY <2>3, <3>2
      <4>. QED
        BY <4>1
    <3>. QED
      BY <2>3, <2>7, <3>1, <3>2
  <2>. QED
    BY <1>0, <2>3, <2>5, <2>6, <2>7 DEF IsWithout
<1>. QED
  BY <1>1, <1>2

LEMMA TouchIs ==
    ASSUME NEW S, recent \in Seq(S), IsInjective(recent), NEW f \in S, Touch(f)
    PROVE  recent' \in Seq(S) /\ IsInjective(recent') /\ Folders' = Folders \cup {f}
<1>0. PICK r : r = RemoveFirst(recent, f)
  OBVIOUS
<1>1. r \in Seq(S) /\ IsInjective(r) /\ {r[i] : i \in DOMAIN r} = Folders \ {f}
  <2>1. IsWithout(S, recent, f, r)
    BY <1>0, RemoveFirstIs
  <2>. QED
    BY <2>1 DEF Folders, IsWithout
<1>2. recent' = <<f>> \o r
  BY <1>0 DEF Touch
<1>3. /\ recent' \in Seq(S) /\ Len(recent') = Len(r) + 1 /\ recent'[1] = f
      /\ \A i \in 1 .. Len(r) : recent'[i + 1] = r[i]
  BY <1>1, <1>2
<1>4. \A i \in DOMAIN r : r[i] # f
  BY <1>1
<1>7. ASSUME NEW x \in DOMAIN recent', x # 1 PROVE x - 1 \in DOMAIN r /\ recent'[x] = r[x - 1]
  <2>1. x - 1 \in 1 .. Len(r) /\ (x - 1) + 1 = x /\ DOMAIN r = 1 .. Len(r)
    BY <1>1, <1>3, <1>7
  <2>. QED
    BY <1>3, <2>1
<1>5. ASSUME NEW i \in DOMAIN recent', NEW j \in DOMAIN recent', recent'[i] = recent'[j]
      PROVE  i = j
  <2>1. \A x \in DOMAIN recent' : x # 1 => x - 1 \in DOMAIN r /\ recent'[x] = r[x - 1]
    BY <1>7
  <2>2. \A x, y \in DOMAIN r : r[x] = r[y] => x = y
    BY <1>1 DEF IsInjective
  <2>3. i \in Nat /\ j \in Nat
    BY <1>3
  <2>. QED
    BY <1>3, <1>4, <1>5, <2>1, <2>2, <2>3
<1>6. {recent'[i] : i \in DOMAIN recent'} = {r[i] : i \in DOMAIN r} \cup {f}
  <2>1. ASSUME NEW i \in DOMAIN recent' PROVE recent'[i] \in {r[j] : j \in DOMAIN r} \cup {f}
    BY <1>3, <1>7
  <2>2. ASSUME NEW i \in DOMAIN r PROVE r[i] \in {recent'[j] : j \in DOMAIN recent'}
    <3>1. i + 1 \in DOMAIN recent' /\ recent'[i + 1] = r[i]
      BY <1>1, <1>3
    <3>. QED
      BY <3>1
  <2>3. 1 \in DOMAIN recent' /\ recent'[1] = f
    BY <1>1, <1>3
  <2>. QED
    BY <2>1, <2>2, <2>3
<1>. QED
  BY <1>1, <1>3, <1>5, <1>6 DEF IsInjective, Folders

-----------------------------------------------------------------------------
(* Each article in one folder, whatever the cycles.                        *)

Placing == {"create_dossier", "attach_enrich"}
Tag(a, f) == IF a = f THEN "create_dossier" ELSE "attach_enrich"

IsCycle(r) == r = [phase |-> r.phase, eligible |-> r.eligible, candidates |-> r.candidates,
                   hand |-> r.hand, said |-> r.said]

CycleTyped(r, rows, folders) ==
    /\ IsCycle(r)
    /\ r.phase \in {"off", "collected", "matching"}
    /\ DOMAIN r.eligible \subseteq rows
    /\ DOMAIN r.candidates \subseteq folders
    /\ r.hand \in rows \cup {Idle}

Cycles ==
    /\ cyc = [c \in Cycle |-> cyc[c]]
    /\ \A c \in Cycle : CycleTyped(cyc[c], saved, Folders)

\* The decisions of an article that is in no folder placed it in none.
Undecided == \A a \in Article : a \notin Placed => decisions[a] \cap Placing = {}

FoldersInv ==
    /\ saved \subseteq Article
    /\ members \in [Article -> Seq(saved)]
    /\ recent \in Seq(saved) /\ IsInjective(recent)
    /\ Folders = {f \in Article : members[f] # <<>>}
    /\ decisions \in [Article -> SUBSET Issue]
    /\ PlacedOnce /\ Undecided

RowsInv ==
    /\ set \in Settings
    /\ text \in [Article -> set.texts]
    /\ edits \in 0 .. set.edits

StageInv == FoldersInv /\ RowsInv /\ Cycles

LEMMA StageTyped == StageInv => TypeOK
BY DEF StageInv, FoldersInv, RowsInv, Cycles, CycleTyped, TypeOK

LEMMA MembersOfNone == \A f : members[f] = <<>> => Members(f) = {}
BY DEF Members

LEMMA PlacedIs == \A a : a \in Placed <=> \E f \in Folders : a \in Members(f)
BY DEF Placed

PlacesIn(a, f) ==
    /\ Folders' = Folders \cup {f} /\ Members(f)' = Members(f) \cup {a}
    /\ \A g \in Article : g # f => Members(g)' = Members(g)

\* Article a, in no folder so far, becomes the last member of f, which may be its own.
LEMMA PlaceStep ==
    ASSUME FoldersInv, NEW a \in saved, a \notin Placed, NEW f \in Folders \cup {a},
           members' = [members EXCEPT ![f] = Append(members[f], a)], Touch(f),
           decisions' = [decisions EXCEPT ![a] = decisions[a] \cup {Tag(a, f)}],
           UNCHANGED saved
    PROVE  FoldersInv' /\ PlacesIn(a, f)
<1>0. /\ saved \subseteq Article /\ members \in [Article -> Seq(saved)]
      /\ Folders = {g \in Article : members[g] # <<>>}
      /\ decisions \in [Article -> SUBSET Issue]
      /\ Folders \subseteq saved
  <2>1. Folders \subseteq saved
    BY DEF FoldersInv, Folders
  <2>. QED
    BY <2>1 DEF FoldersInv
<1>1. ASSUME NEW g \in Folders
      PROVE  members[g] \in Seq(saved) /\ 1 \in DOMAIN members[g] /\ g \in Members(g)
  <2>1. members[g] \in Seq(saved) /\ members[g] # <<>>
    BY <1>0
  <2>2. 1 \in DOMAIN members[g]
    BY <2>1
  <2>3. members[g][1] = g
    BY DEF FoldersInv, PlacedOnce
  <2>. QED
    BY <2>1, <2>2, <2>3 DEF Members
<1>2. a \notin Folders
  BY <1>1, PlacedIs
<1>3. f \in Article /\ f \in saved /\ (f = a => members[f] = <<>>)
  BY <1>0, <1>2
<1>4. /\ members'[f] = Append(members[f], a) /\ members[f] \in Seq(saved)
      /\ members' \in [Article -> Seq(saved)]
      /\ \A g \in Article : g # f => members'[g] = members[g]
  BY <1>0, <1>3
<1>5. /\ DOMAIN members'[f] = 1 .. Len(members[f]) + 1
      /\ DOMAIN members[f] = 1 .. Len(members[f]) /\ Len(members[f]) \in Nat
      /\ members'[f][Len(members[f]) + 1] = a
      /\ \A i \in DOMAIN members[f] : members'[f][i] = members[f][i]
  BY <1>4
<1>6. Members(f)' = Members(f) \cup {a}
  BY <1>5 DEF Members
<1>7. \A g \in Article : g # f => Members(g)' = Members(g)
  BY <1>4 DEF Members
<1>8. \A g \in Folders : a \notin Members(g)
  BY PlacedIs
<1>9. f \notin Folders => Members(f) = {}
  BY <1>3, MembersOfNone
<1>10. recent' \in Seq(saved) /\ IsInjective(recent') /\ Folders' = Folders \cup {f}
  BY <1>3, TouchIs DEF FoldersInv
<1>11. Folders' = {g \in Article : members'[g] # <<>>}
  <2>1. members'[f] # <<>>
    BY <1>5
  <2>. QED
    BY <1>0, <1>3, <1>4, <1>10, <2>1
<1>12. /\ decisions' \in [Article -> SUBSET Issue]
       /\ decisions'[a] = decisions[a] \cup {Tag(a, f)}
       /\ \A b \in Article : b # a => decisions'[b] = decisions[b]
  BY <1>0 DEF Tag, Issue
<1>13. decisions'[a] \cap Placing = {Tag(a, f)}
  <2>1. decisions[a] \cap Placing = {} /\ Tag(a, f) \in Placing
    BY <1>0 DEF FoldersInv, Undecided, Placing, Tag
  <2>. QED
    BY <1>12, <2>1
<1>14. PlacedOnce'
  <2>1. ASSUME NEW g \in Folders', NEW h \in Folders', g # h
        PROVE  Members(g)' \cap Members(h)' = {}
    <3>0. g \in Article /\ h \in Article
      BY <1>0, <1>3, <1>10
    <3>1. \A x, y \in Folders : x # y => Members(x) \cap Members(y) = {}
      BY DEF FoldersInv, PlacedOnce
    <3>2. CASE g = f
      BY <1>6, <1>7, <1>8, <1>9, <1>10, <2>1, <3>0, <3>1, <3>2
    <3>3. CASE h = f
      BY <1>6, <1>7, <1>8, <1>9, <1>10, <2>1, <3>0, <3>1, <3>3
    <3>4. CASE g # f /\ h # f
      BY <1>7, <1>10, <2>1, <3>0, <3>1, <3>4
    <3>. QED
      BY <3>2, <3>3, <3>4
  <2>2. ASSUME NEW g \in Folders'
        PROVE  IsInjective(members'[g]) /\ members'[g][1] = g
    <3>1. CASE g # f
      <4>1. g \in Folders /\ members'[g] = members[g]
        BY <1>0, <1>4, <1>10, <3>1
      <4>. QED
        BY <4>1 DEF FoldersInv, PlacedOnce
    <3>2. CASE g = f /\ f = a
      <4>1. Len(members[f]) = 0
        BY <1>3, <3>2
      <4>. QED
        BY <1>5, <3>2, <4>1 DEF IsInjective
    <3>3. CASE g = f /\ f # a
      <4>1. f \in Folders
        BY <3>3
      <4>2. IsInjective(members[f]) /\ members[f][1] = f /\ 1 \in DOMAIN members[f]
        BY <1>1, <4>1 DEF FoldersInv, PlacedOnce
      <4>3. \A i \in DOMAIN members[f] : members[f][i] # a
        BY <1>8, <4>1 DEF Members
      <4>4. \A i \in DOMAIN members'[f] :
              i \in DOMAIN members[f] \/ (i = Len(members[f]) + 1 /\ members'[f][i] = a)
        BY <1>5
      <4>5. ASSUME NEW i \in DOMAIN members'[f], NEW j \in DOMAIN members'[f],
                   members'[f][i] = members'[f][j]
            PROVE  i = j
        BY <1>5, <4>2, <4>3, <4>4, <4>5 DEF IsInjective
      <4>. QED
        BY <1>5, <3>3, <4>2, <4>5 DEF IsInjective
    <3>. QED
      BY <3>1, <3>2, <3>3
  <2>3. ASSUME NEW g \in Folders', NEW b \in Members(g)'
        PROVE  decisions'[b] \cap Placing = {Tag(b, g)}
    <3>1. CASE b = a
      <4>1. g = f
        BY <1>0, <1>7, <1>8, <1>10, <2>3, <3>1
      <4>. QED
        BY <1>13, <3>1, <4>1
    <3>2. CASE b # a
      <4>1. g \in Folders /\ b \in Members(g)
        BY <1>0, <1>3, <1>6, <1>7, <1>9, <1>10, <2>3, <3>2
      <4>2. b \in Article
        BY <1>0, <1>1, <4>1 DEF Members
      <4>3. decisions[b] \cap Placing = {Tag(b, g)}
        BY <4>1 DEF FoldersInv, PlacedOnce, Placing, Tag
      <4>. QED
        BY <1>12, <3>2, <4>2, <4>3
    <3>. QED
      BY <3>1, <3>2
  <2>. QED
    BY <2>1, <2>2, <2>3 DEF PlacedOnce, Placing, Tag
<1>15. Undecided'
  <2>1. ASSUME NEW b \in Article, b \notin Placed'
        PROVE  decisions'[b] \cap Placing = {}
    <3>1. \A g \in Folders' : b \notin Members(g)'
      BY <2>1 DEF Placed
    <3>2. b # a
      BY <1>6, <1>10, <3>1
    <3>3. b \notin Placed
      <4>1. \A g \in Folders : b \notin Members(g)
        BY <1>0, <1>6, <1>7, <1>10, <3>1
      <4>. QED
        BY <4>1, PlacedIs
    <3>. QED
      BY <1>12, <3>2, <3>3 DEF FoldersInv, Undecided
  <2>. QED
    BY <2>1 DEF Undecided
<1>. QED
  BY <1>0, <1>4, <1>6, <1>7, <1>10, <1>11, <1>12, <1>14, <1>15 DEF FoldersInv, PlacesIn

LEMMA LeadersArePlaced ==
    ASSUME FoldersInv, NEW f \in Folders
    PROVE  f \in Placed /\ f \in saved /\ f \in Article /\ members[f] # <<>>
<1>1. members[f] \in Seq(saved) /\ members[f] # <<>> /\ members[f][1] = f
  BY DEF FoldersInv, PlacedOnce
<1>2. 1 \in DOMAIN members[f]
  BY <1>1
<1>3. f \in Members(f)
  BY <1>1, <1>2 DEF Members
<1>. QED
  BY <1>1, <1>2, <1>3, PlacedIs DEF FoldersInv

\* A step that places nothing, and may add rows.
LEMMA AroundStep ==
    ASSUME FoldersInv, saved \subseteq saved', saved' \subseteq Article,
           UNCHANGED <<members, recent, decisions>>
    PROVE  FoldersInv' /\ Folders' = Folders
<1>1. Folders' = Folders /\ Placed' = Placed /\ \A f : Members(f)' = Members(f)
  BY DEF Folders, Placed, Members
<1>2. Seq(saved) \subseteq Seq(saved')
  BY SeqMonotonic
<1>3. PlacedOnce' /\ Undecided'
  BY <1>1 DEF FoldersInv, PlacedOnce, Undecided
<1>. QED
  BY <1>1, <1>2, <1>3 DEF FoldersInv

PlacesNothing == Folders' = Folders /\ \A g \in Article : Members(g)' = Members(g)

Decided(a, p) ==
    \/ PlacesNothing
    \/ p.issue = "create_dossier" /\ a \notin Folders /\ PlacesIn(a, a)
    \/ p.issue = "attach_enrich" /\ p.folder \in Folders /\ PlacesIn(a, p.folder)

\* Whatever is decided of an article, and rolled back or not.
LEMMA PersistStep ==
    ASSUME FoldersInv, NEW a \in saved, NEW p, p.issue \in Issue,
           p.issue = "attach_enrich" => p.folder \in Folders,
           PersistDecision(a, p), UNCHANGED saved
    PROVE  /\ FoldersInv' /\ Folders \subseteq Folders'
           /\ Decided(a, p)
<1>0. /\ members \in [Article -> Seq(saved)] /\ a \in Article
      /\ Folders = {g \in Article : members[g] # <<>>}
      /\ decisions \in [Article -> SUBSET Issue]
  BY DEF FoldersInv
<1>1. CASE RolledBack(p, a)
  <2>1. UNCHANGED <<saved, members, recent, decisions>>
    BY <1>1 DEF PersistDecision
  <2>. QED
    BY <2>1, AroundStep DEF FoldersInv, Decided, PlacesNothing, Members
<1>2. CASE ~RolledBack(p, a) /\ p.issue = "create_dossier"
  <2>1. a \notin Placed /\ PersistCreateDossier(a)
        /\ decisions' = [decisions EXCEPT ![a] = decisions[a] \cup {"create_dossier"}]
    BY <1>2 DEF RolledBack, PersistDecision
  <2>2. members[a] = <<>>
    BY <1>0, <2>1, LeadersArePlaced
  <2>3. members' = [members EXCEPT ![a] = Append(members[a], a)] /\ Touch(a)
    BY <2>1, <2>2 DEF PersistCreateDossier
  <2>. QED
    BY <1>2, <2>1, <2>3, PlaceStep, LeadersArePlaced DEF Tag, PlacesIn, Decided
<1>3. CASE ~RolledBack(p, a) /\ p.issue = "attach_enrich"
  <2>. DEFINE f == p.folder
  <2>1. a \notin Placed /\ PersistAttachEnrich(a, f)
        /\ decisions' = [decisions EXCEPT ![a] = decisions[a] \cup {"attach_enrich"}]
    BY <1>3 DEF RolledBack, PersistDecision
  <2>2. f \in Folders /\ a # f
    BY <1>3, <2>1, LeadersArePlaced
  <2>3. members' = [members EXCEPT ![f] = Append(members[f], a)] /\ Touch(f)
    BY <2>1 DEF PersistAttachEnrich
  <2>. HIDE DEF f
  <2>4. Tag(a, f) = "attach_enrich"
    BY <2>2 DEF Tag
  <2>. QED
    <3>1. FoldersInv' /\ PlacesIn(a, f)
      BY <2>1, <2>2, <2>3, <2>4, PlaceStep
    <3>2. Folders \subseteq Folders'
      BY <2>2, <3>1 DEF PlacesIn
    <3>. QED
      BY <1>3, <2>2, <3>1, <3>2 DEF f, Decided
<1>4. CASE ~RolledBack(p, a) /\ p.issue \notin Placing
  <2>1. UNCHANGED <<saved, members, recent>>
        /\ decisions' = [decisions EXCEPT ![a] = decisions[a] \cup {p.issue}]
    BY <1>4 DEF PersistDecision, Placing
  <2>2. /\ decisions' \in [Article -> SUBSET Issue]
        /\ \A b \in Article : decisions'[b] \cap Placing = decisions[b] \cap Placing
    BY <1>0, <1>4, <2>1
  <2>3. Folders' = Folders /\ Placed' = Placed /\ \A f : Members(f)' = Members(f)
    BY <2>1 DEF Folders, Placed, Members
  <2>4. \A f \in Folders : Members(f) \subseteq Article
    BY <1>0 DEF Members, FoldersInv
  <2>5. PlacedOnce'
    <3>1. ASSUME NEW f \in Folders, NEW b \in Members(f)
          PROVE  decisions'[b] \cap Placing = {Tag(b, f)}
      <4>1. decisions[b] \cap Placing = {Tag(b, f)}
        BY DEF FoldersInv, PlacedOnce, Placing, Tag
      <4>. QED
        BY <2>2, <2>4, <4>1
    <3>2. \A f, g \in Folders : f # g => Members(f) \cap Members(g) = {}
      BY DEF FoldersInv, PlacedOnce
    <3>3. \A f \in Folders : IsInjective(members[f]) /\ members[f][1] = f
      BY DEF FoldersInv, PlacedOnce
    <3>. HIDE DEF Placing
    <3>4. \A f \in Folders' : \A b \in Members(f)' :
            decisions'[b] \cap {"create_dossier", "attach_enrich"}
              = IF b = f THEN {"create_dossier"} ELSE {"attach_enrich"}
      BY <2>3, <3>1 DEF Placing, Tag
    <3>. QED
      BY <2>1, <2>3, <3>2, <3>3, <3>4 DEF PlacedOnce
  <2>6. Undecided'
    BY <2>2, <2>3 DEF FoldersInv, Undecided
  <2>. QED
    BY <2>1, <2>2, <2>3, <2>5, <2>6 DEF FoldersInv, Decided, PlacesNothing
<1>. QED
  BY <1>1, <1>2, <1>3, <1>4 DEF Placing

\* One cycle comes to r.
LEMMA CycleStep ==
    ASSUME Cycles, NEW c \in Cycle, NEW r, cyc' = [cyc EXCEPT ![c] = r],
           saved \subseteq saved', Folders \subseteq Folders',
           CycleTyped(r, saved', Folders')
    PROVE  /\ Cycles' /\ cyc'[c] = r
           /\ \A d \in Cycle : d # c => cyc'[d] = cyc[d]
<1>1. /\ cyc' = [d \in Cycle |-> cyc'[d]] /\ cyc'[c] = r
      /\ \A d \in Cycle : d # c => cyc'[d] = cyc[d]
  BY DEF Cycles
<1>2. ASSUME NEW d \in Cycle PROVE CycleTyped(cyc'[d], saved', Folders')
  <2>1. CASE d = c
    BY <1>1, <2>1
  <2>2. CASE d # c
    BY <1>1, <2>2 DEF Cycles, CycleTyped
  <2>. QED
    BY <2>1, <2>2
<1>. QED
  BY <1>1, <1>2 DEF Cycles

\* A cycle with two of its fields changed.
LEMMA CycleExcept ==
    ASSUME NEW r, IsCycle(r), NEW x, NEW y
    PROVE  /\ [r EXCEPT !.hand = x, !.said = y]
                = [phase |-> r.phase, eligible |-> r.eligible, candidates |-> r.candidates,
                   hand |-> x, said |-> y]
           /\ [r EXCEPT !.phase = x, !.candidates = y]
                = [phase |-> x, eligible |-> r.eligible, candidates |-> y,
                   hand |-> r.hand, said |-> r.said]
           /\ [r EXCEPT !.phase = x, !.eligible = y]
                = [phase |-> x, eligible |-> y, candidates |-> r.candidates,
                   hand |-> r.hand, said |-> r.said]
<1>1. ASSUME NEW g, g = [r EXCEPT !.hand = x, !.said = y]
      PROVE  g = [phase |-> r.phase, eligible |-> r.eligible, candidates |-> r.candidates,
                  hand |-> x, said |-> y]
  BY <1>1 DEF IsCycle
<1>2. ASSUME NEW g, g = [r EXCEPT !.phase = x, !.candidates = y]
      PROVE  g = [phase |-> x, eligible |-> r.eligible, candidates |-> y,
                  hand |-> r.hand, said |-> r.said]
  BY <1>2 DEF IsCycle
<1>3. ASSUME NEW g, g = [r EXCEPT !.phase = x, !.eligible = y]
      PROVE  g = [phase |-> x, eligible |-> y, candidates |-> r.candidates,
                  hand |-> r.hand, said |-> r.said]
  BY <1>3 DEF IsCycle
<1>. QED
  BY <1>1, <1>2, <1>3, Zenon

LEMMA AsleepTyped == \A rows, folders : CycleTyped(Asleep, rows, folders)
BY DEF CycleTyped, IsCycle, Asleep, NoTexts

LEMMA StageInvInit == Init => StageInv
<1>. SUFFICES ASSUME Init PROVE StageInv
  OBVIOUS
<1>1. Folders = {} /\ Placed = {}
  BY DEF Init, Folders, Placed
<1>2. FoldersInv
  <2>1. recent \in Seq(saved) /\ IsInjective(recent)
    BY DEF Init, IsInjective
  <2>2. Folders = {f \in Article : members[f] # <<>>}
    BY <1>1 DEF Init
  <2>3. PlacedOnce /\ Undecided
    BY <1>1 DEF PlacedOnce, Undecided, Init
  <2>4. members \in [Article -> Seq(saved)]
    <3>1. <<>> \in Seq(saved)
      OBVIOUS
    <3>. QED
      BY <3>1 DEF Init
  <2>. QED
    BY <2>1, <2>2, <2>3, <2>4 DEF Init, FoldersInv
<1>3. RowsInv
  BY StageAssumption DEF Init, RowsInv
<1>4. Cycles
  BY AsleepTyped DEF Init, Cycles
<1>. QED
  BY <1>2, <1>3, <1>4 DEF StageInv

\* A step of a cycle that places nothing.
LEMMA StepAround ==
    ASSUME StageInv, NEW c \in Cycle, NEW r, cyc' = [cyc EXCEPT ![c] = r],
           saved \subseteq saved', saved' \subseteq Article,
           UNCHANGED <<set, members, recent, decisions>>,
           text' \in [Article -> set.texts], edits' \in 0 .. set.edits,
           CycleTyped(r, saved', Folders)
    PROVE  StageInv' /\ cyc'[c] = r /\ \A d \in Cycle : d # c => cyc'[d] = cyc[d]
<1>1. FoldersInv' /\ Folders' = Folders
  BY AroundStep DEF StageInv
<1>2. Cycles' /\ cyc'[c] = r /\ \A d \in Cycle : d # c => cyc'[d] = cyc[d]
  BY <1>1, CycleStep DEF StageInv
<1>. QED
  BY <1>1, <1>2 DEF StageInv, RowsInv

Collected(c, new, edited) ==
    [phase |-> "collected", eligible |-> [a \in new \cup edited |-> text'[a]],
     candidates |-> NoTexts, hand |-> Idle, said |-> None]

LEMMA CollectStep ==
    ASSUME StageInv, NEW c \in Cycle, NEW new \in SUBSET Article,
           NEW edited \in SUBSET Article, NEW t \in set.texts, Collect(c, new, edited, t)
    PROVE  /\ StageInv' /\ cyc'[c] = Collected(c, new, edited)
           /\ \A d \in Cycle : d # c => cyc'[d] = cyc[d]
<1>1. cyc' = [cyc EXCEPT ![c] = Collected(c, new, edited)]
  <2>. DEFINE said == [a \in new \cup edited |-> text'[a]]
  <2>1. cyc' = [cyc EXCEPT ![c] = [Asleep EXCEPT !.phase = "collected", !.eligible = said]]
    BY DEF Collect
  <2>. HIDE DEF said
  <2>2. [Asleep EXCEPT !.phase = "collected", !.eligible = said]
          = [phase |-> "collected", eligible |-> said, candidates |-> NoTexts,
             hand |-> Idle, said |-> None]
    <3>1. IsCycle(Asleep)
      BY DEF IsCycle, Asleep
    <3>2. Asleep.candidates = NoTexts /\ Asleep.hand = Idle /\ Asleep.said = None
      BY DEF Asleep
    <3>. QED
      BY <3>1, <3>2, CycleExcept
  <2>. QED
    BY <2>1, <2>2 DEF Collected, said
<1>2. saved' = saved \cup new /\ saved \subseteq Article /\ edited \subseteq saved
  BY DEF Collect, StageInv, FoldersInv
<1>3. CycleTyped(Collected(c, new, edited), saved', Folders)
  BY <1>2 DEF CycleTyped, IsCycle, Collected, NoTexts
<1>4. edits' \in 0 .. set.edits
  <2>1. IsFiniteSet(edited)
    BY StageAssumption, FS_Subset
  <2>2. Cardinality(edited) \in Nat
    BY <2>1, FS_CardinalityType
  <2>3. set.edits \in Nat /\ edits \in 0 .. set.edits
    BY StageAssumption DEF StageInv, RowsInv
  <2>. QED
    BY <2>2, <2>3 DEF Collect
<1>5. text' \in [Article -> set.texts]
  BY DEF Collect, StageInv, RowsInv
<1>. QED
  BY <1>1, <1>2, <1>3, <1>4, <1>5, StepAround DEF Collect

LEMMA LatestAreFolders == Latest \subseteq Folders
BY DEF Latest, Folders

LEMMA LoadStep ==
    ASSUME StageInv, NEW c \in Cycle, LoadCandidates(c)
    PROVE  /\ StageInv' /\ \A d \in Cycle : d # c => cyc'[d] = cyc[d]
           /\ cyc'[c] = [cyc[c] EXCEPT !.phase = "matching",
                                       !.candidates = [f \in Latest |-> FolderPrint(f)]]
<1>. DEFINE prints == [f \in Latest |-> FolderPrint(f)]
            r == [cyc[c] EXCEPT !.phase = "matching", !.candidates = prints]
<1>1. CycleTyped(cyc[c], saved, Folders) /\ cyc = [d \in Cycle |-> cyc[d]]
  BY DEF StageInv, Cycles
<1>2. cyc' = [cyc EXCEPT ![c] = r]
  BY <1>1 DEF LoadCandidates, CycleTyped
<1>3. DOMAIN prints \subseteq Folders
  BY LatestAreFolders
<1>. HIDE DEF prints
<1>4. CycleTyped(r, saved, Folders)
  <2>1. r = [phase |-> "matching", eligible |-> cyc[c].eligible, candidates |-> prints,
             hand |-> cyc[c].hand, said |-> cyc[c].said]
    BY <1>1, CycleExcept, Zenon DEF CycleTyped
  <2>. HIDE DEF r
  <2>. QED
    BY <1>1, <1>3, <2>1 DEF CycleTyped, IsCycle
<1>. HIDE DEF r
<1>. QED
  BY <1>2, <1>4, StepAround DEF LoadCandidates, StageInv, FoldersInv, RowsInv, r, prints

Considered(c, a) ==
    LET left == cyc[c].eligible
    IN  [cyc[c] EXCEPT !.eligible = [b \in DOMAIN left \ {a} |-> left[b]],
                       !.hand = IF AlreadyProcessed(a) THEN Idle ELSE a,
                       !.said = IF AlreadyProcessed(a) THEN None ELSE left[a]]

LEMMA ConsiderStep ==
    ASSUME StageInv, NEW c \in Cycle, NEW a \in Article, Consider(c, a)
    PROVE  /\ StageInv' /\ cyc'[c] = Considered(c, a)
           /\ \A d \in Cycle : d # c => cyc'[d] = cyc[d]
<1>1. CycleTyped(cyc[c], saved, Folders) /\ cyc = [d \in Cycle |-> cyc[d]]
  BY DEF StageInv, Cycles
<1>2. cyc' = [cyc EXCEPT ![c] = Considered(c, a)]
  BY <1>1 DEF Consider, Considered, CycleTyped
<1>3. a \in saved
  BY <1>1 DEF Consider, CycleTyped
<1>4. CycleTyped(Considered(c, a), saved, Folders)
  <2>. DEFINE left == cyc[c].eligible
              rest == [b \in DOMAIN left \ {a} |-> left[b]]
              hand == IF AlreadyProcessed(a) THEN Idle ELSE a
              said == IF AlreadyProcessed(a) THEN None ELSE left[a]
  <2>1. DOMAIN rest \subseteq saved /\ hand \in saved \cup {Idle}
    BY <1>1, <1>3 DEF CycleTyped
  <2>2. Considered(c, a) = [cyc[c] EXCEPT !.eligible = rest, !.hand = hand, !.said = said]
    BY DEF Considered
  <2>. HIDE DEF rest, hand, said
  <2>3. Considered(c, a) = [phase |-> cyc[c].phase, eligible |-> rest,
                            candidates |-> cyc[c].candidates, hand |-> hand, said |-> said]
    BY <1>1, <2>2 DEF CycleTyped, IsCycle
  <2>. QED
    BY <1>1, <2>1, <2>3 DEF CycleTyped, IsCycle
<1>. QED
  BY <1>2, <1>4, StepAround DEF Consider, StageInv, FoldersInv, RowsInv

LEMMA ProcessStep ==
    ASSUME StageInv, NEW c \in Cycle, Process(c), NEW a, a = cyc[c].hand,
           NEW p, p = EvaluateArticle(cyc[c].said, cyc[c].candidates)
    PROVE  /\ StageInv' /\ cyc'[c] = [cyc[c] EXCEPT !.hand = Idle, !.said = None]
           /\ \A d \in Cycle : d # c => cyc'[d] = cyc[d]
           /\ Decided(a, p)
<1>. DEFINE r == [cyc[c] EXCEPT !.hand = Idle, !.said = None]
<1>1. CycleTyped(cyc[c], saved, Folders) /\ cyc = [d \in Cycle |-> cyc[d]]
  BY DEF StageInv, Cycles
<1>2. cyc' = [cyc EXCEPT ![c] = r]
  BY <1>1 DEF Process, CycleTyped
<1>3. CycleTyped(r, saved, Folders)
  <2>1. PICK g : g = [cyc[c] EXCEPT !.hand = Idle, !.said = None]
    OBVIOUS
  <2>2. g = [phase |-> cyc[c].phase, eligible |-> cyc[c].eligible,
             candidates |-> cyc[c].candidates, hand |-> Idle, said |-> None]
    BY <1>1, <2>1 DEF CycleTyped, IsCycle
  <2>3. CycleTyped(g, saved, Folders)
    BY <1>1, <2>2 DEF CycleTyped, IsCycle
  <2>. QED
    BY <2>1, <2>3
<1>4. a \in saved /\ PersistDecision(a, p) /\ UNCHANGED <<set, text, saved, edits>>
  BY <1>1 DEF Process, CycleTyped
<1>5. p.issue \in Issue /\ (p.issue = "attach_enrich" => p.folder \in Folders)
  BY <1>1, EvaluateArticleIs DEF CycleTyped
<1>. HIDE DEF r
<1>6. FoldersInv' /\ Folders \subseteq Folders' /\ Decided(a, p)
  BY <1>4, <1>5, PersistStep DEF StageInv
<1>7. CycleTyped(r, saved', Folders')
  BY <1>3, <1>4, <1>6 DEF CycleTyped
<1>8. Cycles' /\ cyc'[c] = r /\ \A d \in Cycle : d # c => cyc'[d] = cyc[d]
  BY <1>2, <1>4, <1>6, <1>7, CycleStep DEF StageInv
<1>. QED
  BY <1>4, <1>6, <1>8 DEF StageInv, RowsInv, r

LEMMA SleepStep ==
    ASSUME StageInv, NEW c \in Cycle, EndCycle(c) \/ Abort(c)
    PROVE  /\ StageInv' /\ cyc'[c] = Asleep
           /\ \A d \in Cycle : d # c => cyc'[d] = cyc[d]
<1>1. /\ cyc' = [cyc EXCEPT ![c] = Asleep]
      /\ UNCHANGED <<set, text, saved, members, recent, decisions, edits>>
  BY DEF EndCycle, Abort
<1>. QED
  BY <1>1, AsleepTyped, StepAround DEF StageInv, FoldersInv, RowsInv

LEMMA StageInvNext == StageInv /\ [Next]_vars => StageInv'
<1>. SUFFICES ASSUME StageInv, [Next]_vars PROVE StageInv'
  OBVIOUS
<1>1. CASE UNCHANGED vars
  BY <1>1, AroundStep DEF vars, StageInv, RowsInv, Cycles, CycleTyped, FoldersInv
<1>2. ASSUME NEW c \in Cycle, NEW new \in SUBSET Article, NEW edited \in SUBSET Article,
             NEW t \in set.texts, Collect(c, new, edited, t)
      PROVE  StageInv'
  BY <1>2, CollectStep
<1>3. ASSUME NEW c \in Cycle, LoadCandidates(c) PROVE StageInv'
  BY <1>3, LoadStep
<1>4. ASSUME NEW c \in Cycle, NEW a \in Article, Consider(c, a) PROVE StageInv'
  BY <1>4, ConsiderStep
<1>5. ASSUME NEW c \in Cycle, Process(c) PROVE StageInv'
  <2>1. PICK a, p : a = cyc[c].hand /\ p = EvaluateArticle(cyc[c].said, cyc[c].candidates)
    OBVIOUS
  <2>. QED
    BY <1>5, <2>1, ProcessStep
<1>6. ASSUME NEW c \in Cycle, EndCycle(c) \/ Abort(c) PROVE StageInv'
  BY <1>6, SleepStep
<1>. QED
  BY <1>1, <1>2, <1>3, <1>4, <1>5, <1>6 DEF Next

LEMMA StageInvariant == Spec => []StageInv
BY StageInvInit, StageInvNext, PTL DEF Spec

(***************************************************************************)
(* Even when cycles process an article side by side, it is in one folder   *)
(* (matching-persistence-service.ts, and the unique index on the article). *)
(***************************************************************************)
THEOREM PlacedOnceHolds == Spec => [](TypeOK /\ PlacedOnce)
<1>1. StageInv => TypeOK /\ PlacedOnce
  BY StageTyped DEF StageInv, FoldersInv
<1>. QED
  BY <1>1, StageInvariant, PTL

(***************************************************************************)
(* An article is in one folder at most, and neither its dates, its category*)
(* nor its product alone make a folder its own: one entity in common, which*)
(* is what the code asks for, goes with a nature or a version.             *)
(***************************************************************************)
THEOREM MatchingInvHolds ==
    ASSUME MinSharedEntities = 1
    PROVE  Spec => []MatchingInv
<1>1. ASSUME StageInv, NEW a \in saved, NEW f \in Folders
      PROVE  LET p == FingerprintOf(text[a])
             IN  Attachable(p, FolderPrint(f)) <=> SameEvent(p, FolderPrint(f))
  <2>. DEFINE p == FingerprintOf(text[a])  q == FolderPrint(f)
  <2>1. a \in Article /\ text[a] \in set.texts /\ IsFiniteSet(text[a].names)
    BY <1>1, StageAssumption DEF StageInv, FoldersInv, RowsInv
  <2>2. IsFiniteSet(p.entities)
    <3>. DEFINE x == text[a].product  y == text[a].version
    <3>1. IsFiniteSet({x, y})
      <4>1. IsFiniteSet({x}) /\ IsFiniteSet({y}) /\ {x, y} = {x} \cup {y}
        BY FS_Singleton
      <4>. QED
        BY <4>1, FS_Union
    <3>2. IsFiniteSet(Defined({x, y}))
      BY <3>1, FS_Subset DEF Defined
    <3>3. p.entities = text[a].names \cup Defined({x, y})
      BY NamedEntities
    <3>. QED
      BY <2>1, <3>2, <3>3, FS_Union
  <2>3. p.product # None => p.product \in p.entities
    BY NamedEntities
  <2>4. q.product # None => q.product \in q.entities
    <3>. DEFINE m == members[f]  named == [i \in DOMAIN m |-> text[m[i]].product]
    <3>1. DOMAIN m \subseteq Nat /\ DOMAIN named = DOMAIN m
      <4>1. m \in Seq(saved)
        BY <1>1, LeadersArePlaced DEF StageInv, FoldersInv
      <4>. QED
        BY <4>1
    <3>2. q.product = FirstDefined(named)
      BY PrintOfFolder
    <3>3. q.entities = UNION {FingerprintOf(text[m[i]]).entities : i \in DOMAIN m}
      BY PrintOfFolder
    <3>4. ASSUME q.product # None
          PROVE  \E i \in DOMAIN m : text[m[i]].product = q.product
      BY <3>1, <3>2, <3>4, FirstDefinedIs
    <3>5. \A i \in DOMAIN m : text[m[i]].product # None =>
            text[m[i]].product \in FingerprintOf(text[m[i]]).entities
      BY NamedEntities
    <3>. QED
      BY <3>3, <3>4, <3>5
  <2>. QED
    BY <2>2, <2>3, <2>4, EventDecides
<1>2. StageInv => MatchingInv
  BY <1>1, StageTyped DEF StageInv, FoldersInv, MatchingInv, ProximityNeverDecides
<1>. QED
  BY <1>2, StageInvariant, PTL

-----------------------------------------------------------------------------
(* One article at a time: the candidates are the folders as they are.      *)

Fresh(c) ==
    LET r == cyc[c]
    IN  /\ c \notin set.cycles => r = Asleep
        /\ \A a, b \in DOMAIN r.eligible : a = b
        /\ \A a \in DOMAIN r.eligible : r.eligible[a] = text[a]
        /\ r.hand # Idle =>
             r.phase = "matching" /\ DOMAIN r.eligible = {} /\ r.said = text[r.hand]
        /\ r.phase = "matching" /\ (DOMAIN r.eligible # {} \/ r.hand # Idle) =>
             r.candidates = [f \in Latest |-> FolderPrint(f)]

EventInv ==
    /\ StageInv /\ OneEventPerFolder
    /\ OneAtATime => \A c \in Cycle : Fresh(c)

LEMMA AsleepIsFresh == \A c \in Cycle : cyc[c] = Asleep => Fresh(c)
BY DEF Fresh, Asleep, NoTexts

LEMMA EventInvInit == Init => EventInv
<1>. SUFFICES ASSUME Init PROVE EventInv
  OBVIOUS
<1>1. Folders = {} /\ \A c \in Cycle : cyc[c] = Asleep
  BY DEF Init, Folders
<1>. QED
  BY <1>1, StageInvInit, AsleepIsFresh DEF EventInv, OneEventPerFolder

\* A step of cycle c that leaves the folders alone.
LEMMA EventAround ==
    ASSUME EventInv, StageInv', NEW c \in Cycle, UNCHANGED <<set, members, recent>>,
           \A d \in Cycle : d # c => cyc'[d] = cyc[d],
           OneAtATime => text' = text /\ Fresh(c)'
    PROVE  EventInv'
<1>1. /\ OneAtATime' <=> OneAtATime
      /\ Folders' = Folders /\ Latest' = Latest /\ \A f : Members(f)' = Members(f)
  <2>1. OneAtATime' <=> OneAtATime
    BY DEF OneAtATime
  <2>. QED
    BY <2>1 DEF Folders, Latest, Members
<1>2. CASE OneAtATime
  <2>1. \A f : FolderPrint(f)' = FolderPrint(f)
    BY <1>2 DEF FolderPrint
  <2>2. ASSUME NEW d \in Cycle PROVE Fresh(d)'
    <3>1. CASE d = c
      BY <1>2, <3>1
    <3>2. CASE d # c
      <4>1. cyc'[d] = cyc[d] /\ text' = text /\ set' = set /\ Fresh(d)
        BY <1>2, <3>2 DEF EventInv
      <4>. QED
        BY <1>1, <2>1, <4>1 DEF Fresh
    <3>. QED
      BY <3>1, <3>2
  <2>3. OneEventPerFolder'
    BY <1>1, <1>2 DEF EventInv, OneEventPerFolder
  <2>. QED
    BY <2>2, <2>3 DEF EventInv
<1>3. CASE ~OneAtATime
  BY <1>1, <1>3 DEF EventInv, OneEventPerFolder
<1>. QED
  BY <1>2, <1>3

LEMMA EventCollect ==
    ASSUME EventInv, NEW c \in Cycle, NEW new \in SUBSET Article,
           NEW edited \in SUBSET Article, NEW t \in set.texts, Collect(c, new, edited, t)
    PROVE  EventInv'
<1>1. /\ StageInv' /\ cyc'[c] = Collected(c, new, edited)
      /\ \A d \in Cycle : d # c => cyc'[d] = cyc[d]
  BY CollectStep DEF EventInv
<1>2. ASSUME OneAtATime PROVE text' = text /\ Fresh(c)'
  <2>1. edited = {}
    <3>1. IsFiniteSet(edited) /\ Cardinality(edited) \in Nat
      <4>1. IsFiniteSet(edited)
        BY StageAssumption, FS_Subset
      <4>. QED
        BY <4>1, FS_CardinalityType
    <3>2. edits \in Nat /\ edits + Cardinality(edited) <= 0
      BY <1>2 DEF OneAtATime, Collect, EventInv, StageInv, RowsInv
    <3>3. Cardinality(edited) = 0
      BY <3>1, <3>2
    <3>. QED
      BY <3>1, <3>3, FS_EmptySet
  <2>2. text' = text
    <3>1. text \in [Article -> set.texts]
      BY DEF EventInv, StageInv, RowsInv
    <3>. QED
      BY <2>1, <3>1 DEF Collect
  <2>3. ASSUME NEW a \in new, NEW b \in new PROVE a = b
    <3>1. IsFiniteSet(new) /\ Cardinality(new) \in Nat
      <4>1. IsFiniteSet(new)
        BY StageAssumption, FS_Subset
      <4>. QED
        BY <4>1, FS_CardinalityType
    <3>2. Cardinality(new) <= 1
      <4>1. new \cup edited = new
        BY <2>1
      <4>. QED
        BY <1>2, <4>1 DEF OneAtATime, Collect
    <3>3. IsFiniteSet(new \ {a}) /\ Cardinality(new \ {a}) = Cardinality(new) - 1
      BY <3>1, FS_RemoveElement
    <3>4. Cardinality(new \ {a}) \in Nat
      BY <3>3, FS_CardinalityType
    <3>5. Cardinality(new \ {a}) = 0
      BY <3>1, <3>2, <3>3, <3>4
    <3>6. new \ {a} = {}
      BY <3>3, <3>5, FS_EmptySet
    <3>. QED
      BY <3>6
  <2>4. c \in set.cycles /\ set' = set
    BY DEF Collect
  <2>5. Collected(c, new, edited).eligible = [a \in new |-> text[a]]
    <3>1. new \cup edited = new
      BY <2>1
    <3>. QED
      BY <2>2, <3>1 DEF Collected
  <2>6. /\ Collected(c, new, edited).phase = "collected"
        /\ Collected(c, new, edited).hand = Idle
    BY DEF Collected
  <2>7. Fresh(c)'
    BY <1>1, <2>2, <2>3, <2>4, <2>5, <2>6 DEF Fresh
  <2>. QED
    BY <2>2, <2>7
<1>. QED
  BY <1>1, <1>2, EventAround DEF Collect

LEMMA EventLoad ==
    ASSUME EventInv, NEW c \in Cycle, LoadCandidates(c)
    PROVE  EventInv'
<1>. DEFINE prints == [f \in Latest |-> FolderPrint(f)]
            r == [cyc[c] EXCEPT !.phase = "matching", !.candidates = prints]
<1>1. StageInv' /\ cyc'[c] = r /\ \A d \in Cycle : d # c => cyc'[d] = cyc[d]
  BY LoadStep DEF EventInv
<1>2. IsCycle(cyc[c])
  BY DEF EventInv, StageInv, Cycles, CycleTyped
<1>. HIDE DEF prints
<1>3. r = [phase |-> "matching", eligible |-> cyc[c].eligible, candidates |-> prints,
           hand |-> cyc[c].hand, said |-> cyc[c].said]
  BY <1>2, CycleExcept, Zenon
<1>. HIDE DEF r
<1>4. /\ r.phase = "matching" /\ r.eligible = cyc[c].eligible /\ r.candidates = prints
      /\ r.hand = cyc[c].hand /\ r.said = cyc[c].said
  BY <1>3
<1>5. cyc[c].phase = "collected" /\ UNCHANGED <<set, text, saved, members, recent>>
  BY DEF LoadCandidates
<1>6. ASSUME OneAtATime PROVE Fresh(c)'
  <2>1. Fresh(c)
    BY <1>6 DEF EventInv
  <2>2. c \in set.cycles
    BY <1>5, <2>1 DEF Fresh, Asleep
  <2>3. Latest' = Latest /\ \A f : FolderPrint(f)' = FolderPrint(f)
    BY <1>5 DEF Latest, FolderPrint
  <2>4. prints = [f \in Latest' |-> FolderPrint(f)']
    BY <2>3 DEF prints
  <2>5. cyc[c].hand = Idle
    BY <1>5, <2>1 DEF Fresh
  <2>. QED
    BY <1>1, <1>4, <1>5, <2>1, <2>2, <2>4, <2>5 DEF Fresh
<1>. QED
  BY <1>1, <1>5, <1>6, EventAround

LEMMA EventConsider ==
    ASSUME EventInv, NEW c \in Cycle, NEW a \in Article, Consider(c, a)
    PROVE  EventInv'
<1>. DEFINE left == cyc[c].eligible
            rest == [b \in DOMAIN left \ {a} |-> left[b]]
            hand == IF AlreadyProcessed(a) THEN Idle ELSE a
            said == IF AlreadyProcessed(a) THEN None ELSE left[a]
<1>1. StageInv' /\ cyc'[c] = Considered(c, a) /\ \A d \in Cycle : d # c => cyc'[d] = cyc[d]
  BY ConsiderStep DEF EventInv
<1>2. IsCycle(cyc[c])
  BY DEF EventInv, StageInv, Cycles, CycleTyped
<1>3. cyc'[c] = [cyc[c] EXCEPT !.eligible = rest, !.hand = hand, !.said = said]
  BY <1>1 DEF Considered
<1>. HIDE DEF rest, hand, said
<1>4. cyc'[c] = [phase |-> cyc[c].phase, eligible |-> rest,
                 candidates |-> cyc[c].candidates, hand |-> hand, said |-> said]
  BY <1>2, <1>3 DEF IsCycle
<1>5. /\ cyc'[c].phase = cyc[c].phase /\ cyc'[c].eligible = rest
      /\ cyc'[c].candidates = cyc[c].candidates
      /\ cyc'[c].hand = hand /\ cyc'[c].said = said
  BY <1>4
<1>6. /\ cyc[c].phase = "matching" /\ a \in DOMAIN left
      /\ UNCHANGED <<set, text, saved, members, recent>>
  BY DEF Consider
<1>7. ASSUME OneAtATime PROVE Fresh(c)'
  <2>1. Fresh(c)
    BY <1>7 DEF EventInv
  <2>2. c \in set.cycles
    BY <1>6, <2>1 DEF Fresh, Asleep
  <2>3. Latest' = Latest /\ \A f : FolderPrint(f)' = FolderPrint(f)
    BY <1>6 DEF Latest, FolderPrint
  <2>4. left[a] = text[a] /\ cyc[c].candidates = [f \in Latest |-> FolderPrint(f)]
    BY <1>6, <2>1 DEF Fresh
  <2>5. DOMAIN rest = {}
    BY <1>6, <2>1 DEF Fresh, rest
  <2>6. hand # Idle => hand = a /\ said = text[a]
    BY <2>4 DEF hand, said
  <2>7. [f \in Latest |-> FolderPrint(f)] = [f \in Latest' |-> FolderPrint(f)']
    BY <2>3
  <2>. QED
    BY <1>5, <1>6, <2>2, <2>4, <2>5, <2>6, <2>7 DEF Fresh
<1>. QED
  BY <1>1, <1>6, <1>7, EventAround

LEMMA EventSleep ==
    ASSUME EventInv, NEW c \in Cycle, EndCycle(c) \/ Abort(c)
    PROVE  EventInv'
<1>1. StageInv' /\ cyc'[c] = Asleep /\ \A d \in Cycle : d # c => cyc'[d] = cyc[d]
  BY SleepStep DEF EventInv
<1>2. UNCHANGED <<set, text, members, recent>>
  BY DEF EndCycle, Abort
<1>3. Fresh(c)'
  BY <1>1 DEF Fresh, Asleep, NoTexts
<1>. QED
  BY <1>1, <1>2, <1>3, EventAround

\* What a folder says it is about, when its members agree.
Agreed(s) == \A i, j \in DOMAIN s : ~Differ(s[i], s[j])

LEMMA FirstDefinedAgrees ==
    ASSUME NEW s, DOMAIN s \subseteq Nat, Agreed(s), NEW x, ~Differ(x, FirstDefined(s))
    PROVE  \A i \in DOMAIN s : ~Differ(x, s[i])
<1>. DEFINE v == FirstDefined(s)
<1>1. /\ v # None => \E i \in DOMAIN s : s[i] = v
      /\ v = None => \A i \in DOMAIN s : s[i] = None
  BY FirstDefinedIs
<1>. HIDE DEF v
<1>2. ~Differ(x, v)
  BY DEF v
<1>. QED
  BY <1>1, <1>2 DEF Agreed, Differ

\* An article attached to a folder contradicts none of its members.
LEMMA AttachedAgrees ==
    ASSUME NEW f, DOMAIN members[f] \subseteq Nat, NEW x,
           Attachable(FingerprintOf(x), FolderPrint(f)),
           \A a, b \in Members(f) : /\ ~Differ(text[a].product, text[b].product)
                                  /\ ~Differ(text[a].version, text[b].version)
    PROVE  \A b \in Members(f) : /\ ~Differ(x.product, text[b].product)
                               /\ ~Differ(x.version, text[b].version)
<1>. DEFINE m == members[f]
            products == [i \in DOMAIN m |-> text[m[i]].product]
            versions == [i \in DOMAIN m |-> text[m[i]].version]
            p == FingerprintOf(x)
            q == FolderPrint(f)
<1>1. ~Differ(p.product, q.product) /\ ~Differ(p.version, q.version)
  BY DEF Attachable, CompareFingerprints, BlockingConflict
<1>2. p.product = x.product /\ p.version = x.version
  BY NamedEntities
<1>3. q.product = FirstDefined(products) /\ q.version = FirstDefined(versions)
  BY PrintOfFolder
<1>4. \A i \in DOMAIN m : m[i] \in Members(f)
  BY DEF Members
<1>5. Agreed(products) /\ Agreed(versions)
  BY <1>4 DEF Agreed
<1>6. \A i \in DOMAIN m : ~Differ(x.product, text[m[i]].product)
  <2>1. ~Differ(x.product, FirstDefined(products))
    BY <1>1, <1>2, <1>3
  <2>2. \A i \in DOMAIN products : ~Differ(x.product, products[i])
    BY <1>5, <2>1, FirstDefinedAgrees
  <2>. QED
    BY <2>2
<1>7. \A i \in DOMAIN m : ~Differ(x.version, text[m[i]].version)
  <2>1. ~Differ(x.version, FirstDefined(versions))
    BY <1>1, <1>2, <1>3
  <2>2. \A i \in DOMAIN versions : ~Differ(x.version, versions[i])
    BY <1>5, <2>1, FirstDefinedAgrees
  <2>. QED
    BY <2>2
<1>. QED
  BY <1>6, <1>7 DEF Members

\* What a cycle that works alone decides, it decides from the folders as they are.
LEMMA FreshDecision ==
    ASSUME EventInv, OneAtATime, NEW c \in Cycle, Process(c), NEW a, a = cyc[c].hand
    PROVE  /\ a \in Article
           /\ \/ PlacesNothing
              \/ /\ a \notin Folders /\ PlacesIn(a, a)
                 /\ \A f \in Latest : ~Attachable(FingerprintOf(text[a]), FolderPrint(f))
              \/ \E f \in Folders : /\ PlacesIn(a, f)
                                   /\ Attachable(FingerprintOf(text[a]), FolderPrint(f))
<1>. DEFINE prints == [f \in Latest |-> FolderPrint(f)]
<1>1. a # Idle /\ Fresh(c)
  BY DEF Process, EventInv
<1>2. cyc[c].said = text[a] /\ cyc[c].candidates = prints
  BY <1>1 DEF Fresh
<1>3. PICK p : p = EvaluateArticle(cyc[c].said, cyc[c].candidates)
  OBVIOUS
<1>4. Decided(a, p)
  BY <1>3, ProcessStep DEF EventInv
<1>5. a \in Article
  BY <1>1 DEF EventInv, StageInv, Cycles, CycleTyped, FoldersInv
<1>6. DOMAIN prints = Latest /\ \A f \in Latest : prints[f] = FolderPrint(f)
  OBVIOUS
<1>. HIDE DEF prints
<1>7. /\ p.issue = "create_dossier" =>
            \A f \in DOMAIN prints : ~Attachable(FingerprintOf(text[a]), prints[f])
      /\ p.issue = "attach_enrich" =>
            p.folder \in DOMAIN prints /\ Attachable(FingerprintOf(text[a]), prints[p.folder])
  BY <1>2, <1>3, EvaluateArticleIs
<1>8. p.issue = "create_dossier" =>
        \A f \in Latest : ~Attachable(FingerprintOf(text[a]), FolderPrint(f))
  BY <1>6, <1>7
<1>9. p.issue = "attach_enrich" => Attachable(FingerprintOf(text[a]), FolderPrint(p.folder))
  BY <1>6, <1>7
<1>. QED
  BY <1>4, <1>5, <1>8, <1>9 DEF Decided

LEMMA EventProcess ==
    ASSUME EventInv, NEW c \in Cycle, Process(c)
    PROVE  EventInv'
<1>0. PICK a, p : a = cyc[c].hand /\ p = EvaluateArticle(cyc[c].said, cyc[c].candidates)
  OBVIOUS
<1>1. /\ StageInv' /\ cyc'[c] = [cyc[c] EXCEPT !.hand = Idle, !.said = None]
      /\ \A d \in Cycle : d # c => cyc'[d] = cyc[d]
  BY <1>0, ProcessStep DEF EventInv
<1>2. set' = set /\ text' = text /\ (OneAtATime' <=> OneAtATime)
  BY DEF Process, OneAtATime
<1>5. cyc'[c].eligible = cyc[c].eligible /\ cyc'[c].hand = Idle
  <2>1. IsCycle(cyc[c])
    BY DEF EventInv, StageInv, Cycles, CycleTyped
  <2>2. cyc'[c] = [phase |-> cyc[c].phase, eligible |-> cyc[c].eligible,
                   candidates |-> cyc[c].candidates, hand |-> Idle, said |-> None]
    BY <1>1, <2>1 DEF IsCycle
  <2>. QED
    BY <2>2
<1>3. ASSUME OneAtATime, NEW d \in Cycle PROVE Fresh(d)'
  <2>1. Fresh(c) /\ Fresh(d) /\ cyc[c].hand # Idle
    BY <1>3 DEF EventInv, Process
  <2>2. c \in set.cycles
    BY <2>1 DEF Fresh, Asleep
  <2>3. CASE d = c
    <3>1. DOMAIN cyc[c].eligible = {}
      BY <2>1 DEF Fresh
    <3>. QED
      BY <1>2, <1>5, <2>2, <2>3, <3>1 DEF Fresh
  <2>4. CASE d # c
    <3>1. d \notin set.cycles
      BY <1>3, <2>2, <2>4 DEF OneAtATime
    <3>2. cyc'[d] = Asleep
      BY <1>1, <2>1, <2>4, <3>1 DEF Fresh
    <3>. QED
      BY <3>2 DEF Fresh, Asleep, NoTexts
  <2>. QED
    BY <2>3, <2>4
<1>4. OneEventPerFolder'
  <2>. SUFFICES ASSUME OneAtATime
                PROVE  \A f \in Folders' : \A x, y \in Members(f)' :
                          /\ ~Differ(text[x].product, text[y].product)
                          /\ ~Differ(text[x].version, text[y].version)
    BY <1>2 DEF OneEventPerFolder
  <2>. DEFINE Alike(x, y) == /\ ~Differ(text[x].product, text[y].product)
                             /\ ~Differ(text[x].version, text[y].version)
  <2>1. /\ a \in Article
        /\ \/ PlacesNothing
           \/ a \notin Folders /\ PlacesIn(a, a)
           \/ \E f \in Folders : /\ PlacesIn(a, f)
                                /\ Attachable(FingerprintOf(text[a]), FolderPrint(f))
    BY <1>0, FreshDecision
  <2>2. \A f \in Folders : \A x, y \in Members(f) : Alike(x, y)
    BY DEF EventInv, OneEventPerFolder
  <2>3. Folders \subseteq Article
    BY DEF EventInv, StageInv, FoldersInv
  <2>4. \A x, y : Alike(x, y) <=> Alike(y, x)
    BY DEF Differ
  <2>5. \A x : Alike(x, x)
    BY DEF Differ
  <2>6. CASE PlacesNothing
    BY <2>2, <2>3, <2>6 DEF PlacesNothing
  <2>7. CASE a \notin Folders /\ PlacesIn(a, a)
    <3>1. Members(a) = {}
      <4>1. members[a] = <<>>
        BY <2>1, <2>7 DEF EventInv, StageInv, FoldersInv
      <4>. QED
        BY <4>1, MembersOfNone
    <3>2. /\ Folders' = Folders \cup {a} /\ Members(a)' = {a}
          /\ \A g \in Folders : Members(g)' = Members(g)
      BY <2>3, <2>7, <3>1 DEF PlacesIn
    <3>3. ASSUME NEW f \in Folders', NEW x \in Members(f)', NEW y \in Members(f)'
          PROVE  Alike(x, y)
      <4>1. CASE f = a
        BY <2>5, <3>2, <3>3, <4>1
      <4>2. CASE f # a
        <5>1. f \in Folders /\ x \in Members(f) /\ y \in Members(f)
          BY <3>2, <3>3, <4>2
        <5>. QED
          BY <2>2, <5>1
      <4>. QED
        BY <4>1, <4>2
    <3>. QED
      BY <3>3 DEF Alike
  <2>8. ASSUME NEW f \in Folders, PlacesIn(a, f),
               Attachable(FingerprintOf(text[a]), FolderPrint(f)),
               NEW g \in Folders', NEW x \in Members(g)', NEW y \in Members(g)'
        PROVE  Alike(x, y)
    <3>1. DOMAIN members[f] \subseteq Nat
      <4>1. members[f] \in Seq(saved)
        BY <2>3, <2>8 DEF EventInv, StageInv, FoldersInv
      <4>. QED
        BY <4>1
    <3>2. \A b \in Members(f) : Alike(a, b)
      BY <2>2, <2>8, <3>1, AttachedAgrees
    <3>3. /\ Folders' = Folders /\ Members(f)' = Members(f) \cup {a}
          /\ \A h \in Folders : h # f => Members(h)' = Members(h)
      BY <2>3, <2>8 DEF PlacesIn
    <3>4. CASE g = f
      <4>1. x \in Members(f) \cup {a} /\ y \in Members(f) \cup {a}
        BY <2>8, <3>3, <3>4
      <4>. HIDE DEF Alike
      <4>. QED
        BY <2>2, <2>4, <2>5, <3>2, <4>1
    <3>5. CASE g # f
      <4>1. g \in Folders /\ x \in Members(g) /\ y \in Members(g)
        BY <2>8, <3>3, <3>5
      <4>. QED
        BY <2>2, <4>1
    <3>. QED
      BY <3>4, <3>5
  <2>. QED
    BY <2>1, <2>6, <2>7, <2>8
<1>. QED
  BY <1>1, <1>2, <1>3, <1>4 DEF EventInv

LEMMA EventInvNext == EventInv /\ [Next]_vars => EventInv'
<1>. SUFFICES ASSUME EventInv, [Next]_vars PROVE EventInv'
  OBVIOUS
<1>1. CASE UNCHANGED vars
  <2>1. StageInv'
    BY StageInvNext DEF EventInv
  <2>2. /\ UNCHANGED <<set, text, members, recent, cyc>>
        /\ (OneAtATime' <=> OneAtATime) /\ Folders' = Folders /\ Latest' = Latest
        /\ \A f : FolderPrint(f)' = FolderPrint(f) /\ Members(f)' = Members(f)
    BY <1>1 DEF vars, OneAtATime, Folders, Latest, FolderPrint, Members
  <2>3. OneEventPerFolder'
    BY <2>2 DEF EventInv, OneEventPerFolder
  <2>4. OneAtATime => \A c \in Cycle : Fresh(c)'
    BY <2>2 DEF EventInv, Fresh
  <2>. QED
    BY <2>1, <2>2, <2>3, <2>4 DEF EventInv
<1>2. CASE Next
  BY <1>2, EventCollect, EventLoad, EventConsider, EventProcess, EventSleep DEF Next
<1>. QED
  BY <1>1, <1>2

LEMMA EventInvariant == Spec => []EventInv
BY EventInvInit, EventInvNext, PTL DEF Spec

(***************************************************************************)
(* The members of a folder name one product and one version, as long as one*)
(* cycle has the articles at a time (matching-engine.ts).                  *)
(***************************************************************************)
THEOREM OneEventPerFolderHolds == Spec => []OneEventPerFolder
<1>1. EventInv => OneEventPerFolder
  BY DEF EventInv
<1>. QED
  BY <1>1, EventInvariant, PTL

(***************************************************************************)
(* A lone cycle creates a folder only for an article that none of the latest*)
(* folders, as they are then, could take (matching-engine.ts).             *)
(***************************************************************************)
THEOREM CreatesOnlyWhenNewHolds == Spec => CreatesOnlyWhenNew
<1>. DEFINE New == OneAtATime => \A a \in Article : a \in Folders' \ Folders =>
                     \A f \in Latest : ~Attachable(FingerprintOf(text[a]), FolderPrint(f))
<1>1. EventInv /\ [Next]_vars => [New]_vars
  <2>. SUFFICES ASSUME EventInv, Next, OneAtATime, NEW b \in Article, b \in Folders' \ Folders
                PROVE  \A f \in Latest : ~Attachable(FingerprintOf(text[b]), FolderPrint(f))
    OBVIOUS
  <2>1. PICK c \in Cycle : Process(c)
    <3>1. CASE recent' = recent
      BY <3>1 DEF Folders
    <3>2. ASSUME NEW c \in Cycle, NEW new, NEW edited, NEW t, Collect(c, new, edited, t)
          PROVE  recent' = recent
      BY <3>2 DEF Collect
    <3>3. ASSUME NEW c \in Cycle, NEW a, Consider(c, a) PROVE recent' = recent
      BY <3>3 DEF Consider
    <3>4. ASSUME NEW c \in Cycle, LoadCandidates(c) \/ EndCycle(c) \/ Abort(c)
          PROVE  recent' = recent
      BY <3>4 DEF LoadCandidates, EndCycle, Abort
    <3>. QED
      BY <3>1, <3>2, <3>3, <3>4 DEF Next
  <2>2. PICK a : a = cyc[c].hand
    OBVIOUS
  <2>3. \/ PlacesNothing
        \/ /\ PlacesIn(a, a)
           /\ \A f \in Latest : ~Attachable(FingerprintOf(text[a]), FolderPrint(f))
        \/ \E f \in Folders : PlacesIn(a, f)
    BY <2>1, <2>2, FreshDecision
  <2>. QED
    BY <2>3 DEF PlacesNothing, PlacesIn
<1>. QED
  BY <1>1, EventInvariant, PTL DEF Spec, CreatesOnlyWhenNew
=============================================================================
