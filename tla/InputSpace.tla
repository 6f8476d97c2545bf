------------------------------ MODULE InputSpace ------------------------------
(***************************************************************************)
(* What the pure functions of the program may be faced with.  The inputs   *)
(* of the decision (AnalysisDecision) are varied one at a time, and a      *)
(* registry is read entry by entry (SourceRegistry); the folders an        *)
(* analysis is shown (AnalysisContext) and the contents that are published *)
(* (DiscordContent) are taken one by one.                                  *)
(***************************************************************************)
EXTENDS AnalysisDecision, AnalysisContext, DiscordContent, SourceRegistry

CONSTANTS
    Scores,             \* the scores tried
    MainInputs,         \* the lengths of a main publication tried
    EnrichmentInputs,   \* those of an enrichment
    ShownFolders,       \* the folders tried
    Proposals,          \* what the model proposes of them
    Entries,            \* the entries of a registry
    MaxEntries          \* bound: how many there are in one

ASSUME ScoresAssumption == Scores \subseteq Score
ASSUME FoldersAssumption == ShownFolders \subseteq Folder
ASSUME LengthsAssumption == MainInputs \subseteq MainInput /\ EnrichmentInputs \subseteq EnrichmentInput

VARIABLES
    subject, input,
    reading             \* reading[mode]: what is read of the registry so far

inputVars == <<subject, input, reading>>

NextTiers(t) == {u \in Tier : TierRank[u] = TierRank[t] + 1}
WorthinessRank == [none |-> 0, low |-> 1, medium |-> 2, high |-> 3]

DecisionInput == [relevance : Scores, impact : Scores, novelty : Scores, tier : Tier,
                  worthiness : Worthiness, main : BOOLEAN, material : BOOLEAN,
                  facts : 0 .. 1, holds : 0 .. 3]

\* The scores are the lowest, and so is the rest.
Decision ==
    /\ subject = "decision"
    /\ \E main, material \in BOOLEAN, low \in Scores :
        /\ \A s \in Scores : low <= s
        /\ input = [relevance |-> low, impact |-> low, novelty |-> low, tier |-> "E",
                    worthiness |-> "none", main |-> main, material |-> material,
                    facts |-> 0, holds |-> 0]

InputInit ==
    /\ reading = [mode \in Mode |-> NothingRead]
    /\ \/ Decision
       \/ subject = "main" /\ input \in MainInputs
       \/ subject = "enrichment" /\ input \in EnrichmentInputs
       \/ subject = "folder" /\ input \in ShownFolders
       \/ subject = "registry" /\ input = <<>>

Vary(f, v) ==
    /\ subject = "decision" /\ input' = [input EXCEPT ![f] = v]
    /\ UNCHANGED <<subject, reading>>

\* The scores and the worthiness the model gives, the tier of the sources.
ScoreHigher ==
    \E f \in {"relevance", "impact", "novelty"}, s \in Scores :
        subject = "decision" /\ s > input[f] /\ Vary(f, s)

BetterSource == subject = "decision" /\ \E t \in NextTiers(input.tier) : Vary("tier", t)

MoreWorthy ==
    /\ subject = "decision"
    /\ \E w \in Worthiness :
          WorthinessRank[w] > WorthinessRank[input.worthiness] /\ Vary("worthiness", w)

AnchorFact  == subject = "decision" /\ input.facts = 0 /\ Vary("facts", 1)
OneMoreHold == subject = "decision" /\ input.holds < 3 /\ Vary("holds", input.holds + 1)

AppendEntry ==
    /\ subject = "registry" /\ Len(input) < MaxEntries
    /\ \E e \in Entries :
          /\ input' = Append(input, e)
          /\ reading' = [mode \in Mode |->
                 ParseSourceRegistry(reading[mode], Len(input) + 1, e, mode)]
    /\ UNCHANGED subject

InputNext ==
    \/ ScoreHigher \/ BetterSource \/ MoreWorthy \/ AnchorFact \/ OneMoreHold
    \/ AppendEntry

InputSpec == InputInit /\ [][InputNext]_inputVars

CompositeOf(i) == Composite(i.relevance, i.impact, i.novelty, i.tier)
DecisionOf(i) ==
    DecidePublication(CompositeOf(i), i.worthiness, i.main, i.material, i.facts, i.holds)

-----------------------------------------------------------------------------
InputTypeOK ==
    /\ subject \in {"decision", "main", "enrichment", "folder", "registry"}
    /\ subject = "decision" => input \in DecisionInput
    /\ subject = "main" => input \in MainInputs
    /\ subject = "enrichment" => input \in EnrichmentInputs
    /\ subject = "folder" => input \in ShownFolders
    /\ subject = "registry" => input \in Seq(Entries)

DecisionRank == [reject_editorial |-> 0, hold |-> 1, enrich_thread_only |-> 2, publish |-> 2]

(***************************************************************************)
(* A higher score, a better source, a worthier proposal or one more fact   *)
(* never turns a publication into a hold, nor a hold into a rejection:     *)
(* analysis-decision.ts, whose thresholds are spread over three functions. *)
(***************************************************************************)
BetterIsNotWorse ==
    [][subject = "decision" /\ input'.holds = input.holds =>
          DecisionRank[DecisionOf(input')] >= DecisionRank[DecisionOf(input)]]_inputVars

(***************************************************************************)
(* What is to be published has a channel: the decision and the hint, of    *)
(* separate thresholds, never leave a publication without one, which       *)
(* publication-orchestrator.ts would refuse.                               *)
(***************************************************************************)
PublishedHasChannel ==
    subject = "decision" /\ DecisionOf(input) = "publish" =>
        \A major \in BOOLEAN, role \in {"flux_ia", "other"} :
            MapChannelSalonHint(CompositeOf(input), Effective(input.impact, input.tier),
                                major, role) # "none"

(***************************************************************************)
(* A publication of the fallback that is reused, hence mapped anew from    *)
(* its scores, goes to the channel it was made for.                        *)
(***************************************************************************)
FallbackKeepsChannel ==
    subject = "decision" =>
        \A major \in BOOLEAN :
            MapChannelSalonHint(FallbackComposite(input.tier), Effective(88, input.tier),
                                major, "other") = FallbackChannel(input.tier)

ChannelInv == InputTypeOK /\ PublishedHasChannel /\ FallbackKeepsChannel

(***************************************************************************)
(* Discord takes what is published, whatever the lengths of its texts, and *)
(* only the summary of a main publication gives way to the rest of it      *)
(* (MainFits, SummaryGivesWay and EnrichmentFits of DiscordContent).       *)
(***************************************************************************)
ContentFits ==
    /\ subject = "main" => MainFits(input) /\ SummaryGivesWay(input)
    /\ subject = "enrichment" => EnrichmentFits(input)

(***************************************************************************)
(* What is shown of a folder, and what is retained of a proposal about it, *)
(* agree, and no folder is refused that could be cut to fit                *)
(* (FactsWereShown, OnlyHeadsRefuse and ReductionOrder of AnalysisContext).*)
(***************************************************************************)
ContextInv ==
    subject = "folder" =>
        /\ \A p \in Proposals : FactsWereShown(input, p)
        /\ OnlyHeadsRefuse(input) /\ ReductionOrder(input)

(***************************************************************************)
(* A bad entry of the registry takes nothing from the others, and both     *)
(* ways to read it agree (FirstValidWins and ModesAgree of SourceRegistry).*)
(***************************************************************************)
RegistryInv ==
    subject = "registry" =>
        /\ FirstValidWins(input, reading["resilient"])
        /\ ModesAgree(reading["strict"], reading["resilient"])
=============================================================================
