\* Every input of the pure functions.
SPECIFICATION InputSpec
CONSTANTS
    Scores <- SomeScores
    MainInputs <- SomeMainInputs
    EnrichmentInputs <- SomeEnrichmentInputs
    ShownFolders <- SomeFolders
    Proposals <- SomeProposals
    Entries <- SomeEntries
    MaxEntries = 3
    CONTEXT_BODY_MAX_CHARS = 9
    CONTEXT_ARTICLE_MAX_CHARS = 3
    CONTEXT_FACTS_MAX_CHARS = 4
    Word <- SomeWords
    Short = {"v2"}
INVARIANT ChannelInv
INVARIANT ContentFits
INVARIANT ContextInv
INVARIANT RegistryInv
PROPERTY BetterIsNotWorse
\* The best of inputs cannot be bettered, and the others are looked at one by one.
CHECK_DEADLOCK FALSE
