SPECIFICATION FairSpec
CONSTANTS
    s1 = s1
    s2 = s2
    a1 = a1
    a2 = a2
    Source = {s1, s2}
    Article = {a1, a2}
    Home <- TwoSources
    Nobody = Nobody
    Backoff <- Delays
    MaxVersion = 2
    Settings <- Both
INVARIANT PipelineInv
PROPERTY CompletedLostNothing
PROPERTY ListedIsDecided
PROPERTY PartialIsResumed
