SPECIFICATION Spec
CONSTANTS
    cycle = cycle
    bot = bot
    script = script
    Task = {cycle, bot, script}
    KindOf <- Kinds
    MaxVersion = 2
    MaxAnalyses = 5
    Settings <- All
INVARIANT AttemptsInv
INVARIANT LostOnlyToOthers
\* The analyses made are bounded.
CHECK_DEADLOCK FALSE
