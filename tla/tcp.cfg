\* A client sends twice and triggers once; anybody may leave or be killed and
\* the network may fail, with time-outs that are prompt and that are not.
CONSTANTS
    Limit = 1
    Drift = 1
    MaxSends = 2
    MaxTriggers = 1
    Killable = {"client", "r", "s", "receiver"}
    Exitable = {"client", "receiver"}
    MayCut = TRUE
    Prompts = {TRUE, FALSE}
SPECIFICATION FairSpec
INVARIANTS TypeOK EndToEnd HeldIsInTransit
PROPERTIES OnlyDeadGivenUp SendReturns BothEnd
CHECK_DEADLOCK FALSE
