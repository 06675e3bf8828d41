SPECIFICATION Spec
CONSTANTS
    Token = {0, 1, 2}
    Eog = 0
    EndThink = 2
    Junk = 9
    Drawable <- MCDrawable
    Prompts <- MCPrompts
    CutPhrase <- MCCutPhrase
    Ctx = 7
    Ratio = 2
    MaxDrafts = 2
    LookupDrafts = {1, 2}
    HeadDrafts = 2
    Slack = 1
    Gram = 2
    MaxMatch = 3
    Ways = 3
    Probes = 64
    Bucket <- MCBucket
    EnterMatch = 2
    Patience = 2
    NBatch = 2
    Budget = 3
    ThinkBudget = 2
    MaxTurns = 2
    MaxParks = 1
INVARIANTS
    EngineHolds
    HeadRows
    ShownInOrder
    LookupCopies
PROPERTY
    PlainSpec
CHECK_DEADLOCK FALSE
