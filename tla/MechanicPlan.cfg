SPECIFICATION Spec
CONSTANTS
    Prompts <- MCPrompts
    Answers <- MCAnswers
    NoAnswer = NoAnswer
    Sources <- MCSources
    MaxJourneys = 52
INVARIANTS
    DefaultsWeakenNoGate
    NothingIsSilent
    DrainIsBlocked
CHECK_DEADLOCK FALSE
