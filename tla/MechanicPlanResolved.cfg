SPECIFICATION Spec
CONSTANTS
    Prompts <- MCPrompts
    Answers <- MCAnswers
    NoAnswer = NoAnswer
    Sources <- MCSources
    MaxJourneys = 52
INVARIANTS
    ResolvedStays
CHECK_DEADLOCK FALSE
