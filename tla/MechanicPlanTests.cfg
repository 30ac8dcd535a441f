SPECIFICATION Spec
CONSTANTS
    Prompts <- MCPrompts
    Answers <- MCAnswers
    NoAnswer = NoAnswer
    Sources <- MCSources
    MaxJourneys = 52
INVARIANTS
    StuckIsTested
CHECK_DEADLOCK FALSE
