SPECIFICATION ProgramsSpec
INVARIANTS PrintsRight InBounds StringsRight IsGrammar Plumbed PrintsMatches ImageReads
PROPERTIES PromptReturns
CHECK_DEADLOCK FALSE
