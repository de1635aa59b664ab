SPECIFICATION Spec
CONSTANTS
  Tokens = {"w", "<", ">>", "|", "&", ";", "(", ")"}
  MaxTokens = 4
INVARIANTS SleepExact ParsesBack RunsAsWritten HeapIsSound GrepExact
PROPERTIES KilledExits PromptReturns
