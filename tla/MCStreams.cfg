SPECIFICATION Spec
CONSTANTS
    Pieces <- Cuts
    MaxTokens = 5
    BlankLimit = 1
INVARIANTS
    ServeMatchesExtraction
    StreamedOnce
    NothingWithheld
    TerminalMatchesOutput
