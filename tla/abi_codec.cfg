SPECIFICATION Spec
CONSTANTS
    WordBytes = 2
    CountBytes = 1
    AddressBytes = 1
    MaxElements = 100
    Selector <- SomeSelector
    Layouts <- SomeLayouts
    TokensOf <- SomeTokens
INVARIANTS CallIsCompliant AnswerIsRead ShortIsNeverMisread AnswerFitsLayout
