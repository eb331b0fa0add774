SPECIFICATION Spec
CONSTANTS
    Questions <- Questions_
    Outers <- Rows
    Contents <- Tables
    MaxAnswers = 2
    MaxVersions = 2
    ReadsTheRow <- ReadsARow
    ByColumn <- MatchesOnce
    AskedBy <- Key
    AnswerOf <- AnswerHanded
    ColumnOf <- MatchedColumn
    Found <- LookedUp
    IsNothing <- IsNullKey
    Unmatched <- MatchesNothing
    Refuses <- IsRefusal
    Means <- Meaning
INVARIANTS
    AnswersForItsRow
    AnswersFromOneReading
