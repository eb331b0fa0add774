SPECIFICATION Spec
CONSTANTS
    Literals <- MCLiterals
    Variables <- MCVariables
    TempTables = {"#t"}
    Batches <- MCBatches
INVARIANTS
    RunsAsWritten
    CompilesWhatIsMeant
    ReadsWhatIsWritten
    CutShortIsRefused
