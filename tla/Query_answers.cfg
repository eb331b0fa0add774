SPECIFICATION Spec
CONSTANTS
    Statements <- Asked
    Catalogs <- Contents
    MaxJoinRows = 40
PROPERTY AnswersWhatIsMeant
