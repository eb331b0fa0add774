SPECIFICATION Spec
CONSTANTS
  Tables = {"#a", "#b"}
  MaxRows = 6
  MaxStatements = 4
  Statements <- MCStatements
INVARIANT HeldAsDeclared
PROPERTIES CountsWhatItTouched WritesWhatItRead
CHECK_DEADLOCK FALSE
