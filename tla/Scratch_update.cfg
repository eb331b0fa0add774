SPECIFICATION Spec
CONSTANTS
  Tables = {"#a", "#b"}
  MaxRows = 6
  MaxStatements = 4
  Statements <- MCStatements
PROPERTY UpdateMeansARead
CHECK_DEADLOCK FALSE
