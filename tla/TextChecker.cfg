SPECIFICATION Spec
CONSTANTS
  Letters = {"a", "b"}
  Blanks = {"sp", "lf"}
  MaxLength = 4
INVARIANTS TypeOK WordsDecide LineTailsIgnored BlanksCounted
PROPERTY Terminates
CHECK_DEADLOCK FALSE
