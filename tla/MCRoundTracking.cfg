SPECIFICATION Spec
CONSTANTS
  Replica = {r1, r2}
  MaxHeight = 3
  MaxRound = 2
SYMMETRY Symmetry
INVARIANTS
  TypeOK
  RoundsOrdered
  RoundsCounted
  ConditionsAgree
PROPERTIES
  NeverRenumbered
  Numbering
