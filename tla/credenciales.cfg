\* Slips in typing, files of every kind, restarts, and damage to the row.
SPECIFICATION Spec
CONSTANTS
  Nil = Nil
  Forms <- MCForms
  Masters = {"m1", "m2", "not a key"}
  MaxTime = 1
  MaxSaves = 2
INVARIANTS TypeOK AcceptedIsTheTaxpayers TypoCaught ReadySigns
