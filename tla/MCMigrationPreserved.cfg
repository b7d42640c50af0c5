\* One process on an older file: its scores are expected to survive.
CONSTANTS
  Procs = {p1}
  Ids = {e1}
  Names = {n1}
  Scores = {x1}
  MaxFaults = 0
  NoEntity = NoEntity

SPECIFICATION Spec

PROPERTY DataPreserved
