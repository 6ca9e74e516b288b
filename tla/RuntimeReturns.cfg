SPECIFICATION LiveSpec
CONSTANTS
  N = 2
  Gated = TRUE
  Watched = TRUE
  Faults = {"gate", "affinity", "control"}
PROPERTY Returns
