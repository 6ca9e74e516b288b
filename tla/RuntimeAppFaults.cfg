SPECIFICATION Spec
CONSTANTS
  N = 2
  Gated = TRUE
  Watched = TRUE
  Faults = {"spawn", "affinity", "entry", "gate"}
INVARIANT TypeOK
INVARIANT TerminalIsLast
INVARIANT AccusedIsReported
INVARIANT CountsMeanEveryWorker
