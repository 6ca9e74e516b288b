CONSTANTS
  Members = {a}
  Setups <- SharedSingle
SPECIFICATION Spec
INVARIANT NoLostWake
