CONSTANTS
  Members = {a, b}
  Setups <- GroupOrSingles
SPECIFICATION Spec
INVARIANTS NoLostWake WaitingIsRegistered OneFlight StopIsFinal NoForgottenMember NoBufferLost FinishIsClean
