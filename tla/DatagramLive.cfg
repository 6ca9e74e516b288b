CONSTANTS
  Members = {a}
  Setups <- GroupOrSingle
SPECIFICATION LiveSpec
PROPERTIES ShutdownEnds Rearms
