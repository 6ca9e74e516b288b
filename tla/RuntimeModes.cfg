SPECIFICATION Spec
CONSTANTS
  N = 2
  Calm = 3
  Faults = {"callback", "control", "stop", "read", "write"}
  PlainFaults = {"spawn", "affinity", "entry", "gate", "callback", "control", "read", "write"}
INVARIANT NoFalseAlarm
INVARIANT OkIsHonest
