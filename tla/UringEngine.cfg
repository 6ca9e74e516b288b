SPECIFICATION FairSpec
CONSTANTS
  Wrap = 4
  SqEntries = 2
  CqEntries = 2
  Slots = {1}
  Paired = {1}
  Counts = {1, 2}
  Outcomes = {"ok", "fail", "cancel"}
  MaxChains = 2
  Start = 3
INVARIANT TypeOK
INVARIANT ChainsAreExact
INVARIANT OwnersAreSeparate
PROPERTY RetiredIsClosed
