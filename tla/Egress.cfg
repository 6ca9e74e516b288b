SPECIFICATION FairSpec
CONSTANTS
  l1 = l1
  l2 = l2
  Lanes <- MCLanes
  Shared <- MCShared
  Protected <- MCProtected
  Sizes <- MCSizes
  LastTicket = 2
  Iov = 2
  Storage = 4
INVARIANTS CreditIsExact NoIdleCredit CreditSuffices SendIsOwned
PROPERTY WaiterIsServed
