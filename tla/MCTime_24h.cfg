CONSTANTS
  Boots    <- Boots24h
  SetTimes <- KernelTest
  MaxTicks = 2
SPECIFICATION FairSpec
INVARIANTS GetReturnsShownTime FewLoads SetStoresTime
PROPERTY CallsReturn
