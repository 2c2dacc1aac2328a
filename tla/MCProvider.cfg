SPECIFICATION Spec
CONSTANTS
  Members <- MCMembers
  Models <- MCModels
  Listings <- MCListings
  Accounts = {"a", "b"}
  Requests = {r1, r2}
  r1 = r1
  r2 = r2
  RetryTimes = {0, 2, 3}
  Names = {"a", "b"}
  Providers = {"p", "q"}
  RouteOf <- MCRouteOf
  Commands = {"c"}
  MaxLife = 1
  Workloads <- MCWorkloads
SYMMETRY Symmetric
INVARIANTS
  NoReplay
  SettledIsNewest
  NoLostUpdate
  ExchangedOnce
  AnsweredIsAudited
PROPERTIES
  CoolingIsRespected
