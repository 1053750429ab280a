SPECIFICATION ListingSpec
CONSTANTS
  Callers = {l, m}
  Lister = l
  Names = {n1, n2, n3}
  Wanted = n1
  PageSize = 1
  MaxChanges = 2
  Qps = 1
  MaxRequests = 2
  Registries <- MCRegistries
  n1 = n1
  n2 = n2
  n3 = n3
  Contents <- MCContents
  TransferOps = {"get", "put", "upload"}
INVARIANTS
  ReadsGetThrough
  RateKept
  ListingSound
  ProjectEnsured
  DirectBounded
CHECK_DEADLOCK FALSE
