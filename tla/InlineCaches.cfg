SPECIFICATION CacheSpec
CONSTANTS
  Accesses = {"get", "getGlobal", "set"}
  Names = {"x", "y"}
  Kinds = {"data", "readonly", "accessor"}
  Addrs = {1, 2, 3, 4}
  Capacity = 2
INVARIANT HitsAreRight
CHECK_DEADLOCK FALSE
