\* Two threads that embed any sets of two texts, twice, into a cache of one entry.
CONSTANTS
  Thread = {t1, t2}
  Key = {k1, k2}
  MaxEntries = 1
  MaxCalls = 2
  NoFlight = NoFlight
SPECIFICATION FairCacheSpec
INVARIANTS SingleFlight
PROPERTIES CallsReturn
CHECK_DEADLOCK FALSE
