SPECIFICATION CacheSpec
CONSTANTS
  k1 = k1  k2 = k2  k3 = k3  k4 = k4
  ra = ra  rb = rb
  NoResponse = NoResponse
  Keys <- MCKeys
  Responses <- MCResponses
  MaxSize = 3
INVARIANTS
  CacheBounded
PROPERTIES
  FirstResponseStands
  ValidEntriesKept
