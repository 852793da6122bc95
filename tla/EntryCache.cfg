SPECIFICATION FairCacheSpec
CONSTANTS
    DN = {d1, d2}
    Readers = {r1, r2}
    Writers = {w1}
    CacheMax = 1
    TTL = 1
    MaxWrites = 1
INVARIANTS
    CacheTypeOK
    CacheBounded
    ReadsFollowWrites
PROPERTY StalenessHeals
