SPECIFICATION Spec
CONSTANTS
  Reads = {r1}
  Mutations = {m1}
  Kills = {k1}
  NoRequest = none
  MaxRequests = 3
  MaxCache = 3
CHECK_DEADLOCK FALSE
INVARIANTS TypeOK NoForeignAnswer KillNotLost CacheNeverRefuses QuietPipesAreEmpty
PROPERTIES AcknowledgedKillHolds SignerRefines ExchangesEnd
