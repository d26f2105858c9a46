SPECIFICATION FairSpec
CONSTANTS
  main = main  worker1 = worker1  worker2 = worker2
  info = info  lock = lock  file = file
  NULL = NULL
  Threads = {main, worker1, worker2}
  Main = main
  Statics = {info, lock, file}
  CreatorUses <- MCCreatorUses
  DeleterUses <- MCDeleterUses
  Rank <- MCRank
  MaxShutdowns = 1
INVARIANTS DerefSafe OneObject ListExact OutlivesUsers
PROPERTIES ImplementsLifetime AllReturn
