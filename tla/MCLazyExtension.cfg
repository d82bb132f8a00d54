SPECIFICATION FairSpec
CONSTANTS
  Threads = {t1, t2, t3}
  None = None
  App = App
  MaxRecords = 3
INVARIANTS NoRecordLost OneObject NoDataRace
PROPERTIES EveryCallReturns
