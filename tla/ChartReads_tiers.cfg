SPECIFICATION Spec
CONSTANTS
  Heights = {1, 2}
  OldContents <- MCOldContents
  FeesFrom = 1
  TimeOf <- MCTimeOf
  Senders = {1, 2}
  Contents <- MCContents
  EntityOf <- MCEntityOf
  SeriesLimit = 1
  Five = 2
  Hour = 4
  SixHours = 8
  Day = 16
  Week = 32
  Month = 48
  PointLimit = 12
  Retention = 17
  Chunk = 9
  Deployed = 25
  Clock = {25, 37}
  MaxChanges = 1
  MaxRestarts = 1
INVARIANTS ShortReadsExact UnaskedReadsExact TotalsExact
