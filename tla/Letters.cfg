SPECIFICATION Spec
CONSTANTS
  MinutesPerDay = 4
  SecondsPerMinute = 2
  Deadline = 2
  Shift = 2
  PrintTime = 1
  BankHolidays = {1, 4, 8}
  Offsets <- Ahead
  LastDay = 5
  Files = {f1, f2}
  Movers = {m1, m2}
  MaxVersion = 2
  Graph <- Places
  Lower <- Spelt
  Numerals <- Numbers
  UK <- UnitedKingdom
  ENDED_COUNTRIES <- Gone
  IGNORED_NUMERIC_SYNONYMS <- Numeric
  UK_ISLANDS_LIST <- ChannelIslands
  EUROPEAN_ISLANDS_LIST <- OtherIslands
  WELSH_NAMES <- Welsh
  ADDITIONAL_SYNONYMS <- Synonyms
  ROYAL_MAIL_EUROPEAN <- Europe
  UKAddresses <- WrittenUKAddresses
  Postcode <- Codes
  InvalidStarts <- Brackets
  Strokes <- Dashes
  MIN_LINES = 2
  MAX_LINES = 4
  Clients = {c1, c2}
  NotifySupportTickets <- AskedTickets
  Comments <- TwoFilesOrOneTwice
  Status = {"solved"}
  New = "new"
  DayLength = 24
  LocalOffset = 2
  MaxCalls = 3
  MaxTickets = 2
SYMMETRY Interchangeable
INVARIANTS
  WalksCountWorkingDays
  CancellableIsNotPrinted
  CancellableUntilProcessed
  NothingIsLost
  StoredUKAddressesStay
  ValidUKAddressesGoOutWhole
  ReturnedMeansDone
  CommentsCarryTheirFiles
