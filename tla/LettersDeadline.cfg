SPECIFICATION LettersSpec
CONSTANTS
  MinutesPerDay = 4
  SecondsPerMinute = 2
  Deadline = 2
  Shift = 2
  PrintTime = 1
  BankHolidays = {1}
  Offsets = {1, 2}
  LastDay = 5
INVARIANT CreatedAfterDeadlineCanBeCancelled
