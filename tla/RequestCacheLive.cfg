SPECIFICATION FairSpec
CONSTANTS
  c1 = c1
  c2 = c2
  c3 = c3
  Contexts = {c1, c2}
  Active = {c1, c2}
  Keys <- TwoKeys
  UUIDs <- Ids
  Empty = "inspect._empty"
  Patterns <- KeyAndPattern
  Faults <- PlainFaults
  MaxVersion = 1
  NoEntry = NoEntry
PROPERTY EventuallyFresh
