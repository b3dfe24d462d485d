SPECIFICATION Spec
CONSTANTS
  c1 = c1
  c2 = c2
  c3 = c3
  Contexts = {c1, c2}
  Active = {c1, c2}
  Keys <- OneKey
  UUIDs <- Ids
  Empty = "inspect._empty"
  Patterns <- DeleteTheKey
  Faults <- NoFaults
  MaxVersion = 1
  NoEntry = NoEntry
INVARIANT NoStaleDataAfterUpdate
