SPECIFICATION LiveSpec
CONSTANTS
  NoKey = NoKey
  Key = {k1, k2}
  Hook = {h1}
  Client = {c1}
  Hour = 2
  MaxWipes = 1
INVARIANTS
  OnlyIssued
PROPERTIES
  KeysSpec
  Converges
  OldKeysDie
  EventuallyServed
