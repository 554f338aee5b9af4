CONSTANTS
  Names = {n1}
  Loop = loop
  Runs = {r1}
  Checks = {k1}
  Webhook = TRUE
  NoName = NoName
SPECIFICATION FairSpec
INVARIANTS
  TypeOK
  OneStatus
PROPERTIES
  LoneAlertsAreNews
  CyclesEnd
  Settles
