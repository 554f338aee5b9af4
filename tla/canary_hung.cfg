CONSTANTS
  Names = {n1}
  Loop = loop
  Runs = {}
  Checks = {k1}
  Webhook = TRUE
  NoName = NoName
SPECIFICATION FairSpec
PROPERTIES
  SummaryTellsCanary
