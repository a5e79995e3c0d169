\* Two edits of one strategy, under a name that ships with the image and under one
\* that _safe_name does not preserve.
SPECIFICATION Spec
CONSTANTS
  plain = plain
  messy = messy
  other = other
  cut = cut
  short = short
  long = long
  None = None
  Junk = Junk
  Blank = Blank
  Urls <- MCUrls
  SafeName <- MCSafeName
  Shipped <- MCShipped
  Payloads <- MCPayloads
  Patches <- MCPatches
  Books <- MCBooks
  Countries = {"GB"}
  MarketTypes = {"WIN"}
  MaxEdits = 2
INVARIANTS
  TypeOK
  AcceptedEvaluates
  RepairsConservative
  StakesAuthored
PROPERTY
  ResendHarmless
CHECK_DEADLOCK FALSE
