SPECIFICATION Spec
CONSTANTS
  ads = ads
  tracker = tracker
  ads_host = ads_host
  shop_host = shop_host
  Patterns <- MCPatterns
  Names <- MCNames
  Matches <- MCMatches
  MaxLen = 2
INVARIANTS TypeOK VerdictJustified EntriesOutliveWalks
CHECK_DEADLOCK FALSE
