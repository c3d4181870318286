SPECIFICATION Spec
CONSTANTS
  ads = ads
  tracker = tracker
  ads_host = ads_host
  shop_host = shop_host
  Patterns <- MCPatterns
  Names <- MCNames
  Matches <- MCMatches
  MaxLen = 1
INVARIANT OnlyDnsDenied
CHECK_DEADLOCK FALSE
