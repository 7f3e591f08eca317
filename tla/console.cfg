\* One customer, one tab: from the room page through checkout to a cancellation.
SPECIFICATION ConsoleSpec
CONSTANTS
  camera = camera
  HOLD_TTL = 1
  CHECKOUT_REARM = 2
  MAX_HOLD_LIFETIME = 2
  MAX_HOLD_REARMS = 1
  POLL_CEILING = 1
  StartsAt = 3
  HalfHours = 3
  Item <- MCItem
  PriceLists <- MCPriceLists
  Ladders <- MCLadders
  MaxNow = 2
  MaxPolls = 2
  MaxPresses = 3
  MaxQuantity = 1
INVARIANTS HeldMeansUntouched FullWindow QuoteHonoured
PROPERTIES EstimateIsThePrice SettledIsShown
CHECK_DEADLOCK FALSE
