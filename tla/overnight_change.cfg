SPECIFICATION AvailabilitySpec
CONSTANTS
  DAY = 24
  WEEK = 2
  GRID = 2
  TURNAROUND = 1
  MIN_LEAD = 40
  MAX_LEAD = 60
  MinDuration = 4
  MaxDuration = 6
  MIN_DURATION = 2
  MAX_DURATION = 7
  Settings <- MCOvernight
  Starts <- MCStarts
  Queries <- MCQueries
  MaxRows = 2
  MaxNow = 3
INVARIANT InsideWindowIsOpen
