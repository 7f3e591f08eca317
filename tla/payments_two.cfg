CONSTANTS
  b1 = b1
  b2 = b2
  b3 = b3
  Booking <- MCAll
  ChargeKey <- MCAll
  Reference <- MCAll
  RefundKey <- MCIds
  ChargeId <- MCIds
  RefundId <- MCIds
  SeedId = {}
  Request = {q1}
  Amounts = {1, 2, 3, 4, 5}
  DECLINE_AMOUNT = 5
  MAX_DELIVERIES = 1
  Price <- MCPrice
  Policy <- MCPolicy
  POLL_LIMIT = 1
  Together <- MCPairs
SPECIFICATION FairFlowSpec
INVARIANTS BooksAgree ImpossibleClassesEmpty RevenueNeverOverstated
PROPERTIES FlowIsLegal ChargeSettles RefundSettles
