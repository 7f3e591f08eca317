CONSTANTS
  b1 = b1
  b2 = b2
  b3 = b3
  Booking <- MCOne
  ChargeKey <- MCOne
  Reference <- MCOne
  RefundKey <- MCId
  ChargeId <- MCId
  RefundId <- MCId
  SeedId = {}
  Request = {q1, q2}
  Amounts = {1, 2, 3, 4, 5}
  DECLINE_AMOUNT = 5
  MAX_DELIVERIES = 2
  Price <- MCPrice
  Policy <- MCPolicies
  POLL_LIMIT = 1
  Together <- MCAlone
SPECIFICATION FlowSpec
INVARIANTS FlowTypeOK ConfirmedIsPaid CaptureAccounted RefundByAgreedTerms DeliveriesMatch
