\* Two checkouts and an operator, every environment the server may start in.
CONSTANTS
  c1 = c1
  c2 = c2
  op = op
  Config <- MCConfig
  Callers = {c1, c2}
  Operators = {op}
  Gateways = {"razorpay"}
  RequestsOf <- MCRequestsOf
  HeadersOf <- MCHeadersOf
  Boots <- Environments
  Burst = 1
  Rate = 1
SPECIFICATION FairSpec
INVARIANTS
  OrdersFollowOverrides
  OrdersAreSound
  OrdersAreAllowed
PROPERTIES
  SimulationIsExplicit
  RequestsAnswered
CHECK_DEADLOCK FALSE
