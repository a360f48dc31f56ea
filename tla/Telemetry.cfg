\* The ticker, a handler and a client, next to a runtime that sends at any time, over a
\* fabric that changes between two views.
CONSTANTS
  v1 = v1
  v2 = v2
  h1 = h1
  c1 = c1
  Empty = Empty
  Ticker = Ticker
  Views = {v1, v2}
  Handlers = {h1}
  Clients = {c1}
  MaxSnapshots = 2
  Capacity = 3
SPECIFICATION FairTelemetry
INVARIANTS
  ListenersAreKnown
PROPERTIES
  DashboardConverges
CHECK_DEADLOCK FALSE
