\* Three calls by any route about two payments, one event each, with a cache of one entry, under fairness.
CONSTANTS
  c1 = c1
  c2 = c2
  c3 = c3
  c4 = c4
  p1 = p1
  p2 = p2
  p3 = p3
  Calls = {c1, c2, c3}
  Payments = {p1, p2}
  Names = {"captured"}
  Routes = {"webhook", "direct"}
  MAX_ENTRIES = 1
SPECIFICATION FairSpec
INVARIANTS
  RecentlySeenIgnored
PROPERTIES
  EveryEventTaken
CHECK_DEADLOCK FALSE
