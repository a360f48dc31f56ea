\* Three events of any type and a blank id, delivered in any order and any number of times, under fairness.
CONSTANTS
  ev1 = ev1
  ev2 = ev2
  ev3 = ev3
  ev4 = ev4
  blank = blank
  NoAmount = NoAmount
  EventIds = {ev1, ev2, ev3, blank}
  BlankIds = {blank}
  Amount = 3
  Refunds = {NoAmount, 0, 1, 2, 4}
SPECIFICATION FairSpec
INVARIANTS
  CaptureNeverLost
  StateFollowsEvents
  RefundsCountedOnce
PROPERTIES
  ImplementsLedger
  CaptureSettles
