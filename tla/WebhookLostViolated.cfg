\* Two webhooks about one payment.
CONSTANTS
  c1 = c1
  c2 = c2
  c3 = c3
  c4 = c4
  p1 = p1
  p2 = p2
  p3 = p3
  Calls = {c1, c2}
  Payments = {p1}
  Names = {"authorized", "captured"}
  Routes = {"webhook"}
  MAX_ENTRIES = 2
SPECIFICATION Spec
INVARIANTS
  DuplicateMeansProcessed
SYMMETRY IntakeSymmetry
CHECK_DEADLOCK FALSE
