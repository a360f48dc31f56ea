------------------------- MODULE MCPaymentLifecycle -------------------------
EXTENDS PaymentLifecycle, TLC

CONSTANTS ev1, ev2, ev3, ev4, blank

EventSymmetry == Permutations(EventIds \ BlankIds)
=============================================================================
