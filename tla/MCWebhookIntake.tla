-------------------------- MODULE MCWebhookIntake --------------------------
EXTENDS WebhookIntake, TLC

CONSTANTS c1, c2, c3, c4, p1, p2, p3

IntakeSymmetry == Permutations(Calls) \cup Permutations(Payments)
=============================================================================
