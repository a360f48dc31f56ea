---------------------------- MODULE PaymentLedger ----------------------------
(***************************************************************************)
(* What a merchant's books may do with one payment: it is settled once and *)
(* for good, money goes back only out of what was settled and never more   *)
(* of it, and a payment whose story does not add up is put aside, for good *)
(* and only while it is not settled.                                       *)
(***************************************************************************)
EXTENDS Naturals

CONSTANT Total

VARIABLES settled, returned, setAside

ledgerVars == <<settled, returned, setAside>>

Init == settled = FALSE /\ returned = 0 /\ setAside = FALSE

Settle ==
  /\ ~settled /\ ~setAside
  /\ settled' = TRUE
  /\ UNCHANGED <<returned, setAside>>

Return ==
  /\ settled
  /\ returned' \in (returned + 1)..Total
  /\ UNCHANGED <<settled, setAside>>

SetAside ==
  /\ ~settled /\ ~setAside
  /\ setAside' = TRUE
  /\ UNCHANGED <<settled, returned>>

Next == Settle \/ Return \/ SetAside

Spec == Init /\ [][Next]_ledgerVars

=============================================================================
