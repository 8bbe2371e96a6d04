------------------------------ MODULE MCStripe ------------------------------
(* Small instances of Stripe.                                              *)
EXTENDS Stripe, TLC
=============================================================================
