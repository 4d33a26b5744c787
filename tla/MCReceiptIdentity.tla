------------------------- MODULE MCReceiptIdentity -------------------------
(* Model values of the receipt-identity lane, and their symmetry: channels *)
(* are interchangeable, and so are the links an acquisition may close.     *)
EXTENDS ReceiptIdentity, TLC

ReceiptSymmetry == Permutations(Channels) \cup Permutations(Articles)
=============================================================================
