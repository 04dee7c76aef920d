------------------------------ MODULE MCDelivery ------------------------------
(* Small instances of Delivery for TLC. *)
EXTENDS Delivery, TLC

CONSTANTS p1, p2, h1, h2

MCDeliverySymmetry == Permutations({p1, p2}) \cup Permutations({h1, h2})

==============================================================================
