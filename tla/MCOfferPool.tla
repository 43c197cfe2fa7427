---------------------------- MODULE MCOfferPool ----------------------------
(* Small instances of OfferPool. *)
EXTENDS OfferPool

CONSTANTS o1, o2, a1

OneAgent == [o \in Offers |-> a1]
=============================================================================
