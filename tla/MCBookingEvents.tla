--------------------------- MODULE MCBookingEvents ---------------------------
(* Model checking BookingEvents: the generation slots are interchangeable.  *)
EXTENDS BookingEvents, TLC

Symmetry == Permutations(Gen)
=============================================================================
