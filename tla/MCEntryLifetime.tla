--------------------------- MODULE MCEntryLifetime ---------------------------
(* Model checking EntryLifetime.                                            *)
EXTENDS EntryLifetime, TLC

\* all the bookings are one customer's
OneCustomer == [t \in Txn |-> CHOOSE c \in Customer : TRUE]
=============================================================================
