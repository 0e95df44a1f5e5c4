------------------------- MODULE MCHistoryBrowsing -------------------------
(* HistoryBrowsing for TLC: both clients come from one address.             *)
EXTENDS HistoryBrowsing

OneAddress == [c \in Clients |-> "shared"]
=============================================================================
