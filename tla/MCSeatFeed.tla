---------------------------- MODULE MCSeatFeed ----------------------------
(* Small instances of SeatFeed for TLC.                                    *)
EXTENDS SeatFeed, TLC

\* Seat ordinals index the bitset and clients are sockets: neither is ordered.
Symmetry == Permutations(Seats) \cup Permutations(Clients)
=============================================================================
