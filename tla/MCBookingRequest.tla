---------------------------- MODULE MCBookingRequest ----------------------------
(* Bookings for TLC: one companion and one start, displayed as "12 PM" or,  *)
(* wrongly, as "12 AM".  The companion proposes three in the afternoon,     *)
(* which a server on another clock displays as 9 AM.                        *)
EXTENDS BookingRequest, TLC

MCDisplays == {[hour |-> 12, half |-> h] : h \in {"PM", "AM"}}

MCServerShows == [s \in {15} |-> [hour |-> 9, half |-> "AM"]]

\* One status of each kind that the look-ups tell apart.
MCMoves == {<<"pending", "accepted">>, <<"pending", "counter_proposed">>,
            <<"counter_proposed", "accepted">>, <<"accepted", "in_progress">>,
            <<"pending", "cancelled">>, <<"accepted", "cancelled">>}

Symmetry == Permutations(Requests) \cup Permutations(Customers)
===============================================================================
