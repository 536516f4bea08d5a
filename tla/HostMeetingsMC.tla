--------------------------- MODULE HostMeetingsMC ---------------------------
(* An instance of HostMeetings: every filter, and the day of the last times. *)
EXTENDS HostMeetings

EveryFilter == {<<"upcoming", 0>>, <<"recent", 0>>, <<"day", 1>>, <<"all", 0>>}
=============================================================================
