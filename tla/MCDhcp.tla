------------------------------ MODULE MCDhcp ------------------------------
(***************************************************************************)
(* Instances of Dhcp for TLC.                                              *)
(***************************************************************************)
EXTENDS Dhcp

\* Two minutes: T2 and the expiry fall on the same tick.  Five minutes: T1,
\* T2 and the expiry are three different ticks.
TwoAndFiveMinutes == {120, 300}
FiveMinutes == {300}

=============================================================================
