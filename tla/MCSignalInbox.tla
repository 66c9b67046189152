---------------------------- MODULE MCSignalInbox ----------------------------
(* A small instance of SignalInbox for TLC.  Messages are numbered in the  *)
(* order they were sent; message 3 comes from a stranger.  Polls overlap   *)
(* only before messages 2 and 3 are sent.                                  *)
EXTENDS SignalInbox

MCMessages == 1..3
MCUserOf == [m \in Messages |-> IF m <= 2 THEN "u1" ELSE "stranger"]
MCStamp == [m \in Messages |-> m]
MCLate == {2, 3}
=============================================================================
