---------------------------- MODULE MCSlirpTcp ----------------------------
(***************************************************************************)
(* Three loads: a connection with data both ways, more than the ring and   *)
(* the window hold, and retransmission; a connection that may be reset     *)
(* while it closes; and two connections, the first of which is reset.      *)
(***************************************************************************)
EXTENDS SlirpTcp

Busy == [remoteBytes |-> 3, guestBytes |-> 1, connects |-> 1, retries |-> 1,
         closes |-> TRUE, aborts |-> FALSE, stops |-> TRUE]
Broken == [remoteBytes |-> 2, guestBytes |-> 1, connects |-> 1, retries |-> 0,
           closes |-> TRUE, aborts |-> TRUE, stops |-> TRUE]
Reopened == [remoteBytes |-> 1, guestBytes |-> 0, connects |-> 2, retries |-> 0,
             closes |-> FALSE, aborts |-> TRUE, stops |-> FALSE]
MCLoads == {Busy, Broken, Reopened}

ASSUME SpacedAssumption == ShortConnections
=============================================================================
