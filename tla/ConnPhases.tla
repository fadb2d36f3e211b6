------------------------------ MODULE ConnPhases ------------------------------
(***************************************************************************)
(* What the server loop sees of one connection: its TCP state, and whether *)
(* its retransmission queue holds anything.                                *)
(***************************************************************************)

\* "None": the table has no entry.
TcpState == {"None", "SynReceived", "Established", "FinWait1", "FinWait2", "Closing", "LastAck"}

\* closing_in_progress counts these states: our FIN is sent.
FinSentStates == {"FinWait1", "FinWait2", "Closing", "LastAck"}

Conn == [state : TcpState, unacked : BOOLEAN]

Absent == [state |-> "None", unacked |-> FALSE]

\* State changes an incoming segment can cause, besides none and removal.
Moves == {<<"None", "SynReceived">>,
          <<"SynReceived", "Established">>, <<"SynReceived", "LastAck">>,
          <<"Established", "LastAck">>,
          <<"FinWait1", "FinWait2">>, <<"FinWait1", "Closing">>}

\* A SYN-ACK or a passive close's FIN stays in the queue as long as its state
\* lasts; in FIN-WAIT-2 everything has been acknowledged.
UnackedIn(state) ==
    IF state \in {"SynReceived", "LastAck"} THEN {TRUE}
    ELSE IF state \in {"None", "FinWait2"} THEN {FALSE} ELSE BOOLEAN

\* An incoming segment takes connection c to d.  Only ESTABLISHED sends anew.
Received(c, d) ==
    /\ d.state \in {c.state, "None"} \/ <<c.state, d.state>> \in Moves
    /\ d.unacked \in UnackedIn(d.state)
    /\ d.state \in {"FinWait1", "Closing"} /\ d.unacked => c.unacked

\* close_established takes an ESTABLISHED connection here: its FIN is pending.
FinSent == [state |-> "FinWait1", unacked |-> TRUE]

Closed(c, d) == c.state = "Established" /\ d = FinSent

\* make_retransmissions drops connection c, a segment of which is out of retries.
GaveUp(c, d) == c.unacked /\ d = Absent

=============================================================================
