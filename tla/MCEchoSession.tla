---------------------------- MODULE MCEchoSession ----------------------------
(***************************************************************************)
(* EchoSession for TLC.  The runs with timeouts longer than the round trip *)
(* are finite as they stand; in the others MaxInFlight bounds the segments *)
(* on their way in one direction, MaxCopies the SYN-ACKs sent for          *)
(* duplicates of a SYN, and the network is faulty or the server closes.    *)
(***************************************************************************)
EXTENDS EchoSession

CONSTANTS StreamLen, MaxInFlight, MaxCopies

MCStream == SubSeq(<<1, 2, 1>>, 1, StreamLen)

MCPayload == {SubSeq(MCStream, i, j) : i, j \in 1 .. StreamLen} \cup {<<>>}

ActiveClose == {"FinWait1", "FinWait2", "Closing"}

MCNext ==
    /\ SessionNext
    /\ Cardinality(to_server') <= MaxInFlight
    /\ Cardinality(to_client') <= MaxInFlight
    /\ \A p \in pending' : p.copy <= MaxCopies
    /\ faults' = 0 \/ tcp_state' \notin ActiveClose

MCSpec == SessionInit /\ [][MCNext]_sessionVars

\* What the last step sent and the server's histories are not read by any step.
MCView == <<connVars, clientVars, netVars>>

\* The client closes when its stream is acknowledged; that it may close before is
\* left to MCSpec.
MCFairNext == SessionNext /\ (c_fin' # c_fin => c_acked = c_sent)

MCFairSpec == SessionInit /\ [][MCFairNext]_sessionVars /\ Fairness

=============================================================================
