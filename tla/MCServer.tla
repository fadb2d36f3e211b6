------------------------------- MODULE MCServer -------------------------------
(***************************************************************************)
(* Server for TLC: with a bounded number of packets and signals, and with  *)
(* a bounded number of signals but traffic that never ends.                *)
(***************************************************************************)
EXTENDS Server

CONSTANTS MaxPackets, MaxSignals

VARIABLES packets, signals

mcVars == <<vars, packets, signals>>

MCInit == Init /\ packets = 0 /\ signals = 0

Signal == shutdown_signal_handler \/ OtherSignal

Quiet == (ServerStep \/ DeviceFails \/ Time) /\ UNCHANGED <<packets, signals>>

BoundedSignal ==
    /\ signals < MaxSignals
    /\ Signal
    /\ signals' = signals + 1
    /\ UNCHANGED packets

BoundedPacket ==
    /\ packets < MaxPackets
    /\ PacketArrives
    /\ packets' = packets + 1
    /\ UNCHANGED signals

MCSpec == MCInit /\ [][Quiet \/ BoundedSignal \/ BoundedPacket]_mcVars /\ Fairness

\* The same, with clients that never stop sending.
BusySpec ==
    /\ MCInit
    /\ [][Quiet \/ BoundedSignal \/ (PacketArrives /\ UNCHANGED <<packets, signals>>)]_mcVars
    /\ Fairness

=============================================================================
