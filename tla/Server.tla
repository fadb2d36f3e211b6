-------------------------------- MODULE Server --------------------------------
(***************************************************************************)
(* The server's poll loop: packets, retransmission timeouts, SIGINT and    *)
(* the grace period of a shutdown.                                         *)
(*                                                                         *)
(* A connection is what ConnPhases keeps of it.  Time is abstracted to     *)
(* which deadlines have passed; a packet to the connection it is for and   *)
(* what handling it does to that connection.                               *)
(***************************************************************************)
EXTENDS ConnPhases, Naturals

CONSTANTS
    Client,   \* keys of the connection table
    MaxQueue  \* packets the TUN device holds for reading

ASSUME MaxQueueAssumption == MaxQueue \in Nat

VARIABLES
    pc,                 \* where the loop is
    tcp_connections,    \* the table, one entry per client
    due,                \* clients with a pending segment whose time_due has passed
    shutdown_deadline,  \* "None", "Set", or "Passed" once it lies in the past
    SHUTDOWN,           \* the flag the SIGINT handler sets
    incoming            \* packets waiting at the device

vars == <<pc, tcp_connections, due, shutdown_deadline, SHUTDOWN, incoming>>

\* "Loop": about to poll.  "Poll": blocked in poll.  "Read": poll said
\* readable.  "Eintr": poll or read was interrupted.  "Done" and "Failed": run
\* returned Ok or Err.
Pc == {"Loop", "Poll", "Read", "Eintr", "Done", "Failed"}
Returned == {"Done", "Failed"}

closing_in_progress(table) == \E c \in Client : table[c].state \in FinSentStates

\* Pending segments are left out of the timeout.
poll_timeout_set_DeadlineOnly == shutdown_deadline # "None"

\* poll_timeout is Some: there is a shutdown deadline or a pending segment.
poll_timeout_set ==
    \/ shutdown_deadline # "None"
    \/ \E c \in Client : tcp_connections[c].unacked

\* The deadline is not looked at.
grace_period_elapsed_Never == FALSE

grace_period_elapsed == shutdown_deadline = "Passed"

\* Connections that are mid-close are not waited for.
shutting_down_and_no_connections_closing_Any(table) == shutdown_deadline # "None"

shutting_down_and_no_connections_closing(table) ==
    shutdown_deadline # "None" /\ ~closing_in_progress(table)

-----------------------------------------------------------------------------
(* The environment: packets, signals and time *)

PacketArrives ==
    /\ incoming < MaxQueue
    /\ incoming' = incoming + 1
    /\ UNCHANGED <<pc, tcp_connections, due, shutdown_deadline, SHUTDOWN>>

\* A signal's handler runs.  It interrupts poll, and may interrupt read; a call
\* that already has something to return is not interrupted.
Interrupts ==
    \/ pc = "Poll" /\ pc' = "Eintr"
    \/ pc = "Read" /\ pc' = "Eintr"
    \/ (pc = "Poll" => incoming > 0) /\ pc' = pc

shutdown_signal_handler ==
    /\ pc \notin Returned
    /\ SHUTDOWN' = TRUE
    /\ Interrupts
    /\ UNCHANGED <<tcp_connections, due, shutdown_deadline, incoming>>

\* A signal that has nothing to do with shutdown.
OtherSignal ==
    /\ pc \in {"Poll", "Read"}
    /\ pc' = "Eintr"
    /\ UNCHANGED <<tcp_connections, due, shutdown_deadline, SHUTDOWN, incoming>>

GraceElapses ==
    /\ shutdown_deadline = "Set" /\ pc \notin Returned
    /\ shutdown_deadline' = "Passed"
    /\ UNCHANGED <<pc, tcp_connections, due, SHUTDOWN, incoming>>

RtoElapses(c) ==
    /\ tcp_connections[c].unacked /\ c \notin due /\ pc \notin Returned
    /\ due' = due \cup {c}
    /\ UNCHANGED <<pc, tcp_connections, shutdown_deadline, SHUTDOWN, incoming>>

-----------------------------------------------------------------------------
(* The loop *)

EnterPoll ==
    /\ pc = "Loop"
    /\ pc' = "Poll"
    /\ UNCHANGED <<tcp_connections, due, shutdown_deadline, SHUTDOWN, incoming>>

\* poll or read fails with an error other than EINTR.
DeviceFails ==
    /\ pc \in {"Poll", "Read"}
    /\ pc' = "Failed"
    /\ UNCHANGED <<tcp_connections, due, shutdown_deadline, SHUTDOWN, incoming>>

PollReadable ==
    /\ pc = "Poll" /\ incoming > 0
    /\ pc' = "Read"
    /\ UNCHANGED <<tcp_connections, due, shutdown_deadline, SHUTDOWN, incoming>>

\* Every due connection resends its due segments or is given up.
make_retransmissions ==
    /\ \E dropped \in SUBSET due :
          tcp_connections' = [c \in Client |-> IF c \in dropped THEN Absent ELSE tcp_connections[c]]
    /\ due' = {}

\* poll times out.  Its timeout is rounded down to milliseconds, so this may
\* happen just before any deadline has passed.
PollTimesOut ==
    /\ pc = "Poll" /\ incoming = 0 /\ poll_timeout_set
    /\ \/ /\ grace_period_elapsed
          /\ pc' = "Done"
          /\ UNCHANGED <<tcp_connections, due>>
       \/ /\ ~grace_period_elapsed
          /\ make_retransmissions
          /\ pc' = "Loop" \/ (due # {} /\ pc' = "Failed") \* a send_pkt failed
    /\ UNCHANGED <<shutdown_deadline, SHUTDOWN, incoming>>

\* Effect of one packet on the table: none if it is not TCP or is not parsed.
parse_incoming ==
    \/ UNCHANGED <<tcp_connections, due>>
    \/ \E c \in Client, d \in Conn :
          /\ Received(tcp_connections[c], d)
          /\ tcp_connections' = [tcp_connections EXCEPT ![c] = d]
          /\ due' = due \ {c} \/ (d.unacked /\ UNCHANGED due)

\* The packet is read, handled and answered; a failed send_pkt or log ends the server.
HandlePacket ==
    /\ pc = "Read"
    /\ incoming' = incoming - 1
    /\ parse_incoming
    /\ \/ pc' = IF shutting_down_and_no_connections_closing(tcp_connections') THEN "Done" ELSE "Loop"
       \/ pc' = "Failed"
    /\ UNCHANGED <<shutdown_deadline, SHUTDOWN>>

\* The FIN is not recorded as pending.
close_established_Unrecorded ==
    [c \in Client |-> IF tcp_connections[c].state = "Established"
                      THEN [FinSent EXCEPT !.unacked = FALSE] ELSE tcp_connections[c]]

close_established ==
    [c \in Client |-> IF tcp_connections[c].state = "Established"
                      THEN FinSent ELSE tcp_connections[c]]

\* decide_shutdown does not look whether it is draining already.
handle_shutdown_interrupt_Restart ==
    /\ tcp_connections' = close_established
    /\ IF closing_in_progress(tcp_connections')
       THEN shutdown_deadline' = "Set" /\ pc' = "Loop"
       ELSE pc' = "Done" /\ UNCHANGED shutdown_deadline

\* decide_shutdown, and sending the FINs.
handle_shutdown_interrupt ==
    \/ /\ shutdown_deadline # "None" \* AlreadyDraining
       /\ pc' = "Loop"
       /\ UNCHANGED <<tcp_connections, shutdown_deadline>>
    \/ /\ shutdown_deadline = "None" \* BeganDraining or NoConnections
       /\ tcp_connections' = close_established
       /\ IF closing_in_progress(tcp_connections')
          THEN \/ shutdown_deadline' = "Set" /\ pc' = "Loop"
               \/ pc' = "Failed" /\ UNCHANGED shutdown_deadline \* the deadline overflows, or a send_pkt fails
          ELSE pc' = "Done" /\ UNCHANGED shutdown_deadline

Interrupted ==
    /\ pc = "Eintr"
    /\ \/ SHUTDOWN /\ handle_shutdown_interrupt
       \/ ~SHUTDOWN /\ pc' = "Loop" /\ UNCHANGED <<tcp_connections, shutdown_deadline>>
    /\ UNCHANGED <<due, SHUTDOWN, incoming>>

-----------------------------------------------------------------------------
Init ==
    /\ pc = "Loop"
    /\ tcp_connections = [c \in Client |-> Absent]
    /\ due = {}
    /\ shutdown_deadline = "None"
    /\ SHUTDOWN = FALSE
    /\ incoming = 0

ServerStep == EnterPoll \/ PollReadable \/ PollTimesOut \/ HandlePacket \/ Interrupted

Time == GraceElapses \/ \E c \in Client : RtoElapses(c)

Next ==
    \/ ServerStep \/ DeviceFails \/ Time
    \/ PacketArrives \/ shutdown_signal_handler \/ OtherSignal

\* The loop runs as long as it is not blocked in poll, and time passes.
Fairness ==
    /\ WF_vars(ServerStep)
    /\ WF_vars(GraceElapses)
    /\ \A c \in Client : WF_vars(RtoElapses(c))

Spec == Init /\ [][Next]_vars

-----------------------------------------------------------------------------
(* Properties *)

TypeOK ==
    /\ pc \in Pc
    /\ tcp_connections \in [Client -> Conn]
    /\ due \subseteq {c \in Client : tcp_connections[c].unacked}
    /\ shutdown_deadline \in {"None", "Set", "Passed"}
    /\ SHUTDOWN \in BOOLEAN
    /\ incoming \in 0 .. MaxQueue

\* run returns Ok only after a shutdown signal, and cuts connections off in the
\* middle of their close only if the grace period has elapsed: until then it
\* "waits ... for them to finish before returning".
WaitsForClosingConnections ==
    pc = "Done" =>
        /\ SHUTDOWN
        /\ shutdown_deadline = "Passed" \/ ~closing_in_progress(tcp_connections)

\* What makes the two inductive: a packet is there to be read, and draining
\* starts with the signal.
IndInv ==
    /\ TypeOK
    /\ WaitsForClosingConnections
    /\ pc = "Read" => incoming > 0
    /\ shutdown_deadline # "None" => SHUTDOWN

\* Further signals neither restart the grace period nor cancel the shutdown.
DeadlineIsFinal ==
    [][/\ shutdown_deadline # "None" => shutdown_deadline' # "None"
       /\ shutdown_deadline = "Passed" => shutdown_deadline' = "Passed"]_vars

\* Once draining, the server returns, whatever its connections do: the deadline
\* "bounds how long to wait ... before exiting unconditionally".
DrainingEnds == shutdown_deadline # "None" ~> pc \in Returned

\* A segment that becomes due is retransmitted, acknowledged or given up.
DueIsServed == \A c \in Client : c \in due ~> (c \notin due \/ pc \in Returned)

\* The server runs "until it receives SIGINT": a signal leads to draining or
\* to the end of the server.
ShutdownIsNoticed == SHUTDOWN ~> (shutdown_deadline # "None" \/ pc \in Returned)

=============================================================================
