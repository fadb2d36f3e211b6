----------------------------- MODULE ServerProofs -----------------------------
(***************************************************************************)
(* Proofs about Server, for any number of clients and any device queue.    *)
(***************************************************************************)
EXTENDS Server, TLAPS

\* Connections and tables the actions build are well-formed.
LEMMA ConnTypes ==
    /\ Absent \in Conn /\ ~Absent.unacked /\ Absent.state \notin FinSentStates
    /\ FinSent \in Conn /\ FinSent.unacked
  BY DEF Absent, FinSent, Conn, TcpState, FinSentStates

\* make_retransmissions keeps the table well-formed and leaves nothing due.
LEMMA RetransmissionsType ==
    ASSUME TypeOK, make_retransmissions
    PROVE  tcp_connections' \in [Client -> Conn] /\ due' = {}
  BY ConnTypes DEF TypeOK, make_retransmissions

\* Handling a packet keeps the table well-formed, and due only what is pending.
LEMMA PacketType ==
    ASSUME TypeOK, parse_incoming
    PROVE  /\ tcp_connections' \in [Client -> Conn]
           /\ due' \subseteq {c \in Client : tcp_connections'[c].unacked}
  <1>1. CASE UNCHANGED <<tcp_connections, due>>
    BY <1>1 DEF TypeOK
  <1>2. CASE \E c \in Client, d \in Conn :
                /\ Received(tcp_connections[c], d)
                /\ tcp_connections' = [tcp_connections EXCEPT ![c] = d]
                /\ due' = due \ {c} \/ (d.unacked /\ UNCHANGED due)
    BY <1>2 DEF TypeOK
  <1>3. QED
    BY <1>1, <1>2 DEF parse_incoming

\* Active close keeps the table well-formed, and due what was due.
LEMMA CloseType ==
    ASSUME TypeOK
    PROVE  /\ close_established \in [Client -> Conn]
           /\ due \subseteq {c \in Client : close_established[c].unacked}
  BY ConnTypes DEF TypeOK, close_established

-----------------------------------------------------------------------------
\* The invariant holds when the server starts.
LEMMA InitInv == Init => IndInv
  <1> SUFFICES ASSUME Init PROVE IndInv
    OBVIOUS
  <1>1. tcp_connections \in [Client -> Conn] /\ pc \in Pc /\ incoming \in 0 .. MaxQueue
    BY ConnTypes, MaxQueueAssumption DEF Init, Pc
  <1>2. QED
    BY <1>1 DEF Init, IndInv, TypeOK, WaitsForClosingConnections

\* Blocking in poll, and being told that there is something to read.
LEMMA PollStep ==
    ASSUME IndInv, EnterPoll \/ PollReadable \/ DeviceFails
    PROVE  IndInv'
  BY DEF EnterPoll, PollReadable, DeviceFails, IndInv, TypeOK, Pc, WaitsForClosingConnections

\* A timeout ends the server only past the deadline.
LEMMA TimeoutStep ==
    ASSUME IndInv, PollTimesOut
    PROVE  IndInv'
  <1>1. CASE grace_period_elapsed
    BY <1>1 DEF PollTimesOut, grace_period_elapsed, IndInv, TypeOK, Pc, WaitsForClosingConnections
  <1>2. CASE ~grace_period_elapsed
    <2>1. tcp_connections' \in [Client -> Conn] /\ due' = {} /\ pc' \in {"Loop", "Failed"}
      BY <1>2, RetransmissionsType DEF PollTimesOut, IndInv
    <2>2. UNCHANGED <<shutdown_deadline, SHUTDOWN, incoming>>
      BY DEF PollTimesOut
    <2>3. QED
      BY <2>1, <2>2 DEF IndInv, TypeOK, Pc, WaitsForClosingConnections
  <1>3. QED
    BY <1>1, <1>2

\* A packet ends the server only if nothing is mid-close.
LEMMA PacketStep ==
    ASSUME IndInv, HandlePacket
    PROVE  IndInv'
  <1>1. /\ tcp_connections' \in [Client -> Conn]
        /\ due' \subseteq {c \in Client : tcp_connections'[c].unacked}
    BY PacketType DEF HandlePacket, IndInv
  <1>2. incoming' \in 0 .. MaxQueue
    BY MaxQueueAssumption DEF HandlePacket, IndInv, TypeOK
  <1>3. UNCHANGED <<shutdown_deadline, SHUTDOWN>> /\ pc' \in {"Loop", "Done", "Failed"}
    BY DEF HandlePacket
  <1>4. pc' = "Done" => shutdown_deadline # "None" /\ ~closing_in_progress(tcp_connections')
    BY DEF HandlePacket, shutting_down_and_no_connections_closing
  <1>5. QED
    BY <1>1, <1>2, <1>3, <1>4 DEF IndInv, TypeOK, Pc, WaitsForClosingConnections

\* A signal ends the server only if nothing is mid-close after active close.
LEMMA InterruptedStep ==
    ASSUME IndInv, Interrupted
    PROVE  IndInv'
  <1>1. UNCHANGED <<due, SHUTDOWN, incoming>>
    BY DEF Interrupted
  <1>2. CASE ~SHUTDOWN
    BY <1>2 DEF Interrupted, IndInv, TypeOK, Pc, WaitsForClosingConnections
  <1>3. CASE SHUTDOWN /\ shutdown_deadline # "None"
    BY <1>3 DEF Interrupted, handle_shutdown_interrupt, IndInv, TypeOK, Pc, WaitsForClosingConnections
  <1>4. CASE SHUTDOWN /\ shutdown_deadline = "None"
    <2>1. tcp_connections' = close_established
      BY <1>4 DEF Interrupted, handle_shutdown_interrupt
    <2>2. /\ tcp_connections' \in [Client -> Conn]
          /\ due' \subseteq {c \in Client : tcp_connections'[c].unacked}
      BY <1>1, <2>1, CloseType DEF IndInv
    <2>3. /\ shutdown_deadline' \in {"None", "Set"} /\ pc' \in {"Loop", "Done", "Failed"}
          /\ pc' = "Done" => ~closing_in_progress(tcp_connections')
      BY <1>4 DEF Interrupted, handle_shutdown_interrupt
    <2>4. QED
      BY <1>1, <1>4, <2>2, <2>3 DEF IndInv, TypeOK, Pc, WaitsForClosingConnections
  <1>5. QED
    BY <1>2, <1>3, <1>4 DEF IndInv, TypeOK

\* Packets, signals and time change nothing the invariant rests on.
LEMMA EnvironmentStep ==
    ASSUME IndInv, Time \/ PacketArrives \/ shutdown_signal_handler \/ OtherSignal
    PROVE  IndInv'
  <1>1. CASE Time
    BY <1>1 DEF Time, GraceElapses, RtoElapses, Returned, IndInv, TypeOK, WaitsForClosingConnections
  <1>2. CASE PacketArrives
    BY <1>2, MaxQueueAssumption DEF PacketArrives, IndInv, TypeOK, WaitsForClosingConnections
  <1>3. CASE shutdown_signal_handler \/ OtherSignal
    BY <1>3 DEF shutdown_signal_handler, OtherSignal, Interrupts, Returned, IndInv, TypeOK, Pc,
                WaitsForClosingConnections
  <1>4. QED
    BY <1>1, <1>2, <1>3

\* Every step preserves the invariant.
LEMMA NextInv == IndInv /\ [Next]_vars => IndInv'
  <1> SUFFICES ASSUME IndInv, [Next]_vars PROVE IndInv'
    OBVIOUS
  <1>1. CASE UNCHANGED vars
    BY <1>1 DEF vars, IndInv, TypeOK, WaitsForClosingConnections
  <1>2. QED
    BY <1>1, PollStep, TimeoutStep, PacketStep, InterruptedStep, EnvironmentStep DEF Next, ServerStep

-----------------------------------------------------------------------------
(* Theorems *)

\* The inductive invariant holds in every reachable state.
THEOREM Invariance == Spec => []IndInv
  BY InitInv, NextInv, PTL DEF Spec

\* The state of the loop is always well-typed: only connections with something
\* pending are due, and the device queue stays within its bound.
THEOREM TypeCorrect == Spec => []TypeOK
  <1>1. IndInv => TypeOK
    BY DEF IndInv
  <1>2. QED
    BY <1>1, Invariance, PTL

\* run returns Ok only after a signal, and only with no connection mid-close or
\* past the deadline, for any number of clients.
THEOREM ShutdownWaits == Spec => []WaitsForClosingConnections
  <1>1. IndInv => WaitsForClosingConnections
    BY DEF IndInv
  <1>2. QED
    BY <1>1, Invariance, PTL

\* decide_shutdown sets the deadline once: no signal moves or clears it.
THEOREM DeadlineStays == Spec => DeadlineIsFinal
  <1>1. [Next]_vars =>
            [/\ shutdown_deadline # "None" => shutdown_deadline' # "None"
             /\ shutdown_deadline = "Passed" => shutdown_deadline' = "Passed"]_vars
    BY DEF Next, ServerStep, EnterPoll, PollReadable, DeviceFails, PollTimesOut, HandlePacket,
           Interrupted, handle_shutdown_interrupt, Time, GraceElapses, RtoElapses,
           PacketArrives, shutdown_signal_handler, OtherSignal
  <1>2. QED
    BY <1>1, PTL DEF Spec, DeadlineIsFinal

=============================================================================
