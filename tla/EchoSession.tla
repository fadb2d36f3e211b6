----------------------------- MODULE EchoSession -----------------------------
(***************************************************************************)
(* The server's side of one connection (TcpConnection) and a conforming    *)
(* client (EchoClient) over the network between them.  The network holds   *)
(* sets of segments: it reorders freely, and it may lose a segment or      *)
(* deliver one twice, which together happens MaxFaults times.              *)
(***************************************************************************)
EXTENDS TcpConnection, EchoClient

LOCAL INSTANCE SequencesExt

CONSTANTS
    MaxFaults,   \* segments lost or duplicated
    Patient,     \* retransmission timeouts exceed the round trip
    Interrupt,   \* the operator may press Ctrl+C
    MayClose     \* the client may close

ASSUME SessionAssumption == MaxFaults \in Nat /\ {Patient, Interrupt, MayClose} \subseteq BOOLEAN

VARIABLES
    to_server, to_client,  \* segments on their way
    faults,                \* segments lost or duplicated so far
    isns                   \* ISNs the server has used

netVars == <<to_server, to_client, faults, isns>>
sessionVars == <<vars, clientVars, c_out, netVars>>

SessionInit ==
    /\ Init /\ ClientInit
    /\ to_server = {} /\ to_client = {}
    /\ faults = 0 /\ isns = {}

\* With Patient, a timer only fires once everything in flight has arrived.
TimerMayFire == Patient => to_server \cup to_client = {}

\* The receiver takes m from the channel; a duplicate may stay behind.
Delivered(m, channel, rest) ==
    \/ rest = channel \ {m} /\ faults' = faults
    \/ rest = channel /\ faults < MaxFaults /\ faults' = faults + 1

ServerIdle == UNCHANGED <<connVars, history>> /\ out' = {}
ClientIdle == UNCHANGED clientVars /\ c_out' = {}

\* The server opens a connection.
Opens == tcp_state = "None" /\ tcp_state' = "SynReceived"

\* random_u32 succeeds, and gives successive connections different ISNs.
FreshIsn(m) ==
    /\ tcp_state = "None" /\ m.flags = "Syn" => Opens /\ snd_una' \notin isns
    /\ isns' = IF Opens THEN isns \cup {snd_una'} ELSE isns

ServerReceives(m) ==
    /\ decide_reply(m)
    /\ FreshIsn(m)
    /\ Delivered(m, to_server, to_server')
    /\ to_client' = to_client \cup out'
    /\ ClientIdle

ServerActs(action) ==
    /\ action
    /\ to_client' = to_client \cup out'
    /\ ClientIdle
    /\ UNCHANGED <<to_server, faults, isns>>

ClientTakes(m) ==
    /\ ClientReceives(m)
    /\ Delivered(m, to_client, to_client')
    /\ to_server' = to_server \cup c_out'
    /\ ServerIdle
    /\ UNCHANGED isns

ClientActs(action) ==
    /\ action
    /\ to_server' = to_server \cup c_out'
    /\ ServerIdle
    /\ UNCHANGED <<to_client, faults, isns>>

Lose ==
    /\ faults < MaxFaults
    /\ faults' = faults + 1
    /\ \/ \E m \in to_server : to_server' = to_server \ {m} /\ UNCHANGED to_client
       \/ \E m \in to_client : to_client' = to_client \ {m} /\ UNCHANGED to_server
    /\ ServerIdle /\ ClientIdle
    /\ UNCHANGED isns

\* q was sent before p.
Older(q, p) ==
    \/ precedes(q.send_info.seq_num, p.send_info.seq_num)
    \/ q.send_info.seq_num = p.send_info.seq_num /\ q.copy < p.copy

\* What is due is due in order: see RetransmitTimer!OlderDueFirst.
TimesOut ==
    \E due \in SUBSET pending :
        /\ \A p \in due, q \in pending : Older(q, p) /\ q.retries <= p.retries => q \in due
        /\ Retransmit(due) \/ GiveUp(due)

ServerSteps == \E m \in to_server : ServerReceives(m)
ClientSteps == \E m \in to_client : ClientTakes(m)
ServerTimer == TimerMayFire /\ ServerActs(TimesOut)
ServerCloses == Interrupt /\ ServerActs(close_established)
ClientTimer == TimerMayFire /\ ClientActs(ClientRetransmits)
ClientOpens == ClientActs(ClientConnects)
ClientWrites == ClientActs(ClientSends)
ClientReadsAll == ClientActs(ClientReads)
ClientEnds == MayClose /\ ClientActs(ClientCloses)

SessionNext ==
    \/ ServerSteps \/ ServerTimer \/ ServerCloses
    \/ ClientSteps \/ ClientTimer \/ ClientOpens \/ ClientWrites \/ ClientReadsAll \/ ClientEnds
    \/ Lose

SessionSpec == SessionInit /\ [][SessionNext]_sessionVars

\* The server loop serves packets, the client goes on, and what the network does
\* not lose it delivers.  A timer's deadline stands while segments come and go, so
\* it fires even if the network is quiet only now and then.
Fairness ==
    /\ WF_sessionVars(ServerSteps) /\ SF_sessionVars(ServerTimer)
    /\ WF_sessionVars(ClientSteps) /\ SF_sessionVars(ClientTimer)
    /\ WF_sessionVars(ClientOpens) /\ WF_sessionVars(ClientWrites)
    /\ WF_sessionVars(ClientReadsAll)

FairSessionSpec == SessionSpec /\ Fairness

-----------------------------------------------------------------------------
(* Properties *)

Sent == SubSeq(Stream, 1, c_sent)

\* End to end the echo is the stream: whatever the network loses, duplicates or
\* reorders and whenever the timers fire, the client reads a prefix of what it
\* sent (send_buffer, data_payload and the retransmitted SendInfo together).
EchoInOrder == IsPrefix(c_got, Sent)

\* The two ends never disagree by more than what is in flight: the server counts
\* nothing as acknowledged that its peer has not received, its peer receives
\* nothing the server has not sent, and the same the other way round
\* (incoming_ack_update, and RCV.NXT in every handler).
SidesAgree ==
    tcp_state \notin {"None", "SynReceived"} /\ c_state = "Open" =>
        /\ Sub(c_rcv, snd_una) <= Flight
        /\ c_acked <= Sub(rcv_nxt, SeqAt(0))
        /\ Sub(rcv_nxt, SeqAt(0)) <= c_nxt

\* The server has bytes for its peer but nothing in flight, and so no timer; its
\* peer has room but has nothing to acknowledge, and so no timer either.
Stalled ==
    /\ tcp_state = "Established" /\ pending = {} /\ send_buffer # <<>>
    /\ c_state = "Open" /\ c_acked = c_nxt /\ c_wnd = ClientBuf
    /\ to_server \cup to_client = {}

\* "reliable transmission of data in degraded network conditions": what a client
\* that does not close sends comes back completely, with one exception.  There is
\* no persist timer, so a window update that is lost or overtaken by an older ACK
\* can leave both sides waiting (drain_transmittable); nothing else can.
EchoCompletes == <>(c_got = Stream \/ c_fin \/ Stalled)

\* A client that follows the protocol and has not closed never has its
\* connection reset: no handler answers one of its segments with a RST it has to
\* accept.
NeverReset == c_state = "Reset" => c_fin

\* The server's FIN overtakes no byte that was sent, and gives up no more than
\* the bytes the window kept in send_buffer: until the connection is removed,
\* what the client has read and those bytes are all it sent (the FIN-ACK of
\* begin_passive_close_without_close_wait).
EofMeansAll == c_eof /\ tcp_state = "LastAck" => c_got \o send_buffer = Sent

\* Once the client has closed, the server forgets the connection, whatever was
\* lost on the way: nothing is left behind in the table.
CloseIsForgotten == c_fin ~> (tcp_state = "None")

\* "respects peer's window": the server never sends a byte beyond the right edge
\* of the window its peer has announced.
NeverOverrunsPeer ==
    \A m \in to_client :
        c_state = "Open" /\ ~c_eof /\ m.payload # <<>> =>
            precedes_or_eq(Add(m.seq_num, Len(m.payload)), Add(c_rcv, c_wnd))

=============================================================================
