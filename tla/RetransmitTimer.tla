--------------------------- MODULE RetransmitTimer ---------------------------
(***************************************************************************)
(* The clock behind retransmission and shutdown: when a pending segment is *)
(* due, how long the loop sleeps in poll, and what it does when it wakes.  *)
(*                                                                         *)
(* TcpConnection lets any pending segments be due; here a segment has an   *)
(* age and nothing else.  Times count ticks from now: a duration that is   *)
(* left is positive, one that has passed is not.  An Option is a set with  *)
(* at most one element.                                                    *)
(***************************************************************************)
EXTENDS Integers, Sequences, FiniteSets, FiniteSetsExt

CONSTANTS
    Conn,                      \* keys of the connection table
    InitialRto,                \* RtoConfig::initial
    TCP_RTO_MIN, TCP_RTO_MAX,
    PowMax,                    \* u32::MAX, where saturating_pow stops
    MaxRetries,                \* TcpConnections::max_retries
    GracePeriod,               \* Server::shutdown_grace_period
    TicksPerMs,                \* the clock is finer than poll's timeout
    MaxLate,                   \* bound: ticks the loop may run behind a deadline
    MaxSends                   \* bound: segments sent in all

ASSUME ConnAssumption == IsFiniteSet(Conn)
ASSUME TimerAssumption ==
    /\ InitialRto \in Nat /\ PowMax \in Nat /\ MaxRetries \in Nat /\ GracePeriod \in Nat
    /\ TCP_RTO_MIN \in Nat /\ TCP_RTO_MAX \in Nat /\ TCP_RTO_MIN <= TCP_RTO_MAX
    /\ TicksPerMs \in Nat \ {0} /\ MaxLate \in Nat /\ MaxSends \in Nat

VARIABLES
    queue,              \* per connection: its pending segments, oldest first
    sent,               \* how many segments were queued so far
    shutdown_deadline,  \* Option
    timeout,            \* Option: what is left of poll's timeout; {} blocks
    running

\* `waited` is a history: how long the segment has been pending.
PendingSegment == [id : Nat, age : Nat, retries : Nat, waited : Nat]

IsOption(x, S) == x \subseteq S /\ \A a, b \in x : a = b

timerVars == <<queue, sent, shutdown_deadline, timeout, running>>

-----------------------------------------------------------------------------
(* When a segment is due *)

\* wrapping_pow instead of saturating_pow.
Backoff_Wraps(retries) == IF 2^retries > PowMax THEN 0 ELSE 2^retries

Backoff(retries) == IF 2^retries > PowMax THEN PowMax ELSE 2^retries

clamp(t) == Max({TCP_RTO_MIN, Min({t, TCP_RTO_MAX})})

Rto(retries) == clamp(InitialRto * Backoff(retries))

\* What is left until time_due; overflow of Instant is out of reach.
time_due(seg) == Rto(seg.retries) - seg.age

IsDue(seg) == time_due(seg) <= 0

exhausted_retries(seg) == seg.retries >= MaxRetries

-----------------------------------------------------------------------------
(* How long to sleep *)

Segments(q) == UNION {{q[c][i] : i \in DOMAIN q[c]} : c \in Conn}

Earliest(times) == IF times = {} THEN {} ELSE {Min(times)}

\* Only the oldest segment of each connection is looked at.
next_retransmit_deadline_Oldest(q) ==
    Earliest({time_due(q[c][1]) : c \in {d \in Conn : q[d] # <<>>}})

next_retransmit_deadline(q) == Earliest({time_due(seg) : seg \in Segments(q)})

\* What is left of a deadline that has passed is negative.
saturating_duration_since_Signed(deadline) == deadline

saturating_duration_since(deadline) == Max({deadline, 0})

\* as_millis rounds down.  The cap at c_int::MAX milliseconds, 24 days, is left out.
as_millis(duration) == (duration \div TicksPerMs) * TicksPerMs

\* checked_duration_since: a deadline that has passed gives no timeout at all.
poll_timeout_Checked(deadline, q) ==
    {as_millis(d) : d \in {e \in Earliest(deadline \cup next_retransmit_deadline(q)) : e >= 0}}

poll_timeout(deadline, q) ==
    {as_millis(saturating_duration_since(d)) : d \in Earliest(deadline \cup next_retransmit_deadline(q))}

\* The loop comes round to poll with a new timeout.
Poll == timeout' = poll_timeout(shutdown_deadline', queue')

-----------------------------------------------------------------------------
(* What happens when poll returns *)

\* A new segment is put in front of the older ones.
push_Front(segs, id) == <<[id |-> id, age |-> 0, retries |-> 0, waited |-> 0]>> \o segs

push(segs, id) == Append(segs, [id |-> id, age |-> 0, retries |-> 0, waited |-> 0])

CanSend(n) == sent + n <= MaxSends

\* The device is readable: an ACK covers the n oldest segments (all of them if
\* it ends the connection), and the reply may be a segment to keep.
Packet(c, n) ==
    /\ running
    /\ LET rest == SubSeq(queue[c], n + 1, Len(queue[c]))
       IN  \/ /\ queue' = [queue EXCEPT ![c] = rest]
              /\ UNCHANGED sent
           \/ /\ CanSend(1)
              /\ queue' = [queue EXCEPT ![c] = push(rest, sent + 1)]
              /\ sent' = sent + 1
    /\ UNCHANGED shutdown_deadline
    /\ \/ running' = TRUE /\ Poll
       \/ shutdown_deadline # {} /\ running' = FALSE /\ timeout' = {} \* nothing is closing

\* poll is interrupted by the signal: every established connection sends a FIN.
BeginDraining(established) ==
    /\ running /\ shutdown_deadline = {}
    /\ CanSend(Cardinality(established))
    /\ queue' = [c \in Conn |-> IF c \in established THEN push(queue[c], sent + 1) ELSE queue[c]]
    /\ sent' = sent + Cardinality(established)
    /\ shutdown_deadline' = {GracePeriod}
    /\ Poll
    /\ UNCHANGED running

\* The signal finds no connection to close.
NoConnections ==
    /\ running /\ shutdown_deadline = {}
    /\ running' = FALSE /\ timeout' = {}
    /\ UNCHANGED <<queue, sent, shutdown_deadline>>

\* Another signal, or the same again: the loop just polls again.
Interrupted ==
    /\ running
    /\ UNCHANGED <<queue, sent, shutdown_deadline, running>>
    /\ Poll

GracePeriodElapsed ==
    /\ running /\ timeout = {0}
    /\ \E deadline \in shutdown_deadline : deadline <= 0
    /\ running' = FALSE /\ timeout' = {}
    /\ UNCHANGED <<queue, sent, shutdown_deadline>>

GivesUp(segs) == \E i \in DOMAIN segs : IsDue(segs[i]) /\ exhausted_retries(segs[i])

retransmit_info(seg) == [seg EXCEPT !.retries = @ + 1, !.age = 0]

make_retransmissions ==
    queue' = [c \in Conn |->
                 IF GivesUp(queue[c]) THEN <<>>
                 ELSE [i \in DOMAIN queue[c] |->
                          IF IsDue(queue[c][i]) THEN retransmit_info(queue[c][i]) ELSE queue[c][i]]]

\* The timeout of poll elapsed, perhaps up to a millisecond before anything is due.
TimesOut ==
    /\ running /\ timeout = {0}
    /\ \A deadline \in shutdown_deadline : deadline > 0
    /\ make_retransmissions
    /\ UNCHANGED <<sent, shutdown_deadline, running>>
    /\ Poll

\* Every deadline that stands.
Deadlines == shutdown_deadline \cup {time_due(seg) : seg \in Segments(queue)}

\* How long n sendings of a segment wait with exponential backoff, clamped.
Wait(i) == clamp(InitialRto * 2^i)
Schedule(n) == MapThenSumSet(Wait, 0 .. (n - 1))

\* Time passes while the loop sleeps; what is due is handled within MaxLate.
Tick ==
    /\ running
    /\ \A deadline \in Deadlines : deadline > -MaxLate
    /\ Deadlines # {}
    /\ queue' = [c \in Conn |-> [i \in DOMAIN queue[c] |->
                     [queue[c][i] EXCEPT !.age = @ + 1,
                                         !.waited = IF @ < Schedule(MaxRetries + 1) THEN @ + 1 ELSE @]]]
    /\ shutdown_deadline' = {deadline - 1 : deadline \in shutdown_deadline}
    /\ timeout' = {Max({t - 1, 0}) : t \in timeout}
    /\ UNCHANGED <<sent, running>>

-----------------------------------------------------------------------------
TimerInit ==
    /\ queue = [c \in Conn |-> <<>>]
    /\ sent = 0
    /\ shutdown_deadline = {} /\ timeout = {}
    /\ running = TRUE

TimerNext ==
    \/ \E c \in Conn : \E n \in 0 .. Len(queue[c]) : Packet(c, n)
    \/ \E established \in SUBSET Conn : BeginDraining(established)
    \/ NoConnections
    \/ Interrupted
    \/ GracePeriodElapsed
    \/ TimesOut
    \/ Tick

\* Time passes, and a poll that has timed out returns: the device is not
\* readable at every single poll.
TimerSpec ==
    /\ TimerInit /\ [][TimerNext]_timerVars
    /\ WF_timerVars(Tick) /\ WF_timerVars(TimesOut) /\ WF_timerVars(GracePeriodElapsed)

-----------------------------------------------------------------------------
(* Properties *)

\* A timeout handed to poll is never negative: poll would take it for "block".
TimerTypeOK ==
    /\ queue \in [Conn -> Seq(PendingSegment)]
    /\ sent \in Nat
    /\ IsOption(shutdown_deadline, Int)
    /\ IsOption(timeout, Nat)
    /\ running \in BOOLEAN

\* The loop never sleeps past a deadline, neither of a segment (a resent one,
\* which backs off, may be due after a younger one) nor of the shutdown, and it
\* never wakes a whole millisecond early to poll in a busy loop: poll's timeout
\* stays within a millisecond before the earliest deadline, whatever packets,
\* signals and retransmissions happened since it was computed.
PollIsPunctual ==
    running =>
        /\ timeout = {} <=> Deadlines = {}
        /\ \A t \in timeout : Max({0, Min(Deadlines)}) - t \in 0 .. (TicksPerMs - 1)

\* Segments of a connection become due in the order they were sent as long as
\* the older one has not been resent more often: make_retransmissions never
\* resends a segment and skips an older one with as few retries.
OlderDueFirst ==
    \A c \in Conn : \A j \in DOMAIN queue[c] : \A i \in 1 .. j :
        queue[c][i].retries <= queue[c][j].retries => time_due(queue[c][i]) <= time_due(queue[c][j])

\* make_retransmissions "gives up and removes that connection entirely" only
\* after a segment was sent 1 + MaxRetries times and left unacknowledged for the
\* whole backoff schedule: that 2^retries saturates in 32 bits does not show.
GivesUpOnSchedule ==
    [][\A c \in Conn :
          (make_retransmissions /\ queue[c] # <<>> /\ queue'[c] = <<>>) =>
              \E i \in DOMAIN queue[c] :
                 /\ queue[c][i].retries = MaxRetries
                 /\ queue[c][i].waited >= Schedule(MaxRetries + 1)]_timerVars

\* A segment does not stay pending for ever: it is acknowledged, or its
\* connection is given up, or the server exits.
NeverPendingForever ==
    \A c \in Conn : \A id \in 1 .. MaxSends :
        LET Pending == \E i \in DOMAIN queue[c] : queue[c][i].id = id
        IN  Pending ~> (~Pending \/ ~running)

=============================================================================
