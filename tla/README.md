# Typenet in TLA+

Typenet is a userspace IPv4 echo server on a Linux TUN device. One thread polls
the device, parses each packet, and answers ICMP echo requests, UDP datagrams and
TCP segments; TCP has a table of connections, retransmission, flow control, active
and passive close, and a graceful shutdown on SIGINT.

Four views of the program, each kept apart from the others so that TLC can
enumerate it:

- one **connection** in detail (`TcpConnection`), alone under any input and composed
  with a client and a network (`EchoSession`);
- the **poll loop** with several connections and a signal (`Server`);
- the loop **by the clock**: backoff, deadlines, the sleep in `poll`
  (`RetransmitTimer`);
- the **bytes** of a packet from read to write (`EchoResponder`, `Checksum`).

## Modules

| Module | Models | Source |
| --- | --- | --- |
| `SeqSpace` | wrapping sequence-number arithmetic and comparison | `tcp/seq_space.rs` |
| `TcpConnection` | one table entry: every handler, the retransmission queue, active close | `tcp/send_info.rs`, `state.rs`, `pending_segment.rs`, `connections.rs` |
| `ConnPhases`, `ConnLifecycle` | what the loop sees of a connection, as relations and as a specification | same |
| `EchoClient` | a conforming TCP client (external) | |
| `EchoSession` | server, client and an unreliable network | `server.rs`, `connections.rs` |
| `Server` | the poll loop, SIGINT, timeouts, the grace period, a table of connections | `server.rs`, `sys/poll.rs`, `sys/shutdown_signal.rs` |
| `RetransmitTimer` | due times, backoff, `poll_timeout`, shutdown deadline | `tcp/pending_segment.rs`, `connections.rs`, `server.rs`, `sys/poll.rs` |
| `Checksum` | the four implementations of the Internet checksum | `checksum.rs` |
| `Packet` | slices, pseudo-header, protocol numbers | `try_ops.rs`, `protocol.rs`, `addr_pairs.rs` |
| `Ipv4Header`, `UdpDatagram`, `IcmpEchoMsg`, `TcpCodec` | the codecs | the file of that name; `tcp.rs`, `tcp/flags.rs` |
| `PacketClient` | the client's encoder and decoder (external) | |
| `EchoResponder` | router, `parse_incoming`, `send_pkt`, the write buffer | `protocol/router.rs`, `server.rs` |
| `MC...` | instances for TLC | |
| `...Proofs` | theorems and proofs | |

Paths are relative to `src/src/` and, for TCP, to `src/src/protocol/`.

### TcpConnection

The variables are the fields of `ConnState` under their own names; `tcp_state` is
`"None"` when the table has no entry, and `window_state`, which the code keeps
inside the state enum, is a variable of its own. `pending` is a set, and `copy`
tells apart entries of the `Vec` that are otherwise equal. `out` holds the segments
the last step handed to `send_pkt`; `accepted` and `echoed` are histories.

`decide_reply` is the disjunction of the handlers, and a handler has a disjunct per
match arm. `make_retransmissions` and `close_established` are the two other ways
the table changes. Table entries do not read each other, so one entry stands for
all. The environment of `Spec` is open: any segment may arrive in any state, which
includes every loss, duplication and reordering of segments.

Choices a reader may look for:

- `ComparableSpec` is `Spec` with an assumption about the peer that the code does not
  enforce: while nothing is in flight, the antipodal ACK number (exactly 2^31 from
  SND.UNA) does not arrive. A comment in the tests of `seq_space.rs` makes the same
  assumption. Without it `incoming_ack_update` takes that number (`tcp_any_ack`).
  `tcp_connection` assumes it; the proofs assume it only where said. With something
  in flight the antipode is among the inputs.
- `close_established` may happen whenever a connection is ESTABLISHED; the server
  calls it once, at the first shutdown signal.
- A pure ACK completing the handshake does not drain the buffer in the code. In the
  model it does, to no effect: the buffer is empty in SYN-RECEIVED.
- The catch-all of `handle_established` and the error of `drain_transmittable` are
  left out. The earlier arms and the state dispatch exhaust the first;
  `DrainNeverErrs` excludes the second, for any peer.
- Time is abstract: any non-empty set of pending segments may be due.

### EchoSession

`TcpConnection` as it is, with `EchoClient` at the other end. The client connects,
sends `Stream`, reads, may close, and retransmits; its receive buffer is `ClientBuf`
bytes, so its window closes and reopens. It follows RFC 9293: it accepts a RST only
at the number it expects, and acknowledges what it does not accept. A channel is a
set of segments. It reorders, and `MaxFaults` times it loses or duplicates one.

Three things are narrower than in `TcpConnection`. Segments become due in the order
`RetransmitTimer` shows (`OlderDueFirst`). Successive connections get different
initial sequence numbers. With `Patient` the timers exceed the round trip: they fire
only when nothing is on its way; without it they fire at any moment.

The code has no persist timer and skips CLOSE-WAIT. `EchoCompletes` and `EofMeansAll`
say how far the consequences go. `Stalled` is the state where bytes wait for a window
whose update was lost, or overtaken by an older ACK: it is the only way an echo stays
incomplete. When the client closes, the bytes that wait for the window are dropped:
those, and no others.

### Server

`pc` says where the loop is. A deadline is unset, set or passed, and `due` is the
set of clients with an overdue segment. A packet is reduced to its effect on the
table, which is the relation `Received` of `ConnPhases`, or none (UDP, ICMP, a packet
that does not parse). Every `?` that leaves `run` is a step to `"Failed"`. A signal
interrupts a blocked `poll` and may interrupt `read`; anywhere else it only sets the
flag. `poll` may time out slightly early, because its timeout is truncated to
milliseconds.

`TcpConnection` implements `ConnLifecycle`, whose steps are the relations `Server`
uses for its entries.

### RetransmitTimer

A pending segment is its age and its number of retries; times are ticks from now,
and a millisecond is `TicksPerMs` ticks. `timeout` is what is left of `poll`'s
timeout, computed at the end of every step that comes round to `poll`, with the
saturation at zero and the truncation the code has. A packet acknowledges some of
the oldest segments and may queue one. `MaxLate` is how far the loop may run behind.

### EchoResponder and Checksum

`EchoResponder` works on real bytes: a client's packet, intact or with one byte
changed, goes through `parse_incoming`, the router and the codec, and the reply is
encoded into `write_buf`, which keeps what earlier packets left in it. An `Option` or
`Result` is a set with at most one element. A TCP reply is any segment or none:
which one is the subject of `TcpConnection`. `Read` of `PacketClient` is written from
the RFCs, independently of the server's parser. 32-bit numbers are pairs of words.

The packets are those of a conforming client: they fit the MTU and their header
length is five words or more. `inner_parse` of the IPv4 header does not reject a
smaller header length, and what then counts as the payload begins inside the header.
No run has such a packet and nothing is claimed for it, in particular not that the
reply fits the buffer.

In `Checksum` the width of a byte, of a chunk and of the accumulators are
parameters, so that every input up to a length where they all carry can be tried.
`MCBytes` instantiates it twice: with bytes of eight bits for the packets, with
bytes of one for the inputs of the checksum.

## Runs

| Run | Result | Shows |
| --- | --- | --- |
| `tcp_connection` | pass | queue, echo, window and close properties of one connection; it implements `ConnLifecycle` |
| `server` | pass | shutdown waits, is not restarted, ends; due segments are served |
| `session_echo` | pass | the client reads a prefix of what it sent and the two ends never contradict each other, whatever the network and the timers, or a closing server, do |
| `session_live` | pass | the echo arrives unless it stalls, no reset before a close, a close drops only buffered bytes and is forgotten |
| `retransmit_timer` | pass | `poll` wakes in time, older segments first, giving up on schedule, no segment pending for ever |
| `bytes` | pass | damage is noticed, intact packets are understood, replies fit and are readable; the checksum implementations compute RFC 1071, as far as their docs say |
| `tcp_any_ack` | violation | an antipodal ACK number moves SND.UNA past SND.NXT |
| `tcp_reply_fits` | violation | a segment can be too large for the write buffer |
| `server_busy` | violation | steady traffic keeps the server past its shutdown deadline |
| `server_signal` | violation | a SIGINT outside `poll` and `read` goes unnoticed |
| `session_overrun` | violation | data beyond the peer's window |
| `session_reset` | violation | a close by the server resets a conforming client |

The properties of `tcp_connection`: `FlightBounded` (at most a window and a FIN in
flight), `NothingUnackedForgotten` and `OnlyUnackedPending` (the retransmission queue
is what is in flight, no less and no more), `EchoIsFaithful` and
`PendingMatchesStream` (bytes sent, and sent again, are the stream received),
`OnlySynAckPending` (what `complete_handshake` relies on), `SendSideClosesForGood`
and `RespectsWindow`.

The violations:

- **Antipodal ACK.** With nothing in flight, SND.UNA + 2^31 both precedes and is
  preceded by SND.UNA, so the two comparisons of `incoming_ack_update` accept it. A
  FIN-ACK in ESTABLISHED, or data in FIN-WAIT-2, then moves SND.UNA past SND.NXT; a
  plain ACK in ESTABLISHED does not get that far. The documentation says ACKs "for
  data not yet sent (past SND.NXT)" are ignored. No conforming peer sends one. Of the
  other properties `FlightBounded`, `NothingUnackedForgotten` and
  `ImplementsLifecycle` fail with it as well, since SND.UNA then means nothing.
- **Reply size.** `drain_transmittable` limits a segment by the peer's window only.
  Bytes buffered behind a small window can leave as one segment that does not fit
  the MTU-sized buffer. The error ends `run`, whose documentation says that it "logs
  and continues for errors related to parsing and replying to individual packets".
- **Deadline under load.** The deadline is compared only when `poll` times out, and
  so never while packets keep arriving. Its documentation says "exiting
  unconditionally".
- **Unnoticed signal.** The flag is read only after an EINTR. A signal between two
  blocking calls waits for a second one. The repository's README says the server
  runs "until it receives SIGINT".
- **Window overrun.** A pure ACK is taken whatever its sequence number. One that
  overtakes earlier data moves SND.WL1 past that data. The segment that fills the gap
  then advances SND.UNA while its own, smaller window counts as stale. (Out-of-order
  data updates SND.WL1 in the same way; at these bounds the pure ACK does it.)
- **Reset at shutdown.** An ACK that was on its way when the server closed matches no
  arm of FIN-WAIT-1 and is answered with a RST at exactly the number the client
  expects. FIN-WAIT-2, CLOSING and LAST-ACK have the same last arm.

### Bounds

`tcp_connection` uses a sequence space of 16 with both initial numbers at 14, so
every connection wraps around. A stream of 3 bytes exceeds the largest window, 2, so
data is buffered, sent in part and acknowledged in part. One retry lets a segment be
resent and then given up; one duplicate SYN puts two SYN-ACKs in the queue; at most
one unacknowledged segment has been resent (`MaxResent`). Incoming segments are in
order, one too old or one too early, and ACK numbers run from one below SND.UNA to
one above SND.NXT, or are antipodal (on ACKs and FIN-ACKs; with nothing in flight
only in `tcp_any_ack`): the edges the handlers compare with. No step
reads `out`, what the last step sent, so states that differ in nothing else are one
(`VIEW`); the properties about it are action properties, which TLC evaluates on every
step, and the clause of `TypeOK` about it, which is proved.
`tcp_reply_fits` uses a window of 3 with packets of 2 bytes.

All sessions use a space of 32 and wrap around. The passing ones send two bytes, in
one segment or two, through a receive buffer of one, so that the window closes, and
have one fault. `session_echo` lets timers fire at any moment and therefore bounds
the segments on their way to two in each direction (`MaxInFlight`); the fault and a
close by the server do not meet in one session, and its `VIEW` leaves out what no
step reads. In `session_live` the retries outnumber the faults, since otherwise the
server may give up, and the client closes only when its stream is acknowledged (`MCFairNext`);
`session_echo` has the earlier closes. In `session_live` the client's FIN therefore
never carries data. The server has one initial number, so a late SYN that reopens a
connection is not explored in the sessions; `tcp_connection` has both. A session may
end, so deadlock is not checked.

`server` has two clients, so one can be closing while another opens, a device queue
of 2, six packets and two signals. Deadlock is not checked in the server and timer
runs: `run` may return, or block for good when no packet comes.

`retransmit_timer` has two connections, two segments and two retries; the initial
timeout is below the minimum and the backoff exceeds the maximum, so both clamps
apply, and 2^retries saturates.

`bytes` explores the packets and the inputs of the checksum one beside the other. The
packets have an MTU of 48, lengths from empty to full, an odd length, a UDP checksum
that comes out as zero, UDP without one, TCP options and the PSH bit, and the top bit
of any one byte flipped. The inputs are all those of up to 12 one-bit bytes, with
chunks of 4 bytes and accumulators of 8 and 4 bits: the narrow ones overflow beyond
10 bytes. The wide one does not, as the 128 bits of the code do not for any slice.

### Fairness

`Server`: the loop takes its next step unless it is blocked (`WF(ServerStep)`), and
time passes (`WF` of `GraceElapses` and of each `RtoElapses`). One thread runs the
loop and blocks nowhere but in `poll`, so weak fairness is enough. Packets, signals
and device failures are never required to happen. `DrainingEnds` and `DueIsServed`
hold in `server` with finitely many packets; `server_busy` shows that the first fails
without that.

`RetransmitTimer`: time passes, and a `poll` that has timed out returns. That is the
same assumption: the device is not readable at every single poll.

`EchoSession`: what the network does not lose it delivers and the two ends handle
(`WF`); the client connects, writes and reads (`WF`), but need not close. The timers
have strong fairness: with `Patient` they are disabled while anything is on its way,
yet a deadline in the code stands meanwhile and is served when it comes.

## Proofs

For all values of the constants that satisfy the named assumptions (a window plus
one is less than half the sequence space; payloads are sequences of bytes; the
minimum timeout is at most the maximum; the table is finite):

- `SeqSpaceProofs`: `precedes` is the intended order for points less than half the
  space apart, and what the ACK comparisons accept (`AckWindowIsExact`).
- `TcpOpenProofs`, with any peer: type correctness and `EchoIsFaithful`.
- `TcpConnectionProofs`, for `ComparableSpec`: `FlightBounded`,
  `NothingUnackedForgotten` and `OnlyUnackedPending`.
- `TcpStepProofs`, with any peer: `OnlySynAckPending`, `SendSideClosesForGood`,
  `RespectsWindow`, that `drain_transmittable` never errs (`DrainNeverErrs`), and that
  the antipode is the only ACK number by which SND.UNA leaves what is in flight
  (`OnlyAntipodeLeavesFlight`). For `ComparableSpec`, the refinement: the connection
  implements `ConnLifecycle`.
- `TcpStreamProofs`, for `ComparableSpec`: `PendingMatchesStream`.
- `ServerProofs`: type correctness, `WaitsForClosingConnections` and
  `DeadlineIsFinal`.
- `RetransmitTimerProofs`: a timeout that is never negative (in `TimerTypeOK`),
  `PollIsPunctual` and `OlderDueFirst`.

The invariant of `TcpConnection` is `IndInv`. The queue properties need each other:
whether an ACK covers a segment is a wrapping comparison, meaningful only if the
segment's end is less than half the space away, which follows from `FlightBounded`
and from segments being no longer than a window and a FIN (`FitsWindow`). That an
accepted ACK lies in [SND.UNA, SND.NXT] is `AckWindowIsExact` with `Comparable`.
The proof treats the shapes of queue update (drop the covered, push one, clear) as
lemmas and each handler by the shapes it uses. The echo needs no more than types
(`EchoInv`), and `DrainNeverErrs` no more than that an ACK is compared with SND.NXT
before it is taken, which is why they hold with any peer. `TcpStepProofs` adds to it that the
contents of the queue follow the state, which is what the refinement needs: the
phases of `ConnLifecycle` say whether anything is pending. `TcpStreamProofs` adds
where in the stream SND.NXT stands, so that a byte's place follows from its number.

The invariant of `Server` adds that a packet is there when the loop is about to
read, and that a deadline implies a signal.

The invariant of `RetransmitTimer` adds that no deadline is overdue by more than
`MaxLate`, and, for the order of a queue, that an older segment has at least as many
retries as a younger one and, if as many, at least its age.

Model-checked only: liveness and everything under fairness, which is out of the
prover's reach; `GivesUpOnSchedule`, which sums a schedule; the sessions; the
checksum and the codecs, which are folds over byte sequences and would need
induction over data.

## Not modelled

- Configuration, logging and display: text. The configured values are constants.
- Attaching the TUN device and installing the signal handler: one-off set-up.
- `main.rs` and `lib.rs`: calls in sequence and module declarations.
- The phantom types that keep the two directions apart: compile time only.
- Errors that the sizes rule out: lengths above 65535 in an MTU-sized buffer,
  overflow of `Instant`, a timeout of more than 24 days.
- A client other than a conforming one in `EchoSession`; `TcpConnection` alone takes
  any segment.

Three limits of the code show in the models without a run of their own. The IPv4 header
checksum is verified over the first 20 bytes, so a packet with options that do not
sum to zero is dropped (`IntactIsUnderstood` is about packets without options).
While packets keep arriving, retransmissions wait, like the shutdown deadline in
`server_busy`.
A third is a delayed SYN of an earlier connection: in SYN-RECEIVED it counts as a
retransmission and gets a SYN-ACK for its own number. `tcp_connection` includes such
SYNs; the client's side of it is not modelled.
