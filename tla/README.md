# Specifications of nlmt

TLA+ modules, TLC runs and TLAPS proofs for nlmt, a network latency and loss
measurement tool in Go (a fork of IRTT): a client sends UDP requests at a fixed
interval, a server echoes them (round trip) or records them (one way), and the
results tell delay and loss, per packet and per direction.

Run a configuration with `tlc -config ServerConn.cfg MCServer` (the table below
names the module of each), check the proofs with `tlapm ServerProofs.tla`.

## The system

| Part | State | Operations | Source |
| --- | --- | --- | --- |
| Server, listeners | listeners, `shutdown`, `shutdownC`; per listener its socket, `closed` | ListenAndServe, Shutdown, listenAndServe, readAndReply, shutdown | server.go, irtt_server.go |
| Connection manager | `sconns` by token | put, get, remove, removeSomeExpired | server.go |
| Server connection | peer, parameters, first and last use, token bucket, last seqno, count and window | accept, serve, serveEcho, serveNoEcho, serveClose, expired, restrictParams | sconn.go |
| Client connection | socket, token, negotiated parameters | dial, open, send, receive, close | conn.go |
| Client | `closed`, send and receive errors, `initCh` | Run, send, send_synced, receive, wait, close, checkParameters | client.go |
| Recorder | one slot per round trip, counters, statistics | recordPreSend, removeLastStamps, recordPostSend, recordReceive | recorder.go |
| One-way recorder | one slot per seqno, counters | recordReceive | onewayrecorder.go |
| Results | none | newResult, newOneWayResult | result.go, onewayresult.go |
| Timers, averagers, frame source | averages, frame counter in shared memory | Sleep, Push, Now | timer.go, averager.go |
| Waiters | none | Wait | waiter.go |
| Packet, field buffer, parameters, fillers, glob | bytes, positions | encode, decode, fill, match | packet.go, fbuf.go, params.go, filler.go, glob.go |

**Interactions.** Client and server exchange datagrams: open request and reply,
echo request and reply, close request. On the server each listener is one
goroutine that handles a packet to the end before it reads the next, with a
table of connections of its own; listeners share only the configuration, the
default filler and the shutdown channel. On the client, `Run` first opens the
connection with a goroutine that reads replies while the caller sends and waits,
then starts a send and a receive goroutine which share the Recorder (under its
mutex), the socket and `Client.closed` (under another), and waits for both.

**What is hard.** Datagrams are lost, repeated, late; open requests are
retried, so replies arrive twice; connections end by timeout, duration limit,
close packet or silence, each on its own side; either goroutine of the client
may end first and closes the socket under the other; errors caused by that must
not be reported as failures, while real ones must; seqnos and counters are
unsigned; a listener's failure has to stop the others.

**What makes each part correct.** *Connection manager and connection*: the
received window says only what is true; the rate limit holds over any span of
time; a connection past its limits serves no more than the request that finds
out; the close flag tells the truth; results are printed once. *Client
connection*: one reader of the socket at a time, a close packet before the
socket is closed. *Client*: `Run` returns, and neither hides nor invents an
error; no slot of the test is used twice, whatever its timer does. *Recorder and
result*: counts never wrap, a loss is attributed to the right direction when the
window allows it. *Packet and parameters*: what one side writes is what the
other reads, whatever was agreed on; what the server restricts the client
accepts. *Server*: everything stops when one
listener fails or a signal arrives, and nothing is closed twice.

The full list of what could go wrong, at its line, is under `hazards` in
PROJECT.json, with the properties that cover it or the reason none does.

## Modules

| Module | Models | Used by |
| --- | --- | --- |
| Window | seqnos, `receivedWindow` (sconn.go:247-263) | SConn, RoundTrip |
| SConn | the record `sconn` and the functions on it: bucket, limits, parameters | Server |
| Server | one listener with its connection manager and connections | MCServer |
| MCServer | instances of Server for TLC | runs Server* |
| RoundTrip | a test from end to end, both ways or one, and the result's loss statistics | runs RoundTrip* |
| ServerLifecycle | goroutines of the server: start, failure, shutdown | run ServerLifecycle |
| Conversation | what a client's connection promises | Session |
| Session | the client's connection from open to close, goroutines of the test | runs Session* |
| Fbuf | the field buffer, over the bytes of its array (fbuf.go) | Packet |
| Stamps | two clocks, and what is computed from the times of a trip | Packet |
| Packet | the packet and its fields, HMAC and payload (packet.go) | Exchange |
| Params | encoding, restriction and check of the parameters, glob, fills | Exchange |
| Listen | the addresses a server listens on (resolveListenAddrs) | Exchange |
| Exchange | client and server, from the server's start to a test of two requests | MCExchange |
| MCExchange | scenarios of Exchange for TLC | run Exchange |
| Averager | the three averages of averager.go | Schedule |
| Schedule | when the client sends: send, send_synced, timers, frames | MCSchedule |
| MCSchedule | configurations of Schedule for TLC | run Schedule |
| Lemmas | what several proofs need: recursive functions, induction, the sliding window | the proofs |
| PacketProofs | theorems about Fbuf, Packet and Params | ExchangeProofs |
| ServerProofs, ServerLifecycleProofs, RoundTripProofs, SessionProofs, ScheduleProofs, ExchangeProofs | theorems about the specifications | |

### Server, SConn, Window

Variables: `now`, `sconns` (the map of connmgr), `out` (what the last handler
sent), `hist` (history of each token's last connection, read by no action). An
action is a handler of one packet, from `receive` to the reply, since a listener
has one goroutine: `Accept` and `AcceptClose` (accept, with put and its
removeSomeExpired), `InvalidToken` (get finds nothing), `Refuse` (wrong sender,
bad length), `DropShortInterval`, `Serve` (serveEcho and serveNoEcho, which
differ in the reply only), `Close`; `Tick` lets time pass. `Send` lets every
reply be sent or fail: the state has changed by then. An error of sending that
ends the listener is `ReadFails` of ServerLifecycle.

Abstractions. Time is a natural number, the same during a handler. The
`float64` bucket is counted in the unit of time: one packet is `MinInterval`
units, so earned time is exact and the rounding of floats is not modelled. The
received window is the set of its set bits; shifts by more than the width
empty it, as in Go. `SeqMod` values of a seqno stand for 2^32, `WindowBits` for 64.
The rest of a packet (timestamps, DSCP, payload) is left out, and the
reply always carries count and window.
`rwinValid` is left out because it is true after every request: the late branch,
which would clear it, is never taken. Tokens of connections that ended may be
drawn again. Which five connections removeSomeExpired looks at (map order) is a
choice of any set of that size.

### RoundTrip

The send goroutine (`PreSend`, `SendOk` or `SendError`, `PostSend`, `Cancel`,
`EndWait`), the receive goroutine (`Receive`, `ReadError`), the server (`Echo`,
or `OneWay` with the one-way recorder of the connection, `owr`) and a network
that keeps every datagram, so that each may be taken never, once or often, in
any order. The Recorder's mutex makes each of its calls one step. A request
dropped by a limit of the server is a request lost. The result is computed when
both goroutines have ended: `LostLoop` is the loop of newResult, `Lost` what its
outcome should be, with no order of evaluation. The one-way recorder has one
mark per slot, of which a duplicate removes the last one, as the code does; its
loss is unsigned. The close of the client by whichever goroutine ends first is
one step here; its lock, flag and socket are steps of their own in Session.

### ServerLifecycle

`mpc` is ListenAndServe, `wpc` the goroutine that waits on `shutdownC`,
`lpc[l]` listener `l`. Channels without buffer are a joint step of both sides
(`Result`); a mutex held over more than one step is a flag (`locked`). Any
listener may fail at set-up or while reading, `Shutdown` may be called at any
time, also before the listeners run.

### Session and Conversation

`pc["main"]` is open's caller and then Run, `"opener"` open's goroutine,
`"send"` and `"receive"` those of the test. `cconn.close` is a close packet and
then the socket; `Client.close` does that holding `closedM` (`CloseLock`,
`CloseSock`, `CloseUnlock`), cconn.receive does it without. The network loses,
delays and reorders but does not repeat, so that the findings below need no
misbehaviour. What the test sends is in RoundTrip; here the server may close
the connection during the test (`ExceedDuration`). A client with NoTest asks
for open and close in one request; both kinds are initial states.

Conversation is the abstract specification: a connection is opened once or not
at all, a test runs only on an open socket, the server is told before the socket
of an opened connection is closed, and the client returns with its socket
closed. Session implements it under the mapping `Phase` (from the program
counters of Run, send and receive), `sock` as it is, and `told` for a close
packet with the connection's token having been sent (`ctoken \in closes`).

### Exchange and its parts

One client and one server, in sequence, without loss: what differs from one
run to another is the *scenario*, the settings of both sides, and the delays.
The steps are makeListeners, open, accept, the reply, checkParameters, and for
each of two requests prepare, send, serve and receive, then close. What matters
here is that packets are bytes: each side keeps the packet it reads into or
sends from over the whole test, as the code does, so that fields of an earlier
packet are still there when the next is parsed or filled in, positions are
computed from the fields set, the target length is what setLen left, and the
HMAC covers the bytes there were when it was computed. A byte is a tagged value
("the k-th byte of the number v of its field", "fill", "param"), so that a byte
read at a wrong place is seen. Numbers are small, and the array of a packet has
128 bytes on the server (its MTU).

Checks that nothing in this sequence can make fail are left out of it: of the
client's receive, the open flag, StampAtMismatch, ClockMismatch, and conn.go's reply
and close flags (client.go:607-610, 629-639, conn.go:293-300), as every reply is
that of the server to this test, with the stamps and clocks of its connection; the
zero token of conn.go:200, as the server sends it with the close flag only; and
parseParams's refusal of durations and intervals that are not positive and of
values that name nothing (params.go:145-166), as neither side sends them. Wrong
addresses, short intervals and the duration limit of the server are in Server,
the close and open flags during a test in Session. A host of `Listen` is one address: names
with addresses of both versions and link-local hosts given with their zone are left
out.

`Fbuf` has the operations of fbuf.go on the bytes of the array (setFields with
its moves, zero-length fields, setters and getters, buffer lengths up to the
capacity); `Packet` those of packet.go on them; `Params` the encoding, with the
lengths the varint code gives, `restrictParams` as a pure function from
parameters and configuration, `Checks` of the client, `globAny`; `Listen` the
address lists with interface patterns, sorting and compaction.

### Schedule and Averager

The loop of `Client.send` (`Start`, `SendBatch`, `Plan`, `Sleep`) and that of
`send_synced` (`FrameStart`, `FrameWake`, `FrameSend`, `FramePlan`, with `Tick` of
the process that counts frames). `Wakes` is what each timer's Sleep may return:
the time, which is any of `Lates` late, and the averager after it. Durations are
integers; rounding towards zero is that of the code's conversions. `early` is
history: how many sleeps a CompTimer ended more than half an interval early, which its
correction can do since it divides by an average that is above one after late
sleeps; it counts them. The clock starts anywhere in an interval when the test has an
offset, and at 0 otherwise, since only an offset sees more of it than differences.

## Runs

| Run | Module | Instance | Shows |
| --- | --- | --- | --- |
| ServerConn | MCServer | 1 token, 2 addresses, 3 seqnos of 8, window of 3, burst 2, 8 time units, 4 requests served | types; window sound in any order and complete in order; rate limit; at most one request past a limit, none revives a connection; honest close flag |
| ServerTable | MCServer | 3 tokens, 2 looked at, 4 time units | opening deletes the expired; one-way results printed once |
| RoundTrip | RoundTrip | 4 requests in batches of 2, 5 received by the server, 4 replies | loss attribution, the loop of newResult, no unknown seqno, which loss counts cannot wrap and when; one-way marks and loss right in order |
| ServerLifecycle | ServerLifecycle | 3 listeners | closed once, returned last, no false error, everything stops |
| Session | Session | 3 open timeouts | one reader, close packet sent, errors neither invented nor hidden, Run returns; implements Conversation |
| Exchange | MCExchange | 1232 scenarios, 2 requests, delays of 0 to 2, MTU 128 | fields stay in the packet; parameters agreed on; what the server restricts the client accepts; every packet taken; measures are those of the network; fills and listeners as configured; replies arrive |
| Schedule | MCSchedule | 4 timers, 3 averagers, intervals of 6, 7 and 24, 1 to 3 frames | no slot used twice and no more sent than is accounted for, but for the sleeps that end early; average within its range, sending ends |
| ServerWindow | MCServer | 4 seqnos | **fails**: late requests clear the window |
| ServerUnused | MCServer | as ServerTable | **fails**: a connection never used never expires |
| RoundTripUpstream | RoundTrip | as RoundTrip | **fails**: repeated requests make the upstream loss wrap |
| SessionOpenFlag | Session | 2 open timeouts | **fails**: the reply to a retried open request ends the test |
| SessionClosed | Session | 2 open timeouts | **fails**: an accepted and closed connection is reported as established |

**Bounds and why they are enough.** `MaxTime` 8 is more than a timeout with its
grace after the duration limit with its own (5 + 3), so that a connection can
meet both limits, in either order; `MaxUses` 4 exceeds the burst by two, so that
tokens are spent, earned back and spent again; the window of 3 bits slides past
its width with seqnos 0 to 2 and by the wrapped distance of a late one. The
second address and the lengths 0 and 3 are there to be refused. In the table,
one connection more than removeSomeExpired looks at. Four requests in a window
of three make one that slides out; five receipts at the server and four at the
client leave room for repeats of one another. Three listeners: one that fails,
one that is shut down, one in between. Three timeouts: a first request, a retry,
a last one. Tokens are symmetric in ServerTable (no property orders them). In
Exchange, the scenarios are families of settings that the code branches on
together (stamps, clocks, stats and lengths; durations, intervals and limits;
fills and patterns; sizes and keys; addresses), each crossed in full, the rest at
its default; two requests, so that the second meets what the first left in the
packets; a group and fill of up to 24 and 32 characters, so that parameters do
and do not fit in an open packet. In Schedule, an even and an odd interval, sends
shorter and longer than half an interval, sleeps late by less and by more than a
whole one, and a duration of four intervals; `Scale` 8 is the precision of an
error. The interval of 24 is there for the sleeps that end early: with it, more
batches are sent than slots, so that the term `early` of SentBound is needed.
`MaxFrame` stops frames only while nobody waits for one.

**Deadlock.** Checked, except where the system ends (a test, a server, a
client). A listener can always read another packet.

**Fairness.** Safety runs have none. ServerLifecycle and Session assume weak
fairness of each goroutine's own steps: the Go scheduler runs every runnable
goroutine and wakes one whose channel or mutex is ready; timers fire; a test has
a finite duration. Schedule assumes it of the client, whose timers fire, and of
the process that counts frames, without which a test by frames has no end.
Conversation's own fairness, of its next step, is what Session's implies.
Nothing is assumed of the environment: no datagram need
arrive, no error need happen, nobody need call Shutdown. A read returns for sure
only once its socket is closed.

## Findings

1. `seqno - sc.lastSeqno` is unsigned (sconn.go:249): a late request empties the
   received window instead of setting its bit, against doc/irtt.md. Losses are
   then reported as generic or upstream (never wrongly as downstream: see
   LostDownSound).
2. A connection that is never used never expires (sconn.go:444), against the
   description of `--timeout`.
3. The upstream loss wraps when the server receives repeated requests
   (result.go:158). So does the downstream loss when more replies are received than
   the server has counted requests (result.go:161), of which no run is kept:
   PacketsReceived has the duplicates (result.go:118), so that one request
   whose reply comes twice, all in order, gives 1 - 2. doc/irtt-client.md:540-545
   states both formulas with no condition on duplicates.
4. An open reply during the test ends it (client.go:609), where the comment says
   it is dropped; the late reply to a retried open request is one.
5. open's goroutine overwrites the error ServerClosed (conn.go:197), so that Run
   never reports "connection accepted and closed".

### Where a property stops short

The properties hold with the following exceptions, which are stated in them or
in the definitions they use. Each is what the code does, met while modelling.

- *OneWayLoss* says that marks and counts agree while requests come in order or
  at most one comes twice: a duplicate removes the last slot of the recorded trips,
  which after the first is that of a packet received, whose mark is then lost
  (onewayrecorder.go:101). It says that the loss is right in order: the unsigned
  subtraction wraps when the last packet is late (onewayresult.go:75).
- *MeasuresRight* leaves out a midpoint stamp of the monotonic clock alone, since
  the server's midpoint carries both clocks (sconn.go:307). A one-way request is
  read as if all stats and both clocks had been agreed on (sconn.go:420-423), so
  that its send time is right only when they were.
- *Answered* leaves out one-way requests with HMAC, whose timestamp is set after
  the HMAC was computed (client.go:380-384), and a MaxLength below the length of
  the header, which restricts the parameter Length only (sconn.go:212).
- *Fits*: an open packet has room for the longest header and no more
  (conn.go:188, 219, 229); longer names of group and fill do not fit.
- *FillAgreed* leaves out a server started with another filler than the default
  one, whose name it then tells all the same (sconn.go:63-71).
- *ListensOnce* allows two listeners of one target for a link-local address that two
  interfaces have, told apart by its zone.
- *NoDirectionUnderflow* says of the upstream loss that it does not wrap when no
  request is repeated, and of the downstream loss, with requests and replies in
  order, that PacketsReceived exceeds the server's count by the duplicates at
  most: it does not wrap when there are none. With a duplicate it may (finding 3),
  and so it may when requests or replies are late, since the count is that of the
  last reply recorded.
- *SentBound* allows tests by frames two batches more than the intervals that
  fit, as the last is sent after the frame the test ends at (client.go:570), and
  timers one more than result.go expects. It allows a CompTimer one batch more
  still, of what result.go expects and of what the recorder was made for, for each
  sleep that ended more than half an interval early (timer.go:166-168): two
  batches are then sent in one slot, which the run does.
- *SlotOnce* leaves out the tests in which a CompTimer slept more than half an
  interval too short, which its correction allows.
- The comment of RTT says that the processing time of the server is subtracted
  if it does not exceed the round-trip time (recorder.go:210-213); the code
  subtracts it always, and so does `RTT` of Stamps.

## Proofs

**Server** (ServerProofs, for all values of the constants that satisfy
WindowAssumption, SConnAssumption, ServerAssumption). TypeOK, WindowSound,
WindowCompleteInOrder, RateLimit, OvertimeOnce and ReportedOnce are invariants;
OpenSweeps, NeverRevived and CloseFlagHonest hold of every step. None of the
invariants but TypeOK is inductive alone. `IInv` adds, for every connection in
the table (`Conn`), what relates it to its history: each bit of the window
stands for a received seqno; in order, each received seqno in reach has its bit;
the last use served was not after `lastUsed`; and the *budget*: for every
earlier use, what was served since and what is left in the bucket is no more
than the burst and the time passed. RateLimit follows from the budget at the
moment a request is served; the bucket alone says too little, because dropped
requests move `lastUsed` without being served. For connections that are gone
(`Past`), IInv keeps only what the history itself says. OvertimeOnce needs that
a connection still in the table has served none past its limits. The lemmas
about sliding the window (Lemmas) are about any distance, wrapped or not.
OpenSweeps needs the table to be finite (FiniteLive), since a subset with as
many members as the whole is the whole only then.

**ServerLifecycle** (ServerLifecycleProofs, any N > 0). ClosedOnce is inductive
with the types. NoSpuriousError needs `Attributed`: before a listener closes its
own socket, a closed socket means that shutdown holds the mutex or has set
`closed`. ReturnsLast needs `Counted`: the results received are as many as the
listeners that have ended.

**RoundTrip** (RoundTripProofs, any number of requests, batches, window and
seqno range that satisfy the assumptions of Window and RoundTrip). All its
invariants. `IInv` is the types and seven parts. *Sending*: between the
steps of send, `sendN` and the length of the array of trips differ as the program
counter says, and the next seqno is `sendN`. *Known*: a seqno whose reply was
received was served, and one that was served was requested. *Counted*: the count
of replies is that of the trips with a reply. *Sound*: what a reply's window
says was received had been. *Complete*: with requests in order, it says all of
it. *Counts*: of two replies, the one sent later has the higher count.
*Recorded*: the marks and slots of the one-way recorder. What the result
computes follows from these when both goroutines have ended: a loss attributed
downstream was received (Sound), one upstream was not (Complete), and
the differences that NoLossUnderflow and NoDirectionUnderflow are about are not
negative (Counted, Counts). LoopAgrees is about newResult alone:
by induction over the trips from the last to the first, what the inner loop has
marked (`LostAfter`) is what the replies after the trip say of it. `ReceivedStep` says once for
all actions that the trips with a reply stay the same or gain one, which most
of the steps above cite.

**Session** (SessionProofs, any number of open timeouts). The invariant is
six groups. *Types*. *Handshake*: what is known of token, close packets and socket at each point
of open. *Stopping*: which goroutine may run when, and that a socket of the test
is closed after the close packet. *LockTypes*, *Locking*: who holds `closedM`, and
that receive finds its socket closed only while another holds it or `closed` is
set. *Reasons*: a goroutine that closes has an error, or has sent all. *Counts*:
a connection for each open request at most, each with a token of its own.
ConversationStep shows that every step is one of Conversation or leaves its
variables as they are; Implements is the safety part of the refinement, whose
liveness the run checks (Converses).

**Schedule** (ScheduleProofs, any interval, duration, offset, any send times,
delays and late sleeps). SlotOnce and SentBound, by timers and by frames. `ByTimer` is
inductive: the time that is waited for is that of a slot after the one the last
batch is nearest to, which `NextSlot` shows of the two cases of the code's
computation, rounded half intervals included; and as many slots as batches lie
behind, less one for each sleep that ended early, so that the bound on slots is one on
batches. After such a sleep the slot of the next batch may be that of the last (no
`Ahead`), but it is counted in `early`. `FramesPassed` is
the same for frames. The averages of CompTimer are shown to be natural numbers,
so that a compensated sleep does not end before it began; that of the window
is a sum over a sequence of any length, by induction over it. TypeOK is inductive
with the same: no time is negative, and the average that a CompTimer divides by
is not zero.

**Packet** (PacketProofs, any packet). A packet is *well formed* (`Well`) when no
slice of it went past the capacity, each field has its capacity or none, and the
fields fit in its length, in a buffer with room for all. SetGet and NumberSet:
what is set reads back, in place (`SetOver`) or between other fields
(`SetIn`, with the bytes behind moved), and nothing else changes. A packet is
*sendable* when its flag, field and value of the HMAC fit its key; KeysDecide:
its receiver takes it if and only if the keys are the same, which needs that a
message is read over the bytes of an older one (`ReceivedIs`), that the HMAC is
that of the bytes with its own zeroed, and that this is the same on both sides
(`SealRead`). FieldsRead, OpenRequestIs and OpenReplyIs say what the packets of
open are, byte by byte, and what they read as. The packets of the test have
any fields: `Framed(q, F)` is a packet laid out with the fields F, and SealDecides and
FieldsReadAs say of any F when such a packet is taken and what is read of it
with more or fewer fields than it was written with; CutRefused, that one with an HMAC
is refused when the buffer cuts it. Then come the operations in the order a
side calls them: fields added and zeroed (`ZeroEach`), the length set, the fill
put in (`Filled`), numbers and times written (`HoldsStamps`), the HMAC computed last.

**Parameters** (also PacketProofs, any parameters and settings). ParamsRead: what
bytes writes of any parameters parseParams reads
back; on the way, that a cut encoding gives each parameter or its zero value
(`PartRead`), and the first five as they were (`StartRead`). AllowedChecked: what
restrictParams makes of any request (`Allowed`) checkParameters takes, or
restricts for the reasons RestrictionAccepted gives, also when what it reads was
cut behind the first five. GlobRight: globAny accepts a fill only when one of the
patterns means it (`Matches`), for strings and patterns of any length.

**Exchange** (ExchangeProofs, any settings that satisfy ScenarioAssumption, any
addresses). `IInv` says what travels while the connection opens
(*Opening*: the request is that of the parameters asked for, the reply that of
those the server allows), what the sides know of each other from then on
(*Agreed*: the connection has what the server allows, and the client the same
when it fits, and otherwise all but the fill), why a test was refused (*Refused*) and where packets go (*Reached*).
ParamsAgreed, RestrictionAccepted and RepliesArrive, the second part of
ListenersRight, follow. None is inductive by itself: they say what is known when a step begins, not what is on its way.

The test itself needs more: Answered says only what there is at the end,
MeasuresRight only what was recorded, and both depend on what older packets left in
the bytes of three buffers. `TestInv` is seven parts. *StepInv*: the client, the
server and its connection have the same parameters and key. *PacketsInv*: each
buffer is well formed, and the client's has the fields and the length of a
request of this test. *MessageInv*: what travels is a request that asks (`Requests`: its
fields, seqno, token, and an HMAC over all of it) or a reply that answers it
(`Answers`: the same seqno, the window, the times in the fields of the stamps
agreed on, the fill of the connection in the payload). *HistoryInv*, *RoundInv* and *OneWayInv*:
what has been recorded is what happened. *AnswerInv*: where nothing stands
in the way of a test (`Heard`, `Complete`), it goes on. TestInvariant proves it with
IInv, one lemma for each step, which follow the packet through each side:
`PreparedIs` (the request), `RequestTaken` (the server takes it if it is whole;
a request with an HMAC that its buffer cuts is dropped as BadHMAC), `EchoReplyIs`
(the reply is built in the buffer of the request, with fields going and coming),
`ReplyRead`, `StampsRead`, `OneWayRead`, `CloseRead`. From it TypeOK, Answered,
FillAgreed and MeasuresRight are proved for every scenario: any stamps,
clocks and stats, any length, any keys, any delays. FillAgreed also rests
on GlobRight.

ListensOnce, the first part of ListenersRight, is proved of any addresses that are bound and any
interfaces there are. It is what ListenersRight has to say: its second part, RepliesArrive, follows
almost at once from how a listener chooses the address it replies from. The code sorts by a comparison that is not an order and then removes what
equals the element before it, so that equal addresses have to end up next to
each other. They do, in an insertion sort: `Less` denies that one address is
below another in every part (`BelowIs`), and a list stays `Grouped`, that is, nothing in
it comes after a different address above it, nor again after another one, when an address is
inserted behind the last one below it (`InsertGrouped`). This is sort.Slice up to
12 addresses; longer lists it sorts in other ways, which are not modelled.
At most one listener serves a target, as the check of unspecified addresses lets
no port have both kinds; but a link-local address of two interfaces, told
apart by its zone, is two listeners, which the property now allows and the run has.

Reading a packet as the code does was stated at first with a CASE whose
guards overlap, of which TLA+ may choose any; the proof did not go through, and
`packetError` and the client's `Receive` now test in the order of the code.

ScenarioAssumption is what the code lets through: numbers are not negative,
stamps, clocks and stats are those that the flags of client and server can name, the
client asks for its own protocol version, names of group and fill are no longer than
24 and 32 bytes (defaults.go:146-150, params.go:206-217, 225-229), and the server's
buffer, as large as the MTU of its interface (conn.go, mtu.go), has 100 bytes at
least and room for its reply. 92 bytes, which the code would take, have
no room for the token of the reply when the request uses all of them. A
buffer is not assumed to hold the requests of the test: Answered says what
happens when it does not.

**Recursion and induction.** The recursive functions of the modules (sums of
lengths, averages, the loop of newResult, the joining of encoded parameters) are
values chosen for an equation; that there is one is `Iterates` of Lemmas. The
library's induction takes a predicate as its parameter; `NaturalsIn` takes a set
instead and is proved from the order of the natural numbers being well founded.

**Only model-checked.** Every liveness property (StopsAll, RunReturns, Ends,
the fairness of Converses): the prover does not handle fairness. No
invariant of a passing run is left.

## Not modelled

- Command line and output (irtt_client.go, irtt_server.go, irtt_print.go, JSON
  of results, formatting): no state that another part depends on, but for the
  signal handler, an action of ServerLifecycle.
- NetPrint: a TCP connection to print to, written by a ticker and by the listener
  that prints one-way results, which a write may hold up. Its state is read by no
  other part.
- Waiters: functions of the RTT statistics; the wait is any finite time.
- Statistics of durations, medians, rates: floating point, read by nothing but
  the output.
- Time sources of operating systems and their system calls, socket options,
  parsing of addresses and durations.
- What bytes a filler produces, and the position that listeners share in the
  default one; they are one value.
- The pool of packets of the server, and debug options (simulated drops and
  duplicates, constants that are 0).

## Plan

Done, in this order: Window, SConn, Server and its proofs; RoundTrip;
ServerLifecycle and its proofs; Session; Conversation and the refinement; the
byte level (Fbuf, Packet, Params, Listen, Exchange); the schedule; the one-way
recorder; proofs of Session, RoundTrip, Schedule; proofs of Packet and of
Exchange, first up to the test, then of the test and of the addresses a server
listens on.

Left, in order of what it would add:

1. Exchange with a second client on the same listener, so that packets of two
   connections follow one another in the listener's packet.
2. NetPrint with the listeners that write to it, and its end at shutdown.
