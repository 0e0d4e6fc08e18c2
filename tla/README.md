# Specifications of rust_codes

TLA+ models of the programs of this repository, TLC instances that check them
and proofs that TLAPS checks. All line numbers are those of `src/main.rs` of
the program named, unless another file is given.

The repository is a workspace of small independent programs that try out one
thing each: asynchronous streams and datagrams over channels (`poll-read`),
edge-triggered readiness with mio (`mio-*`), control messages and addresses
(`mio-and-recvmsg`, `migrate-Udp`, `multipath-Udp`), and others. They share no
code and never talk to each other. `poll-read` holds by far the most logic and
concurrency, the mio programs come next, and the work is ordered accordingly.

## Inventory

### poll-read

One tokio task (the *driver*) owns an emulated QUIC connection; `main` and any
other task use it through handles.

| part | state | operations | talks to |
|---|---|---|---|
| driver task (430-552) | `write_dgrams`, `write_dgram_waiting`, `sent_dgrams`, `cwnd`, two vectors of oneshots | receive a request; wake up (an acknowledgement); promote, drain, publish twice, transmit; end | receives from the command channel (capacity 128) and the datagram channel (1), sends to two reader channels (1 each), answers through oneshots |
| `QuicWriteDgram` (124-268) | `cmd_pending` (key to `Command`), `cmd_sender`, `write_sender` | `poll_write_chunk`, `poll_ready`, `poll_flush`, `poll_close`, `start_send` | command channel, datagram channel, a oneshot per request |
| `Command` (362-421) | State0 (message to send), State1 (answer to come), Terminated | `poll_execute` | as above |
| `QuicSendStream` (67-117) | `cmd_pending`, `sender` | `poll_write`; `poll_flush` and `poll_shutdown` do nothing | command channel |
| `QuicRecvStream` (16-65) | `receiver`, `local_storage` | `poll_read` | stream read channel |
| `QuicReadDgram` (270-323) | `read_receiver` | `poll_read_chunk`, `read_chunk`, `poll_next` | datagram read channel |
| `main` (554-643) | the handles | one write, two reads, three datagram reads, two chunks, one send, one flush, drops | all of them |

What is hard here: the writer's polls interleave with the driver's pass at
every channel access; a decision made on `capacity()` (157) is used several
polls later (181); requests are held by the driver and answered on later
events; the key of a `Command` is the address of a stack variable (81, 153,
194) and is not removed when its future is dropped; the driver can end at any
pass, with requests in its channel and oneshots in its vectors.

What makes it correct: datagrams keep their order and are neither lost nor
duplicated; the window is respected; buffers keep their limits; every request
gets exactly one answer or an error; an error means that the connection is
closed; a flush covers what was accepted before it; operations return; the
bytes of the stream arrive completely and in order whatever the sizes of the
buffers on the two sides.

### mio-TcpStream

A server thread with a listener and a map from tokens to connections, and a
sender thread, both with edge-triggered polls. Hard: arrivals between the last
`accept` or `recv` and the next `poll`; batches of events handled while
connections come and go; tokens; an error of one connection ends the thread
(79-81, also 32-34). Correct: no arrival is missed, a token names one
connection, every connection is served or dropped, a sender is woken.

### The pair programs

`mio-UnixStream`, `mio-UnixPipe`, `mio-UdpDgram`: a receiver thread and a sender
thread at the two ends of a channel, with the same two loops around an
edge-triggered poll. `mio-and-recvmsg`: the same receive loop around a call of
`recvmsg` in C, and a sender with a blocking socket. `tokio-UdpDgram`: two tasks
around `try_io`, which keeps the readiness of a socket until a call would block.
Hard: edges and kept readiness, and the end of one side while the other polls or
loops. Correct: nothing that is in the channel is left there, and a sender that
sleeps is woken.

`mio-UnixDgram` has the loops of `mio-UnixStream` but uses `io::` (9, 35, 48,
75) without importing it and does not build as it stands; it is not modelled.

### transfer-fd

A receiver process with a datagram socket, and sender processes
(`src/bin/receiver.rs`, `src/bin/sender.rs`). A sender makes a pipe, passes its
read end in a message, closes its own copy (25) and writes without end. The
receiver takes one message, drops its socket and reads to the end of the pipe.
State: who holds each read end, what is in each pipe, the queue of the socket.
Hard: several senders, one of which is taken; processes that end, or are killed,
at any moment, with a read end in a message. Correct: nobody waits for ever for
room that nobody will make; the reader gets all that was written, then the end.

### multipath-Udp

One datagram to one host through each network interface, on Windows: find a
route and a path, bind a socket, set the interface, send. Any call may fail for
one interface. Correct: the others are still tried, one outcome is printed for
each, and the datagrams that left are those the outcomes say.

### migrate-Udp

A receiver thread that prints the destination of each datagram out of its
control data, a sender thread that names its source in control data, the
functions that stand for the `WSA_CMSG_*` macros (110-157), and two callbacks
that print changes of routes and addresses. Hard: the same buffer and the same
`WSAMSG` serve all turns of the loop; the arithmetic of alignment. Correct: what
is printed belongs to the datagram at hand, and each datagram leaves with the
source that is named.

### The others

* `show-profiles`: lists Windows connection profiles.
* `embedded-tls-efi`: DHCP and one HTTP request under UEFI.

`PROJECT.json` lists every component with its status.

## Modules

| module | models | uses |
|---|---|---|
| `QuicDriver` | the driver task and the channels it owns | |
| `QuicDgram` | `QuicWriteDgram`, `Command`, `QuicSendStream`, the owners of the handles; composed with the driver | `QuicDriver` |
| `DgramPipe` | abstract: a pipe of four stages with a flush | |
| `QuicDgramProperties` | what the datagram path is expected to do; its mapping to `DgramPipe` | `QuicDgram`, `DgramPipe` |
| `QuicDgramProofs` | theorems about it: types, order, limits, the flush, the pipe | `QuicDgramProperties` |
| `QuicAnswerProofs` | theorems about it: answers, errors and the slot of `poll_ready` | `QuicDgramProofs` |
| `QuicRecvStream` | `poll_read` and the channel it reads; its properties and its mapping to `ByteReader` | `ByteReader` |
| `ByteReader` | abstract: a reader that hands out the next bytes | |
| `QuicRecvStreamProofs` | the theorems about the reader | `QuicRecvStream` |
| `MioTcpStream` | `mio-TcpStream`, its clients and the kernel; its properties | |
| `MioTcpStreamProofs` | the theorems about it | `MioTcpStream` |
| `MioPair` | the five pair programs and the kernel; their properties | |
| `MioPairProofs` | the theorems about them | `MioPair` |
| `TransferFd` | `transfer-fd`: any number of senders, the receiver, the kernel; its properties | |
| `TransferFdProofs` | the theorems about it | `TransferFd` |
| `MultipathUdp` | `main` and `send_hello` of `multipath-Udp` on Windows; its properties | |
| `MultipathUdpProofs` | the theorems about it | `MultipathUdp` |
| `WsaCmsg` | the `WSA_CMSG_*` functions of `migrate-Udp` beside the layout of the system | |
| `MigrateUdp` | the two threads of `migrate-Udp`; its properties | `WsaCmsg` |
| `MigrateUdpProofs` | the theorems about both | `MigrateUdp` |
| `MC*` | instances for TLC: scripts, sizes, symmetry | |

### How the state corresponds to the code

`QuicDriver`: variables carry the names of the code. `driver` says where the
task is: in `select!`, at the promotion (476), in the drain loop (483), at one
of the two `try_reserve` (514, 527), in the transmit loop (542), ending. A
datagram is the number of its acceptance, and `Ends` says where in the bytes of
all datagrams each one ends, so that the bytes in flight are a difference of two
ends. A oneshot is `reply[key]`: `none`,
`open`, an answer, or `dropped` (its sender was dropped). `ready_notifiers` and
`flush_notifiers` are the two vectors, as sets of keys: the code answers all of
a vector at once. `cmd_senders` are the owners of a clone of the sender.

`QuicDgram`: a poll is cut at each access to shared state, because the driver
runs in another task. Where a poll stands is what the code stores: no entry
under the key, a `Command` in State0, State1 or Terminated. `Reserved` is State0
between `poll_reserve` (378) and `send_item` (385): the poll holds a permit, and
the driver may drop its receiver before it is used. What is sent then lies in a
channel that nobody reads, and goes when the last sender does (`Release`). The
poll functions that follow each other in one operation (`poll_ready`,
`send_item`, `poll_flush`) are `phase`.

The key stands for the address of `cx` (153, 194). It is chosen anew whenever a
poll function is entered and is the same for all polls by one future. This is so
for `main`, which polls from `block_on` on one thread. A spawned task may be
polled by another worker, from another address: it would not find its `Command`
again and make a second request. `NoPanic`, `AnswerOwed` and the other
properties of a writer are stated under this assumption.

`PollSender` and the tokio channels are modelled from how the code uses them:
permits, capacity, closing.
The permit that a released slot gives to a waiting sender is counted from the
moment of the release. Requests of two senders for a full command channel are
not queued: whoever is polled first takes the place.

`QuicRecvStream`: a `Bytes` value is the span of the byte numbers it holds, so
the real sizes (1300, 652, 1948) are used and nothing is scaled down.

`MioTcpStream`, `MioPair`: one system call is one action; only a registration
that follows `accept` or `connect` is one action with it. `bind`, which listens,
and the registration of the listener are two, with connections in between.
`ready`, or `readable` and `writable`, say which sources have an edge to report;
bytes are counted and not told apart; peers act between any two system calls.
`program` in `MioPair` names the program that runs: it is chosen once, and the
actions that differ name the programs they belong to. For `tokio-UdpDgram`,
`readable` is the readiness that tokio keeps: it outlives a receive and is
cleared by one that would block.

`TransferFd`: a descriptor is a member of `holders`, which says who has the read
end of each pipe open: the sender, the message, the receiver. What a process
that ends has open is closed in the same step. One unit of a pipe is one
`hello`; a read takes any number of those that are there.

`MultipathUdp`: `stage` is the next call of `main` or of `send_hello`; `via` is
the interface the socket sends through; `wire` lists the interfaces that
datagrams left through, in order. `chosen` and `unset` record what the
properties need of the past.

`WsaCmsg`: offsets and lengths in bytes, for the 64-bit system. `MigrateUdp`: a
control buffer is its words; only the words of the first record matter.
`control_len` and `control` outlive a turn as they do in the code. A datagram
longer than the 1024 bytes of `buf` makes `WSARecvMsg` fail (340): it is taken
and not printed, and its control data may have been written or not.

### Left out of the modelled parts

* `Request::Read` (442-448): nothing constructs it.
* The contents of datagrams.
* Time. `WakeUp` may happen whenever the driver selects. That frequent requests
  restart the sleep (467) and so postpone the acknowledgement is not modelled.
* An abandoned `QuicSendStream::poll_write`, and the composition of the reads
  of main with its writes. An abandoned write leaves its `Command` under the
  address of `cx` (81) like the others; a later write at that address takes it
  over and reports the length of the older buffer without sending its own.
* `MioTcpStream`: interrupted polls, failures to bind. `MioPair`: a UDP send
  that would block, and errors of `recv`.
* `recvmsg.c`: the walk of the control messages (91-146). main never sets
  `IP_PKTINFO` on the socket, so there are none and `to` is always `None`.
* `TransferFd`: a message without a descriptor (receiver.rs 32-33); no sender
  sends one.
* `MultipathUdp`: other systems than Windows, where no interface is ever put
  into the map and the `send_hello` of lines 112-128 is not called.
* `MigrateUdp`: the two callbacks (23-108), which print and keep no state; IPv6.

## Runs

All runs finish well within five minutes on two cores. Deadlock is not checked:
each system really stops (the script is over and the driver has gone; all
connections are refused or closed; both threads have returned).

| run | question | bounds |
|---|---|---|
| `awaited` | all safety of a writer that awaits each operation; implements `DgramPipe` | 5 operations of chunk, send, flush; one place everywhere; a window of two datagrams at most; two keys; one stream write; the stream reader may be dropped at any time |
| `sink` | the whole `Sink` interface in any order, with operations abandoned: what of the safety survives | a chunk, a send or a ready, then three operations, each any of the six, then a flush; each may be dropped when parked; one place everywhere; both readers read, the datagram reader may be dropped |
| `liveness` | operations return, or stall, are blocked or stranded; held requests are answered; shutdown releases; accepted datagrams go through | 6 operations: two chunks, then chunks and flushes; 6 datagrams, one place everywhere |
| `stall` | does every operation of main return? No | main's own script |
| `abandoned` | can an abandoned `Command` be met by another operation? Yes | 5 operations of chunk, flush, ready |
| `read` | `poll_read` | real sizes, 4 reads, six sizes of `ReadBuf` |
| `tcp` | no edge and no connection is lost; peers are served | 2 clients and the sender, which may connect before the listener is registered; 1 byte per inbox, 2 events per poll; the server may die |
| `pairs` | the five pair programs | 3 units in the channel; binds and polls may fail |
| `transfer` | nobody waits for ever, no write fails too early | 3 senders, 2 units per pipe, 1 message in the queue; any process may be killed |
| `multipath` | every interface is tried and truly reported | 3 interfaces, both families; every call may fail |
| `migrate` | control data of each datagram is its own | 2 addresses, 2 datagrams in the socket, which fit into `buf` or not; records of up to 72 bytes for the arithmetic |

Why these bounds are enough to be interesting: `MAX_SEND_DGRAMS` is 2 in the
code and 1 in the runs, the window admits one datagram or two, and there are
more operations than places in the channel, `write_dgrams`, the parking place
and the window together, so each of them is full in some states while the ones
before and behind it are full or not. Two keys are what a collision and its
absence need. Datagrams have lengths of their own (`Ends`, in `MCQuicDgram`): in
`awaited` some fill the window of 3 together or alone and the fourth never fits;
in `liveness` the third never fits, and there are enough behind it for the
parking place, the channel and a writer that waits for room; in `stall` and
`abandoned` all have one length, as in main. The proofs remove the bounds for
all safety properties that the passing runs check. `CmdCap` is 1 instead of 128
so that the command channel is full. In `tcp`, `EventsCap = 2` with the listener
and three connections makes batches end with events still in the list, and one
byte per inbox makes each of them full. Three senders in `transfer` are one that
is taken, one whose message lies in the queue and one that waits for room in it.
Three interfaces in `multipath` allow a failure before, between and after
successes. `migrate` has two addresses, so that the one left by the turn before
is told from the one at hand, and datagrams without a record and datagrams that
are not received, which leave the buffer as it was.

What is proved for all constants (below) is checked in `awaited`, where its
mutants are found, and not repeated in `sink`, except `AnswerOwed`, the one that
abandoned operations put to the test. `ErrorMeansClosed` is in `sink`
only: the errors that could break it come from `poll_close` and abandoned
operations.

Symmetry is used in the runs `awaited` and `sink` only, over the keys, which are
compared for equality only.

### Properties

Of the datagram path (`QuicDgramProperties`): `Fifo`, `WindowRespected`,
`BuffersBounded`, `AnswerOwed` and `ErrorMeansClosed` hold with abandoned
operations too; `NoPanic`, `FlushBarrier`, `ReadyMeansSlot` and `PipeSafety` are
about a writer that awaits its operations. `Fifo` compares the queues for as
long as the channel has its receiver: what is sent with a permit after that is
lost. `ReadyMeansSlot` is also the reason why the wait in `poll_reserve` (181)
never parks such a writer. Liveness: `ReturnsOrStalls`, `ReadyNotified`,
`ShutdownReleases`, `PipeLiveness`. The first three name the states in which the
code does leave a writer waiting: `Stalled` (the run `stall` shows it),
`Blocked` (a datagram longer than the whole window at the head, 542, with one
parked behind it, so that 482 skips the drain) and `Stranded` (a request sent
after the driver has dropped its receiver).

Of the reader: `Contiguous`, `Backpressure`, `ReadReturns`, `ReadsExactly`. The
last one is the refinement of `ByteReader`, which says what happens to bytes of
reads that fail or are abandoned: they are used up (51-58 return after
`put_slice`).

Of the TCP server: `NoLostEdge`, `TokensNameConnections`, `SenderNeverStuck`,
`AllServed`. Of the pairs: `NoLostEdge`, `SenderWoken`, `Attended`,
`SenderResumes`.

Of `transfer-fd`: `SenderReleased` and `ReaderSeesEnd` say that the ends of
processes reach those who wait, `BrokenMeansUnread` that they do not come early.
Of `multipath-Udp`: `EachReportedOnce`, `SentAsOftenAsPrinted`, `LeftAsPrinted`.
Of `migrate-Udp`: `DestinationShown`, `SourceNamed`, and `RightForWholeHeaders`:
the functions agree with the layout of the system for the lengths whose padding
is a multiple of a header.

Every property of a passing run has a mutant in `PROJECT.json`: a definition of
the model changed as a bug in that code would change it (a missing test, an
off-by-one, a vector not cleared, one `recv` per event), under which TLC finds
the property violated. The mutated forms stand before the definitions they
replace, marked as mutants.

### What the two violations show

*stall.* `poll_ready` sees `capacity() == 0` (157) and decides to send
`WriteDgramReady`. If the driver's sleep elapses before the request is
received, the driver drains the channel first; it then receives a request for
a slot that is already free and pushes it to its vector (456). Held requests
are answered only when a datagram is taken (485-490), and the only writer is
waiting for the answer. main's second `poll_write_chunk` (620) then never
returns. `ReturnsOrStalls` shows that there are only two other such
states, `Blocked` and `Stranded` (see Properties).

*abandoned.* An operation that is dropped while it is parked leaves its
`Command` under the address of `cx`. A later operation of the other kind with
the same address takes it over and panics with `Invalid response!` (175, 205),
or with `future polled after completion` (408). The shortest behaviour: a
`poll_flush` is dropped while its answer is to come, the driver answers it, and
the `poll_ready` of a later `poll_write_chunk` has the same address and is given
that answer (175). main never drops a pending operation; a user of
`QuicWriteDgram` with `select!` or a timeout would.

### Behaviours that no property forbids

The models contain them and the code states no expectation about them:

* `poll_ready` called again after `Ok` waits for itself: the permit makes
  `capacity()` 0, and the request is answered only by a datagram not sent yet.
* `poll_close` (217-221) closes the command sender first and then calls
  `poll_ready`: with the channel full it reports `ConnectionClosed` although
  the connection lives.
* `send_item` with a permit succeeds after the driver has gone (138). If it is a
  request that is sent so (385), its writer waits for ever: the oneshot lies in
  the channel and is dropped only with the last sender, one of which the writer
  itself holds.
* One reset connection ends the TCP server (79-81) with all its connections.
* A TCP sender that was refused tries the same socket for ever (138-142).
* The senders of the pair programs keep `let buf = b"hello"`, which is a
  reference, and hand out `&buf` (`mio-UdpDgram` 78): the bytes sent are those
  of a pointer. The commented call above it (76) sends the text. The receivers
  print lengths and do not see the difference. `mio-TcpStream` (110) and
  `tokio-UdpDgram` (54) do the same. Contents are not modelled.
* In `mio-UnixStream`, after the end of the sender, `recv` gives `Ok(0)` at each
  call and the receiver spins (31-34). In `mio-UnixPipe` it spins when it was in
  the loop, and otherwise sleeps for ever, since a hang-up is not readable.
* In `mio-UnixPipe`, a reader that ends while the pipe is full leaves the sender
  asleep: the event is an error, not writable (58).
* In `tokio-UdpDgram`, the pointer given to `recv` (17) is that of the `Vec`
  itself: what arrives is written over its pointer, length and capacity. This is
  undefined behaviour; the model goes on with the next datagram, as the loop
  reads nothing of the contents.
* `transfer-fd`: a sender whose message lies in the queue when the receiver
  drops its socket is told only by its write (`EPIPE`), after `sendmsg`
  succeeded.
* `multipath-Udp` does not look at the result of `setsockopt` (246-266): when it
  fails, the datagram leaves through the default interface although another one
  is printed. `LeftAsPrinted` is stated for runs where it does not fail. On
  other systems the map stays empty, nothing is sent, and `send_hello` (112-128)
  would lose an error of `send_to`.
* `migrate-Udp`: `WSA_CMSGHDR_ALIGN` (117-119) masks with the size of a header,
  16, instead of its alignment, 8. `WSA_CMSG_SPACE(8)` is then 16 where the
  system needs 24, and a walk can land inside a record; the theorem
  `ShortElsewhere` states for which lengths. The program walks to no second
  record and does not call `WSA_CMSG_SPACE`, so neither shows. Its control
  buffers are arrays of bytes (303) that are read and written as headers: the
  models take them to be aligned, which the code leaves to the compiler.
* In `migrate-Udp` a datagram that comes before `IP_PKTINFO` is set has no
  record and is printed with `None`. One of more than 1024 bytes is lost without
  a line: the loop says nothing of a receive that failed (340).

## Fairness

* Datagram path: weak fairness of the driver's step, of the writer's polls and
  of the stream's: the runtime polls a task that was woken. Strong fairness of
  receiving a request: `recv()` is polled as soon as `select!` is entered, the
  sleep made at the same moment has a second to go, so a request that waits at
  every `select!` cannot lose to the sleep for ever. Each of the two receivers
  of an ended task is dropped. Nothing is assumed of who starts or abandons
  operations, reads, or drops handles. The writer's poll is fair although an
  awaiting writer has to be woken: each state in which a poll can go on follows
  a step that wakes it (an answer, a dropped oneshot, a released permit).
* Reader: the driver publishes (it makes a pass every second at least) and a
  reader that can go on is polled.
* `transfer-fd`: the processes run on. That one is killed is never assumed;
  without it the sender writes and the receiver reads for ever. `multipath-Udp`
  and `migrate-Udp` have no liveness property.
* TCP server and pairs: the threads run on. `AllServed` assumes besides that
  the server comes back to `poll` again and again: a peer that sends without a
  pause can keep it in its `recv` loop (44-83).

## Proofs

Every safety property that a passing run checks is also a theorem, for all
values of the constants.

### The datagram path

`QuicDgramProofs` and `QuicAnswerProofs` prove, for all capacities, windows,
scripts and sets of keys that satisfy `DriverAssumption` and `WriterAssumption`
(limits are positive, the window and the lengths are natural numbers, the
stream's key is not a key of the writer):

| theorem | property | needs |
|---|---|---|
| `TypeCorrect` | `TypeOK` | |
| `WindowTheorem` | `WindowRespected` | |
| `BuffersTheorem` | `BuffersBounded` | |
| `FifoTheorem` | `Fifo` | |
| `NoPanicTheorem` | `NoPanic` | `MayCancel = FALSE` |
| `FlushBarrierTheorem` | `FlushBarrier` | `MayCancel = FALSE` |
| `PipeTheorem` | `PipeSafety` | `MayCancel = FALSE` |
| `AnswerOwedTheorem` | `AnswerOwed` | |
| `ErrorTheorem` | `ErrorMeansClosed` | |
| `ReadyMeansSlotTheorem` | `ReadyMeansSlot` | `MayCancel = FALSE` |

The last three are in `QuicAnswerProofs`. The run `abandoned` shows why
`NoPanicTheorem` needs its assumption. `ReadyMeansSlotTheorem` needs it because
its argument knows whose `Command` is polled from the proof of `NoPanic`.

Along which argument:

* `WindowRespected` needs `Fifo`: what the window is charged and credited are
  the lengths of whatever is at the head of a queue, and the bytes in flight are
  those between the last acknowledged and the last transmitted datagram only if
  the heads are the next in turn.
* `Shape` says that the channel is drained only with nothing parked, that the
  receivers live as long as the driver runs, that `send_item` is called with a
  permit, that no poll function runs between operations, and that a permit of
  the command channel is used in the poll that got it. `BuffersBounded` and
  `Fifo` need it: without its first part a drain would overwrite the parked
  datagram, without its third a datagram could enter a full channel.
* `NoPanic` needs to know to whom everything belongs. `EntriesOwned`: an entry
  of `cmd_pending` is that of the operation being polled, or was left by a
  failed `poll_ready` and can only fail again. `RequestsOwned`: a request in the
  channel or in a vector is the one the writer waits for, of the kind it waits
  for, and in one place only.
* `FlushBarrier`: while the answer to a flush is in hand and not read, nothing
  accepted is short of `write_dgrams` (`Flushed`); the answer was given with the
  channel empty and nothing parked, and its owner sends nothing before it has
  read it (this uses `RequestsOwned`).
* `PipeTheorem`: with those invariants, each step of the program is one step of
  `DgramPipe` or leaves its variables unchanged.
* `AnswerOwed` says where an open oneshot is held. `HeldOnce` adds that no two
  requests in the channel have one key and that a key in the channel is in
  neither vector; `Waited`, that the `Command` of an open oneshot is in State1.
  The second is what keeps a key from a second request, also when the operation
  that made the first was abandoned: whoever takes over its `Command` waits for
  the old answer and sends nothing. No owner needs to be known.
* `ErrorMeansClosed` needs `Shape` and `Dropped`: a oneshot is dropped by a
  driver that ends, and by nobody else.
* `ReadyMeansSlot`: `SlotKept` says that the channel has room from the moment
  that `poll_ready` saw it, or that the driver's announcement was given, until
  the permit is asked for. The only sender that could fill it is the one that
  waits, which `RequestsOwned` and `EntriesOwned` of `NoPanicTheorem` establish.

### The reader

`QuicRecvStreamProofs` proves `TypeOK`, `Contiguous`, `Backpressure` and
`ReadsExactly`, the refinement of `ByteReader`, for buffers, channels and
`ReadBuf`s of any sizes (`RecvAssumption`: a buffer and the channel are not
empty). `Contiguous` compares each span with the one before it, through three
queues, and proving it as it stands would be an induction over their contents.
The invariant gives each span its place instead. `Taken`, the last byte taken
out of the channel, is the last published one less what the channel holds, and
the buffer at place `i` of the channel starts `i - 1` buffers after it
(`InChannel`); what is kept lies between the last byte handed out and `Taken`
and is shorter than a buffer (`InStorage`); the spans of a `ReadBuf` follow the
last read (`InReadBuf`); and a read goes on only with nothing kept and with room
left (`Waits`). In the refinement, each step that publishes, begins, ends or
abandons a read is the step of `ByteReader` of that meaning, and a turn of the
loop that does not return is a stutter.

### The mio programs

`MioTcpStreamProofs` proves `TypeOK`, `NoLostEdge`, `TokensNameConnections` and
`SenderNeverStuck` for any finite set of clients, inboxes and batches of any
size, with connections that are reset and a server that may die
(`MioAssumption`). The invariant of the server is its two properties with two
more. `Events`: the list of the kernel and the batch at hand name no source
twice, and there is a batch exactly while the server goes through it; without
this, an event that is taken out could leave a second one for a connection that
is gone. `Backlog`: a connection waits once to be accepted and has no token
meanwhile, so that `accept` gives a connection one token and no second one.
`NoLostEdge` asks nothing of a listener that is not registered yet, as its
registration reports what came before. The
sender's property is inductive with its types. The lemmas say what appending,
taking, cutting and removing do to a list without repetition.

`MioPairProofs` proves `TypeOK`, `NoLostEdge` and `SenderWoken` for a channel of
any size, all five programs and threads that may return. The invariant is these
three with two more: `DatagramsNeverSleep`, needed because a socket that is
dropped makes room without telling a sender of datagrams, and `TokioReady`, that
the readiness is kept while the task receives.

### transfer-fd

`TransferFdProofs` proves `BrokenMeansUnread` for any set of senders, any sizes
of pipe and queue, and processes that are killed at any step. The invariant
follows the read end of each pipe: `Started`, a sender whose message is queued
or taken has started; `Carried`, while the receiver's socket is there, the read
end of a sender that has sent is held by its message or by the receiver;
`HasReceived`, the receiver keeps the read end of the message that it took until
it ends. A pipe is therefore never without a reader while the receiver reads
from it.

### multipath-Udp and migrate-Udp

`MultipathUdpProofs` proves `EachReportedOnce`, `SentAsOftenAsPrinted` and
`LeftAsPrinted` for any finite set of interfaces, every call failing or not. The
invariant: `Divided`, each interface found is still to come, at work, or
reported, in one of the three only and with one line; and `Through`, as long as
the option could be set, the socket at work sends through the interface at
work, no two datagrams left through the same one, and those that they left
through are those that a success was printed for. The last two properties
compare numbers: each datagram is added to `wire` in the step that prints its
line.

`MigrateUdpProofs` proves `RightFor(length)` for every length
(`RightForEveryLength`), of which `RightForWholeHeaders` is the part up to the
bound of the run, and that `HdrAlign`, the space and the walk are one word short
for every length whose padding is not a multiple of a header (`ShortElsewhere`).
It then proves `DestinationShown` and `SourceNamed` for any addresses. The
invariant is `InHand`, which says what the control buffer and its length hold
while a datagram is being looked at: a record of the one in hand, or no record
and a length that hides what the buffer still holds; and that the one in hand
was received whole. `NotYet` is for the turns before it, `RecordBuilt` for the
sender's buffer.

### What is only model-checked

Liveness, in the runs `liveness`, `read`, `tcp`, `pairs` and `transfer`:
`ReturnsOrStalls`, `ReadyNotified`, `ShutdownReleases`, `PipeLiveness`,
`ReadReturns`, `AllServed`, `Attended`, `SenderResumes`, `SenderReleased` and
`ReaderSeesEnd`. Each follows from fairness, hence from which actions are
ENABLED, and the provers used know nothing of either. The two runs that expect a
violation show it by one behaviour, which needs no proof.

## Plan

1. Extend the models: `QuicSendStream` with abandoned writes and colliding keys;
   a composition of `main` with all its handles.
2. Prove more: how much of `PipeSafety` and `ReadyMeansSlot` is left when
   operations are abandoned; with the specifications of item 3, that the
   programs implement them.
3. Abstract specifications worth adding: a set of connections that are served
   (for `MioTcpStream`), a lossless or lossy channel (for `MioPair`).
