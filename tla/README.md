# A TLA+ model of libtta

libtta is a C library, derived from libmodbus, by which a master sends a
request to a device and reads its reply over TCP, over an RS-485 line or over a
CC1120 radio. This directory holds TLA+ models of it, the TLC configurations
that check them, and proofs checked by TLAPS.

Paths below are those of the repository (`src/tta.c` is the engine,
`src/tta_tcp.c`, `src/tta_rs485.c` and `src/tta_rf.c` the three backends).

## 1. Inventory

### The parts and how they interact

A program holds a context `tta_t` (`src/tta_private.h`): a descriptor `s`, the
recovery mode, two timeouts, a table of functions (the backend) and the
backend's own data. A call such as `tta_request` runs from beginning to end in
the caller's thread. There are no threads, callbacks or locks in the library:
what is concurrent is the peer, the line, the kernel and, if the application
so chooses, a second thread on the same context.

| part | state it keeps | operations | who it talks to |
|---|---|---|---|
| receive engine, `_tta_receive_pkt` | bytes read, bytes still wanted, phase, timeout (all local to a call); the kernel's buffer | one loop of `select` and `recv` | backend: lengths, `select`, `recv`, `check_integrity`; recovery: `tta_flush`, `tta_close`, `tta_connect` |
| request and reply, `tta_request`, `tta_send`, `tta_receive`, `tta_reply` | none of its own | convert, send, receive, confirm | engine and backend |
| send loop, `_send_pkt` | none | send; with link recovery reconnect, or sleep and flush, and repeat | backend `send`, recovery |
| TCP backend | transaction identifier, address, port | conversion (numbers the packet), confirmation (compares identifiers), connect with a time limit, close, flush, listen, accept, select | the kernel |
| RS-485 backend | line settings, RTS mode, `confirmation_to_ignore` | half-duplex write with RTS, two checksums, confirmation by device and command | the tty |
| RF backend and CC1120 driver | channel, power, a static receive FIFO | listen before talk, receive into the FIFO, calibration | the SPI device |
| messages, `ttamsg_*` | a heap object | make, convert (which frees it), free | application and backend |
| data helpers | none | bits, bytes, floats | application |

### What is hard, and what makes each part correct

* The engine has no start-of-frame search. A packet begins where the previous
  call stopped reading, so the library is correct only if every call stops at
  the end of a frame, and whatever ends a call early (timeout, a refused
  length, a bad checksum, EOF, a reset, a closed descriptor) is followed by
  something that brings the stream back to a frame's beginning. The length of
  a packet is a byte of the peer: it must never make the engine read beyond
  the caller's buffer. A call with a timeout has to return.
* A TCP reply does not carry the identifier of its request: both contexts
  count the packets they build, and the client compares. The identifiers agree
  only while the two counters move together. A late reply, a request without a
  reply, a failed send, a reconnection or a restart all disturb that. What the
  caller needs is that a call returns the answer to its own request or fails.
* With link recovery the send loop runs until it succeeds.
* The RS-485 backend drives a half-duplex line by RTS: the driver must be on
  while bytes leave, off when a station answers, and off between calls, also
  when a call fails in the middle or is repeated. It accepts a confirmation by
  device and command only, and has no identifier that tells a late answer from
  a current one. What it does to the port has to be undone.
* The RF backend learns from one signal of the chip, polled once in a
  millisecond, that a packet has left; packets of others raise it too. It
  accepts any packet of the system as an answer, and shares one FIFO among all
  contexts of the process. Each change of channel or power runs a calibration
  that waits for the chip twice, the first time not for ever.
* A descriptor is a number the process reuses: a failed connect or accept leaves
  the number of a closed one.
* A timeout is set once and used many times, by calls that write to it.
* A message is freed by the conversion that packs it; a program that repeats a
  request, or frees a message, has to know which ones it still owns.

`PROJECT.json` lists the hazards one by one with their lines.

## 2. The modules

| module | what it is |
|---|---|
| `TtaReceive` | the receive engine, the descriptor it reads, the peer that fills it |
| `FrameChannel` | abstract: a FIFO of whole frames that may lose some |
| `MCTtaReceive` | small instances of `TtaReceive` |
| `MCReceive` | the engine on a stream and on a lossy serial line, side by side |
| `TtaReceive_proofs` | type correctness, the buffer bound, frames are read exactly |
| `TtaReceiveAligned_proofs` | under link recovery every call is aligned and the engine implements `FrameChannel` |
| `TtaTcpSession` | a client in `tta_request` and a server in `tta_receive`/`tta_reply` |
| `TtaRequest` | abstract: a call ends with its own answer or with a failure |
| `MCTtaTcpSession` | small instances of `TtaTcpSession` |
| `MCSession` | three settings of it, side by side |
| `TtaTcpSession_proofs` | types; fresh contexts: a call returns its own answer, the right answer is not refused, `TtaRequest` is implemented; with recovery, the same over connections that break, and nothing is left behind |
| `TtaShared` | several threads in `tta_request` on one context, without a lock |
| `TtaMsg` | message objects: who owns them, what becomes of their contents |
| `TtaDescriptor` | descriptor numbers over connect, close, listen, accept, recovery |
| `TtaTimeouts` | the two timeouts, in every wait that uses them |
| `MCTtaTimeouts` | small instances of `TtaTimeouts` |
| `TtaData` | the bit, byte and float helpers |
| `Rs485Line` | a send on a half-duplex line: RTS, the UART, the station that answers |
| `Rs485Port` | the serial port over connect, close and recovery |
| `SlaveBus` | a master and several slaves on one RS-485 line |
| `RfLink` | a request on the radio channel, poll by poll |
| `RfContexts` | several RF contexts over the static receive FIFO |
| `Cc1120` | channel, power, reset and calibration of the radio |
| `MCHalfDuplex` | small instances of `SlaveBus`, `Rs485Line`, `Rs485Port`, `Cc1120`, `RfLink`, `RfContexts` |
| `Rs485_proofs` | the theorems of `SlaveBus`, `Rs485Line` and `Rs485Port` |
| `Rf_proofs` | the theorems of `Cc1120`, `RfLink` and `RfContexts` |
| `MCContext` | small instances of `TtaMsg`, `TtaDescriptor`, `TtaTimeouts`, `TtaData` |
| `Context_proofs` | the theorems of `TtaMsg`, `TtaDescriptor` and `TtaTimeouts` |
| `TtaData_proofs` | the theorem of `TtaData`, and what it needs of induction, powers of two and division |

Definitions named `Mut...` are slips a programmer could make in the definition
that follows them. No specification uses them; each shows that a property
would notice the slip.

### TtaReceive

`pkt` is `pkt[0..pktlen-1]` of the caller's buffer, `length_to_read`, `step` and
`p_tv` the locals of `_tta_receive_pkt`, `rxbuf` the kernel's receive buffer,
`wire` what is in flight, `conn` what `ctx->s` refers to. One turn of the loop
is one action, because between `select` and the end of the turn the engine
touches nothing the environment writes, and what arrives meanwhile is read on
the next turn:

| action | code (`src/tta.c`) |
|---|---|
| `Receive` | 188-223, the call's entry; `fgtimeout` is either value |
| `RecvPartial` | 247-286, 310-318: fewer bytes than wanted |
| `RecvTooLong` | 292-300: the header announces more than the buffer holds |
| `RecvHeader` | 288-318: the header is complete, the data phase begins |
| `RecvPacket`, `RecvBadSum` | 327 and the backend's `check_integrity` |
| `SelectTimeout`, `SleepOver` | 226-245, `_sleep_and_flush` 93-109; the sleep is a state |
| `SelectBadF`, `RecvReset` | 237-241, 247-269, with `tta_close` and `tta_connect`, which may fail |
| `SetErrorRecovery`, `AppReconnect` | 505-510, 549-563, between calls |

The rest is the environment: the peer sends whole frames, bytes arrive one at
a time, a serial line loses some, a TCP peer closes or resets (after a reset
the kernel may still hand out what it holds or throw it away).

A byte on the line is a pair (frame, place in it). The code acts on values
only, looked up in the frame that was sent; the pairs let the properties say
which byte was read. The constants give the backend: header and checksum
length, buffer size, the integrity check.

### TtaTcpSession

Packets are whole (how they are read is `TtaReceive`'s matter). The client is
`tta_request` step by step: conversion, which takes the next identifier before
anything is sent (`RequestBegin`), `_send_pkt` (`SendOk`, `SendDown`,
`SendFull`), the wait (`ResponseTimeout`, `WaitDown`), the confirmation
(`ConfirmationOk`, `ConfirmationRefused`), the recovery sleep (`SleepOver`).
The server is the loop of `tests/unit_test_slave.c`. Each packet also says which
request it makes or answers; the code does not see that. When a connection is
accepted the server goes on with its context or has a new one. `Faults` chooses
what goes wrong: a reset connection, a restarted client, a request the server
application does not answer, a full send buffer.

### Rs485Line

One call of `_send_pkt` around `_tta_rs485_send`, against a UART and a station.
With each `Tick` the UART shifts out one byte, into the line if the driver is
enabled and into nothing if not; `write()` only fills the UART. In mode NONE
`write_uart` raises RTS (`SendBegin`, `Assert`), writes, polls the transmitter
(`DrainDone`, or `DrainTimeout` after so many polls) and clears RTS. In modes UP
and DOWN a fixed sleep comes before and after the write (`LeadOver`,
`TailOver`). With link recovery a failure is followed by `Reconnect`, whose
outcome nobody looks at, or by `SleepBegin` and `SleepOver`; which one depends on
`errno`, which a failed poll does not set, so both are possible. The thread may
be late to see the empty buffer by at most `Lag`.

### Rs485Port

`tta_new_rs485`, connect, close, recovery (`Recover`: close and connect in one
call), `tta_rs485_set_rts` and free, on the settings of a port that were
somebody else's before (`saved` is `old_tios`). `Settings` is the translation
of a request to a termios, with its defaults.

### SlaveBus

Packets are whole, or garbled and lost. `in` is what each station's port keeps
until it is read; every station hears every packet. The master calls
`tta_request` (`RequestBegin`, `MasterReceive`, `Timeout`, `SleepOver`). `Confirmed`
is the confirmation: device and command. `Receive` is the receive function of
the backend with its flag `confirmation_to_ignore`; `check_integrity` is modelled
by what it returns, a length, and so the flag is never set and every packet
reaches the application (`SlaveReceive`). The application of the repository, the
loop of `tests/unit_test_slave.c`, answers all of them (`tta_reply`); that is the
model with `Filter = FALSE`. With `Filter = TRUE` the application leaves alone
what is not a query for its device (`SlaveIgnores`), as several slaves on a line
have to; the repository has no such application.

### RfLink, RfContexts, Cc1120

`RfLink` is `tta_request` between two polls of the chip: listen before talk
(`RssiInvalid`, `RssiNever`, `RssiValid`), the wait for the packet to leave
(`SyncPoll`, `Sent`, `SendTimeout`), the wait for the answer (`RecvPoll`,
`Packet`, `RecvTimeout`), repetition (`SendAgain`). `sync` is GPIO3, which is high
from the sync word to the end of any packet sent or heard. The chip sends when
the channel is clear (`StartTx`); the peer answers `Turnaround` after each whole
copy it got; another station sends when it likes.

`RfContexts` cuts `tta_receive` where two contexts can meet: the copy of the
radio's packet to `rxfifo`, the rewind, the read of the header and of the rest.

`Cc1120` is the settings and `cc1120_manualcalibration`: `Calibrate` is its
beginning, `HighPoll`/`HighDone`/`HighGivenUp` the first wait, at most
`PollLimit + 1` polls, `MidPoll`/`MidDone` the second, which has no limit. The chip
calibrates until `CalDone`; a strobe it gets meanwhile is ignored. A result
carries the channel it was found for and the start value it was found from,
which the code does not see. `tta_rf_connect` resets the chip; `Traffic` is what a
send or a receive leaves of it.

### TtaShared, TtaMsg, TtaDescriptor, TtaTimeouts, TtaData

`TtaShared` cuts `tta_request` where another thread can come in between: the
load and the store of the identifier, its use in the packet, the send, the two
reads of the receive. There is no lock, as the library has none and the manual
asks the application for none. `Timeout` may happen whenever nothing is there
to be read, before the answer or between its two parts.

`TtaMsg` is a heap and the four pointers of a master that duplicates its
request in order to repeat it, and of a slave. The conversion frees what it
packs, so `RequestFails` and `RequestSent` take `req` from the master.
`tta_reply` narrows a length to a byte (`Make`); a receiver refuses a packet
longer than its backend's `max_adu_length` (`Fits`, `ReceiveRefused`). The buffer
a packet is built in, `MAX_MESSAGE_LENGTH` bytes, is checked by nobody:
`MsgAssumption` excludes the lengths that overflow it.

`TtaDescriptor` says who owns each number: the context, the listener, or the
rest of the process, which opens and closes files between calls and gets the
lowest free number, as the library does. `ConnectFail` leaves -1 or, for TCP, the
number of the socket it closed.

`TtaTimeouts` counts ticks: the wait of `_connect`, where Linux writes the time
left back into `response_timeout` (`WrittenBack`), the two waits of
`_tta_receive_pkt`, the deadline of `_tta_rf_receive` (`RfExpired`), and the
close and connect loop of link recovery while the network is down. The RF
backend looks at the radio, then at the clock (`Looks`), and sleeps `RfGap`
between two looks (`RfSleep`), so that a packet is taken and the deadline noticed
at a look only.

`TtaData` stores and reads bits, bytes and floats by the loops of
`tta_data.c`, next to `num`, the same number kept by arithmetic.

## 3. The runs

| run | question | bounds |
|---|---|---|
| `receive` | TCP: `BufferBound`, `FrameExact`, `TimedReceiveReturns`, `TypeOK`; a lossy serial line: `SerialBufferBound`, `SerialReceiveReturns`; with every recovery setting | two frames out of three kinds: on TCP no data, two bytes, one byte more than the buffer holds; on the line one lost byte |
| `receive_link` | `AlignedStart`; the engine implements `FrameChannel` | three frames out of three kinds that fit |
| `receive_oversize` | `AlignedStart` fails when a frame is refused for its length | as `receive` on TCP, three frames, both modes on |
| `session` | three settings, see below | identifiers 0..3 |
| `session_reconnected` | `AnswerNotRefused` fails after a reconnection | one reset |
| `session_restarted` | `AcceptedAnswersRequest` fails after a client restart | five requests, no recovery |
| `half_duplex` | the RS-485 backend: bus, line, port; the RF backend: settings, a request, shared FIFO | see below |
| `context` | what all backends share: messages, descriptors, timeouts, data | see below |
| `slave_loop` | `FallsSilent` fails with the slave loop of the repository | two slaves, one request, two packets kept |
| `shared` | `OwnAnswer` fails for threads that share a context | two threads, one request each |
| `connects` | `ConnectsAtLast` fails after an outage | one timeout of a second, three ticks |
| `byte_timeout` | `WaitsInFull` fails with a byte timeout of -1 | eight response timeouts |

`session` has three parts:

| part | setting | properties |
|---|---|---|
| `recovery` | link recovery, a server that is done within the recovery sleep, six requests, two resets, all faults: requests never answered, restarts of both sides | `TypeOK`, `NothingLeftBehind`, `AcceptedAnswersRequest` |
| `fresh` | one connection, every recovery mode, no faults, six requests, three unanswered at once, replies as late as they like | `FreshNotRefused` = `AnswerNotRefused`, `FreshImplementsRequest` = `ImplementsRequest` |
| `faulty` | every recovery mode, four requests, two resets, all faults, a server as slow as it likes | `FaultyCallReturns` = `CallReturns` |

Why the bounds of the first six are enough. The engine keeps no state from one
call to the next but the kernel's buffer, so what a call meets is decided by
where it starts: two frames give every start inside a frame and its effect on
the next one, a third shows a frame that follows a recovery. A two-byte header,
of which the second is the length, gives the cases before, at and after the
length byte, and two data bytes a data phase that is itself cut. Identifiers
0..3 wrap within six requests, and at most three requests are outstanding, fewer
than there are identifiers, as in the code (65536, and a client must time out
once for each).

The passing runs but `receive_link`, which is `MCReceive` with the stream alone,
each check several specifications that share no state: modules that the MC
module extends, or instances of one module with variables of their own. A
behaviour is one of one `part`, chosen at the start; the other parts keep their
initial state. The fairness of a part is that of its specification, conditional
on the part, or on actions that are not enabled in the initial state the other
parts keep. This is the sum of the parts' state graphs and not their product,
and a property of a part says nothing in the others.

Deadlock is not checked where the system may stop: a serial line with nothing
more to send and a server without timeout (`receive`), sessions after their last
request, the parts of `half_duplex` and `context`.

### half_duplex: RS-485

| part | instance | properties |
|---|---|---|
| `bus` | `SlaveBus`: two slaves that look at the device, two commands, three requests, one garbled packet, three packets kept; recovery on or off | `FromRequestedSlave`, `AnswersThisRequest` |
| `line` | `Rs485Line` in four setups, packets of one to four bytes, two faults: | |
| ... `Polled` | mode NONE, a drain limit of four; `write()` and reconnection may fail | `LineReleased`, `FrameDriven`, `SentOnce`, `NoCollision`, `SendReturns` |
| ... `Timed` | mode UP too, sleeps longer than a packet and shorter than the station's patience, nothing fails | `LineReleased`, `NoCollision` |
| ... `Faulty` | as `Timed`, `write()` and reconnection may fail | all five |
| ... `AnyMode` | all modes and faults, a short drain limit and short sleeps | none: see what follows |
| `port` | `Rs485Port`: names, speeds and parities the code knows and does not, all RTS modes | `PortKept` = `PortRestored`, `PortAsAsked`, `BusNotReserved` |

Three requests give a late answer to the first that meets the second and, after
a flush, the third; two slaves and two commands give each way a
confirmation can be wrong. Packets up to the drain limit give each place at
which it can end; two faults give a reconnection that fails after a write that
failed.

Each property of the line names its condition on the setup: `Fitting`, that the
driver is on while RTS is up and the application chooses no mode but UP;
`Ample`, that besides no packet takes longer than the code polls or sleeps;
`Patient`, that a station waits at least as long as the code may be late. The
conditions are the code's limits, and the setup `AnyMode`, which meets none of
them, is where those limits show. Without them the properties do not hold:

* `write()` that fails makes `write_uart` return 0 (`tta_rs485.c:36`): RTS stays
  up, the caller sees no -1 and link recovery does not repeat the send. This is
  the exception `result = "zero"` of `LineReleased`.
* A drain limit shorter than a packet (the polls are counted, not timed) makes
  the call fail after the packet was sent, drops RTS in mid-packet, and with link
  recovery repeats the packet for ever.
* `TIOCSERGETLSR` is not checked; on a driver without it the wait ends on
  whatever `txempty` held.
* In modes UP and DOWN RTS drops after the fixed sleep, whether or not the
  packet has left, and a station that answers sooner meets an enabled driver.
* `tta_rs485_set_rts(NONE)` raises RTS, which with NONE is the sending level: the
  line is reserved until the next send. `Fitting` leaves that call out.
* Every connect clears RTS, in mode DOWN too, where low is the sending level.
  `BusNotReserved` is about UP.
* An answer later than all timeouts, and a flush, is accepted by a later request
  with the same device and command: `late` in `AnswersThisRequest`.
* The properties of the bus need slaves that look at the device (`Filter`). Those
  of the repository do not: see `slave_loop` below.

### half_duplex: RF

| part | instance | properties |
|---|---|---|
| `radio` | `Cc1120`: two channels, two results, a first wait of three polls and calibrations of up to five | `Calibrated`, `CalRestored`, `AsAsked`, `CalibrationReturns` |
| `link` | `RfLink`: preamble 2, packet 4, polls of a send up to 2 apart, the peer answers after 3, three packets of another station; link recovery on or off | `TurnsInTime` = `SentBeforeListening`, `AnswerHeard`; `RfSentOnce`, `RequestReturns` |
| `contexts` | `RfContexts`: two contexts behind one lock, six packets | `OwnPacket` |

`CallsReturn` is `RequestReturns` and `CalibrationReturns`. A calibration of up
to five polls against a first wait of four gives chips that end before, at and
after it. A packet of four ticks is longer than the gap between two polls, as in
the code (a millisecond against a packet of several), and the turnaround is
longer than the gap, so that the radio can have turned: `Prompt` says both, and
is the condition of `RfSentOnce` and `AnswerHeard`. Three packets of another
station can raise the signal before, during and after the send, in two
attempts.

What the conditions say of the code:

* On a busy channel another station's packet, heard after STX, raises and drops
  GPIO3: the code takes it for the end of its own packet, which has not left
  (`others = 0` in `TurnsInTime`). Between that and the receive the radio is
  idle, and an answer that begins then is lost.
* With RF any packet of the system is taken for the answer: a late one, or
  another station's query; and a radio timeout neither sleeps nor flushes, in
  any recovery mode (`tta_rf.c:315-335`). Nothing that relates an answer to its
  request is claimed for RF.
* Without a lock around the library the FIFO of one context is overwritten by
  another's; `OwnPacket` is checked with `Locked`.
* After a first wait that ran out the chip is still at work and ignores the
  second strobe; the results compared are then of other calibrations
  (`timeout < PollLimit` in `Calibrated`). `FS_CAL2` is restored all the same.
* A reconnection resets the chip and sets neither channel nor power again:
  `AsAsked` is about what was asked since the last connect.

### context

| part | instance | properties |
|---|---|---|
| `msg` | `TtaMsg`: two headers, overhead 7 and at most 256 bytes to a packet, as on RS-485; lengths 0, 249, the longest that fits, 250, which is refused, and 300, which is cut; three addresses, two repetitions | `HeapExact`, `SaidWhole` = `RepeatedAlike`, `ResponseWhole`, `NothingLonger` |
| `descriptor` | `TtaDescriptor`: TCP client, TCP server, RS-485, RF; descriptors 0..4 | `NoLeak`, `OthersKept` |
| `timeouts` | `TtaTimeouts`: seconds of three ticks, eight timeouts, connections that take 0 or 1, RF looks two ticks apart | `OnTime` = `NotEarly`, `NotLate` |
| `data` | `TtaData`: nine bits, so that a byte fits at index 0 and 1 and across a byte's end; three bytes, two floats | `StoredIsKept` = `BytesAreNumber`, `FloatKept` |

At most two messages are allocated at once; the third address gives a leak room
to show. Five descriptors hold a listener, two clients and two files of
the rest of the process. Three ticks to a second are enough for microseconds
that add up to one second and to more.

What the conditions say of the code:

* A length above 255 given to `tta_reply` is cut to a byte, without an error: the
  condition on `gave.datalen` in `ResponseWhole`. A packet too long for the
  receiver is refused whole. A packet longer than the sender's own buffer (253
  bytes of data and more on TCP, 254 on RS-485, 251 on RF) overflows it, which
  is undefined; the model has no such lengths.
* A failed TCP connect leaves the number of the socket it closed, and a failed
  accept closes the listener and sets the caller's copy to 0, which is the
  standard input: a later close, or recovery, then closes what is not the
  library's. `OthersKept` excepts TCP after such a failure (`refused`).
* `close_rf` closes nothing: each recovery opens the device once more. `NoLeak`
  excepts RF.
* Connecting uses up `response_timeout`: `used` in `OnTime`. What becomes of it is
  shown by `connects`.
* The RF deadline adds microseconds without carry: it may be early by less than
  a second when they add up to one. It is looked at once per `RfGap`, 100 ms in
  the code, and may be as much late.
* A byte timeout of -1 goes to `select()` as it is; `NotEarly` leaves it out, and
  `byte_timeout` shows what it does.
* Floats are read with the words in the other order than
  `doc/tta_get_float.txt:18-20` has them; that a float is read as it was stored
  is what `FloatKept` says.

### What the violations show

Each is a place where the code and a statement about it differ; the details are
in `PROJECT.json`.

* `receive_oversize`: with both modes set, a message of invalid length is
  refused without the sleep and flush that `doc/tta_set_error_recovery.txt`
  announces. Its data is the next call's header.
* `session_reconnected`: counters are not reset or reconciled on a new
  connection, so after a loss the client refuses every right answer.
* `session_restarted`: a reply carries the server's own count, so after a
  restart of the client a late answer to another request may be accepted. The
  comment in `src/tta_tcp_private.h` says that the identifier associates the
  response with the request and is unique on each connection.
* `slave_loop`: `doc/tta_receive.txt:28-30` says that a query for another slave is
  ignored and its length zero, and `unit_test_slave.c:61` waits for that zero;
  the receive function never returns it. After one request to one of two slaves
  both answer, each hears the other's answer and answers it, without end.
* `shared`: `doc/libtta.txt:132-134` (a page of libmodbus, as it still says) lets
  threads share a context without a lock. In the run the thread that sends
  second has the identifier the server's first answer carries, and takes it.
* `connects`: `doc/tta_set_error_recovery.txt:27-29` promises a close and connect
  loop until success. The network is down for as long as the response timeout;
  `select()` leaves zero in it, and from then on no attempt that is not done at
  once succeeds, although the network is up again.
* `byte_timeout`: `doc/tta_set_byte_timeout.txt:21-23` says that with a `tv_sec` of
  -1 the response timeout governs the whole operation. `select()` refuses the
  value, and the call fails between two parts of a packet, after no time.
  `WaitsInFull` would not hold of the wait for the first byte either, once
  connecting has used up a part of the response timeout.

### Fairness

`TtaReceive!FairSpec`: the calling thread runs and the timers of `select` and
`nanosleep` expire (weak fairness of the engine's steps as a whole), and bytes
in flight arrive. The peer is not obliged to send. `TtaTcpSession!FairSpec`: the
client's thread runs and its timers expire; the server runs; and a client that
keeps connecting succeeds in the end. The last is strong fairness of an
environment, not of the code: with link recovery `_send_pkt` does not return
while the link is down, as the documentation says, so `FaultyCallReturns` needs
a link that comes back. `TtaRequest`, the abstract request, is fair in its return.

`Rs485Line`: the thread runs, its sleeps end (weak fairness of `Call`) and time
passes (`Tick`); faults are finitely many, as an outage is.
`SlaveBus` (`slave_loop`): the master's thread and each slave's run. `Cc1120`: the thread runs,
and a calibration ends (`CalDone`); the second wait has no limit of its own.
`RfLink`: the thread runs, time passes, the chip sends on a clear channel, and
the carrier sense becomes valid again and again (strong fairness of
`RssiValid`: in the code ten polls are enough on a chip that works; without it
link recovery repeats for ever). `TtaTimeouts` (`connects`): the thread runs, time
passes, and a connection that can be made again and again is made;
`ConnectsAtLast` itself supposes that the network stays up.

## 4. The proofs

Every safety property the passing runs check is also a theorem. A theorem is
about the component's own specification (`LineSpec`, `FdSpec`, ...), whose actions
the MC module takes unchanged. Each follows from an invariant that is inductive; the properties
alone seldom are.

### The assumptions on the constants

They are stated in the modules as `ASSUME`, and TLC evaluates them in every run.
Most say only what kind of value a constant is. Those that say more:

* `FramesAssumption` (`TtaReceive`): a frame's length byte is right, which is
  what the conversions emit.
* `LinkAssumption` (`RfLink`): preamble, packet and polls take time. With no
  preamble GPIO3 would be high before the chip sends, and a poll could not see
  it rise.
* `TimeAssumption` (`TtaTimeouts`): a timeval is normalised, its microseconds
  less than a second, as `select()` wants it.
* `MsgAssumption` (`TtaMsg`): a packet is no longer than the buffer it is built in.
* `DataAssumption` (`TtaData`): a float has four bytes.

A hypothesis of a theorem is written in its statement, or in the property, and
is a condition section 3 explains. There are six: `~Serial`, `Recoverable`,
`Recovering`, `Faults = {}` with `MaxUnanswered <= TidMax`, `Locked` (of
`RfContexts`) and `Apart`. The runs have instances that satisfy each.

### TtaReceive

For every header, checksum and buffer length, every integrity check, every set of
frames, any number of frames and losses.

* `TypeCorrect`, `BufferSafe` (`TtaReceive_proofs`). The invariant is `TypeOK`
  with `LoopInv`: in the header phase what was read and what is wanted add up
  to the header's length; in the data phase to what the header announced, and
  that was compared with the buffer. `BufferBound` alone is not inductive: it
  does not say that the bytes read so far fix the length.
* `CallsComeToAnEnd` (`TtaReceive_proofs`), the safety half of
  `TimedReceiveReturns`: `Spec => [][Nearer]_callVars`. A step that changes a call
  under way ends it, puts it to the sleep after which it ends, or reads one byte
  at least, with room for another left and the byte timeout set. So a call
  makes at most `MaxAdu` reads, and each wait after the first has a limit,
  whatever the peer sends. `LoopInv` gives the room; that the thread runs is the
  rest of the liveness property, and TLC's.
* `FramingExact` (`TtaReceive_proofs`), for a line that loses nothing:
  `Spec => []FrameExact`. The invariant is about `Left`, the bytes read by this
  call followed by those still to come: they are consecutive bytes of
  consecutive frames, and while the connection is up they go on to the end of
  the last frame sent. It is stated for any two bytes of the run rather than
  for neighbours, which avoids an induction over data. An aligned call then
  finds its length byte where the frame has it.
* `EveryCallAligned` (`TtaReceiveAligned_proofs`): `Spec => []AlignedStart` if
  all recovery modes in use include the link mode, frames fit and pass the
  integrity check, and what is in flight arrives within a recovery sleep
  (`Recoverable`). The invariant adds that `Left` begins with a frame's first
  byte except during the sleep. `receive_oversize` shows that the assumption on
  the frames' length is needed.
* `WholeFrames`, a corollary of the two: under `Recoverable` a successful call
  returns exactly one whole frame, whatever timeouts, resets and reconnections
  came before.
* `EngineIsChannel`, under the same conditions: `Spec => ImplementsChannel`, the
  refinement of `FrameChannel`. By the framing invariant the frames with a byte
  in `Left` are consecutive (`Row`), up to the last one sent while the connection
  is up. So a frame the peer sends comes behind them (`SendsFrame`), a packet
  that is returned is the first of them and takes nothing of the second
  (`GetsFrame`), and whatever cuts `Left` at its front or its back loses frames at
  that end (`LosesPart`), or none if a byte of each is left.

### TtaTcpSession

For every width of the identifier and any number of requests
(`TtaTcpSession_proofs`).

* `SessionTypes`: `Spec => []TypeOK`, with all faults. `TypeInv` adds that a
  client that sends and a server that replies have a request to send or reply to.
* `FreshAnswers`: `Spec => []AcceptedAnswersRequest`, and `FreshNotRefused`:
  `Spec => []AnswerNotRefused`, for every recovery setting, on one connection
  between two fresh contexts (`Faults = {}`). Neither is inductive: whether a
  reply is accepted depends on how two counters moved since it was sent. The
  invariant `Lockstep` says that what is on its way, in `c2s`, at the server and
  in `s2c`, is consecutive requests up to the last one sent, and that the
  server's counter and the identifier of every reply are the client's counter
  set back (`Back`, with the wrap) by the number of requests made since. Then
  the head of `s2c` has the client's identifier exactly when it is the awaited
  answer, because setting back by fewer steps than there are identifiers is
  one-to-one. That is the assumption `MaxUnanswered <= TidMax`: the code has no
  such limit, a client would have to leave 65536 requests behind to reach it.
* `FreshRefines`: under the same conditions `Spec` implies the initial states and
  steps of `TtaRequest`. Each step of the client is a step of a request that is
  answered once, by its own answer or by a failure, or changes nothing the
  caller sees. The fairness of `TtaRequest` is left to TLC
  (`FreshImplementsRequest`).
* `RecoveryLeavesNothing`: `Spec => []NothingLeftBehind` if every client recovers
  the link and the server is prompt (`Recovering`), with any faults: resets,
  restarts of either side, requests the server's application skips. `QuietInv`
  says where the exchange is while it lasts: at most one packet, in one of three
  places, and none before it is sent. A server still at work when its connection
  is gone replies to nobody, which is why `NothingLeftBehind` asks that the
  server waits only while the connection is up.
* `RecoveryAnswers`: `Recovering => (Spec => []AcceptedAnswersRequest)`, from the
  same invariant: there is no other answer to accept. Nothing is said of the two
  counters, which breaks and restarts move apart, so it needs no bound on the
  requests left unanswered, and holds after a client's restart, which is where
  `session_restarted` fails without recovery.
* `RecoveryRefines`: under `Recovering` and without client restarts `Spec` implies
  the initial states and steps of `TtaRequest`. A client that restarts forgets an
  answer it returned, which no step of `TtaRequest` does.

### Rs485Line and Rs485Port

`ReleasesLine`, `DrivesFrame`, `NeverCollides`, `SendsOnce`, `PortIsKept`
(`Rs485_proofs`): for every set of packets, drain limit, sleeps, patience,
number of faults and setup. None of the first four is inductive, and they share
one invariant, `LineInv`:

* `Stage`: where the call is says how it was made (mode NONE polls, the others
  sleep), that the UART is empty before a write, and that a failure that is
  repeated means link recovery;
* `Levels`, if `Fitting`: where RTS is up and where it is down, when the UART
  still holds something;
* `Underway`, if `Ample`: in a wait, what the station heard, what the UART still
  holds and the time the wait has lasted add up to the packet, or it was heard
  whole once. The wait outlasts the packet by this sum;
* `Turn`, if `Patient`: while a call lasts a station is due at most, and has been
  so for a shorter time than the wait has lasted.

From the same invariant follows `RepeatsAreCaused`, the safety half of
`SendReturns`: if `Ample`, a call is repeated only after a failure, and it fails
only by a fault or because a reconnection has failed. By `Underway` the drain limit
never runs out on a packet that is on its way, so the number of repetitions is
bounded by that of the faults.

`PortInv` is `PortRestored` with `Held`: an open port has its context's settings
and the context what the port had before.

### SlaveBus

For any slaves, commands, number of requests and of lost packets, and any
capacity (`Rs485_proofs`). `Apart` is that the slaves look at the device.

* `ResponseFromRequestedSlave`: `Apart => (BusSpec => []FromRequestedSlave)`.
  The invariant adds that all the master has not read was sent by the device it
  names, which is so because a slave replies with the device of a request that
  was its own.
* `ResponseToThisRequest`: `Apart => (BusSpec => []AnswersThisRequest)`. The
  invariant `Settled` says that until an answer is late
  what is under way for the master is nothing (`Quiet`), its request, in the
  queue of one slave (`Asked`), the request its slave holds (`Taken`), or one
  answer (`Answered`). What slaves overhear is not constrained, and does not
  matter. `late` is part of the invariant: a call that ends in any but the
  first state without recovery makes an answer late.

### RfLink, RfContexts, Cc1120

For every preamble, packet length, poll gap, limit, turnaround and number of
other packets, every table of channels and powers, every result, poll limit and
speed of the chip (`Rf_proofs`).

* `SendsRequestOnce`: `LinkSpec => []RfSentOnce`. The invariant: GPIO3 says what
  the radio does (`Gpio3`); while a request is on the air and the code has not
  noticed, the time since the last poll and the time left are more than the
  packet takes (`Noticed`). So a poll falls in every packet, and what has left
  is never repeated.
* `TurnsToListen`: `LinkSpec => []TurnsInTime`. On a channel of its own
  (`OwnChannel`) GPIO3 rises only with the request; then what has passed since
  the request left is less than what has passed since the last poll
  (`Listening`), so the radio listens before `Turnaround` is over.
* `ReturnsOwnPacket`: `ContextsSpec => []OwnPacket`, for any contexts. `OwnFifo`:
  only the owner of the lock is in a call, and from the copy on the FIFO and
  its position are that call's.
* `StartValueRestored`, `SettingsAsAsked`, `BestCalibration`: `Spec =>
  []CalRestored`, `[]AsAsked`, `[]Calibrated`. The third needs `Progress`: in the
  first wait the chip has lasted exactly as many polls as were counted, or its
  one result is in the register; in the second, if the first did not run out,
  the high result is known and at most the mid one is missing; both are of the
  channel set before.

### TtaMsg, TtaDescriptor, TtaTimeouts

All in `Context_proofs`.

* `NoMessageLeaks`, `NothingAltered`: `MsgSpec => []HeapExact` and `[]SaidWhole`,
  for any addresses, headers, lengths and repetitions. `HeapExact` needs
  `Pointers`, that no two pointers lead to one message, and `NoResponse`, that
  the last response is freed when the master waits for another. `SaidWhole`
  needs `Alike`, that every copy the master has is what was asked, and `Told`,
  that what the slave has is the request and that only what it gave, cut to a
  byte, is on the way back; and that what was received fits.
* `NoDescriptorLeaks`: `FdSpec => []NoLeak`, and `NoOtherClosed`: `FdSpec =>
  OthersKept`, for any number of descriptors. `NoLeak` says that what the library
  holds is known to it; the second needs the converse, that what it knows it
  holds: `ClientOwns` and `ServerOwns` have both, the second half only until a
  TCP connect or an accept was refused, which is where the code loses it.
* `WaitsAsLongAsSaid`: `TimeSpec => []OnTime`, for every unit, timeout,
  duration and sleep between two looks of the RF backend. The invariant is that
  what is left of `response_timeout` and what connecting used are what was set.
  `Deadline` is the lemma about `_tta_rf_receive`: comparing seconds and then
  microseconds without carry is early by less than a second, and exact when
  they add up to less than one.

### TtaData

`StoredIsFound` (`TtaData_proofs`): `DataSpec => []StoredIsKept`, for bit arrays of
every length, all bytes and all floats. The invariant for the bits (`BitInv`) is
that each is that bit of the number; `BytesAreNumber` alone is this, read eight
bits at a time. What has to be shown is that a loop of the code and arithmetic
do the same:

* `ReplacedBits`: replacing `k` bits of a number by arithmetic changes those bits
  and no other, because a multiple of a power of two does not show in the bits
  below it (`BitBelow`) and division by one shifts the others (`BitAbove`). They
  rest on quotient and rest being unique (`DivUnique`), and on `TwoBytes`, for
  the loop that runs on from one byte into the next.
* `SumIsLow`: the loop of `tta_get_byte_from_bits` computes the rest of the number
  modulo `2^k`, by induction over its turns.

These are inductions over data. The theorems of the library that state induction
take an operator as a parameter, which the provers cannot instantiate;
`Induction` states it for a set instead, and is proved from `WFMin`: if a number
were not in the set there would be a least one, and it could be neither 0 nor a
successor. That the recursive functions exist (`PowersExist` and `Pow2Def`,
`SumsExist` and `ByteIsSum`) is proved the same way, from their first `n` values.

For the floats, `FloatBack` takes one apart into its words and puts it
together, and `bswap_32` is its own inverse (`FloatSwapped`).

### What is only model-checked

Liveness, which is out of the prover's reach: `TimedReceiveReturns`,
`SerialReceiveReturns`, `FaultyCallReturns`, `SendReturns`, `CallsReturn`, and the
fairness of `TtaRequest` in `FreshImplementsRequest`. The safety half of the
first two and of `SendReturns` is proved: `CallsComeToAnEnd` and
`RepeatsAreCaused`.

## 5. What is not modelled

* Transfers to and from devices: SPI reads and writes and the register tables of
  `cc1120.c`, `ioctl` numbers, socket options. What is modelled is what the
  library does with their results.
* `cc1120_send_packet`, `cc1120_calibrate_rcosc` and the hardware reset, which
  nothing calls.
* `tta_rs485_set_serial_mode`, which passes a flag to the kernel's RS-485 driver;
  `tta_rf_set_id` and `tta_rf_get_id`, which copy four bytes; the getters,
  `tta_set_debug` and `tta_strerror`, which load or store one field or choose a
  text; debug output.
* The RF confirmation, which compares the identifier all packets of a system have.
* Packets longer than the buffer their sender builds them in (`tta.c:599`, `642`).
* The Windows code, which the Linux build leaves out.
* A TCP `send()` that takes part of a packet (`tta.c:166`). The receiver meets
  the torn frame as it meets a peer that stops in mid-frame, which `TtaReceive`
  has; that the rest of the torn frame is followed by another frame is left out.
* `read_rf` completing a header that announces more than the radio delivered
  with what the FIFO held before (`tta_rf.c:44`): it takes a packet whose
  length contradicts the radio's and whose sum is right all the same.
* A serial packet with a bad sum, flushed at once while the rest of it may be on
  the line (`tta_rs485.c:305`): `SlaveBus` moves whole packets, and `TtaReceive`
  promises no alignment on a line that loses bytes.
* `EINTR` in `select` (the wait is repeated; the time already spent is not) and
  `EAGAIN` after `select` said ready.
* The values of timeouts in `TtaReceive`, `TtaTcpSession` and `SlaveBus`, where a
  timeout is a step that may happen whenever nothing is there to be read;
  `TtaTimeouts` has the values.
* Reconnection is one step outside `Rs485Line` and `TtaTimeouts`: during it the
  engine does nothing else. A serial adapter is not unplugged.

Further work would be a `TtaReceive` whose peer may be torn in mid-frame.
