---------------------------- MODULE TtaTimeouts -----------------------------
(***************************************************************************)
(* What becomes of the timeouts an application sets: the wait of _connect, *)
(* the two waits of _tta_receive_pkt and the wait of _tta_rf_receive.      *)
(*                                                                         *)
(* A second has Unit ticks.  Time runs from the moment a wait begins:      *)
(* phase is how far into its second the clock was then, elapsed what has   *)
(* passed since.  select() writes the time it did not use back into the    *)
(* timeval it is given, as it does on Linux.  The RF backend has no select *)
(* to wait in: it looks at the radio and at the clock, and sleeps.         *)
(***************************************************************************)
EXTENDS Integers

CONSTANTS
  Unit,       \* ticks in a second
  Timeouts,   \* values for tta_set_response_timeout, [sec, usec] records
  ByteTimes,  \* values for tta_set_byte_timeout in ticks, -1 for a tv_sec of -1
  RfGap,      \* ticks the RF backend sleeps between two looks
  Rfs,        \* the backends: RF (TRUE), or one that waits with select
  Delays      \* ticks a connection takes; 0 is a connect() that is not pending

ASSUME TimeAssumption ==
  /\ Unit \in Nat \ {0} /\ Timeouts \subseteq [sec : Nat, usec : 0..(Unit - 1)]
  /\ ByteTimes \subseteq Nat \cup {-1} /\ RfGap \in Nat \ {0}
  /\ Rfs \subseteq BOOLEAN /\ Delays \subseteq Nat

VARIABLES
  rf, delay,         \* the backend, and how long its connections take
  response_timeout,  \* ctx->response_timeout, in ticks
  wanted,            \* what the application set it to, as a record
  used,              \* ticks spent connecting since then
  byte_timeout,      \* ctx->byte_timeout, in ticks
  tpc,       \* idle, connecting, header, data, rf or over (the wait has ended)
  phase,    \* ticks into the second when the wait began
  elapsed,  \* ticks since then
  gap,      \* ticks since the last byte, with RF since the last look
  kind,     \* of the wait that is over: connect, header, data, rf; "none" else
  net       \* the network is up

settings == <<rf, delay, response_timeout, wanted, used, byte_timeout>>
timeVars == <<settings, tpc, phase, elapsed, gap, kind, net>>

Ticks(tv) == tv.sec * Unit + tv.usec

TimeInit ==
  /\ rf \in Rfs /\ delay \in (IF rf THEN {0} ELSE Delays)
  /\ wanted \in Timeouts /\ used = 0
  /\ response_timeout = Ticks(wanted)
  /\ byte_timeout \in ByteTimes
  /\ tpc = "idle" /\ phase = 0 /\ elapsed = 0 /\ gap = 0 /\ kind = "none"
  /\ net = TRUE

Begin(where) ==
  /\ tpc' = where
  /\ phase' \in 0..(Unit - 1)
  /\ elapsed' = 0 /\ gap' = 0 /\ kind' = "none"

\* The wait ends in an error.
GiveUp(k) ==
  /\ tpc' = "over" /\ kind' = k
  /\ UNCHANGED <<phase, elapsed, gap, net>>

WaitReturns ==
  /\ tpc' = "idle"
  /\ phase' = 0 /\ elapsed' = 0 /\ gap' = 0 /\ kind' = "none"
  /\ UNCHANGED net

-----------------------------------------------------------------------------

tta_set_response_timeout(tv) ==
  /\ tpc = "idle"
  /\ wanted' = tv /\ response_timeout' = Ticks(tv) /\ used' = 0
  /\ UNCHANGED <<rf, delay, byte_timeout, tpc, phase, elapsed, gap, kind, net>>

tta_set_byte_timeout(t) ==
  /\ tpc = "idle"
  /\ byte_timeout' = t
  /\ UNCHANGED <<rf, delay, response_timeout, wanted, used,
                 tpc, phase, elapsed, gap, kind, net>>

\* A pending connection: select() for writing, on ctx->response_timeout itself.
ConnectBegin ==
  /\ ~rf /\ tpc = "idle"
  /\ Begin("connecting")
  /\ UNCHANGED <<settings, net>>

\* A slip: the time is taken off twice.
MutWrittenBack ==
  /\ response_timeout' =
       IF 2 * elapsed > response_timeout THEN 0 ELSE response_timeout - 2 * elapsed
  /\ used' = used + elapsed
  /\ UNCHANGED <<rf, delay, wanted, byte_timeout>>

\* What select() leaves in the timeval.
WrittenBack ==
  /\ response_timeout' = response_timeout - elapsed
  /\ used' = used + elapsed
  /\ UNCHANGED <<rf, delay, wanted, byte_timeout>>

ConnectDone ==
  /\ tpc = "connecting"
  /\ net /\ elapsed >= delay
  /\ (elapsed < response_timeout \/ elapsed = 0)
  /\ WrittenBack
  /\ WaitReturns

ConnectTimeout ==
  /\ tpc = "connecting"
  /\ elapsed = response_timeout
  /\ WrittenBack
  /\ GiveUp("connect")

\* With link recovery _send_pkt closes and connects again.
ConnectAgain ==
  /\ tpc = "over" /\ kind = "connect"
  /\ Begin("connecting")
  /\ UNCHANGED <<settings, net>>

\* _tta_receive_pkt with a timeout, on a copy of ctx->response_timeout.
ReceiveBegin ==
  /\ ~rf /\ tpc = "idle"
  /\ Begin("header")
  /\ UNCHANGED <<settings, net>>

\* A slip: the header is waited for as long as for one byte.
MutSelectTimeoutByte ==
  /\ \/ tpc = "header" /\ byte_timeout >= 0 /\ gap >= byte_timeout
     \/ tpc = "data" /\ byte_timeout >= 0 /\ gap = byte_timeout
     \/ tpc = "data" /\ byte_timeout < 0
  /\ GiveUp(tpc)
  /\ UNCHANGED settings

\* select() times out, or refuses a negative tv_sec at once.
SelectTimeout ==
  /\ \/ tpc = "header" /\ elapsed = response_timeout
     \/ tpc = "data" /\ byte_timeout >= 0 /\ gap = byte_timeout
     \/ tpc = "data" /\ byte_timeout < 0
  /\ GiveUp(tpc)
  /\ UNCHANGED settings

\* Some bytes, after which the byte timeout counts.
SomeBytes ==
  /\ tpc \in {"header", "data"}
  /\ tpc' = "data" /\ gap' = 0
  /\ elapsed' = IF byte_timeout < 0 THEN elapsed ELSE 0
  /\ UNCHANGED <<settings, phase, kind, net>>

\* The RF backend looks at once when it begins, then after every sleep.
Looks == tpc = "rf" /\ (gap = RfGap \/ elapsed = 0)

\* The rest of the packet, or the RF packet as a whole; the packet is looked for
\* before the clock is, so it still counts after the deadline.
Received ==
  /\ tpc \in {"header", "data"} \/ Looks
  /\ WaitReturns
  /\ UNCHANGED settings

\* _tta_rf_receive adds seconds and microseconds to the time of day.
RfBegin ==
  /\ rf /\ tpc = "idle"
  /\ Begin("rf")
  /\ UNCHANGED <<settings, net>>

\* A slip: the seconds are compared with >=.
MutRfExpired ==
  LET now == phase + elapsed IN
  \/ now \div Unit >= wanted.sec /\ wanted.sec > 0
  \/ now \div Unit = wanted.sec /\ now % Unit > phase + wanted.usec

\* A slip: only the seconds are looked at.
MutRfExpiredSec == (phase + elapsed) \div Unit > wanted.sec

\* now.tv_sec > timeout.tv_sec, or equal and now.tv_usec > timeout.tv_usec,
\* counting seconds from the one in which the wait began.
RfExpired ==
  LET now == phase + elapsed IN
  \/ now \div Unit > wanted.sec
  \/ now \div Unit = wanted.sec /\ now % Unit > phase + wanted.usec

RfTimeout ==
  /\ Looks
  /\ RfExpired
  /\ GiveUp("rf")
  /\ UNCHANGED settings

\* A slip: the clock is not always looked at.
MutRfSleep ==
  /\ Looks /\ gap = RfGap
  /\ gap' = 0
  /\ UNCHANGED <<settings, tpc, phase, elapsed, kind, net>>

\* No packet, and time is left: another sleep.
RfSleep ==
  /\ Looks /\ gap = RfGap
  /\ ~RfExpired
  /\ gap' = 0
  /\ UNCHANGED <<settings, tpc, phase, elapsed, kind, net>>

\* Without link recovery, or on a read, the call returns its error.
WaitFailed ==
  /\ tpc = "over" /\ kind # "connect"
  /\ WaitReturns
  /\ UNCHANGED settings

Code ==
  \/ ConnectDone \/ ConnectTimeout \/ ConnectAgain \/ SelectTimeout
  \/ RfTimeout \/ RfSleep \/ WaitFailed

Application ==
  \/ \E tv \in Timeouts : tta_set_response_timeout(tv)
  \/ \E t \in ByteTimes : tta_set_byte_timeout(t)
  \/ ConnectBegin \/ ReceiveBegin \/ RfBegin

\* Time passes while a wait lasts: the end of a select and that of a sleep are
\* not missed.
Waiting ==
  \/ tpc = "connecting" /\ elapsed < response_timeout /\ (elapsed < delay \/ ~net)
  \/ tpc = "header" /\ elapsed < response_timeout
  \/ tpc = "data" /\ gap < byte_timeout
  \/ tpc = "rf" /\ gap < RfGap

Tick ==
  /\ Waiting
  /\ elapsed' = elapsed + 1 /\ gap' = gap + 1
  /\ UNCHANGED <<settings, tpc, phase, kind, net>>

Network ==
  /\ ~rf
  /\ net' = ~net
  /\ UNCHANGED <<settings, tpc, phase, elapsed, gap, kind>>

TimeNext ==
  \/ Application \/ Code
  \/ SomeBytes \/ Received
  \/ Tick \/ Network

TimeSpec == TimeInit /\ [][TimeNext]_timeVars

\* The thread runs, time passes, and a connection that is made is seen.
TimeFairSpec ==
  TimeSpec /\ WF_timeVars(Code) /\ WF_timeVars(Tick) /\ SF_timeVars(ConnectDone)

-----------------------------------------------------------------------------

\* A call gives up waiting for a response no earlier than when the time the
\* application set has passed, less what connecting took of it.  The RF backend,
\* whose deadline does not carry, may be early by less than a second, and only
\* when its microseconds add up to one.
NotEarly ==
  /\ (tpc = "over" /\ kind = "header") => elapsed + used >= Ticks(wanted)
  /\ (tpc = "over" /\ kind = "data" /\ byte_timeout >= 0) => gap >= byte_timeout
  /\ (tpc = "over" /\ kind = "rf") =>
       /\ elapsed + Unit > Ticks(wanted)
       /\ phase + wanted.usec < Unit => elapsed >= Ticks(wanted)

\* Nor does it wait longer, the RF backend by no more than one of its sleeps.
NotLate ==
  /\ tpc = "header" => elapsed + used <= Ticks(wanted)
  /\ (tpc = "rf" \/ kind = "rf") => elapsed <= Ticks(wanted) + RfGap

\* A wait for a response lasts as long as the application said, but for what
\* the code takes off it: the time spent connecting, the carry of RF's deadline.
\* WaitsInFull is without these exceptions.
OnTime == NotEarly /\ NotLate

\* What the pages of the two timeouts say: the response timeout is what was set,
\* and with a byte timeout whose tv_sec is -1 it governs the whole duration.  It
\* does not hold: such a timeout goes to select() as it is, which refuses it,
\* and the time a connection takes is taken off the response timeout.
WaitsInFull ==
  tpc = "over" /\ (kind = "header" \/ (kind = "data" /\ byte_timeout < 0))
    => elapsed >= Ticks(wanted)

\* What the page of tta_set_error_recovery says: the infinite close and connect
\* loop goes on until success, so it ends when the network stays up.  It does
\* not hold: the first attempt that times out leaves no time to later ones.
ConnectsAtLast == <>[]net => (tpc = "connecting" ~> tpc = "idle")

=============================================================================
