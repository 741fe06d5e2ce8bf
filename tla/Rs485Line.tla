----------------------------- MODULE Rs485Line ------------------------------
(***************************************************************************)
(* One context sending on a half-duplex RS-485 line, and the station that  *)
(* answers.  The RTS signal enables the line driver.                       *)
(*                                                                         *)
(* Time is counted in byte times: with each Tick the UART shifts out one   *)
(* byte, into the line if the driver is enabled and into nothing if not.   *)
(* write() only fills the UART's buffer.  With rts NONE write_uart polls   *)
(* until the buffer is empty; with UP and DOWN the code sleeps a fixed     *)
(* time after write().                                                     *)
(***************************************************************************)
EXTENDS Naturals

CONSTANTS
  DriveLevel,   \* the level of RTS that enables the driver
  Setups,       \* the systems considered, see Setup
  Frames,       \* lengths of the packets the application sends
  Links,        \* values of error_recovery & TTA_ERROR_RECOVERY_LINK
  Sleep,        \* response_timeout, in byte times
  Lag,          \* bound: byte times the thread is late to see the empty buffer
  Answer,       \* length of the station's answer
  MaxFaults     \* bound: how often things go wrong

\* write: write() fails.  open: a reconnection fails.  lsr: TIOCSERGETLSR is
\* not supported, txempty keeps whatever it held.
Fault == {"write", "open", "lsr"}

Mode == {"none", "up", "down"}

\* What the application gives to tta_rs485_set_rts; what may go wrong; and in
\* byte times: after how long write_uart stops polling,
\* _TTA_RS485_TIME_BETWEEN_RTS_SWITCH, and how long the station waits before it
\* answers.
Setup == [modes : SUBSET Mode, faults : SUBSET Fault,
          poll : Nat, switch : Nat, patience : Nat]

ASSUME LineAssumption ==
  /\ DriveLevel \in BOOLEAN /\ Links \subseteq BOOLEAN
  /\ Setups \subseteq Setup
  /\ Frames \subseteq Nat \ {0}
  /\ {Sleep, Lag, Answer, MaxFaults} \subseteq Nat

VARIABLES
  setup,    \* the system, which does not change
  link,     \* error_recovery & TTA_ERROR_RECOVERY_LINK
  mode,     \* ctx_rs485->rts
  lpc,      \* the call: idle, lead, write, drain, tail, failed or sleep
  frame,    \* length of the packet
  cnt,      \* byte times in this step of the call
  result,   \* of the last call: none, sent, zero or failed
  open,     \* ctx->s is an open descriptor
  rts,      \* the signal
  fifo,     \* bytes the UART has still to shift out
  heard,    \* bytes of the copy in transmission that reached the station
  copies,   \* whole copies of the packet it heard during the call, up to 2
  peer,     \* the station: listening, due or talking
  wait,     \* byte times it has been due, or has talked
  faults    \* how often things went wrong

fixed == <<setup, link>>
callVars == <<fixed, mode, lpc, frame, cnt, result>>
uartVars == <<open, rts, fifo>>
peerVars == <<heard, copies, peer, wait>>
lineVars == <<callVars, uartVars, peerVars, faults>>

\* tta_new_rs485 and tta_connect
LineInit ==
  /\ setup \in Setups /\ link \in Links
  /\ mode = "none" /\ lpc = "idle" /\ frame = 0 /\ cnt = 0 /\ result = "none"
  /\ open = TRUE /\ rts = FALSE /\ fifo = 0
  /\ heard = 0 /\ copies = 0 /\ peer = "listening" /\ wait = 0
  /\ faults = 0

Driven == rts = DriveLevel

Fails(f) == f \in setup.faults /\ faults < MaxFaults /\ faults' = faults + 1

-----------------------------------------------------------------------------
(* The application, between two calls.                                     *)

tta_rs485_set_rts(m) ==
  /\ lpc = "idle" /\ open
  /\ mode' = m
  /\ rts' = (m # "up")
  /\ UNCHANGED <<fixed, lpc, frame, cnt, result, open, fifo, peerVars, faults>>

-----------------------------------------------------------------------------
(* The call: _send_pkt around _tta_rs485_send.                             *)

\* A slip: transmission begins before the driver is enabled.
MutAssertLate ==
  /\ lpc' = IF mode = "none" THEN "write" ELSE "lead"
  /\ cnt' = 0
  /\ UNCHANGED rts

\* The first half of _tta_rs485_send: the driver is enabled, after which
\* write_uart writes at once and the other modes sleep first.
Assert ==
  /\ lpc' = IF mode = "none" THEN "write" ELSE "lead"
  /\ rts' = IF open THEN mode # "down" ELSE rts
  /\ cnt' = 0

\* One request at a time: the master waits for the answer to the last one, or
\* for its timeout, which is longer than a packet.
SendBegin(n) ==
  /\ lpc = "idle" /\ peer = "listening" /\ fifo = 0
  /\ frame' = n /\ result' = "none"
  /\ heard' = 0 /\ copies' = 0
  /\ Assert
  /\ UNCHANGED <<fixed, mode, open, fifo, peer, wait, faults>>

LeadOver ==
  /\ lpc = "lead" /\ cnt = setup.switch
  /\ lpc' = "write"
  /\ UNCHANGED <<fixed, mode, frame, cnt, result, uartVars, peerVars, faults>>

WriteOk ==
  /\ lpc = "write" /\ open
  /\ fifo' = frame /\ heard' = 0
  /\ lpc' = IF mode = "none" THEN "drain" ELSE "tail"
  /\ cnt' = 0
  /\ UNCHANGED <<fixed, mode, frame, result, open, rts, copies, peer, wait, faults>>

\* A slip: the loop looks at error_recovery only.
MutReturnNever(r) ==
  IF link
    THEN lpc' = "failed" /\ UNCHANGED result
    ELSE lpc' = "idle" /\ result' = r

\* The call returns r, or it is repeated with LINK if r is -1.
Return(r) ==
  IF r = "failed" /\ link
    THEN lpc' = "failed" /\ UNCHANGED result
    ELSE lpc' = "idle" /\ result' = r

\* write() fails: write_uart returns 0 there and then.  The other modes go on.
WriteFail ==
  /\ lpc = "write"
  /\ IF open THEN Fails("write") ELSE UNCHANGED faults
  /\ cnt' = 0
  /\ IF mode = "none" THEN Return("zero")
                      ELSE lpc' = "tail" /\ result' = "failed"
  /\ UNCHANGED <<fixed, mode, frame, uartVars, peerVars>>

\* A slip: RTS is cleared as soon as the packet is in the buffer.
MutDrainNot ==
  /\ lpc = "drain"
  /\ rts' = FALSE
  /\ Return("sent")
  /\ UNCHANGED <<fixed, mode, frame, cnt, open, fifo, peerVars, faults>>

\* A slip: RTS is left set on the way out.
MutDrainHold ==
  /\ lpc = "drain" /\ fifo = 0
  /\ Return("sent")
  /\ UNCHANGED <<fixed, mode, frame, cnt, uartVars, peerVars, faults>>

\* write_uart sees the transmitter empty and clears RTS.
DrainDone ==
  /\ lpc = "drain"
  /\ fifo = 0 \/ "lsr" \in setup.faults
  /\ rts' = FALSE
  /\ Return("sent")
  /\ UNCHANGED <<fixed, mode, frame, cnt, open, fifo, peerVars, faults>>

\* A slip: the count is looked at before the transmitter.
MutDrainTimeoutFirst ==
  /\ lpc = "drain" /\ cnt > setup.poll
  /\ rts' = FALSE
  /\ Return("failed")
  /\ UNCHANGED <<fixed, mode, frame, cnt, open, fifo, peerVars, faults>>

\* It gives up, although the bytes are on their way.
DrainTimeout ==
  /\ lpc = "drain" /\ cnt > setup.poll
  /\ fifo > 0 \/ "lsr" \in setup.faults
  /\ rts' = FALSE
  /\ Return("failed")
  /\ UNCHANGED <<fixed, mode, frame, cnt, open, fifo, peerVars, faults>>

\* A slip: RTS is left at the level that was needed to send.
MutTailHold ==
  /\ lpc = "tail" /\ cnt = setup.switch
  /\ rts' = IF open THEN mode = "up" ELSE rts
  /\ Return(IF result = "failed" THEN "failed" ELSE "sent")
  /\ UNCHANGED <<fixed, mode, frame, cnt, open, fifo, peerVars, faults>>

\* UP and DOWN: the time is over, whatever the transmitter does.
TailOver ==
  /\ lpc = "tail" /\ cnt = setup.switch
  /\ rts' = IF open THEN mode # "up" ELSE rts
  /\ Return(IF result = "failed" THEN "failed" ELSE "sent")
  /\ UNCHANGED <<fixed, mode, frame, cnt, open, fifo, peerVars, faults>>

\* LINK: tta_close and tta_connect, whose failure nobody looks at ...
Reconnect ==
  /\ lpc = "failed"
  /\ fifo' = 0
  /\ \/ /\ open' = TRUE
        /\ rts' = (mode # "down")  \* cleared by connect, then Assert
        /\ UNCHANGED faults
     \/ /\ Fails("open")
        /\ open' = FALSE
        /\ rts' \in {rts, FALSE}
  /\ lpc' = IF mode = "none" THEN "write" ELSE "lead"
  /\ cnt' = 0 /\ result' = "none"
  /\ UNCHANGED <<fixed, mode, frame, peerVars>>

\* ... or _sleep_and_flush: errno decides, and a failed poll does not set it.
\* A write to a descriptor that is not open sets EBADF: it always reconnects.
SleepBegin ==
  /\ lpc = "failed" /\ open
  /\ lpc' = "sleep" /\ cnt' = 0 /\ result' = "none"
  /\ UNCHANGED <<fixed, mode, frame, uartVars, peerVars, faults>>

LineSleepOver ==
  /\ lpc = "sleep" /\ cnt = Sleep
  /\ fifo' = 0
  /\ Assert
  /\ UNCHANGED <<fixed, mode, frame, result, open, peerVars, faults>>

-----------------------------------------------------------------------------
(* Time.                                                                   *)

\* How long the call may stay where it is.
MayWait ==
  \/ lpc = "idle"
  \/ lpc \in {"lead", "tail"} /\ cnt < setup.switch
  \/ lpc = "sleep" /\ cnt < Sleep
  \/ lpc = "drain" /\ fifo > 0 /\ cnt <= setup.poll
  \/ lpc = "drain" /\ fifo = 0 /\ peer = "due" /\ wait < Lag
  \/ lpc = "drain" /\ "lsr" \in setup.faults /\ cnt <= setup.poll

\* A byte leaves the UART; the station hears it if the driver is enabled, and
\* throws away what it heard of a packet that stops short.
Shift ==
  LET reaches == fifo > 0 /\ Driven
      whole == reaches /\ heard + 1 = frame
  IN /\ fifo' = IF fifo > 0 THEN fifo - 1 ELSE 0
     /\ heard' = IF reaches /\ ~whole THEN heard + 1 ELSE 0
     /\ copies' = IF whole /\ copies < 2 THEN copies + 1 ELSE copies
     /\ IF whole
          THEN peer' = "due" /\ wait' = 0
          ELSE CASE peer = "listening" -> UNCHANGED <<peer, wait>>
                 [] peer = "due" ->
                      IF wait < setup.patience THEN wait' = wait + 1 /\ UNCHANGED peer
                                         ELSE wait' = 0 /\ peer' = "talking"
                 [] peer = "talking" ->
                      IF wait < Answer THEN wait' = wait + 1 /\ UNCHANGED peer
                                       ELSE wait' = 0 /\ peer' = "listening"

Tick ==
  /\ MayWait
  /\ lpc = "idle" => fifo > 0 \/ peer # "listening"
  /\ cnt' = IF lpc = "idle" THEN cnt ELSE cnt + 1
  /\ Shift
  /\ UNCHANGED <<fixed, mode, lpc, frame, result, open, rts, faults>>

Call ==
  \/ LeadOver \/ WriteOk \/ WriteFail \/ DrainDone \/ DrainTimeout \/ TailOver
  \/ Reconnect \/ SleepBegin \/ LineSleepOver

LineNext ==
  \/ \E m \in setup.modes : tta_rs485_set_rts(m)
  \/ \E n \in Frames : SendBegin(n)
  \/ Call
  \/ Tick

LineSpec == LineInit /\ [][LineNext]_lineVars

\* The thread runs and time passes.
LineFairSpec == LineSpec /\ WF_lineVars(Call) /\ WF_lineVars(Tick)

-----------------------------------------------------------------------------

\* RTS rests at the level that leaves the line: the application chooses no mode
\* or UP, and the driver is enabled by a raised RTS.
Fitting == DriveLevel /\ setup.modes \subseteq {"up"}

\* Besides, write_uart polls, and with UP sleeps, for as long as a packet takes.
Ample ==
  /\ Fitting /\ "lsr" \notin setup.faults
  /\ \A n \in Frames : /\ n <= setup.poll + 1
                       /\ "up" \in setup.modes => n <= setup.switch

\* Besides, the station waits for at least as long as the code may be late.
Patient ==
  /\ Fitting /\ "lsr" \notin setup.faults
  /\ Lag <= setup.patience
  /\ "up" \in setup.modes => setup.switch <= setup.patience

\* Between two calls the line is free for the other stations, unless write()
\* failed and the call returned 0.
LineReleased == Fitting => (lpc = "idle" /\ Driven => result = "zero")

\* Every byte that leaves the UART leaves it into the line, whatever fails: RTS
\* is neither late nor dropped in mid-packet.
FrameDriven == Ample => (fifo > 0 => Driven)

\* The station's answer never meets an enabled driver.
NoCollision == Patient => (peer = "talking" => ~Driven)

\* A call that reports success put the packet on the line once, whole.
SentOnce == Ample => (lpc = "idle" /\ result = "sent" => copies = 1)

\* Every call returns, also when it fails for a while; with a drain limit
\* shorter than the packet LINK repeats it for ever.
SendReturns == (Ample /\ lpc # "idle") ~> lpc = "idle"

=============================================================================
