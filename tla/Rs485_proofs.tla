---------------------------- MODULE Rs485_proofs -----------------------------
(***************************************************************************)
(* The RS-485 backend: what a context that sends does to the line and what *)
(* it leaves in the serial port; and, on a line with several slaves, whose *)
(* answer a master gets.                                                   *)
(***************************************************************************)
EXTENDS SlaveBus, Rs485Line, Rs485Port, SequenceTheorems, TLAPS

-----------------------------------------------------------------------------
(* The line.                                                               *)

LineTypes ==
  /\ setup \in Setups /\ link \in BOOLEAN
  /\ mode \in setup.modes \cup {"none"}
  /\ lpc \in {"idle", "lead", "write", "drain", "tail", "failed", "sleep"}
  /\ frame \in Nat /\ (lpc # "idle" => frame \in Frames)
  /\ cnt \in Nat
  /\ result \in {"none", "sent", "zero", "failed"}
  /\ open \in BOOLEAN /\ rts \in BOOLEAN
  /\ fifo \in Nat /\ heard \in Nat /\ copies \in 0..2
  /\ peer \in {"listening", "due", "talking"} /\ wait \in Nat

\* Where the call is says how it was made, how far it has come and what the
\* UART holds.
Stage ==
  /\ lpc = "drain" => mode = "none"
  /\ lpc \in {"lead", "tail"} => mode # "none"
  /\ lpc \in {"lead", "write", "drain", "sleep"} => result = "none"
  /\ lpc = "tail" => result \in {"none", "failed"}
  /\ lpc \in {"lead", "write"} => fifo = 0
  /\ lpc = "tail" /\ result = "failed" => fifo = 0
  /\ lpc = "drain" \/ (lpc = "tail" /\ result = "none") => open
  /\ ~open \/ lpc \in {"failed", "sleep"} => link
  /\ heard + fifo <= frame

\* With a fitting mode: where RTS is up, and where it is down.
Levels ==
  /\ lpc = "idle" /\ rts => result = "zero" /\ fifo = 0
  /\ lpc \in {"failed", "sleep"} /\ fifo > 0 => ~rts
  /\ lpc \in {"lead", "write"} /\ open => rts
  /\ lpc = "drain" \/ (lpc = "tail" /\ result = "none") => rts

\* With ample time: the packet is under way, or was heard whole.
Passing ==
  /\ fifo > 0 => heard + fifo = frame /\ fifo + cnt = frame /\ copies = 0
  /\ fifo = 0 => copies = 1

Underway ==
  /\ lpc \in {"idle", "failed", "sleep"} => fifo = 0
  /\ lpc \in {"lead", "write", "failed", "sleep"} => copies = 0
  /\ lpc = "tail" /\ result = "failed" => copies = 0
  /\ lpc = "drain" \/ (lpc = "tail" /\ result = "none") => Passing
  /\ lpc = "idle" /\ result = "sent" => copies = 1

\* With a patient station: before it talks the call has ended.
Turn ==
  /\ peer # "listening" => fifo = 0
  /\ lpc \in {"lead", "write", "failed", "sleep"} => peer = "listening"
  /\ lpc = "tail" /\ result = "failed" => peer = "listening"
  /\ lpc = "drain" /\ peer # "listening" => peer = "due" /\ wait <= Lag
  /\ lpc = "tail" => cnt <= setup.switch
  /\ lpc = "tail" /\ peer # "listening" => peer = "due" /\ wait < cnt
  /\ lpc = "idle" /\ rts => peer = "listening"

LineInv ==
  /\ LineTypes /\ Stage
  /\ Fitting => Levels
  /\ Ample => Underway
  /\ Patient => Turn

LEMMA LineFacts ==
  /\ \A b \in Setups : b \in Setup
  /\ \A f \in Frames : f \in Nat /\ f > 0
  /\ {Sleep, Lag, Answer, MaxFaults} \subseteq Nat
  /\ DriveLevel \in BOOLEAN
  BY LineAssumption

LEMMA LineInitInv == LineInit => LineInv
<1> SUFFICES ASSUME LineInit PROVE LineInv
  OBVIOUS
<1>1. /\ setup \in Setups /\ link \in BOOLEAN
      /\ open \in BOOLEAN /\ rts \in BOOLEAN
  BY LineAssumption DEF LineInit
<1>2. LineTypes
  BY <1>1 DEF LineInit, LineTypes
<1> QED
  BY <1>2 DEF LineInit, LineInv, Stage, Levels, Underway, Turn

\* With a fitting mode the driver is enabled when RTS is up.
LEMMA FittingDriven ==
  ASSUME LineTypes, Fitting
  PROVE  Driven <=> rts
<1>1. DriveLevel = TRUE
  BY LineFacts DEF Fitting
<1>2. rts = TRUE <=> rts
  BY DEF LineTypes
<1> QED
  BY <1>1, <1>2 DEF Driven

\* The system does not change, and so neither do the conditions.
LEMMA SameSystem ==
  ASSUME setup' = setup
  PROVE  /\ Fitting' = Fitting /\ Ample' = Ample /\ Patient' = Patient
  BY DEF Fitting, Ample, Patient

\* With a fitting mode a call that polls or sleeps uses NONE or UP.
LEMMA FittingMode ==
  ASSUME LineTypes, Fitting
  PROVE  mode \in {"none", "up"} /\ (mode # "none" => "up" \in setup.modes)
  BY DEF LineTypes, Fitting

LEMMA SetRtsInv ==
  ASSUME LineInv, NEW m \in setup.modes, tta_rs485_set_rts(m)
  PROVE  LineInv'
<1> USE DEF LineInv, tta_rs485_set_rts
<1>1. setup' = setup /\ UNCHANGED <<link, lpc, frame, cnt, result, open, fifo,
                                    heard, copies, peer, wait, faults>>
  BY DEF fixed, peerVars
<1>2. LineTypes'
  BY <1>1 DEF LineTypes
<1>3. Stage'
  BY <1>1 DEF Stage
<1>4. ASSUME Fitting PROVE Levels'
  BY <1>1, <1>4 DEF Levels, Fitting
<1>5. ASSUME Ample PROVE Underway'
  BY <1>1, <1>5 DEF Underway
<1>6. ASSUME Patient PROVE Turn'
  BY <1>1, <1>6 DEF Turn, Patient, Fitting
<1> QED
  BY <1>1, <1>2, <1>3, <1>4, <1>5, <1>6, SameSystem

\* A new attempt begins.
LEMMA AttemptInv ==
  ASSUME LineInv,
         \/ \E f \in Frames : SendBegin(f)
         \/ LineSleepOver
         \/ Reconnect
  PROVE  LineInv'
<1> USE DEF LineInv
<1>1. /\ UNCHANGED <<setup, link, mode, peer, wait>>
      /\ lpc' = IF mode = "none" THEN "write" ELSE "lead"
      /\ cnt' = 0 /\ fifo' = 0
  BY DEF SendBegin, LineSleepOver, Reconnect, Assert, fixed, peerVars
<1>2. result' = "none" /\ frame' \in Frames /\ (~open' => link)
  BY DEF SendBegin, LineSleepOver, Reconnect, Assert, LineTypes, Stage
<1>3. open' \in BOOLEAN /\ rts' \in BOOLEAN
  <2>1. CASE \E f \in Frames : SendBegin(f)
    BY <2>1 DEF SendBegin, Assert, LineTypes
  <2>2. CASE LineSleepOver
    BY <2>2 DEF LineSleepOver, Assert, LineTypes
  <2>3. CASE Reconnect
    BY <2>3 DEF Reconnect, LineTypes
  <2> QED
    BY <2>1, <2>2, <2>3
<1>4. heard' \in Nat /\ copies' \in 0..2 /\ heard' <= frame'
  <2>1. CASE \E f \in Frames : SendBegin(f)
    BY <2>1, LineFacts DEF SendBegin
  <2>2. CASE LineSleepOver \/ Reconnect
    <3>1. UNCHANGED <<frame, heard, copies>>
      BY <2>2 DEF LineSleepOver, Reconnect, peerVars
    <3> QED
      BY <3>1 DEF LineTypes, Stage
  <2> QED
    BY <2>1, <2>2
<1>5. LineTypes' /\ Stage'
  BY <1>1, <1>2, <1>3, <1>4, LineFacts DEF LineTypes, Stage
<1>6. ASSUME Fitting PROVE Levels'
  <2>1. mode # "down"
    BY <1>6, FittingMode
  <2>2. open' => rts'
    <3>1. CASE \E f \in Frames : SendBegin(f)
      <4>1. open' = open /\ rts' = IF open THEN mode # "down" ELSE rts
        BY <3>1 DEF SendBegin, Assert
      <4> QED
        BY <2>1, <4>1
    <3>2. CASE LineSleepOver
      BY <2>1, <3>2 DEF LineSleepOver, Assert
    <3>3. CASE Reconnect
      BY <2>1, <3>3 DEF Reconnect
    <3> QED
      BY <3>1, <3>2, <3>3
  <2> QED
    BY <1>1, <2>2 DEF Levels
<1>7. ASSUME Ample PROVE Underway'
  BY <1>1, <1>2, <1>7
     DEF SendBegin, LineSleepOver, Reconnect, peerVars, Underway
<1>8. ASSUME Patient PROVE Turn'
  BY <1>1, <1>8 DEF SendBegin, LineSleepOver, Reconnect, Turn
<1> QED
  BY <1>1, <1>5, <1>6, <1>7, <1>8, SameSystem

LEMMA LeadOverInv ==
  ASSUME LineInv, LeadOver
  PROVE  LineInv'
<1> USE DEF LineInv, LeadOver, fixed, uartVars, peerVars
<1>1. LineTypes' /\ Stage'
  BY DEF LineTypes, Stage
<1>2. ASSUME Fitting PROVE Levels'
  BY <1>2 DEF Levels
<1>3. ASSUME Ample PROVE Underway'
  BY <1>3 DEF Underway
<1>4. ASSUME Patient PROVE Turn'
  BY <1>4 DEF Turn
<1> QED
  BY <1>1, <1>2, <1>3, <1>4, SameSystem

LEMMA WriteInv ==
  ASSUME LineInv, WriteOk \/ WriteFail
  PROVE  LineInv'
<1> USE DEF LineInv
<1>1. CASE WriteOk
  <2> USE <1>1 DEF WriteOk, fixed
  <2>1. LineTypes' /\ Stage'
    BY LineFacts DEF LineTypes, Stage
  <2>2. ASSUME Fitting PROVE Levels'
    BY <2>2, LineFacts DEF Levels, LineTypes
  <2>3. ASSUME Ample PROVE Underway'
    <3>1. frame \in Nat /\ frame > 0
      BY LineFacts DEF LineTypes
    <3> QED
      BY <2>3, <3>1 DEF Underway, Passing, Stage
  <2>4. ASSUME Patient PROVE Turn'
    BY <2>4, LineFacts DEF Turn, LineTypes, Setup
  <2> QED
    BY <2>1, <2>2, <2>3, <2>4, SameSystem
<1>2. CASE WriteFail
  <2> USE <1>2 DEF WriteFail, Return, fixed, uartVars, peerVars
  <2>1. LineTypes' /\ Stage'
    BY LineFacts DEF LineTypes, Stage
  <2>2. ASSUME Fitting PROVE Levels'
    BY <2>2 DEF Levels, Stage
  <2>3. ASSUME Ample PROVE Underway'
    BY <2>3 DEF Underway, Stage
  <2>4. ASSUME Patient PROVE Turn'
    BY <2>4, LineFacts DEF Turn, LineTypes, Setup
  <2> QED
    BY <2>1, <2>2, <2>3, <2>4, SameSystem
<1> QED
  BY <1>1, <1>2

LEMMA DrainInv ==
  ASSUME LineInv, DrainDone \/ DrainTimeout
  PROVE  LineInv'
<1> USE DEF LineInv
<1>1. /\ lpc = "drain" /\ ~rts' /\ rts' \in BOOLEAN
      /\ lpc' \in {"idle", "failed"} /\ (lpc' = "failed" => link)
      /\ result' \in {result, "sent", "failed"}
      /\ UNCHANGED <<setup, link, mode, frame, cnt, open, fifo, heard, copies,
                     peer, wait>>
  BY DEF DrainDone, DrainTimeout, Return, fixed, peerVars
<1>2. LineTypes' /\ Stage'
  BY <1>1 DEF LineTypes, Stage
<1>3. ASSUME Fitting PROVE Levels'
  BY <1>1, <1>3 DEF Levels
<1>4. ASSUME Ample PROVE Underway'
  <2>1. DrainDone /\ fifo = 0
    <3>1. SUFFICES ASSUME fifo # 0 PROVE FALSE
      BY <1>4 DEF DrainDone, DrainTimeout, Ample, LineTypes
    <3>2. cnt > setup.poll /\ fifo + cnt = frame
      BY <1>1, <1>4, <3>1
         DEF DrainDone, DrainTimeout, Ample, LineTypes, Underway, Passing
    <3>3. frame <= setup.poll + 1 /\ setup.poll \in Nat
      BY <1>1, <1>4, LineFacts DEF Ample, LineTypes, Setup
    <3> QED
      BY <3>1, <3>2, <3>3 DEF LineTypes
  <2> QED
    BY <1>1, <1>4, <2>1 DEF DrainDone, Return, Underway, Passing
<1>5. ASSUME Patient PROVE Turn'
  <2>1. lpc' = "failed" => fifo > 0
    BY <1>5 DEF DrainDone, DrainTimeout, Return, Patient
  <2> QED
    BY <1>1, <1>5, <2>1 DEF Turn
<1> QED
  BY <1>1, <1>2, <1>3, <1>4, <1>5, SameSystem

LEMMA TailOverInv ==
  ASSUME LineInv, TailOver
  PROVE  LineInv'
<1> USE DEF LineInv
<1>1. /\ lpc = "tail" /\ cnt = setup.switch
      /\ open /\ mode = "up" => ~rts'
      /\ rts' = IF open THEN mode # "up" ELSE rts
      /\ lpc' \in {"idle", "failed"}
      /\ lpc' = "failed" => result = "failed" /\ link
      /\ lpc' = "idle" => open
      /\ result' \in {result, "sent", "failed"}
      /\ result' = "sent" => result = "none"
      /\ UNCHANGED <<setup, link, mode, frame, cnt, open, fifo, heard, copies,
                     peer, wait>>
  BY DEF TailOver, Return, fixed, peerVars, Stage
<1>2. LineTypes' /\ Stage'
  BY <1>1 DEF LineTypes, Stage
<1>3. ASSUME Fitting PROVE mode = "up" /\ "up" \in setup.modes
  BY <1>1, <1>3, FittingMode DEF Stage
<1>4. ASSUME Fitting PROVE Levels'
  BY <1>1, <1>3, <1>4 DEF Levels, Stage
<1>5. ASSUME Ample PROVE Underway'
  <2>1. fifo = 0
    <3>1. frame <= setup.switch /\ setup.switch \in Nat
      BY <1>1, <1>3, <1>5, LineFacts DEF Ample, LineTypes, Setup
    <3>2. fifo > 0 => fifo + cnt = frame
      BY <1>1, <1>5 DEF Underway, Passing, Stage
    <3> QED
      BY <1>1, <3>1, <3>2 DEF LineTypes
  <2> QED
    BY <1>1, <1>5, <2>1 DEF Underway, Passing
<1>6. ASSUME Patient PROVE Turn'
  BY <1>1, <1>3, <1>6 DEF Turn, Patient
<1> QED
  BY <1>1, <1>2, <1>4, <1>5, <1>6, SameSystem

LEMMA SleepBeginInv ==
  ASSUME LineInv, SleepBegin
  PROVE  LineInv'
<1> USE DEF LineInv, SleepBegin, fixed, uartVars, peerVars
<1>1. LineTypes' /\ Stage'
  BY DEF LineTypes, Stage
<1>2. ASSUME Fitting PROVE Levels'
  BY <1>2 DEF Levels
<1>3. ASSUME Ample PROVE Underway'
  BY <1>3 DEF Underway
<1>4. ASSUME Patient PROVE Turn'
  BY <1>4 DEF Turn
<1> QED
  BY <1>1, <1>2, <1>3, <1>4, SameSystem

\* What a Tick does to the UART and to what the station has heard.
LEMMA Shifted ==
  ASSUME LineTypes, Stage, Shift
  PROVE  /\ fifo' = (IF fifo > 0 THEN fifo - 1 ELSE 0)
         /\ fifo' \in Nat /\ heard' \in Nat /\ copies' \in 0..2
         /\ peer' \in {"listening", "due", "talking"} /\ wait' \in Nat
         /\ heard' + fifo' <= frame
         /\ fifo = 0 => copies' = copies
         /\ fifo > 0 /\ Driven =>
              IF heard + 1 = frame
                THEN /\ fifo' = 0 /\ copies' = IF copies < 2 THEN copies + 1
                                                             ELSE copies
                     /\ peer' = "due" /\ wait' = 0
                ELSE heard' = heard + 1 /\ copies' = copies
<1>1. fifo' = IF fifo > 0 THEN fifo - 1 ELSE 0
  BY DEF Shift
<1>2. peer' \in {"listening", "due", "talking"} /\ wait' \in Nat
  <2>1. CASE peer = "listening"
    BY <2>1 DEF Shift, LineTypes
  <2>2. CASE peer = "due"
    BY <2>2 DEF Shift, LineTypes
  <2>3. CASE peer = "talking"
    BY <2>3 DEF Shift, LineTypes
  <2> QED
    BY <2>1, <2>2, <2>3 DEF LineTypes
<1>3. CASE ~(fifo > 0 /\ Driven)
  <2>1. heard' = 0 /\ copies' = copies
    BY <1>3 DEF Shift
  <2> QED
    BY <1>1, <1>2, <1>3, <2>1 DEF LineTypes, Stage
<1>4. CASE fifo > 0 /\ Driven /\ heard + 1 = frame
  BY <1>1, <1>4 DEF Shift, LineTypes, Stage
<1>5. CASE fifo > 0 /\ Driven /\ heard + 1 # frame
  <2>1. heard' = heard + 1 /\ copies' = copies
    BY <1>5 DEF Shift
  <2> QED
    BY <1>1, <1>2, <1>5, <2>1 DEF LineTypes, Stage
<1> QED
  BY <1>3, <1>4, <1>5

\* The station, when it does not hear the last byte of a packet.
LEMMA PeerMoves ==
  ASSUME LineTypes, Shift, ~(fifo > 0 /\ Driven /\ heard + 1 = frame)
  PROVE  /\ peer = "listening" => peer' = "listening"
         /\ peer = "due" =>
              IF wait < setup.patience THEN peer' = "due" /\ wait' = wait + 1
                                       ELSE peer' = "talking"
  BY DEF Shift, LineTypes

LEMMA TickInv ==
  ASSUME LineInv, Tick
  PROVE  LineInv'
<1> USE DEF LineInv
<1>1. /\ UNCHANGED <<setup, link, mode, lpc, frame, result, open, rts>>
      /\ cnt' = IF lpc = "idle" THEN cnt ELSE cnt + 1
      /\ Shift /\ MayWait
  BY DEF Tick, fixed
<1>2. LineTypes' /\ Stage'
  BY <1>1, Shifted DEF LineTypes, Stage
<1>3. fifo' = IF fifo > 0 THEN fifo - 1 ELSE 0
  BY <1>1, Shifted
<1>4. ASSUME Fitting PROVE Levels'
  BY <1>1, <1>3, <1>4 DEF Levels, LineTypes
<1>5. ASSUME Ample PROVE Underway'
  <2>1. CASE fifo = 0
    BY <1>1, <1>3, <1>5, <2>1, Shifted DEF Underway, Passing
  <2>2. CASE fifo > 0
    <3>1. /\ lpc = "drain" \/ (lpc = "tail" /\ result = "none")
          /\ Passing /\ Levels
      BY <1>5, <2>2 DEF Underway, Stage, LineTypes, Ample
    <3>2. Driven
      BY <1>5, <3>1, FittingDriven DEF Levels, Ample
    <3>3. heard + fifo = frame /\ fifo + cnt = frame /\ copies = 0
      BY <2>2, <3>1 DEF Passing
    <3>4. CASE heard + 1 = frame
      BY <1>1, <1>3, <2>2, <3>1, <3>2, <3>3, <3>4, Shifted
         DEF Underway, Passing, LineTypes
    <3>5. CASE heard + 1 # frame
      BY <1>1, <1>3, <2>2, <3>1, <3>2, <3>3, <3>5, Shifted
         DEF Underway, Passing, LineTypes
    <3> QED
      BY <3>4, <3>5
  <2> QED
    BY <2>1, <2>2 DEF LineTypes
<1>6. ASSUME Patient PROVE Turn'
  <2>1. /\ Fitting /\ Levels /\ Turn /\ Lag <= setup.patience
        /\ Lag \in Nat /\ setup.patience \in Nat /\ setup.switch \in Nat
    BY <1>6, LineFacts DEF Patient, LineTypes, Setup
  <2>2. lpc = "tail" => cnt < setup.switch /\ setup.switch <= setup.patience
    BY <1>1, <1>6, <2>1, FittingMode DEF MayWait, Patient, Stage
  <2>3. lpc = "drain" /\ fifo = 0 => peer = "due" /\ wait < Lag
    BY <1>1, <1>6 DEF MayWait, Patient, LineTypes
  <2>4. CASE fifo > 0 /\ Driven /\ heard + 1 = frame
    <3>1. lpc \in {"drain", "tail"} /\ ~(lpc = "tail" /\ result = "failed")
      BY <2>1, <2>4 DEF Levels, Stage, Driven, Fitting, LineTypes
    <3>2. fifo' = 0 /\ peer' = "due" /\ wait' = 0
      BY <1>1, <2>4, Shifted
    <3> QED
      BY <1>1, <2>1, <2>2, <3>1, <3>2 DEF Turn, LineTypes
  <2>5. CASE ~(fifo > 0 /\ Driven /\ heard + 1 = frame)
    <3>1. CASE peer = "listening"
      BY <1>1, <2>1, <2>2, <2>5, <3>1, PeerMoves DEF Turn, LineTypes
    <3>2. CASE peer = "due"
      BY <1>1, <1>3, <2>1, <2>2, <2>3, <2>5, <3>2, PeerMoves
         DEF Turn, LineTypes
    <3>3. CASE peer = "talking"
      BY <1>1, <1>3, <2>1, <3>3 DEF Turn, LineTypes
    <3> QED
      BY <3>1, <3>2, <3>3 DEF LineTypes
  <2> QED
    BY <2>4, <2>5
<1> QED
  BY <1>1, <1>2, <1>4, <1>5, <1>6, SameSystem

LEMMA LineStep == LineInv /\ [LineNext]_lineVars => LineInv'
<1> SUFFICES ASSUME LineInv, [LineNext]_lineVars PROVE LineInv'
  OBVIOUS
<1>1. CASE UNCHANGED lineVars
  BY <1>1 DEF lineVars, callVars, fixed, uartVars, peerVars, LineInv,
              LineTypes, Stage, Levels, Underway, Passing, Turn,
              Fitting, Ample, Patient
<1> QED
  BY <1>1, SetRtsInv, AttemptInv, LeadOverInv, WriteInv, DrainInv, TailOverInv,
     SleepBeginInv, TickInv
     DEF LineNext, Call

LEMMA LineAlways == LineSpec => []LineInv
  BY LineInitInv, LineStep, PTL DEF LineSpec

\* Between two calls of the application the line is free for the others, unless
\* write() failed and the call returned 0: for every packet, every delay and
\* every choice of modes that fits the driver.
THEOREM ReleasesLine == LineSpec => []LineReleased
<1>1. LineInv => LineReleased
  BY FittingDriven DEF LineInv, Levels, LineReleased
<1> QED
  BY <1>1, LineAlways, PTL

\* Every byte that leaves the UART goes into the line, whatever fails, for all
\* packets no longer than the time the code gives them.
THEOREM DrivesFrame == LineSpec => []FrameDriven
<1>1. LineInv => FrameDriven
  BY FittingDriven
     DEF LineInv, Underway, Levels, Stage, FrameDriven, Ample, LineTypes
<1> QED
  BY <1>1, LineAlways, PTL

\* The answer of a station that is as patient as the code is late never meets
\* an enabled driver.
THEOREM NeverCollides == LineSpec => []NoCollision
<1>1. LineInv => NoCollision
  BY FittingDriven DEF LineInv, Turn, NoCollision, Patient, LineTypes
<1> QED
  BY <1>1, LineAlways, PTL

\* A call that reports success has put its packet on the line once and whole,
\* however often it was repeated.
THEOREM SendsOnce == LineSpec => []SentOnce
<1>1. LineInv => SentOnce
  BY DEF LineInv, Underway, SentOnce
<1> QED
  BY <1>1, LineAlways, PTL

\* One of the faults that may happen happens.
SpendsFault == faults < MaxFaults /\ faults' = faults + 1

\* With ample time a call is repeated only after a failure, and it fails only
\* by a fault, or because the descriptor is not open since one.
RepeatsForFault ==
  Ample => /\ lpc' = "failed" => lpc = "failed" \/ result = "failed"
           /\ result' = "failed" => result = "failed" \/ ~open \/ SpendsFault
           /\ ~open' => ~open \/ SpendsFault

\* Link recovery repeats a send no more often than something failed: the drain
\* limit never runs out on a packet that is on its way.  This is the safety half
\* of SendReturns.
THEOREM RepeatsAreCaused == LineSpec => [][RepeatsForFault]_lineVars
<1>1. ASSUME LineInv, [LineNext]_lineVars PROVE [RepeatsForFault]_lineVars
  <2> SUFFICES ASSUME Ample, LineNext PROVE RepeatsForFault
    BY <1>1 DEF RepeatsForFault
  <2> USE DEF RepeatsForFault
  <2>1. ~DrainTimeout
    <3> SUFFICES ASSUME DrainTimeout PROVE FALSE
      OBVIOUS
    <3>1. lpc = "drain" /\ cnt > setup.poll /\ fifo # 0
      BY <1>1 DEF DrainTimeout, Ample, LineInv, LineTypes
    <3>2. fifo + cnt = frame
      BY <1>1, <3>1 DEF LineInv, LineTypes, Underway, Passing
    <3>3. frame <= setup.poll + 1 /\ setup.poll \in Nat
      BY <1>1, <3>1, LineFacts DEF Ample, LineInv, LineTypes, Setup
    <3> QED
      BY <1>1, <3>1, <3>2, <3>3 DEF LineInv, LineTypes
  <2>2. CASE \E m \in setup.modes : tta_rs485_set_rts(m)
    BY <2>2 DEF tta_rs485_set_rts
  <2>3. CASE \E k \in Frames : SendBegin(k)
    BY <2>3 DEF SendBegin, Assert
  <2>4. CASE LeadOver \/ WriteOk \/ SleepBegin \/ LineSleepOver
    BY <2>4 DEF LeadOver, WriteOk, SleepBegin, LineSleepOver, Assert, uartVars
  <2>5. CASE WriteFail
    BY <1>1, <2>5
       DEF WriteFail, Fails, SpendsFault, Return, uartVars, LineInv, LineTypes
  <2>6. CASE DrainDone
    BY <2>6 DEF DrainDone, Return
  <2>7. CASE TailOver
    BY <2>7 DEF TailOver, Return
  <2>8. CASE Reconnect
    BY <2>8 DEF Reconnect, Fails, SpendsFault
  <2>9. CASE Tick
    BY <2>9 DEF Tick
  <2> QED
    BY <2>1, <2>2, <2>3, <2>4, <2>5, <2>6, <2>7, <2>8, <2>9 DEF LineNext, Call
<1> QED
  BY <1>1, LineAlways, PTL DEF LineSpec

-----------------------------------------------------------------------------
(* The serial port.                                                        *)

PortTypes ==
  /\ ctx # Absent => ctx \in Request /\ ctx.parity # "?"
  /\ s \in {"minus", "open", "stale"}

\* An open port has its context's settings, and the context what it had before.
Held ==
  s = "open" =>
    /\ ctx # Absent
    /\ saved = Original /\ port = Settings(ctx)
    /\ pmode = "up" => ~prts

PortInv == PortTypes /\ Held /\ PortRestored

\* What can be asked for is what the settings say.
LEMMA SettingsAsAsked ==
  ASSUME NEW c \in Request, c.parity # "?"
  PROVE  /\ c.baud \in Speeds => Settings(c).speed = c.baud
         /\ c.data_bit \in 5..8 => Settings(c).csize = c.data_bit
         /\ "CSTOPB" \in Settings(c).cstopb <=> c.stop_bit = 2
         /\ "PARENB" \in Settings(c).parity <=> c.parity \in {"E", "O"}
         /\ "PARODD" \in Settings(c).parity <=> c.parity = "O"
<1>1. /\ c.data_bit \in 5..9 /\ c.stop_bit \in 1..2
      /\ c.parity \in {"N", "E", "O"}
  BY DEF Request
<1>2. /\ Settings(c).speed = IF c.baud \in Speeds THEN c.baud ELSE 9600
      /\ Settings(c).csize = IF c.data_bit \in 5..7 THEN c.data_bit ELSE 8
      /\ Settings(c).cstopb = IF c.stop_bit = 1 THEN {} ELSE {"CSTOPB"}
  BY DEF Settings
<1>3. Settings(c).parity = CASE c.parity = "N" -> {}
                             [] c.parity = "E" -> {"PARENB"}
                             [] OTHER -> {"PARENB", "PARODD"}
  BY DEF Settings
<1>4. /\ c.data_bit \in 5..8 => Settings(c).csize = c.data_bit
      /\ "CSTOPB" \in Settings(c).cstopb <=> c.stop_bit = 2
  BY <1>1, <1>2
<1>5. CASE c.parity = "N"
  BY <1>2, <1>3, <1>4, <1>5
<1>6. CASE c.parity = "E"
  BY <1>2, <1>3, <1>4, <1>6
<1>7. CASE c.parity = "O"
  BY <1>2, <1>3, <1>4, <1>7
<1> QED
  BY <1>1, <1>5, <1>6, <1>7

LEMMA PortInitInv == PortInit => PortInv
  BY DEF PortInit, PortInv, PortTypes, Held, PortRestored

LEMMA PortStep == PortInv /\ [PortNext]_portVars => PortInv'
<1> SUFFICES ASSUME PortInv, [PortNext]_portVars PROVE PortInv'
  OBVIOUS
<1> USE DEF PortInv, PortTypes, Held, PortRestored
<1>1. CASE UNCHANGED portVars
  BY <1>1 DEF portVars
<1>2. ASSUME NEW d \in Devices, NEW r \in Request, tta_new_rs485(d, r)
      PROVE  PortInv'
  BY <1>2 DEF tta_new_rs485
<1>3. CASE tta_connect
  BY <1>3 DEF tta_connect, Opened, NotOpened
<1>4. CASE tta_close
  BY <1>4 DEF tta_close
<1>5. CASE Recover
  BY <1>5 DEF Recover
<1>6. CASE tta_free
  BY <1>6 DEF tta_free
<1>7. ASSUME NEW m \in Modes, set_rts(m)
      PROVE  PortInv'
  BY <1>7 DEF set_rts
<1> QED
  BY <1>1, <1>2, <1>3, <1>4, <1>5, <1>6, <1>7 DEF PortNext

\* Whatever connects, reconnects and fails to, in any order, the port has its
\* own settings whenever the library does not hold it, and while it does those
\* that were asked of tta_new_rs485, with RTS leaving the bus to the others in
\* mode UP.
THEOREM PortIsKept == PortSpec => []PortKept
<1>1. PortInv => PortKept
  <2> SUFFICES ASSUME PortInv PROVE PortKept
    OBVIOUS
  <2>1. PortAsAsked
    BY SettingsAsAsked DEF PortInv, PortTypes, Held, PortAsAsked
  <2> QED
    BY <2>1 DEF PortInv, Held, PortKept, BusNotReserved
<1> QED
  BY PortInitInv, PortStep, <1>1, PTL DEF PortSpec

-----------------------------------------------------------------------------
(* The bus: packets and who sent them.                                     *)

Packet ==
  [dev : Slaves, cmd : Commands, reply : BOOLEAN, n : Nat, from : Stations]

BusTypes ==
  /\ in \in [Stations -> Seq(Packet)]
  /\ held \in [Slaves -> Packet \cup {None}]
  /\ n \in Nat
  /\ mpc \in {"idle", "wait", "sleep"}
  /\ req \in Packet \cup {None}
  /\ mpc # "idle" => req \in Packet

\* The slaves' applications look at the device identifier; stations and packets
\* can be told apart.
Apart == Filter /\ Master \notin Slaves /\ None \notin Packet

\* A station keeps a packet behind the others it has, or not at all.
LEMMA Appended ==
  ASSUME NEW q \in Seq(Packet), NEW p \in Packet
  PROVE  /\ Len(Append(q, p)) = Len(q) + 1
         /\ \A i \in 1..(Len(q) + 1) :
              /\ i # Len(q) + 1 => i \in 1..Len(q)
              /\ Append(q, p)[i] = IF i = Len(q) + 1 THEN p ELSE q[i]
<1>1. Len(q) \in Nat
  BY LenProperties
<1>2. Len(Append(q, p)) = Len(q) + 1
  BY AppendProperties
<1>3. \A i \in 1..(Len(q) + 1) :
        Append(q, p)[i] = IF i = Len(q) + 1 THEN p ELSE q[i]
  BY AppendProperties
<1> QED
  BY <1>1, <1>2, <1>3

LEMMA KeptOrNot ==
  ASSUME NEW q \in Seq(Packet), NEW p \in Packet
  PROVE  /\ Kept(q, p) \in {q, Append(q, p)}
         /\ Kept(q, p) \in Seq(Packet)
<1>1. Append(q, p) \in Seq(Packet)
  BY AppendProperties
<1>2. Kept(q, p) \in {q, Append(q, p)}
  BY DEF Kept
<1> QED
  BY <1>1, <1>2, AppendProperties

\* What is left of a station's packets is all but the first.
LEMMA FirstTaken ==
  ASSUME NEW q \in Seq(Packet), q # <<>>
  PROVE  /\ Head(q) \in Packet /\ Head(q) = q[1] /\ 1 \in 1..Len(q)
         /\ Tail(q) \in Seq(Packet) /\ Len(Tail(q)) = Len(q) - 1
         /\ \A i \in 1..Len(Tail(q)) :
              Tail(q)[i] = q[i + 1] /\ i + 1 \in 1..Len(q)
<1>1. Len(q) \in Nat /\ Len(q) # 0
  BY LenProperties, EmptySeq
<1>2. /\ Head(q) \in Packet /\ Head(q) = q[1]
      /\ Tail(q) \in Seq(Packet) /\ Len(Tail(q)) = Len(q) - 1
      /\ \A i \in 1..Len(Tail(q)) : Tail(q)[i] = q[i + 1]
  BY HeadTailProperties
<1> QED
  BY <1>1, <1>2

LEMMA StationsApart ==
  ASSUME Apart
  PROVE  /\ Master \in Stations
         /\ \A d \in Slaves : d \in Stations /\ d # Master
  BY DEF Apart, Stations

LEMMA BroadcastKept ==
  ASSUME BusTypes, NEW t \in Stations, NEW p \in Packet, Broadcast(t, p)
  PROVE  /\ in' \in [Stations -> Seq(Packet)]
         /\ \/ in' = in
            \/ \A u \in Stations :
                 in'[u] = IF u = t THEN in[u] ELSE Kept(in[u], p)
<1>1. \A u \in Stations : Kept(in[u], p) \in Seq(Packet)
  BY KeptOrNot DEF BusTypes
<1>2. \/ in' = in
      \/ in' = [u \in Stations |-> IF u = t THEN in[u] ELSE Kept(in[u], p)]
  BY DEF Broadcast
<1> QED
  BY <1>1, <1>2 DEF BusTypes

LEMMA RequestPacket ==
  ASSUME BusTypes, NEW d \in Slaves, NEW c \in Commands, RequestBegin(d, c)
  PROVE  req' \in Packet /\ req'.dev = d /\ Broadcast(Master, req')
BY DEF RequestBegin, BusTypes, Packet, Stations

\* Slave d puts the packet r on the line as the reply to the one it holds.
ReplyOf(d, r) ==
  /\ r \in Packet /\ r.from = d /\ r.reply
  /\ r.dev = d /\ r.cmd = held[d].cmd /\ r.n = held[d].n
  /\ \/ in' = in
     \/ \A u \in Stations : in'[u] = IF u = d THEN in[u] ELSE Kept(in[u], r)

LEMMA ReplyPacket ==
  ASSUME BusTypes, Apart, NEW d \in Slaves, tta_reply(d)
  PROVE  /\ held[d] \in Packet /\ held[d].dev = d /\ ~held[d].reply
         /\ in' \in [Stations -> Seq(Packet)]
         /\ \E r : ReplyOf(d, r)
<1> DEFINE reply == [held[d] EXCEPT !.reply = TRUE, !.from = d]
<1>1. held[d] \in Packet /\ held[d].dev = d /\ ~held[d].reply
  BY DEF tta_reply, Wanted, Apart, BusTypes
<1>2. /\ reply \in Packet /\ reply.from = d /\ reply.reply
      /\ reply.dev = d /\ reply.cmd = held[d].cmd /\ reply.n = held[d].n
  BY <1>1 DEF Packet, Stations
<1>3. Broadcast(d, reply)
  BY DEF tta_reply
<1> HIDE DEF reply
<1>4. /\ in' \in [Stations -> Seq(Packet)]
      /\ \/ in' = in
         \/ \A u \in Stations :
              in'[u] = IF u = d THEN in[u] ELSE Kept(in[u], reply)
  BY <1>2, <1>3, BroadcastKept, StationsApart
<1>5. ReplyOf(d, reply)
  BY <1>2, <1>4 DEF ReplyOf
<1> QED
  BY <1>1, <1>4, <1>5

LEMMA BusInitTypes == BusInit => BusTypes
  BY EmptySeq DEF BusInit, BusTypes

LEMMA BusTypesStep ==
  ASSUME Apart, BusTypes, [BusNext]_busVars
  PROVE  BusTypes'
<1>1. CASE UNCHANGED busVars
  BY <1>1 DEF busVars, BusTypes
<1>2. ASSUME NEW d \in Slaves, NEW c \in Commands, RequestBegin(d, c)
      PROVE  BusTypes'
  <2>1. req' \in Packet /\ in' \in [Stations -> Seq(Packet)]
    BY <1>2, RequestPacket, BroadcastKept, StationsApart
  <2> QED
    BY <1>2, <2>1 DEF RequestBegin, BusTypes
<1>3. CASE MasterReceive
  <2>1. in[Master] \in Seq(Packet) /\ in[Master] # <<>>
    BY <1>3, StationsApart DEF MasterReceive, BusTypes
  <2>2. in' \in [Stations -> Seq(Packet)]
    BY <1>3, <2>1, FirstTaken, EmptySeq DEF MasterReceive, BusTypes
  <2> QED
    BY <1>3, <2>2 DEF MasterReceive, Failed, BusTypes
<1>4. CASE Timeout
  BY <1>4 DEF Timeout, Failed, BusTypes
<1>5. CASE SleepOver
  BY <1>5, EmptySeq DEF SleepOver, BusTypes
<1>6. ASSUME NEW d \in Slaves, SlaveReceive(d)
      PROVE  BusTypes'
  <2>1. in[d] \in Seq(Packet) /\ in[d] # <<>>
    BY <1>6, StationsApart DEF SlaveReceive, BusTypes
  <2>2. Head(in[d]) \in Packet /\ Tail(in[d]) \in Seq(Packet)
    BY <2>1, FirstTaken
  <2>3. in' \in [Stations -> Seq(Packet)]
    BY <1>6, <2>2 DEF SlaveReceive, BusTypes
  <2>4. held' \in [Slaves -> Packet \cup {None}]
    BY <1>6, <2>2 DEF SlaveReceive, BusTypes
  <2> QED
    BY <1>6, <2>3, <2>4 DEF SlaveReceive, BusTypes
<1>7. ASSUME NEW d \in Slaves, SlaveIgnores(d)
      PROVE  BusTypes'
  BY <1>7 DEF SlaveIgnores, BusTypes
<1>8. ASSUME NEW d \in Slaves, tta_reply(d)
      PROVE  BusTypes'
  <2>1. in' \in [Stations -> Seq(Packet)]
    BY <1>8, ReplyPacket
  <2> QED
    BY <1>8, <2>1 DEF tta_reply, BusTypes
<1> QED
  BY <1>1, <1>2, <1>3, <1>4, <1>5, <1>6, <1>7, <1>8
     DEF BusNext, MasterStep, SlaveStep

-----------------------------------------------------------------------------
(* From the slave that was asked.                                          *)

\* What reaches the master was sent by the device it names.
FromDevice ==
  \A i \in 1..Len(in[Master]) : in[Master][i].from = in[Master][i].dev

LEMMA FewerFromDevice ==
  ASSUME BusTypes, FromDevice, Apart,
         in'[Master] = <<>>
           \/ (in[Master] # <<>> /\ in'[Master] = Tail(in[Master]))
  PROVE  FromDevice'
<1>1. in[Master] \in Seq(Packet)
  BY StationsApart DEF BusTypes
<1>2. CASE in'[Master] = <<>>
  BY <1>2, EmptySeq DEF FromDevice
<1>3. CASE in[Master] # <<>> /\ in'[Master] = Tail(in[Master])
  BY <1>1, <1>3, FirstTaken DEF FromDevice
<1> QED
  BY <1>2, <1>3

LEMMA FromDeviceStep ==
  ASSUME Apart, BusTypes, FromDevice, FromRequestedSlave,
         [BusNext]_busVars
  PROVE  FromDevice' /\ FromRequestedSlave'
<1> USE StationsApart
<1>1. CASE UNCHANGED busVars
  BY <1>1 DEF busVars, FromDevice, FromRequestedSlave
<1>2. ASSUME NEW d \in Slaves, NEW c \in Commands, RequestBegin(d, c)
      PROVE  FromDevice' /\ FromRequestedSlave'
  <2>1. in'[Master] = in[Master]
    BY <1>2, RequestPacket, BroadcastKept
  <2> QED
    BY <1>2, <2>1 DEF RequestBegin, FromDevice, FromRequestedSlave
<1>3. CASE MasterReceive
  <2>1. in[Master] \in Seq(Packet) /\ in[Master] # <<>>
        /\ in'[Master] = Tail(in[Master])
    BY <1>3 DEF MasterReceive, BusTypes
  <2>2. FromDevice'
    BY <2>1, FewerFromDevice
  <2>3. Head(in[Master]).from = Head(in[Master]).dev
    BY <2>1, FirstTaken DEF FromDevice
  <2>4. FromRequestedSlave'
    BY <1>3, <2>3 DEF MasterReceive, Failed, Confirmed, FromRequestedSlave
  <2> QED
    BY <2>2, <2>4
<1>4. CASE Timeout
  BY <1>4 DEF Timeout, Failed, FromDevice, FromRequestedSlave
<1>5. CASE SleepOver
  <2>1. in'[Master] = <<>>
    BY <1>5 DEF SleepOver, BusTypes
  <2> QED
    BY <1>5, <2>1, FewerFromDevice DEF SleepOver, FromRequestedSlave
<1>6. ASSUME NEW d \in Slaves, SlaveReceive(d) \/ SlaveIgnores(d)
      PROVE  FromDevice' /\ FromRequestedSlave'
  BY <1>6
     DEF SlaveReceive, SlaveIgnores, BusTypes, FromDevice, FromRequestedSlave
<1>7. ASSUME NEW d \in Slaves, tta_reply(d)
      PROVE  FromDevice' /\ FromRequestedSlave'
  <2>1. in[Master] \in Seq(Packet)
    BY DEF BusTypes
  <2>2. PICK r : ReplyOf(d, r)
    BY <1>7, ReplyPacket
  <2>3. in'[Master] = in[Master] \/ in'[Master] = Append(in[Master], r)
    BY <2>1, <2>2, KeptOrNot DEF ReplyOf
  <2>4. FromDevice'
    <3>1. CASE in'[Master] = in[Master]
      BY <3>1 DEF FromDevice
    <3>2. CASE in'[Master] = Append(in[Master], r)
      <4> DEFINE q == in[Master]
                 more == Append(q, r)
      <4>1. /\ Len(more) = Len(q) + 1
            /\ \A i \in 1..(Len(q) + 1) :
                 /\ i # Len(q) + 1 => i \in 1..Len(q)
                 /\ more[i] = IF i = Len(q) + 1 THEN r ELSE q[i]
        BY <2>1, <2>2, Appended DEF ReplyOf
      <4>2. \A i \in 1..Len(more) : more[i].from = more[i].dev
        BY <2>2, <4>1 DEF FromDevice, ReplyOf
      <4> HIDE DEF more
      <4>3. in'[Master] = more
        BY <3>2 DEF more
      <4> QED
        BY <4>2, <4>3 DEF FromDevice
    <3> QED
      BY <2>3, <3>1, <3>2
  <2>5. FromRequestedSlave'
    BY <1>7 DEF tta_reply, FromRequestedSlave
  <2> QED
    BY <2>4, <2>5
<1> QED
  BY <1>1, <1>2, <1>3, <1>4, <1>5, <1>6, <1>7
     DEF BusNext, MasterStep, SlaveStep

\* The response tta_request returns on an RS-485 line was sent by the slave it
\* asked: for any number of slaves and requests, packets lost, answers late
\* without limit, and with or without error recovery.
THEOREM ResponseFromRequestedSlave ==
  Apart => (BusSpec => []FromRequestedSlave)
<1> SUFFICES ASSUME Apart PROVE BusSpec => []FromRequestedSlave
  OBVIOUS
<1> DEFINE Inv == BusTypes /\ FromDevice /\ FromRequestedSlave
<1>1. BusInit => Inv
  <2>1. BusInit => in[Master] = <<>>
    BY StationsApart DEF BusInit
  <2> QED
    BY <2>1, BusInitTypes, EmptySeq DEF BusInit, FromDevice, FromRequestedSlave
<1>2. Inv /\ [BusNext]_busVars => Inv'
  BY BusTypesStep, FromDeviceStep
<1> QED
  BY <1>1, <1>2, PTL DEF BusSpec

-----------------------------------------------------------------------------
(* The answer to this request.                                             *)

\* The packet p is a query for slave d; it is about the request.
Query(d, p) == p.dev = d /\ ~p.reply
This(p) == p.n = req.n /\ p.dev = req.dev /\ p.cmd = req.cmd

NoQuery(d, q) == \A i \in 1..Len(q) : ~Query(d, q[i])
OneQuery(d, q) ==
  \E i \in 1..Len(q) :
    /\ This(q[i])
    /\ \A j \in 1..Len(q) : j # i => ~Query(d, q[j])

NotHeld(d) == held[d] # None => ~Query(d, held[d])

\* What is under way for the master: nothing, its request, the request that its
\* slave holds, or the answer.  Replies that slaves overhear do not matter.
Quiet == /\ in[Master] = <<>>
         /\ \A d \in Slaves : NoQuery(d, in[d]) /\ NotHeld(d)
Asked == /\ in[Master] = <<>> /\ \A e \in Slaves : NotHeld(e)
         /\ \E d \in Slaves : /\ OneQuery(d, in[d])
                              /\ \A e \in Slaves \ {d} : NoQuery(e, in[e])
Taken == /\ in[Master] = <<>> /\ \A e \in Slaves : NoQuery(e, in[e])
         /\ \E d \in Slaves : /\ held[d] # None /\ This(held[d])
                              /\ \A e \in Slaves \ {d} : NotHeld(e)
Answered == /\ \A d \in Slaves : NoQuery(d, in[d]) /\ NotHeld(d)
            /\ \E p \in Packet : in[Master] = <<p>> /\ This(p)

\* As long as no answer was late.
Settled ==
  ~late => IF mpc = "idle" THEN Quiet
                           ELSE Quiet \/ Asked \/ Taken \/ Answered

LEMMA NoQueryKept ==
  ASSUME NEW q \in Seq(Packet), NEW p \in Packet, NEW d \in Slaves,
         NoQuery(d, q), ~Query(d, p)
  PROVE  NoQuery(d, Kept(q, p))
<1>1. CASE Kept(q, p) = q
  BY <1>1
<1>2. CASE Kept(q, p) = Append(q, p)
  <2>1. \A i \in 1..Len(Append(q, p)) : ~Query(d, Append(q, p)[i])
    BY Appended DEF NoQuery
  <2> QED
    BY <1>2, <2>1 DEF NoQuery
<1> QED
  BY <1>1, <1>2, KeptOrNot

\* Taking the first packet of a station.
LEMMA QueryTaken ==
  ASSUME NEW q \in Seq(Packet), q # <<>>, NEW d \in Slaves
  PROVE  /\ NoQuery(d, q) => NoQuery(d, Tail(q)) /\ ~Query(d, Head(q))
         /\ OneQuery(d, q) =>
              \/ This(Head(q)) /\ NoQuery(d, Tail(q))
              \/ OneQuery(d, Tail(q)) /\ ~Query(d, Head(q))
<1>1. NoQuery(d, q) => NoQuery(d, Tail(q)) /\ ~Query(d, Head(q))
  BY FirstTaken DEF NoQuery
<1>2. ASSUME OneQuery(d, q)
      PROVE  \/ This(Head(q)) /\ NoQuery(d, Tail(q))
             \/ OneQuery(d, Tail(q)) /\ ~Query(d, Head(q))
  <2>1. PICK i \in 1..Len(q) :
          This(q[i]) /\ \A j \in 1..Len(q) : j # i => ~Query(d, q[j])
    BY <1>2 DEF OneQuery
  <2>2. CASE i = 1
    <3>1. \A j \in 1..Len(Tail(q)) : ~Query(d, q[j + 1])
      BY <2>1, <2>2, FirstTaken
    <3> QED
      BY <2>1, <2>2, <3>1, FirstTaken DEF NoQuery
  <2>3. CASE i # 1
    <3>1. i - 1 \in 1..Len(Tail(q)) /\ Tail(q)[i - 1] = q[i]
      BY <2>3, FirstTaken, LenProperties
    <3>2. \A j \in 1..Len(Tail(q)) : j # i - 1 => ~Query(d, Tail(q)[j])
      BY <2>1, FirstTaken
    <3>3. ~Query(d, Head(q))
      BY <2>1, <2>3, FirstTaken
    <3> QED
      BY <2>1, <3>1, <3>2, <3>3 DEF OneQuery
  <2> QED
    BY <2>2, <2>3
<1> QED
  BY <1>1, <1>2

LEMMA RequestSettled ==
  ASSUME Apart, BusTypes, Settled,
         NEW d \in Slaves, NEW c \in Commands, RequestBegin(d, c)
  PROVE  Settled'
<1> SUFFICES ASSUME ~late PROVE (Quiet \/ Asked)'
  BY DEF RequestBegin, Settled
<1> USE StationsApart
<1>1. Quiet /\ held' = held
  BY DEF RequestBegin, Settled
<1>3. /\ req' \in Packet /\ req'.dev = d /\ in'[Master] = in[Master]
      /\ in' = in \/ \A e \in Slaves : in'[e] = Kept(in[e], req')
  BY RequestPacket, BroadcastKept
<1>4. \A e \in Slaves : NotHeld(e)'
  BY <1>1 DEF Quiet, NotHeld
<1>5. \A e \in Slaves \ {d} : NoQuery(e, in'[e])
  BY <1>1, <1>3, NoQueryKept DEF Quiet, BusTypes, Query
<1>6. CASE in'[d] = in[d]
  BY <1>1, <1>3, <1>4, <1>5, <1>6 DEF Quiet, NoQuery, Query
<1>7. CASE in'[d] = Append(in[d], req')
  <2>1. in[d] \in Seq(Packet) /\ NoQuery(d, in[d])
    BY <1>1 DEF Quiet, BusTypes
  <2> DEFINE q == in[d]
             more == Append(q, req')
  <2>2. /\ Len(more) = Len(q) + 1 /\ Len(q) \in Nat
        /\ \A j \in 1..(Len(q) + 1) :
             /\ j # Len(q) + 1 => j \in 1..Len(q)
             /\ more[j] = IF j = Len(q) + 1 THEN req' ELSE q[j]
    BY <1>3, <2>1, Appended, LenProperties
  <2>3. /\ Len(q) + 1 \in 1..Len(more) /\ more[Len(q) + 1] = req'
        /\ \A j \in 1..Len(more) : j # Len(q) + 1 => ~Query(d, more[j])
    BY <2>1, <2>2 DEF NoQuery
  <2> HIDE DEF more
  <2>4. in'[d] = more
    BY <1>7 DEF more
  <2>5. OneQuery(d, in[d])'
    BY <2>3, <2>4 DEF OneQuery, This, Query
  <2> QED
    BY <1>1, <1>3, <1>4, <1>5, <2>5 DEF Quiet, Asked, NoQuery, Query
<1> QED
  BY <1>3, <1>6, <1>7, KeptOrNot DEF BusTypes

\* The master's packet is the answer it waits for, and is the only one.
LEMMA MasterSettled ==
  ASSUME Apart, BusTypes, Settled, MasterStep
  PROVE  Settled'
<1> SUFFICES ASSUME ~late' PROVE Settled'
  BY DEF Settled
<1> USE StationsApart
<1>1. CASE MasterReceive
  <2>1. ~late /\ Answered
    BY <1>1 DEF MasterReceive, Settled, Quiet, Asked, Taken
  <2>2. PICK p \in Packet : in[Master] = <<p>> /\ This(p)
    BY <2>1 DEF Answered
  <2>3. Head(in[Master]) = p /\ Tail(in[Master]) = <<>>
    BY <2>2
  <2>4. mpc' = "idle"
    BY <1>1, <2>2, <2>3 DEF MasterReceive, Confirmed, This
  <2>5. in'[Master] = <<>> /\ \A d \in Slaves : in'[d] = in[d]
    BY <1>1, <2>3 DEF MasterReceive, BusTypes
  <2> QED
    BY <1>1, <2>1, <2>4, <2>5
       DEF MasterReceive, Answered, Settled, Quiet, NoQuery, NotHeld, Query
<1>2. CASE Timeout
  <2>1. /\ ~late /\ mpc = "wait" /\ in[Master] = <<>> /\ (recovery \/ Silent)
        /\ mpc' = (IF recovery THEN "sleep" ELSE "idle")
        /\ UNCHANGED <<req, in, held>>
    BY <1>2 DEF Timeout, Failed
  <2>2. CASE recovery
    BY <2>1, <2>2 DEF Settled, Quiet, Asked, Taken, Answered, NoQuery,
                      OneQuery, NotHeld, Query, This
  <2>3. CASE Silent
    BY <2>1, <2>3, EmptySeq DEF Settled, Silent, Quiet, NoQuery, NotHeld
  <2> QED
    BY <2>1, <2>2, <2>3
<1>3. CASE SleepOver
  <2>1. /\ Silent /\ in'[Master] = <<>> /\ held' = held
        /\ \A d \in Slaves : in'[d] = in[d]
    BY <1>3 DEF SleepOver, BusTypes
  <2> QED
    BY <1>3, <2>1, EmptySeq
       DEF SleepOver, Settled, Silent, Quiet, NoQuery, NotHeld
<1> QED
  BY <1>1, <1>2, <1>3 DEF MasterStep

LEMMA ReceiveSettled ==
  ASSUME Apart, BusTypes, Settled, NEW d \in Slaves, SlaveReceive(d)
  PROVE  Settled'
<1> SUFFICES ASSUME ~late PROVE Settled'
  BY DEF SlaveReceive, Settled
<1> USE StationsApart
<1> DEFINE p == Head(in[d])
<1>1. /\ in[d] \in Seq(Packet) /\ in[d] # <<>> /\ held[d] = None
      /\ in'[d] = Tail(in[d]) /\ in'[Master] = in[Master]
      /\ \A e \in Slaves \ {d} : in'[e] = in[e]
      /\ held' = held \/ held' = [held EXCEPT ![d] = p]
      /\ UNCHANGED <<mpc, req, late>>
  BY DEF SlaveReceive, BusTypes
<1>2. /\ \A e \in Slaves \ {d} : held'[e] = held[e]
      /\ held'[d] = None \/ held'[d] = p
  BY <1>1 DEF BusTypes
<1>3. p \in Packet
  BY <1>1, FirstTaken
<1> HIDE DEF p
<1>4. /\ NoQuery(d, in[d]) => NoQuery(d, in'[d]) /\ NotHeld(d)'
      /\ OneQuery(d, in[d]) =>
           \/ This(p) /\ NoQuery(d, in'[d])
           \/ OneQuery(d, in'[d]) /\ NotHeld(d)'
  BY <1>1, <1>2, QueryTaken DEF NotHeld, Query, p
<1>5. /\ \A e \in Slaves \ {d} : NotHeld(e) => NotHeld(e)'
      /\ \A e \in Slaves : NoQuery(e, in'[e]) => NoQuery(e, in[e])'
      /\ \A e \in Slaves : OneQuery(e, in'[e]) => OneQuery(e, in[e])'
  BY <1>1, <1>2 DEF NotHeld, NoQuery, OneQuery, Query, This
<1>6. CASE Quiet
  <2>1. Quiet'
    BY <1>1, <1>4, <1>5, <1>6 DEF Quiet
  <2> QED
    BY <1>1, <2>1 DEF Settled
<1>7. CASE Asked /\ mpc # "idle"
  <2>1. PICK a \in Slaves : /\ OneQuery(a, in[a])
                            /\ \A e \in Slaves \ {a} : NoQuery(e, in[e])
    BY <1>7 DEF Asked
  <2>2. \A e \in Slaves \ {a} : NoQuery(e, in[e])'
    BY <1>1, <1>4, <1>5, <2>1
  <2>3. \A e \in Slaves \ {d} : NotHeld(e)'
    BY <1>5, <1>7 DEF Asked
  <2>4. CASE a # d
    <3>1. OneQuery(a, in[a])'
      BY <1>1, <1>5, <2>1, <2>4
    <3>2. NotHeld(d)'
      BY <1>4, <2>1, <2>4
    <3>3. Asked'
      BY <1>1, <1>7, <2>2, <2>3, <3>1, <3>2 DEF Asked
    <3> QED
      BY <1>1, <1>7, <3>3 DEF Settled
  <2>5. CASE a = d /\ OneQuery(d, in'[d]) /\ NotHeld(d)'
    <3>1. Asked'
      BY <1>1, <1>5, <1>7, <2>2, <2>3, <2>5 DEF Asked
    <3> QED
      BY <1>1, <1>7, <3>1 DEF Settled
  <2>6. CASE a = d /\ This(p) /\ NoQuery(d, in'[d])
    <3>1. \A e \in Slaves : NoQuery(e, in[e])'
      BY <1>5, <2>2, <2>6
    <3>2. CASE held'[d] = None
      <4>1. Quiet'
        BY <1>1, <1>7, <2>3, <3>1, <3>2 DEF Asked, Quiet, NotHeld
      <4> QED
        BY <1>1, <1>7, <4>1 DEF Settled
    <3>3. CASE held'[d] = p /\ p # None
      <4>1. This(held[d])'
        BY <1>1, <2>6, <3>3 DEF This
      <4>2. Taken'
        BY <1>1, <1>7, <2>3, <3>1, <3>3, <4>1 DEF Asked, Taken
      <4> QED
        BY <1>1, <1>7, <4>2 DEF Settled
    <3> QED
      BY <1>2, <1>3, <3>2, <3>3 DEF Apart
  <2> QED
    BY <1>4, <2>1, <2>4, <2>5, <2>6
<1>8. CASE Taken /\ mpc # "idle"
  <2>1. PICK a \in Slaves : /\ held[a] # None /\ This(held[a])
                            /\ \A e \in Slaves \ {a} : NotHeld(e)
    BY <1>8 DEF Taken
  <2>2. a # d /\ held'[a] = held[a] /\ This(held[a])'
    BY <1>1, <1>2, <2>1 DEF This
  <2>3. \A e \in Slaves : NoQuery(e, in[e])'
    BY <1>1, <1>4, <1>5, <1>8 DEF Taken
  <2>4. \A e \in Slaves \ {a} : NotHeld(e)'
    BY <1>4, <1>5, <1>8, <2>1 DEF Taken
  <2>5. Taken'
    BY <1>1, <1>8, <2>1, <2>2, <2>3, <2>4 DEF Taken
  <2> QED
    BY <1>1, <1>8, <2>5 DEF Settled
<1>9. CASE Answered /\ mpc # "idle"
  <2>1. \A e \in Slaves : NoQuery(e, in[e])' /\ NotHeld(e)'
    BY <1>1, <1>4, <1>5, <1>9 DEF Answered
  <2>2. Answered'
    BY <1>1, <1>9, <2>1 DEF Answered, This
  <2> QED
    BY <1>1, <1>9, <2>2 DEF Settled
<1> QED
  BY <1>6, <1>7, <1>8, <1>9 DEF Settled

LEMMA IgnoreSettled ==
  ASSUME Apart, BusTypes, Settled, NEW d \in Slaves, SlaveIgnores(d)
  PROVE  Settled'
<1> SUFFICES ASSUME ~late PROVE Settled'
  BY DEF SlaveIgnores, Settled
<1>1. /\ held[d] # None /\ ~Query(d, held[d])
      /\ held' = [held EXCEPT ![d] = None]
      /\ UNCHANGED <<mpc, req, in, late>>
  BY DEF SlaveIgnores, Wanted, Apart, Query
<1>2. held'[d] = None /\ \A e \in Slaves \ {d} : held'[e] = held[e]
  BY <1>1 DEF BusTypes
<1>3. /\ \A e \in Slaves : NotHeld(e) => NotHeld(e)'
      /\ NotHeld(d) /\ NotHeld(d)'
      /\ \A e \in Slaves : NoQuery(e, in[e]) => NoQuery(e, in[e])'
      /\ \A e \in Slaves : OneQuery(e, in[e]) => OneQuery(e, in[e])'
  BY <1>1, <1>2 DEF NotHeld, NoQuery, OneQuery, Query, This
<1>4. CASE Quiet
  BY <1>1, <1>3, <1>4 DEF Settled, Quiet
<1>5. CASE Asked /\ mpc # "idle"
  BY <1>1, <1>3, <1>5 DEF Settled, Asked
<1>6. CASE Taken /\ mpc # "idle"
  <2>1. PICK a \in Slaves : /\ held[a] # None /\ This(held[a])
                            /\ \A e \in Slaves \ {a} : NotHeld(e)
    BY <1>6 DEF Taken
  <2>2. \A e \in Slaves : NoQuery(e, in[e])'
    BY <1>3, <1>6 DEF Taken
  <2>3. CASE a = d
    <3>1. Quiet'
      BY <1>1, <1>3, <1>6, <2>1, <2>2, <2>3 DEF Quiet, Taken
    <3> QED
      BY <1>1, <1>6, <3>1 DEF Settled
  <2>4. CASE a # d
    <3>1. held'[a] # None /\ This(held[a])'
      BY <1>1, <1>2, <2>1, <2>4 DEF This
    <3>2. Taken'
      BY <1>1, <1>3, <1>6, <2>1, <2>2, <3>1 DEF Taken
    <3> QED
      BY <1>1, <1>6, <3>2 DEF Settled
  <2> QED
    BY <2>3, <2>4
<1>7. CASE Answered /\ mpc # "idle"
  <2>1. Answered'
    BY <1>1, <1>3, <1>7 DEF Answered, This
  <2> QED
    BY <1>1, <1>7, <2>1 DEF Settled
<1> QED
  BY <1>4, <1>5, <1>6, <1>7 DEF Settled

\* A slave that replies held the request, and its reply is the only answer.
LEMMA ReplySettled ==
  ASSUME Apart, BusTypes, Settled, NEW d \in Slaves, tta_reply(d)
  PROVE  Settled'
<1> SUFFICES ASSUME ~late PROVE Settled'
  BY DEF tta_reply, Settled
<1> USE StationsApart
<1>1. /\ held[d] \in Packet /\ held[d] # None /\ Query(d, held[d])
      /\ held' = [held EXCEPT ![d] = None] /\ UNCHANGED <<mpc, req, late>>
  BY ReplyPacket DEF tta_reply, Query, Apart
<1>2. PICK r : ReplyOf(d, r)
  BY ReplyPacket
<1>3. mpc # "idle" /\ Taken
  <2>1. ~NotHeld(d)
    BY <1>1 DEF NotHeld
  <2> QED
    BY <2>1 DEF Settled, Quiet, Asked, Answered
<1>4. /\ This(held[d]) /\ in[Master] = <<>>
      /\ \A e \in Slaves : NoQuery(e, in[e])
      /\ \A e \in Slaves \ {d} : NotHeld(e)
  BY <1>1, <1>3 DEF Taken, NotHeld
<1>5. \A e \in Slaves : NotHeld(e)'
  <2>1. held'[d] = None /\ \A e \in Slaves \ {d} : held'[e] = held[e]
    BY <1>1 DEF BusTypes
  <2> QED
    BY <1>4, <2>1 DEF NotHeld, Query
<1>6. CASE in' = in
  <2>1. Quiet'
    BY <1>4, <1>5, <1>6 DEF Quiet, NoQuery, Query
  <2> QED
    BY <1>1, <1>3, <2>1 DEF Settled
<1>7. CASE \A u \in Stations : in'[u] = IF u = d THEN in[u] ELSE Kept(in[u], r)
  <2>1. ASSUME NEW e \in Slaves PROVE NoQuery(e, in'[e])
    <3>1. e \in Stations /\ in[e] \in Seq(Packet) /\ NoQuery(e, in[e])
      BY <1>2, <1>4 DEF BusTypes
    <3>2. r \in Packet /\ ~Query(e, r)
      BY <1>2, <1>4 DEF Query, ReplyOf
    <3>3. in'[e] = in[e] \/ in'[e] = Kept(in[e], r)
      BY <1>7, <3>1
    <3> QED
      BY <3>1, <3>2, <3>3, NoQueryKept
  <2>2. in'[Master] = <<r>>
    <3>1. in'[Master] = Kept(<<>>, r)
      BY <1>4, <1>7
    <3> QED
      BY <3>1, BusAssumption DEF Kept
  <2>3. \A e \in Slaves : NoQuery(e, in[e])'
    BY <2>1 DEF NoQuery, Query
  <2>4. r \in Packet /\ This(r)'
    BY <1>1, <1>2, <1>4 DEF ReplyOf, This, Query
  <2>5. Answered'
    BY <1>5, <2>2, <2>3, <2>4 DEF Answered
  <2> QED
    BY <1>1, <1>3, <2>5 DEF Settled
<1> QED
  BY <1>2, <1>6, <1>7 DEF ReplyOf

LEMMA SettledStep ==
  ASSUME Apart, BusTypes, Settled, [BusNext]_busVars
  PROVE  Settled'
<1>1. CASE UNCHANGED busVars
  BY <1>1 DEF busVars, Settled, Quiet, Asked, Taken, Answered, NoQuery,
              OneQuery, NotHeld, Query, This
<1> QED
  BY <1>1, RequestSettled, MasterSettled, ReceiveSettled, IgnoreSettled,
     ReplySettled
     DEF BusNext, SlaveStep

LEMMA AnswersStep ==
  ASSUME Apart, BusTypes, Settled, AnswersThisRequest, [BusNext]_busVars
  PROVE  AnswersThisRequest'
<1>1. CASE MasterReceive
  <2> SUFFICES ASSUME ~late PROVE accepted' # None => accepted'.n = req'.n
    BY <1>1 DEF MasterReceive, AnswersThisRequest
  <2>1. Answered
    BY <1>1 DEF MasterReceive, Settled, Quiet, Asked, Taken
  <2>2. PICK p \in Packet : in[Master] = <<p>> /\ This(p)
    BY <2>1 DEF Answered
  <2>3. Head(in[Master]) = p /\ req' = req
    BY <1>1, <2>2 DEF MasterReceive
  <2>4. accepted' = p
    BY <1>1, <2>2, <2>3 DEF MasterReceive, Confirmed, This
  <2> QED
    BY <2>2, <2>3, <2>4 DEF This
<1>2. CASE ~MasterReceive
  <2>1. /\ (accepted' = accepted /\ req' = req) \/ accepted' = None
        /\ late => late'
    <3>1. CASE UNCHANGED busVars
      BY <3>1 DEF busVars
    <3>2. ASSUME NEW d \in Slaves, NEW c \in Commands, RequestBegin(d, c)
          PROVE  accepted' = None /\ late' = late
      BY <3>2 DEF RequestBegin
    <3>3. CASE Timeout
      BY <3>3 DEF Timeout, Failed
    <3>4. CASE SleepOver
      BY <3>4 DEF SleepOver
    <3>5. ASSUME NEW d \in Slaves, SlaveStep(d)
          PROVE  accepted' = accepted /\ req' = req /\ late' = late
      BY <3>5 DEF SlaveStep, SlaveReceive, SlaveIgnores, tta_reply
    <3> QED
      BY <1>2, <3>1, <3>2, <3>3, <3>4, <3>5 DEF BusNext, MasterStep
  <2> QED
    BY <2>1 DEF AnswersThisRequest
<1> QED
  BY <1>1, <1>2

\* The response tta_request returns is the answer to the request it was called
\* with and not to an earlier one, with and without error recovery, for any number
\* of slaves and requests and with any packets lost, as long as no answer was
\* later than the timeouts allow.
THEOREM ResponseToThisRequest == Apart => (BusSpec => []AnswersThisRequest)
<1> SUFFICES ASSUME Apart PROVE BusSpec => []AnswersThisRequest
  OBVIOUS
<1> DEFINE Inv == BusTypes /\ Settled /\ AnswersThisRequest
<1>1. BusInit => Inv
  <2>1. BusInit => Quiet
    BY StationsApart, EmptySeq DEF BusInit, Quiet, NoQuery, NotHeld
  <2> QED
    BY <2>1, BusInitTypes DEF BusInit, Settled, AnswersThisRequest
<1>2. Inv /\ [BusNext]_busVars => Inv'
  BY BusTypesStep, SettledStep, AnswersStep
<1> QED
  BY <1>1, <1>2, PTL DEF BusSpec

=============================================================================
