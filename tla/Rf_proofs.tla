------------------------------ MODULE Rf_proofs ------------------------------
(***************************************************************************)
(* The RF backend: what the manual calibration leaves behind, for every    *)
(* chip and every sequence of calls; that a request leaves once and its    *)
(* answer finds the radio listening, for all times the radio, the peer and *)
(* the code may take; and whose packet a call returns, for any number of   *)
(* contexts.                                                               *)
(***************************************************************************)
EXTENDS Cc1120, RfLink, RfContexts, SequenceTheorems, TLAPS

\* FS_CAL2 is off its original value in the first wait only, and the value to
\* put back is known then.
Offset ==
  /\ pc \in {"closed", "idle", "high", "mid"}
  /\ IF pc = "high" THEN original = CalStart /\ fs_cal2 = CalStart + 2
                    ELSE fs_cal2 = CalStart

\* What was asked for since the context was connected is set.
Settings ==
  pc # "closed" => /\ "ch" \in asked => freq = ch
                   /\ "power" \in asked => pa = power

-----------------------------------------------------------------------------

LEMMA CalibrateOffset ==
  ASSUME Offset, pc # "high", NEW f, NEW p, Calibrate(fs_cal2, f, p)
  PROVE  Offset'
  BY Cc1120Assumption DEF Offset, Calibrate

LEMMA ConnectOffset ==
  ASSUME Offset, tta_rf_connect
  PROVE  Offset'
  BY Cc1120Assumption DEF Offset, tta_rf_connect, Calibrate

LEMMA OffsetStep ==
  ASSUME Offset, [Next]_vars
  PROVE  Offset'
<1>1. CASE UNCHANGED vars
  BY <1>1 DEF vars, ctxVars, codeVars, chipVars, Offset
<1>2. CASE HighPoll \/ MidPoll \/ MidDone \/ CalDone
  BY <1>2 DEF HighPoll, MidPoll, MidDone, CalDone, Offset, codeVars
<1>3. CASE HighDone \/ HighGivenUp
  BY <1>3 DEF HighDone, HighGivenUp, HighRead, Offset
<1>4. CASE tta_rf_connect
  BY <1>4, ConnectOffset
<1>5. CASE \E c \in Channels : tta_rf_set_ch(c)
  BY <1>5, CalibrateOffset DEF tta_rf_set_ch
<1>6. CASE \E p \in Powers : tta_rf_set_power(p)
  BY <1>6, CalibrateOffset DEF tta_rf_set_power
<1>7. CASE tta_rf_close \/ tta_rf_set_agc \/ tta_rf_get_rssi \/ Traffic
  BY <1>7 DEF tta_rf_close, tta_rf_set_agc, tta_rf_get_rssi, Traffic, Offset,
              codeVars, chipVars
<1> QED
  BY <1>1, <1>2, <1>3, <1>4, <1>5, <1>6, <1>7 DEF Next, Code, Application

\* After every call FS_CAL2 has its original value, however many calls were
\* made before it, however slow the chip was, and also when the first wait for
\* it ran out.
THEOREM StartValueRestored == Spec => []CalRestored
<1>1. Init => Offset
  BY DEF Init, Offset
<1>2. Offset /\ [Next]_vars => Offset'
  BY OffsetStep
<1>3. Offset => CalRestored
  BY DEF Offset, CalRestored
<1> QED
  BY <1>1, <1>2, <1>3, PTL DEF Spec

-----------------------------------------------------------------------------

LEMMA SettingsStep ==
  ASSUME Settings, [Next]_vars
  PROVE  Settings'
<1>1. CASE UNCHANGED vars
  BY <1>1 DEF vars, ctxVars, codeVars, chipVars, Settings
<1>2. CASE HighPoll \/ MidPoll \/ MidDone \/ CalDone
  BY <1>2 DEF HighPoll, MidPoll, MidDone, CalDone, Settings, ctxVars, codeVars
<1>3. CASE HighDone \/ HighGivenUp
  BY <1>3 DEF HighDone, HighGivenUp, HighRead, Settings, ctxVars
<1>4. CASE tta_rf_connect
  BY <1>4 DEF tta_rf_connect, Settings
<1>5. CASE \E c \in Channels : tta_rf_set_ch(c)
  BY <1>5 DEF tta_rf_set_ch, Calibrate, Settings
<1>6. CASE \E p \in Powers : tta_rf_set_power(p)
  BY <1>6 DEF tta_rf_set_power, Calibrate, Settings
<1>7. CASE tta_rf_set_agc \/ tta_rf_get_rssi \/ Traffic
  BY <1>7 DEF tta_rf_set_agc, tta_rf_get_rssi, Traffic, Settings, ctxVars,
              codeVars
<1>8. CASE tta_rf_close
  BY <1>8 DEF tta_rf_close, Settings
<1> QED
  BY <1>1, <1>2, <1>3, <1>4, <1>5, <1>6, <1>7, <1>8 DEF Next, Code, Application

\* The radio has the channel and the power the application asked for last, if
\* it asked since it connected, however often it does.
THEOREM SettingsAsAsked == Spec => []AsAsked
<1>1. Init => Settings
  BY DEF Init, Settings
<1>2. Settings /\ [Next]_vars => Settings'
  BY SettingsStep
<1>3. Settings => AsAsked
  BY DEF Settings, AsAsked
<1> QED
  BY <1>1, <1>2, <1>3, PTL DEF Spec

-----------------------------------------------------------------------------

\* A result for the present channel, found from the start value s.
From(r, s) == r \in Result /\ r.start = s /\ r.ch = freq

\* How far the two calibrations are, if the first wait does not run out.
Progress ==
  /\ pc = "high" =>
       \/ /\ marcstate = "cal" /\ age = timeout /\ found = {}
          /\ begun = [start |-> CalStart + 2, ch |-> freq]
       \/ marcstate = "idle" /\ found = {vco} /\ From(vco, CalStart + 2)
  /\ (pc = "mid" /\ timeout < PollLimit) =>
       /\ From(high, CalStart + 2)
       /\ \/ /\ marcstate = "cal" /\ found = {high}
             /\ begun = [start |-> CalStart, ch |-> freq]
          \/ marcstate = "idle" /\ found = {high, vco} /\ From(vco, CalStart)
  /\ pc \in {"idle", "closed"} => marcstate # "cal"

Awaited ==
  freq \in Channels /\ age \in Nat /\ timeout \in Nat /\ Progress /\ Calibrated

LEMMA AwaitedCalibrate ==
  ASSUME NEW f \in Channels, NEW p, Calibrate(CalStart, f, p)
  PROVE  Awaited'
  BY Cc1120Assumption DEF Calibrate, Awaited, Progress, Calibrated

LEMMA AwaitedFirst ==
  ASSUME Offset, Awaited, HighPoll \/ HighDone \/ HighGivenUp
  PROVE  Awaited'
<1> USE DEF Awaited
<1>1. CASE HighPoll
  BY <1>1 DEF HighPoll, Poll, ctxVars, Progress, Calibrated, From
<1>2. CASE HighDone
  BY <1>2 DEF HighDone, HighRead, ctxVars, Offset, Progress, Calibrated, From
<1>3. CASE HighGivenUp
  BY <1>3, Cc1120Assumption DEF HighGivenUp, HighRead, Poll, ctxVars, Progress,
                                Calibrated
<1> QED
  BY <1>1, <1>2, <1>3

LEMMA AwaitedSecond ==
  ASSUME Awaited, MidPoll \/ MidDone
  PROVE  Awaited'
<1> USE DEF Awaited
<1>1. CASE MidPoll
  BY <1>1 DEF MidPoll, Poll, ctxVars, codeVars, Progress, Calibrated, From
<1>2. CASE MidDone
  <2>1. /\ pc' = "idle" /\ marcstate' = "idle" /\ UNCHANGED <<found, freq>>
        /\ vco' = IF high.v > vco.v THEN high ELSE vco
        /\ age' = age /\ timeout' = timeout
    BY <1>2 DEF MidDone
  <2> SUFFICES ASSUME timeout < PollLimit PROVE Calibrated'
    BY <2>1 DEF Progress, Calibrated
  <2>2. From(high, CalStart + 2) /\ From(vco, CalStart) /\ found = {high, vco}
    BY <1>2 DEF MidDone, Progress
  <2>3. high.v \in Nat /\ vco.v \in Nat
    BY <2>2, Cc1120Assumption DEF From, Result
  <2>4. vco' \in found' /\ \A r \in found' : r.v <= vco'.v /\ r.ch = freq'
    BY <2>1, <2>2, <2>3 DEF From
  <2>5. {r.start : r \in found'} = {CalStart, CalStart + 2}
    BY <2>1, <2>2 DEF From
  <2> QED
    BY <2>4, <2>5 DEF Calibrated
<1> QED
  BY <1>1, <1>2

LEMMA AwaitedChip ==
  ASSUME Awaited, CalDone
  PROVE  Awaited'
<1> USE DEF Awaited
<1>1. /\ marcstate = "cal" /\ marcstate' = "idle" /\ found' = found \cup {vco'}
      /\ UNCHANGED <<pc, high, timeout, freq, age, begun>>
  BY DEF CalDone, codeVars
<1>2. PICK v \in Results : vco' = [v |-> v, start |-> begun.start, ch |-> begun.ch]
  BY DEF CalDone
<1>3. pc \notin {"idle", "closed"}
  BY <1>1 DEF Progress
<1>4. CASE pc = "high"
  BY <1>1, <1>2, <1>4, Cc1120Assumption DEF Progress, Calibrated, From, Result
<1>5. CASE pc = "mid"
  BY <1>1, <1>2, <1>5, Cc1120Assumption DEF Progress, Calibrated, From, Result
<1> QED
  BY <1>1, <1>3, <1>4, <1>5 DEF Progress, Calibrated

LEMMA AwaitedCall ==
  ASSUME Offset, Awaited, Application
  PROVE  Awaited'
<1>1. CASE tta_rf_connect
  BY <1>1, AwaitedCalibrate, Cc1120Assumption DEF tta_rf_connect
<1>2. CASE \E c \in Channels : tta_rf_set_ch(c)
  BY <1>2, AwaitedCalibrate DEF tta_rf_set_ch, Offset
<1>3. CASE \E p \in Powers : tta_rf_set_power(p)
  BY <1>3, AwaitedCalibrate DEF tta_rf_set_power, Offset, Awaited
<1>4. CASE tta_rf_set_agc \/ tta_rf_get_rssi \/ Traffic \/ tta_rf_close
  BY <1>4 DEF tta_rf_set_agc, tta_rf_get_rssi, Traffic, tta_rf_close, ctxVars,
              codeVars, chipVars, Awaited, Progress, Calibrated
<1> QED
  BY <1>1, <1>2, <1>3, <1>4 DEF Application

\* After every call in which the first wait did not run out, the radio works
\* with the better of two calibrations, both made for the channel it is on, one
\* from each start value: for every chip and every sequence of calls before it.
THEOREM BestCalibration == Spec => []Calibrated
<1>1. Init => Offset /\ Awaited
  BY Cc1120Assumption DEF Init, Offset, Awaited, Progress, Calibrated
<1>2. Offset /\ Awaited /\ [Next]_vars => (Offset /\ Awaited)'
  <2> SUFFICES ASSUME Offset, Awaited, [Next]_vars PROVE Awaited'
    BY OffsetStep
  <2>1. CASE UNCHANGED vars
    BY <2>1 DEF vars, ctxVars, codeVars, chipVars, Awaited, Progress, Calibrated,
                From
  <2> QED
    BY <2>1, AwaitedFirst, AwaitedSecond, AwaitedChip, AwaitedCall DEF Next, Code
<1>3. Offset /\ Awaited => Calibrated
  BY DEF Awaited
<1> QED
  BY <1>1, <1>2, <1>3, PTL DEF Spec

-----------------------------------------------------------------------------
(* The link: the radio and the channel.                                    *)

LinkTypes ==
  /\ rpc \in {"idle", "lbt", "tx", "sleep", "rx"}
  /\ radio \in {"idle", "rx", "cca", "tx"}
  /\ since \in Nat /\ left \in Nat /\ air \in Nat /\ others \in Nat
  /\ sent \in 0..2 /\ due \in 0..(Turnaround + 1)

\* The radio sends only in the send loop; GPIO3 is high from the sync word of a
\* packet to its end; what a radio does not send, it hears.
Gpio3 ==
  /\ radio \in {"cca", "tx"} => rpc = "tx"
  /\ rpc = "tx" => radio # "rx"
  /\ radio = "tx" => /\ air = 0 /\ left \in 1..(FrameTicks + Preamble)
                     /\ sync <=> left <= FrameTicks
  /\ radio # "tx" => left = 0
  /\ sync /\ radio # "tx" => Hears /\ air > 0

\* What the code does, by what becomes of the radio: SRX or SIDLE, STX, or
\* nothing when it polls.
Begins == RfSendBegin \/ SendAgain
Ends == RssiNever \/ SendTimeout \/ Packet \/ RecvTimeout
Polls == RssiInvalid \/ SyncPoll \/ RecvPoll

LEMMA LinkSteps ==
  ASSUME [LinkNext]_linkVars
  PROVE  \/ UNCHANGED linkVars \/ Begins \/ Ends \/ Polls \/ RssiValid \/ Sent
         \/ StartTx \/ OtherStarts \/ PeerAnswers \/ RfTick
  BY DEF LinkNext, LinkCode, Begins, Ends, Polls

LEMMA LinkConstants ==
  /\ Preamble \in Nat /\ Preamble > 0 /\ FrameTicks \in Nat /\ FrameTicks > 0
  /\ SendGap \in Nat /\ Turnaround \in Nat /\ RfLinks \subseteq BOOLEAN
  BY LinkAssumption

\* What becomes of the flags.
LEMMA FlagSteps ==
  /\ RfTick =>
       (sync' <=> SyncWord \/ (sync /\ ~SendEnds /\ ~RecvEnds))
  /\ SyncPoll => (fgstart' <=> fgstart \/ sync)
  /\ OtherStarts \/ PeerAnswers => (sync' <=> Hears)
  /\ PeerAnswers => (missed' <=> rpc \in {"tx", "rx"} /\ radio # "rx")
<1>1. RfTick => (sync' <=> SyncWord \/ (sync /\ ~SendEnds /\ ~RecvEnds))
  BY Zenon DEF RfTick
<1>2. SyncPoll => (fgstart' <=> fgstart \/ sync)
  BY Zenon DEF SyncPoll
<1>3. OtherStarts \/ PeerAnswers => (sync' <=> Hears)
  <2>1. OtherStarts => Starts("other")
    BY DEF OtherStarts
  <2>2. PeerAnswers => Starts("peer")
    BY DEF PeerAnswers
  <2>3. \A who : Starts(who) => (sync' <=> Hears)
    <3> SUFFICES ASSUME NEW who, Starts(who) PROVE sync' <=> Hears
      OBVIOUS
    <3>1. sync' = Hears
      BY DEF Starts
    <3> QED
      BY Zenon, <3>1
  <2> QED
    BY <2>1, <2>2, <2>3
<1>4. PeerAnswers => (missed' <=> rpc \in {"tx", "rx"} /\ radio # "rx")
  BY Zenon DEF PeerAnswers
<1> QED
  BY <1>1, <1>2, <1>3, <1>4

LEMMA LinkInitTypes == LinkInit => LinkTypes /\ Gpio3
  BY LinkConstants DEF LinkInit, LinkTypes, Gpio3, Hears

LEMMA LinkTypesStep ==
  ASSUME LinkTypes, Gpio3, [LinkNext]_linkVars
  PROVE  LinkTypes'
<1> USE LinkConstants DEF LinkTypes
<1>1. CASE UNCHANGED linkVars
  BY <1>1 DEF linkVars, sendVars, radioVars, airVars
<1>2. CASE Begins
  BY <1>2 DEF Begins, RfSendBegin, SendAgain, Begin, Enter, Strobe, airVars
<1>3. CASE Ends
  BY <1>3 DEF Ends, RssiNever, SendTimeout, SendFails, Packet, RecvTimeout,
              RecvReturn, Enter, Strobe, airVars
<1>4. CASE Polls
  BY <1>4 DEF Polls, RssiInvalid, SyncPoll, RecvPoll, radioVars, airVars
<1>5. CASE RssiValid
  BY <1>5 DEF RssiValid, Enter, airVars
<1>6. CASE Sent
  BY <1>6 DEF Sent, Listen, Enter, Strobe, airVars
<1>7. CASE StartTx
  BY <1>7 DEF StartTx, sendVars, airVars
<1>8. CASE OtherStarts \/ PeerAnswers
  BY <1>8 DEF OtherStarts, PeerAnswers, Starts, Hears, sendVars
<1>9. CASE RfTick
  <2>1. since' \in Nat /\ air' \in Nat
    BY <1>9 DEF RfTick
  <2>2. left' \in Nat
    <3>1. left' = left \/ (radio = "tx" /\ left' = left - 1)
      BY <1>9 DEF RfTick
    <3> QED
      BY <3>1 DEF Gpio3
  <2>3. sent' \in 0..2 /\ due' \in 0..(Turnaround + 1)
    BY <1>9 DEF RfTick
  <2>4. radio' \in {"idle", "rx", "cca", "tx"}
    BY <1>9 DEF RfTick
  <2> QED
    BY <1>9, <2>1, <2>2, <2>3, <2>4 DEF RfTick
<1> QED
  BY <1>1, <1>2, <1>3, <1>4, <1>5, <1>6, <1>7, <1>8, <1>9, LinkSteps

LEMMA Gpio3Step ==
  ASSUME LinkTypes, Gpio3, [LinkNext]_linkVars
  PROVE  Gpio3'
<1> USE LinkConstants, FlagSteps DEF LinkTypes, Gpio3, Hears
<1>1. CASE UNCHANGED linkVars
  BY <1>1 DEF linkVars, sendVars, radioVars, airVars
<1>2. CASE Begins
  BY <1>2 DEF Begins, RfSendBegin, SendAgain, Begin, Enter, Strobe, airVars
<1>3. CASE Ends
  BY <1>3 DEF Ends, RssiNever, SendTimeout, SendFails, Packet, RecvTimeout,
              RecvReturn, Enter, Strobe, airVars
<1>4. CASE Polls
  BY <1>4 DEF Polls, RssiInvalid, SyncPoll, RecvPoll, radioVars, airVars
<1>5. CASE RssiValid
  BY <1>5 DEF RssiValid, Enter, airVars
<1>6. CASE Sent
  BY <1>6 DEF Sent, Listen, Enter, Strobe, airVars
<1>7. CASE StartTx
  BY <1>7 DEF StartTx, sendVars, airVars
<1>8. CASE OtherStarts \/ PeerAnswers
  BY <1>8 DEF OtherStarts, PeerAnswers, Starts, sendVars
<1>9. CASE RfTick
  <2>1. CASE radio = "tx"
    BY <1>9, <2>1 DEF RfTick, SendEnds, SyncWord, RecvEnds
  <2>2. CASE radio # "tx"
    BY <1>9, <2>2 DEF RfTick, SendEnds, SyncWord, RecvEnds
  <2> QED
    BY <2>1, <2>2
<1> QED
  BY <1>1, <1>2, <1>3, <1>4, <1>5, <1>6, <1>7, <1>8, <1>9, LinkSteps

-----------------------------------------------------------------------------
(* A request leaves once.                                                  *)

\* A request that has left is noticed: while it is sent a poll sees GPIO3 high.
Noticed ==
  /\ rpc \in {"lbt", "sleep"} \/ radio \in {"cca", "tx"} => sent = 0
  /\ rpc = "tx" /\ sent > 0 => fgstart /\ radio = "idle"
  /\ radio = "tx" /\ sync /\ ~fgstart => FrameTicks < left + since
  /\ sent <= 1

LEMMA NoticedStep ==
  ASSUME Prompt, LinkTypes, Gpio3, Noticed, [LinkNext]_linkVars
  PROVE  Noticed'
<1> USE LinkConstants, FlagSteps DEF LinkTypes, Gpio3, Noticed, Hears
<1>1. CASE UNCHANGED linkVars
  BY <1>1 DEF linkVars, sendVars, radioVars, airVars
<1>2. CASE Begins
  BY <1>2 DEF Begins, RfSendBegin, SendAgain, Begin, Enter, Strobe, airVars
<1>3. CASE Ends
  BY <1>3 DEF Ends, RssiNever, SendTimeout, SendFails, Packet, RecvTimeout,
              RecvReturn, Enter, Strobe, airVars
<1>4. CASE Polls
  BY <1>4 DEF Polls, RssiInvalid, SyncPoll, RecvPoll, radioVars, airVars
<1>5. CASE RssiValid
  BY <1>5 DEF RssiValid, Enter, airVars
<1>6. CASE Sent
  BY <1>6 DEF Sent, Listen, Enter, Strobe, airVars
<1>7. CASE StartTx
  BY <1>7 DEF StartTx, sendVars, airVars
<1>8. CASE OtherStarts \/ PeerAnswers
  BY <1>8 DEF OtherStarts, PeerAnswers, Starts, sendVars
<1>9. CASE RfTick
  <2>1. CASE SendEnds
    <3>1. rpc = "tx" /\ since < SendGap
      BY <1>9, <2>1 DEF RfTick, Gap, SendEnds
    <3>2. sync /\ fgstart
      BY <2>1, <3>1 DEF Prompt, SendEnds
    <3> QED
      BY <1>9, <2>1, <3>1, <3>2 DEF RfTick, SendEnds
  <2>2. CASE ~SendEnds /\ radio = "tx"
    BY <1>9, <2>2 DEF RfTick, SendEnds, SyncWord, RecvEnds
  <2>3. CASE radio # "tx"
    BY <1>9, <2>3 DEF RfTick, SendEnds, RecvEnds
  <2> QED
    BY <2>1, <2>2, <2>3
<1> QED
  BY <1>1, <1>2, <1>3, <1>4, <1>5, <1>6, <1>7, <1>8, <1>9, LinkSteps

\* However often _send_pkt repeats a request, on a channel with any number of
\* other packets, it leaves whole at most once, for all times of which the
\* longest between two polls is no longer than a packet.
THEOREM SendsRequestOnce == LinkSpec => []RfSentOnce
<1> DEFINE LinkInv == LinkTypes /\ Gpio3 /\ (Prompt => Noticed)
<1>1. LinkInit => LinkInv
  BY LinkInitTypes DEF LinkInit, Noticed
<1>2. LinkInv /\ [LinkNext]_linkVars => LinkInv'
  BY LinkTypesStep, Gpio3Step, NoticedStep DEF Prompt
<1>3. LinkInv => RfSentOnce
  BY DEF Noticed, RfSentOnce
<1> QED
  BY <1>1, <1>2, <1>3, PTL DEF LinkSpec

-----------------------------------------------------------------------------
(* The radio turns in time.                                                *)

\* On a channel of its own: nothing is in the air until the request has left, so
\* GPIO3 rises with the request.
OwnChannel ==
  /\ rpc = "lbt" \/ radio \in {"cca", "tx"} => air = 0 /\ due = Turnaround + 1
  /\ rpc = "tx" /\ (fgstart \/ sync) => (radio = "tx" /\ sync) \/ sent > 0
  /\ rpc = "rx" => sent > 0

LEMMA OwnChannelStep ==
  ASSUME LinkTypes, Gpio3, OwnChannel, [LinkNext]_linkVars, others' = 0
  PROVE  OwnChannel'
<1> USE LinkConstants, FlagSteps DEF LinkTypes, Gpio3, OwnChannel, Hears
<1>1. CASE UNCHANGED linkVars
  BY <1>1 DEF linkVars, sendVars, radioVars, airVars
<1>2. CASE Begins
  BY <1>2 DEF Begins, RfSendBegin, SendAgain, Begin, Enter, Strobe, airVars
<1>3. CASE Ends
  BY <1>3 DEF Ends, RssiNever, SendTimeout, SendFails, Packet, RecvTimeout,
              RecvReturn, Enter, Strobe, airVars
<1>4. CASE Polls
  BY <1>4 DEF Polls, RssiInvalid, SyncPoll, RecvPoll, radioVars, airVars
<1>5. CASE RssiValid
  BY <1>5 DEF RssiValid, Enter, airVars
<1>6. CASE Sent
  BY <1>6 DEF Sent, Listen, Enter, Strobe, airVars
<1>7. CASE StartTx
  BY <1>7 DEF StartTx, sendVars, airVars
<1>8. CASE PeerAnswers
  BY <1>8 DEF PeerAnswers, Starts, sendVars
<1>9. CASE RfTick
  <2>1. CASE SendEnds
    BY <1>9, <2>1 DEF RfTick, SendEnds
  <2>2. CASE ~SendEnds /\ radio = "tx"
    BY <1>9, <2>2 DEF RfTick, SendEnds, SyncWord, RecvEnds
  <2>3. CASE radio # "tx"
    BY <1>9, <2>3 DEF RfTick, SendEnds, SyncWord, RecvEnds
  <2> QED
    BY <2>1, <2>2, <2>3
<1>10. ~OtherStarts
  BY DEF OtherStarts
<1> QED
  BY <1>1, <1>2, <1>3, <1>4, <1>5, <1>6, <1>7, <1>8, <1>9, <1>10, LinkSteps

\* The answer is on its way at the earliest when the radio listens.
Listening ==
  /\ rpc = "tx" /\ radio = "idle" => sent > 0 /\ due < since /\ since <= SendGap
  /\ air > 0 => due = Turnaround + 1
  /\ rpc = "rx" => radio = "rx" \/ due = Turnaround + 1
  /\ ~missed

LEMMA ListeningStep ==
  ASSUME Prompt, LinkTypes, Gpio3, Noticed, OwnChannel, Listening,
         [LinkNext]_linkVars, others' = 0
  PROVE  Listening'
<1> USE LinkConstants, FlagSteps DEF LinkTypes, Gpio3, Listening, Hears
<1>1. CASE UNCHANGED linkVars
  BY <1>1 DEF linkVars, sendVars, radioVars, airVars
<1>2. CASE Begins
  BY <1>2 DEF Begins, RfSendBegin, SendAgain, Begin, Enter, Strobe, airVars
<1>3. CASE Ends
  BY <1>3 DEF Ends, RssiNever, SendTimeout, SendFails, Packet, RecvTimeout,
              RecvReturn, Enter, Strobe, airVars
<1>4. CASE Polls
  BY <1>4 DEF Polls, RssiInvalid, SyncPoll, RecvPoll, radioVars, airVars, Noticed
<1>5. CASE RssiValid
  BY <1>5 DEF RssiValid, Enter, airVars
<1>6. CASE Sent
  BY <1>6 DEF Sent, Listen, Enter, Strobe, airVars
<1>7. CASE StartTx
  BY <1>7 DEF StartTx, sendVars, airVars
<1>8. CASE PeerAnswers
  <2>1. rpc = "tx" => radio \in {"cca", "tx", "idle"}
    OBVIOUS
  <2>2. rpc # "tx"
    BY <1>8, <2>1 DEF PeerAnswers, OwnChannel, Prompt
  <2> QED
    BY <1>8, <2>2 DEF PeerAnswers, Starts, sendVars
<1>9. CASE RfTick
  <2>1. CASE SendEnds
    BY <1>9, <2>1 DEF RfTick, Gap, SendEnds
  <2>2. CASE ~SendEnds
    <3>1. /\ since < Gap /\ due' = IF due < Turnaround THEN due + 1 ELSE due
          /\ UNCHANGED <<rpc, missed>> /\ air' = IF air > 0 THEN air - 1 ELSE 0
          /\ radio' = IF RecvEnds /\ radio = "rx" THEN "idle" ELSE radio
      BY <1>9, <2>2 DEF RfTick
    <3>2. rpc = "tx" => since' = since + 1 /\ Gap = SendGap
      BY <1>9 DEF RfTick, Gap
    <3>3. sent' = sent
      BY <1>9, <2>2 DEF RfTick
    <3> QED
      BY <3>1, <3>2, <3>3 DEF RecvEnds, Prompt
  <2> QED
    BY <2>1, <2>2
<1>10. ~OtherStarts
  BY DEF OtherStarts
<1> QED
  BY <1>1, <1>2, <1>3, <1>4, <1>5, <1>6, <1>7, <1>8, <1>9, <1>10, LinkSteps

\* The radio turns from sending to listening neither before the request has
\* left nor after the answer has begun, on a channel of its own: for all times
\* the packet, the peer and the code take, of which the longest between two
\* polls is no longer than a packet and the peer's turnaround, and for any
\* number of requests.
THEOREM TurnsToListen == LinkSpec => []TurnsInTime
<1> DEFINE LinkInv == /\ LinkTypes /\ Gpio3 /\ (Prompt => Noticed)
                      /\ others = 0 => OwnChannel
                      /\ Prompt /\ others = 0 => Listening
<1>1. LinkInit => LinkInv
  BY LinkInitTypes, LinkConstants
     DEF LinkInit, Noticed, OwnChannel, Listening
<1>2. LinkInv /\ [LinkNext]_linkVars => LinkInv'
  <2>1. LinkTypes /\ [LinkNext]_linkVars => (others' = 0 => others = 0)
    <3> SUFFICES ASSUME LinkTypes, [LinkNext]_linkVars, others' = 0
                 PROVE  others = 0
      OBVIOUS
    <3>1. CASE Begins \/ Ends \/ Polls
      BY <3>1 DEF Begins, RfSendBegin, SendAgain, Ends, RssiNever, SendTimeout,
                  SendFails, Packet, RecvTimeout, RecvReturn, Polls,
                  RssiInvalid, SyncPoll, RecvPoll, airVars
    <3>2. CASE \/ UNCHANGED linkVars \/ RssiValid \/ Sent \/ StartTx
               \/ PeerAnswers \/ RfTick
      BY <3>2 DEF linkVars, RssiValid, Sent, StartTx, PeerAnswers, RfTick, airVars
    <3>3. ~OtherStarts
      BY DEF OtherStarts, LinkTypes
    <3> QED
      BY <3>1, <3>2, <3>3, LinkSteps
  <2> QED
    BY <2>1, LinkTypesStep, Gpio3Step, NoticedStep, OwnChannelStep,
       ListeningStep
       DEF Prompt
<1>3. LinkInv => TurnsInTime
  BY DEF TurnsInTime, SentBeforeListening, AnswerHeard, OwnChannel, Listening
<1> QED
  BY <1>1, <1>2, <1>3, PTL DEF LinkSpec

-----------------------------------------------------------------------------
(* The contexts: the FIFO they share.                                      *)

Fifo == (Contexts \cup {Nobody}) \X Nat

ContextTypes ==
  /\ xpc \in [Contexts -> {"idle", "wait", "copied", "header", "data"}]
  /\ packet \in [Contexts -> Nat]
  /\ DOMAIN got = Contexts /\ got = [c \in Contexts |-> got[c]]
  /\ parts \in [Contexts -> Seq(Fifo \X Nat)]
  /\ rxfifo \in Fifo /\ rxfifo_pos \in Nat

\* The owner alone is in a call, and from the copy on rxfifo is its own.
OwnFifo(c) ==
  /\ xpc[c] # "idle" => owner = c /\ got[c] = <<>>
  /\ xpc[c] \in {"wait", "copied", "header"} => Len(parts[c]) = 0
  /\ xpc[c] \in {"copied", "header", "data"} => rxfifo = <<c, packet[c]>>
  /\ xpc[c] = "header" => rxfifo_pos = 0
  /\ xpc[c] = "data" => /\ Len(parts[c]) = 1 /\ parts[c][1] = <<rxfifo, 0>>
                       /\ rxfifo_pos = 1
  /\ xpc[c] = "idle" /\ got[c] # <<>> => got[c] = <<c, packet[c]>>

ContextsInv == ContextTypes /\ \A c \in Contexts : OwnFifo(c)

\* The other contexts are not in a call.
LEMMA OthersIdle ==
  ASSUME ContextsInv, NEW c \in Contexts, xpc[c] # "idle" \/ owner = Nobody
  PROVE  \A d \in Contexts \ {c} : xpc[d] = "idle"
  BY ContextsAssumption DEF ContextsInv, OwnFifo

\* A step of one context leaves alone what another, idle one has.
LEMMA OthersOwn ==
  ASSUME ContextsInv, NEW c \in Contexts, NEW d \in Contexts \ {c},
         xpc[d] = "idle", xpc'[d] = xpc[d], got'[d] = got[d],
         packet'[d] = packet[d]
  PROVE  OwnFifo(d)'
  BY DEF ContextsInv, OwnFifo

LEMMA ContextsStep ==
  ASSUME Locked, ContextsInv, [ContextsNext]_contextVars
  PROVE  ContextsInv'
<1>1. CASE UNCHANGED contextVars
  BY <1>1 DEF contextVars, packetVars, ContextsInv, ContextTypes, OwnFifo
<1>2. ASSUME NEW c \in Contexts, tta_receive(c)
      PROVE  ContextsInv'
  <2>1. ContextTypes'
    BY <1>2, EmptySeq DEF tta_receive, To, ContextsInv, ContextTypes
  <2>2. \A d \in Contexts \ {c} : OwnFifo(d)'
    BY <1>2, OthersIdle, OthersOwn
       DEF tta_receive, To, ContextsInv, ContextTypes
  <2>3. OwnFifo(c)'
    BY <1>2 DEF tta_receive, To, ContextsInv, ContextTypes, OwnFifo
  <2> QED
    BY <2>1, <2>2, <2>3 DEF ContextsInv
<1>3. ASSUME NEW c \in Contexts, Copy(c)
      PROVE  ContextsInv'
  <2>1. ContextTypes'
    BY <1>3 DEF Copy, To, ContextsInv, ContextTypes, Fifo
  <2>2. \A d \in Contexts \ {c} : OwnFifo(d)'
    BY <1>3, OthersIdle, OthersOwn DEF Copy, To, ContextsInv, ContextTypes
  <2>3. OwnFifo(c)'
    BY <1>3 DEF Copy, To, ContextsInv, ContextTypes, OwnFifo
  <2> QED
    BY <2>1, <2>2, <2>3 DEF ContextsInv
<1>4. ASSUME NEW c \in Contexts, Rewind(c)
      PROVE  ContextsInv'
  <2>1. ContextTypes'
    BY <1>4 DEF Rewind, To, packetVars, ContextsInv, ContextTypes
  <2>2. \A d \in Contexts \ {c} : OwnFifo(d)'
    BY <1>4, OthersIdle, OthersOwn
       DEF Rewind, To, packetVars, ContextsInv, ContextTypes
  <2>3. OwnFifo(c)'
    BY <1>4 DEF Rewind, To, packetVars, ContextsInv, ContextTypes, OwnFifo
  <2> QED
    BY <2>1, <2>2, <2>3 DEF ContextsInv
<1>5. ASSUME NEW c \in Contexts, ReadHeader(c)
      PROVE  ContextsInv'
  <2>1. ContextTypes'
    BY <1>5, AppendProperties
       DEF ReadHeader, ReadPart, To, ContextsInv, ContextTypes
  <2>2. \A d \in Contexts \ {c} : OwnFifo(d)'
    BY <1>5, OthersIdle, OthersOwn
       DEF ReadHeader, ReadPart, To, ContextsInv, ContextTypes
  <2>3. OwnFifo(c)'
    <3> DEFINE q == Append(parts[c], <<rxfifo, rxfifo_pos>>)
    <3>1. Len(parts[c]) = 0 /\ rxfifo_pos = 0
      BY <1>5 DEF ReadHeader, To, ContextsInv, OwnFifo
    <3>2. Len(q) = 1 /\ q[1] = <<rxfifo, 0>>
      BY <3>1, AppendProperties DEF ContextsInv, ContextTypes
    <3>3. parts'[c] = q /\ xpc'[c] = "data" /\ rxfifo_pos' = 1
      BY <1>5, <3>1 DEF ReadHeader, ReadPart, To, ContextsInv, ContextTypes
    <3> HIDE DEF q
    <3> QED
      BY <1>5, <3>2, <3>3
         DEF ReadHeader, ReadPart, To, ContextsInv, ContextTypes, OwnFifo
  <2> QED
    BY <2>1, <2>2, <2>3 DEF ContextsInv
<1>6. ASSUME NEW c \in Contexts, ReadData(c)
      PROVE  ContextsInv'
  <2>1. /\ xpc[c] = "data" /\ xpc' = [xpc EXCEPT ![c] = "idle"]
        /\ rxfifo = <<c, packet[c]>> /\ UNCHANGED <<packet, rxfifo>>
        /\ Len(parts[c]) = 1 /\ parts[c][1] = <<rxfifo, 0>> /\ rxfifo_pos = 1
        /\ parts[c] \in Seq(Fifo \X Nat) /\ <<rxfifo, 1>> \in Fifo \X Nat
    BY <1>6 DEF ReadData, ReadPart, To, ContextsInv, ContextTypes, OwnFifo
  <2> DEFINE q == Append(parts[c], <<rxfifo, 1>>)
  <2>2. /\ q \in Seq(Fifo \X Nat)
        /\ q[1] = <<rxfifo, 0>> /\ q[2] = <<rxfifo, 1>>
    BY <2>1, AppendProperties
  <2> HIDE DEF q
  <2>3. parts' = [parts EXCEPT ![c] = q] /\ parts'[c] = q
    BY <1>6, <2>1 DEF ReadData, ReadPart, ContextsInv, ContextTypes, q
  <2>4. got' = [got EXCEPT ![c] = <<c, packet[c]>>]
    <3>1. /\ q[1][1] = rxfifo /\ q[2][1] = rxfifo
          /\ q[1][2] = 0 /\ q[2][2] = 1
      BY <2>2
    <3>2. got' = [got EXCEPT ![c] =
                    IF q[1][1] = q[2][1] /\ q[1][2] = 0 /\ q[2][2] = 1
                      THEN q[1][1] ELSE <<Nobody, 0>>]
      BY <1>6, <2>3 DEF ReadData
    <3> QED
      BY <2>1, <3>1, <3>2
  <2>5. ContextTypes'
    <3>1. rxfifo_pos' = 2
      BY <1>6, <2>1 DEF ReadData, ReadPart
    <3>2. parts' \in [Contexts -> Seq(Fifo \X Nat)]
      BY <2>2, <2>3 DEF ContextsInv, ContextTypes
    <3>3. DOMAIN got' = Contexts /\ got' = [d \in Contexts |-> got'[d]]
      BY <2>4 DEF ContextsInv, ContextTypes
    <3> QED
      BY <2>1, <3>1, <3>2, <3>3 DEF ContextsInv, ContextTypes
  <2>6. \A d \in Contexts \ {c} : OwnFifo(d)'
    BY <2>1, <2>4, OthersIdle, OthersOwn DEF ContextsInv, ContextTypes
  <2>7. OwnFifo(c)'
    BY <2>1, <2>4 DEF ContextsInv, ContextTypes, OwnFifo
  <2> QED
    BY <2>5, <2>6, <2>7 DEF ContextsInv
<1> QED
  BY <1>1, <1>2, <1>3, <1>4, <1>5, <1>6 DEF ContextsNext

\* If the application lets one thread at a time into the library, a call that
\* has received a packet returns that packet, for any number of contexts.
THEOREM ReturnsOwnPacket == ContextsSpec => []OwnPacket
<1>1. ContextsInit /\ Locked => ContextsInv
  BY EmptySeq DEF ContextsInit, ContextsInv, ContextTypes, OwnFifo, Fifo
<1>2. (Locked => ContextsInv) => OwnPacket
  BY DEF ContextsInv, OwnFifo, OwnPacket
<1>3. (Locked => ContextsInv) /\ [ContextsNext]_contextVars
        => (Locked => ContextsInv)'
  BY ContextsStep
<1> QED
  BY <1>1, <1>2, <1>3, PTL DEF ContextsSpec

=============================================================================
