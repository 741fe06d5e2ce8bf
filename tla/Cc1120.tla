------------------------------- MODULE Cc1120 -------------------------------
(***************************************************************************)
(* The CC1120 settings of one RF context and its manual calibration.       *)
(*                                                                         *)
(* The code runs cc1120_manualcalibration after every change of channel or *)
(* power: two calibrations, from a high and from the original start value, *)
(* of which the better result is written back.  The chip calibrates on its *)
(* own; the code polls MARCSTATE until it is idle, the first time at most  *)
(* PollLimit + 1 times.                                                    *)
(***************************************************************************)
EXTENDS Integers

CONSTANTS
  Channels,     \* indices of a_CC112X_FREQ, 0 is what cc1120_writesetting sets
  Powers,       \* indices of a_CC112X_PA_CFG
  Results,      \* FS_VCO2 values a calibration may end with
  CalStart,     \* FS_CAL2 after a reset
  PollLimit,    \* 50
  CalPolls      \* bound: polls a calibration may last

ASSUME Cc1120Assumption ==
  /\ Channels \subseteq Nat /\ Powers \subseteq Nat /\ 0 \in Channels
  /\ Results \subseteq Nat \ {0} /\ CalStart \in Nat
  /\ {PollLimit, CalPolls} \subseteq Nat

\* The power cc1120_writesetting sets; it is in no row of the table.
Reset == -2

\* The context before anything was set.
Unset == -1

\* FS_VCO2 cleared; FS_VCO2, FS_VCO4 and FS_CHP belong together, with the
\* channel they were found for and the start value they were found from.
Cleared == [v |-> 0, start |-> 0, ch |-> 0]

VARIABLES
  ch, power,   \* ctx_rf->ch and ctx_rf->power, Unset until they are set
  asked,       \* which of them were set since the last connect
  pc,          \* closed, idle, high (the first wait), mid (the second)
  timeout,     \* polls of the first wait
  original,    \* original_fs_cal2
  high,        \* calResults_for_vcdac_start_high
  marcstate,   \* the chip: idle, rx or cal
  age,         \* polls the calibration has lasted
  fs_cal2, vco, freq, pa,   \* its registers
  begun,       \* start value and channel of the calibration under way
  agc,         \* AGC_CS_THR or AGC_GAIN_ADJUST is the application's
  found        \* results of the calibrations since the call began

ctxVars == <<ch, power, asked>>
codeVars == <<pc, timeout, original, high>>
chipVars == <<marcstate, age, fs_cal2, vco, freq, pa, agc, begun, found>>
vars == <<ctxVars, codeVars, chipVars>>

Result == [v : Results, start : {CalStart, CalStart + 2}, ch : Channels]

TypeOK ==
  /\ ch \in Channels \cup {Unset} /\ power \in Powers \cup {Unset}
  /\ asked \subseteq {"ch", "power"}
  /\ pc \in {"closed", "idle", "high", "mid"}
  /\ timeout \in 0..PollLimit /\ original \in {0, CalStart}
  /\ marcstate \in {"idle", "rx", "cal"} /\ age \in 0..CalPolls
  /\ fs_cal2 \in {CalStart, CalStart + 2}
  /\ {high, vco} \subseteq Result \cup {Cleared} /\ found \subseteq Result
  /\ freq \in Channels /\ pa \in Powers \cup {Reset} /\ agc \in BOOLEAN
  /\ begun \in [start : {CalStart, CalStart + 2}, ch : Channels] \cup {Cleared}

Init ==
  /\ ch = Unset /\ power = Unset /\ asked = {}
  /\ pc = "closed" /\ timeout = 0 /\ original = 0 /\ high = Cleared
  /\ marcstate = "idle" /\ age = 0 /\ fs_cal2 = CalStart /\ vco = Cleared
  /\ freq = 0 /\ pa = Reset /\ agc = FALSE /\ begun = Cleared /\ found = {}

-----------------------------------------------------------------------------
(* cc1120_manualcalibration.                                               *)

\* A slip: FS_CAL2 is read back after it was changed.
MutCalibrate(cal2, f, p) ==
  /\ pc' = "high" /\ timeout' = 0 /\ original' = cal2 + 2
  /\ fs_cal2' = cal2 + 2 /\ vco' = Cleared
  /\ marcstate' = "cal" /\ age' = 0
  /\ begun' = [start |-> cal2 + 2, ch |-> f]
  /\ freq' = f /\ pa' = p /\ found' = {}
  /\ UNCHANGED high

\* A slip: the calibration comes before the new settings.
MutCalibrateEarly(cal2, f, p) ==
  /\ pc' = "high" /\ timeout' = 0 /\ original' = cal2
  /\ fs_cal2' = cal2 + 2 /\ vco' = Cleared
  /\ marcstate' = "cal" /\ age' = 0
  /\ begun' = [start |-> cal2 + 2, ch |-> freq]
  /\ freq' = f /\ pa' = p /\ found' = {}
  /\ UNCHANGED high

\* 1), 2), 3): the settings f and p are written, then SIDLE, FS_VCO2 cleared,
\* the high start value, SCAL.
Calibrate(cal2, f, p) ==
  /\ pc' = "high" /\ timeout' = 0 /\ original' = cal2
  /\ fs_cal2' = cal2 + 2 /\ vco' = Cleared
  /\ marcstate' = "cal" /\ age' = 0
  /\ begun' = [start |-> cal2 + 2, ch |-> f]
  /\ freq' = f /\ pa' = p /\ found' = {}
  /\ UNCHANGED high

\* A read of MARCSTATE while the chip calibrates.
Poll == marcstate = "cal" /\ age < CalPolls /\ age' = age + 1

HighPoll ==
  /\ pc = "high" /\ timeout < PollLimit
  /\ Poll /\ timeout' = timeout + 1
  /\ UNCHANGED <<ctxVars, pc, original, high, marcstate, fs_cal2, vco, freq, pa,
                 agc, begun, found>>

\* 4), 5), 6): the results are read, FS_VCO2 is cleared, the original start
\* value is put back.
HighRead ==
  /\ pc' = "mid" /\ high' = vco /\ vco' = Cleared /\ fs_cal2' = original
  /\ UNCHANGED <<ctxVars, timeout, original, freq, pa, agc, found>>

\* 7): SCAL.
HighDone ==
  /\ pc = "high" /\ marcstate = "idle"
  /\ HighRead
  /\ marcstate' = "cal" /\ age' = 0
  /\ begun' = [start |-> original, ch |-> freq]

\* The first wait has run out: the chip, still at work, ignores the strobe.
HighGivenUp ==
  /\ pc = "high" /\ timeout = PollLimit
  /\ Poll
  /\ HighRead
  /\ UNCHANGED <<marcstate, begun>>

MidPoll ==
  /\ pc = "mid" /\ Poll
  /\ UNCHANGED <<ctxVars, codeVars, marcstate, fs_cal2, vco, freq, pa, agc,
                 begun, found>>

\* A slip: the wrong way round.
MutMidDone ==
  /\ pc = "mid" /\ marcstate = "idle"
  /\ vco' = IF high.v > vco.v THEN vco ELSE high
  /\ pc' = "idle"
  /\ UNCHANGED <<ctxVars, timeout, original, high, marcstate, age, fs_cal2, freq,
                 pa, agc, begun, found>>

\* A slip: it calibrates again until the second result is the better one.
MutMidDoneAgain ==
  /\ pc = "mid" /\ marcstate = "idle"
  /\ IF vco.v > high.v
       THEN pc' = "idle" /\ UNCHANGED <<marcstate, age>>
       ELSE marcstate' = "cal" /\ age' = 0 /\ UNCHANGED pc
  /\ UNCHANGED <<ctxVars, timeout, original, high, fs_cal2, vco, freq, pa, agc,
                 begun, found>>

\* 8), 9): the higher FS_VCO2, with the values that belong to it, is written
\* back; the callers end with SFRX and SFTX, or SIDLE.
MidDone ==
  /\ pc = "mid" /\ marcstate = "idle"
  /\ vco' = IF high.v > vco.v THEN high ELSE vco
  /\ pc' = "idle"
  /\ UNCHANGED <<ctxVars, timeout, original, high, marcstate, age, fs_cal2, freq,
                 pa, agc, begun, found>>

\* The chip: the calibration ends.
CalDone ==
  /\ marcstate = "cal" /\ marcstate' = "idle"
  /\ \E v \in Results : vco' = [v |-> v, start |-> begun.start, ch |-> begun.ch]
  /\ found' = found \cup {vco'}
  /\ UNCHANGED <<ctxVars, codeVars, age, fs_cal2, freq, pa, agc, begun>>

-----------------------------------------------------------------------------
(* The calls.                                                              *)

\* SRES resets the chip, then cc1120_writesetting, and the calibration.
tta_rf_connect ==
  /\ pc = "closed"
  /\ Calibrate(CalStart, 0, Reset)
  /\ agc' = FALSE /\ asked' = {}
  /\ UNCHANGED <<ch, power>>

\* close_rf does nothing.
tta_rf_close ==
  /\ pc = "idle"
  /\ pc' = "closed"
  /\ UNCHANGED <<ctxVars, timeout, original, high, chipVars>>

tta_rf_set_ch(c) ==
  /\ pc = "idle"
  /\ ch' = c /\ asked' = asked \cup {"ch"}
  /\ Calibrate(fs_cal2, c, pa)
  /\ UNCHANGED <<power, agc>>

\* A slip: the power is written as the channel is.
MutSetPower(p) ==
  /\ pc = "idle"
  /\ power' = p /\ asked' = asked \cup {"power"}
  /\ Calibrate(fs_cal2, 0, p)
  /\ UNCHANGED <<ch, agc>>

tta_rf_set_power(p) ==
  /\ pc = "idle"
  /\ power' = p /\ asked' = asked \cup {"power"}
  /\ Calibrate(fs_cal2, freq, p)
  /\ UNCHANGED <<ch, agc>>

\* tta_rf_set_agc_cs_thr, tta_rf_set_agc_gain_adjust
tta_rf_set_agc ==
  /\ pc = "idle"
  /\ agc' = TRUE
  /\ UNCHANGED <<ctxVars, codeVars, marcstate, age, fs_cal2, vco, freq, pa, begun,
                 found>>

\* The receiver is left on.
tta_rf_get_rssi ==
  /\ pc = "idle"
  /\ marcstate' = "rx"
  /\ UNCHANGED <<ctxVars, codeVars, age, fs_cal2, vco, freq, pa, agc, begun, found>>

\* A packet is sent or received, which ends with SIDLE.
Traffic ==
  /\ pc = "idle"
  /\ marcstate' = "idle"
  /\ UNCHANGED <<ctxVars, codeVars, age, fs_cal2, vco, freq, pa, agc, begun, found>>

Code == HighPoll \/ HighDone \/ HighGivenUp \/ MidPoll \/ MidDone

Application ==
  \/ tta_rf_connect \/ tta_rf_close
  \/ \E c \in Channels : tta_rf_set_ch(c)
  \/ \E p \in Powers : tta_rf_set_power(p)
  \/ tta_rf_set_agc \/ tta_rf_get_rssi \/ Traffic

Next == Code \/ CalDone \/ Application

Spec == Init /\ [][Next]_vars

\* The thread runs, and every calibration ends.
FairSpec == Spec /\ WF_vars(Code) /\ WF_vars(CalDone)

-----------------------------------------------------------------------------

\* Unless the first wait ran out, the radio works with the best result of two
\* calibrations that were both made for the channel it is on, one from each
\* start value.
Calibrated ==
  (pc = "idle" /\ timeout < PollLimit) =>
    /\ vco \in found
    /\ \A r \in found : r.v <= vco.v /\ r.ch = freq
    /\ {r.start : r \in found} = {CalStart, CalStart + 2}

\* However many calls were made, and however slow the chip was, FS_CAL2 has its
\* original value after each: the offset of one call does not add to the next.
CalRestored == pc \in {"idle", "closed"} => fs_cal2 = CalStart

\* The radio has the channel and the power the application asked for last, if
\* it asked since it connected.
AsAsked ==
  pc = "idle" => /\ "ch" \in asked => freq = ch
                 /\ "power" \in asked => pa = power

\* A call that calibrates returns.
CalibrationReturns == pc \in {"high", "mid"} ~> pc = "idle"

=============================================================================
