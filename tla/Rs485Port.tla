----------------------------- MODULE Rs485Port ------------------------------
(***************************************************************************)
(* A context of the RS-485 backend and the serial port it opens: how the   *)
(* settings given to tta_new_rs485 reach the port, what connect saves and  *)
(* close gives back, and the level of RTS while the port is open.          *)
(***************************************************************************)
EXTENDS Naturals

CONSTANTS
  Devices,    \* device names: empty, fits or long
  Bauds,      \* baud rates asked for
  Speeds,     \* those termios knows, 9600 among them
  Modes,      \* what the application gives to tta_rs485_set_rts
  Original,   \* the port's settings before the program came
  Absent      \* no context, or nothing saved

VARIABLES
  ctx,    \* the context: Absent or what tta_new_rs485 was asked for
  pmode,  \* ctx_rs485->rts
  s,      \* ctx->s: minus (-1), open, or stale after close
  saved,  \* ctx_rs485->old_tios
  port,   \* the settings in the port
  prts    \* the signal

portVars == <<ctx, pmode, s, saved, port, prts>>

Request == [baud : Bauds, parity : {"N", "E", "O", "?"},
            data_bit : 5..9, stop_bit : 1..2]

\* A slip: odd parity is taken for even.
MutSettingsParity(c) ==
  [speed  |-> IF c.baud \in Speeds THEN c.baud ELSE 9600,
   csize  |-> IF c.data_bit \in 5..7 THEN c.data_bit ELSE 8,
   cstopb |-> IF c.stop_bit = 1 THEN {} ELSE {"CSTOPB"},
   parity |-> IF c.parity = "N" THEN {} ELSE {"PARENB"},
   inpck  |-> c.parity # "N"]

\* The termios of _tta_rs485_connect; the rest of it is raw, without flow
\* control, whatever is asked for.
Settings(c) ==
  [speed  |-> IF c.baud \in Speeds THEN c.baud ELSE 9600,
   csize  |-> IF c.data_bit \in 5..7 THEN c.data_bit ELSE 8,
   cstopb |-> IF c.stop_bit = 1 THEN {} ELSE {"CSTOPB"},
   parity |-> CASE c.parity = "N" -> {}
                [] c.parity = "E" -> {"PARENB"}
                [] OTHER -> {"PARENB", "PARODD"},
   inpck  |-> c.parity # "N"]

PortInit ==
  /\ ctx = Absent /\ pmode = "none" /\ s = "minus"
  /\ saved = Absent /\ port = Original /\ prts = FALSE

\* A name that is empty or too long, or an unknown parity: no context.
tta_new_rs485(device, r) ==
  /\ ctx = Absent
  /\ device = "fits" /\ r.parity # "?"
  /\ ctx' = r /\ pmode' = "none" /\ s' = "minus" /\ saved' = Absent
  /\ UNCHANGED <<port, prts>>

\* A slip: the settings to give back are read after the new ones are made.
MutOpenedSavesLate ==
  /\ s' = "open"
  /\ port' = Settings(ctx)
  /\ saved' = port'
  /\ prts' = FALSE

\* A slip: RTS stays as the driver raised it when the port was opened.
MutOpenedRts ==
  /\ s' = "open"
  /\ saved' = port
  /\ port' = Settings(ctx)
  /\ prts' = TRUE

\* _tta_rs485_connect succeeds: save, set up, clear RTS.
Opened ==
  /\ s' = "open"
  /\ saved' = port
  /\ port' = Settings(ctx)
  /\ prts' = FALSE

\* open() fails, or the port does not take the settings and is closed again.
NotOpened ==
  /\ s' = "minus"
  /\ \/ UNCHANGED <<saved, port, prts>>
     \/ saved' = port /\ UNCHANGED port /\ prts' \in BOOLEAN

\* The application connects when it is not connected.
tta_connect ==
  /\ ctx # Absent /\ s # "open"
  /\ Opened \/ NotOpened
  /\ UNCHANGED <<ctx, pmode>>

\* A slip: the settings are not given back.
MutClosePlain ==
  /\ ctx # Absent
  /\ s' = IF s = "open" THEN "stale" ELSE s
  /\ prts' \in IF s = "open" THEN {prts, FALSE} ELSE {prts}
  /\ UNCHANGED <<ctx, pmode, saved, port>>

\* The port's own settings decide whether closing it drops RTS.
tta_close ==
  /\ ctx # Absent
  /\ s' = IF s = "open" THEN "stale" ELSE s
  /\ port' = IF s = "open" THEN saved ELSE port
  /\ prts' \in IF s = "open" THEN {prts, FALSE} ELSE {prts}
  /\ UNCHANGED <<ctx, pmode, saved>>

\* Link recovery: tta_close, then tta_connect on what the port has then.
Recover ==
  /\ ctx # Absent
  /\ LET given == IF s = "open" THEN saved ELSE port IN
     \/ /\ s' = "open" /\ saved' = given /\ port' = Settings(ctx)
        /\ prts' = FALSE
     \/ /\ s' = "minus" /\ saved' \in {saved, given} /\ port' = given
        /\ prts' \in BOOLEAN
  /\ UNCHANGED <<ctx, pmode>>

\* tta_rs485_set_rts: the mode is kept also when the port is not open and the
\* ioctl fails.
set_rts(m) ==
  /\ ctx # Absent
  /\ pmode' = m
  /\ prts' = IF s = "open" THEN m # "up" ELSE prts
  /\ UNCHANGED <<ctx, s, saved, port>>

\* The application frees what it closed.
tta_free ==
  /\ ctx # Absent /\ s # "open"
  /\ ctx' = Absent /\ pmode' = "none" /\ s' = "minus" /\ saved' = Absent
  /\ UNCHANGED <<port, prts>>

PortNext ==
  \/ \E d \in Devices, r \in Request : tta_new_rs485(d, r)
  \/ tta_connect \/ tta_close \/ Recover \/ tta_free
  \/ \E m \in Modes : set_rts(m)

PortSpec == PortInit /\ [][PortNext]_portVars

-----------------------------------------------------------------------------

\* Whatever connects, reconnects and fails to, the port has its original
\* settings whenever the library does not hold it.
PortRestored == s # "open" => port = Original

\* What was asked of tta_new_rs485 and the port can do is what an open port
\* has, after any number of recoveries.
PortAsAsked ==
  s = "open" =>
    /\ ctx.baud \in Speeds => port.speed = ctx.baud
    /\ ctx.data_bit \in 5..8 => port.csize = ctx.data_bit
    /\ "CSTOPB" \in port.cstopb <=> ctx.stop_bit = 2
    /\ "PARENB" \in port.parity <=> ctx.parity \in {"E", "O"}
    /\ "PARODD" \in port.parity <=> ctx.parity = "O"

\* With polarity UP, RTS leaves the bus to the others whenever the port is open
\* and nothing is sent, also after a recovery.
BusNotReserved == s = "open" /\ pmode = "up" => ~prts

\* The port is as its owner wants it: the system's when it is closed, the
\* context's when it is open.
PortKept == PortRestored /\ PortAsAsked /\ BusNotReserved

=============================================================================
