---------------------------- MODULE MCHalfDuplex ----------------------------
(***************************************************************************)
(* The two half-duplex backends in small instances.  RS-485: the bus with  *)
(* two slaves, the line and RTS, the serial port.  RF: the settings and    *)
(* the calibration of the CC1120, a request on the channel, two contexts   *)
(* that share rxfifo.  They share no state, so a behaviour is one of one   *)
(* part, chosen at the start; the others stay as they begin.               *)
(***************************************************************************)
EXTENDS SlaveBus, Rs485Line, Rs485Port, Cc1120, RfLink, RfContexts

CONSTANTS d1, d2, c1, c2, x1, x2

MCSlaves == {d1, d2}
MCCommands == {c1, c2}
MCContexts == {x1, x2}

(***************************************************************************)
(* The line: write_uart with a drain limit longer than every packet and    *)
(* calls that fail; RTS mode UP with sleeps longer than a packet, first    *)
(* without and then with such calls; all modes and faults.                 *)
(***************************************************************************)
Polled == [modes |-> {}, faults |-> {"write", "open"},
           poll |-> 4, switch |-> 2, patience |-> 3]
Timed == [modes |-> {"up"}, faults |-> {},
          poll |-> 2, switch |-> 5, patience |-> 6]
Faulty == [modes |-> {"up"}, faults |-> {"write", "open"},
           poll |-> 4, switch |-> 5, patience |-> 6]
AnyMode == [modes |-> {"none", "up", "down"}, faults |-> {"write", "open", "lsr"},
            poll |-> 2, switch |-> 2, patience |-> 3]

MCSetups == {Polled, Timed, Faulty, AnyMode}

VARIABLE part

rs485Vars == <<busVars, lineVars, portVars>>
rfVars == <<vars, linkVars, contextVars>>

-----------------------------------------------------------------------------

MCInit ==
  /\ part \in {"bus", "line", "port", "radio", "link", "contexts"}
  /\ BusInit /\ LineInit /\ PortInit
  /\ Init /\ LinkInit /\ ContextsInit
  /\ part # "bus" => ~recovery
  /\ part # "line" => setup = Polled /\ ~link
  /\ part # "link" => ~rf_link

MCNext ==
  /\ UNCHANGED part
  /\ \/ part = "bus" /\ BusNext /\ UNCHANGED <<lineVars, portVars, rfVars>>
     \/ part = "line" /\ LineNext /\ UNCHANGED <<busVars, portVars, rfVars>>
     \/ part = "port" /\ PortNext /\ UNCHANGED <<busVars, lineVars, rfVars>>
     \/ part = "radio" /\ Next /\ UNCHANGED <<rs485Vars, linkVars, contextVars>>
     \/ part = "link" /\ LinkNext /\ UNCHANGED <<rs485Vars, vars, contextVars>>
     \/ part = "contexts" /\ ContextsNext /\ UNCHANGED <<rs485Vars, vars, linkVars>>

\* The fairness of Rs485Line, Cc1120 and RfLink.
MCSpec ==
  /\ MCInit /\ [][MCNext]_<<part, rs485Vars, rfVars>>
  /\ WF_lineVars(part = "line" /\ Call)
  /\ WF_lineVars(part = "line" /\ Tick)
  /\ WF_vars(part = "radio" /\ Code) /\ WF_vars(part = "radio" /\ CalDone)
  /\ WF_linkVars(part = "link" /\ LinkCode)
  /\ WF_linkVars(part = "link" /\ RfTick)
  /\ WF_linkVars(part = "link" /\ StartTx)
  /\ WF_linkVars(part = "link" /\ PeerAnswers)
  /\ SF_linkVars(part = "link" /\ RssiValid)

-----------------------------------------------------------------------------

\* With RF every call returns: tta_request, on a busy channel too, and the calls
\* that calibrate, if the chip ends its calibrations.
CallsReturn == RequestReturns /\ CalibrationReturns

=============================================================================
