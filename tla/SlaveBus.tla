------------------------------ MODULE SlaveBus -------------------------------
(***************************************************************************)
(* A master that calls tta_request and several slaves on one RS-485 line,  *)
(* where every station hears every packet.  A packet is sent and heard     *)
(* whole; a station's in is what its serial port keeps until it is read.   *)
(***************************************************************************)
EXTENDS Naturals, Sequences

CONSTANTS
  Slaves,       \* their device identifiers
  None,         \* no packet
  Commands,
  Recoveries,   \* error_recovery: both modes (TRUE) or none (FALSE)
  Filter,       \* the slaves' applications look at the device and the reply
                \* bit; those of the repository do not, nor does the library
  MaxRequests,  \* bound: requests
  MaxLost,      \* bound: packets with a bad sum
  Cap           \* bound: packets a station keeps

ASSUME BusAssumption ==
  /\ Filter \in BOOLEAN /\ Recoveries \subseteq BOOLEAN
  /\ {MaxRequests, MaxLost} \subseteq Nat /\ Cap \in Nat \ {0}

Master == "master"
Stations == Slaves \cup {Master}

VARIABLES
  recovery,   \* the master's error_recovery
  mpc,         \* the master: idle, wait or sleep
  req,        \* its request; n tells one request from another, as no field does
  accepted,   \* the packet its last tta_request returned, or None
  n,          \* requests made
  in,         \* per station, the packets it has not read
  ignore,     \* per station, confirmation_to_ignore
  held,       \* per slave, the packet tta_receive returned, or None
  late,       \* an answer was later than all timeouts of the master
  lost        \* packets that were garbled

busVars == <<recovery, mpc, req, accepted, n, in, ignore, held, late, lost>>

BusInit ==
  /\ recovery \in Recoveries
  /\ mpc = "idle" /\ req = None /\ accepted = None /\ n = 0
  /\ in = [s \in Stations |-> <<>>]
  /\ ignore = [s \in Stations |-> FALSE]
  /\ held = [s \in Slaves |-> None]
  /\ late = FALSE /\ lost = 0

-----------------------------------------------------------------------------
(* The line.                                                               *)

Kept(q, p) == IF Len(q) = Cap THEN q ELSE Append(q, p)

\* The packet p of station s is heard by all others, or garbled.
Broadcast(s, p) ==
  \/ /\ in' = [t \in Stations |-> IF t = s THEN in[t] ELSE Kept(in[t], p)]
     /\ UNCHANGED lost
  \/ /\ lost < MaxLost /\ lost' = lost + 1
     /\ UNCHANGED in

\* All that was sent to the slaves has been dealt with.
Silent == \A s \in Slaves : in[s] = <<>> /\ held[s] = None

-----------------------------------------------------------------------------
(* Receiving.                                                              *)

\* What check_integrity makes of a packet whose sum is right: its length.
check_integrity(p) == 7

\* _tta_rs485_receive at station s takes the packet p; rc is what it returns.
Receive(s, p, rc) ==
  IF ignore[s]
    THEN rc = 0 /\ ignore' = [ignore EXCEPT ![s] = FALSE]
    ELSE /\ rc = check_integrity(p)
         /\ ignore' = [ignore EXCEPT ![s] = (rc = 0)]

-----------------------------------------------------------------------------
(* The master.                                                             *)

\* tta_request sends the request; the port keeps what came before.
RequestBegin(d, c) ==
  /\ mpc = "idle" /\ n < MaxRequests
  /\ n' = n + 1 /\ accepted' = None
  /\ req' = [dev |-> d, cmd |-> c, reply |-> FALSE, n |-> n', from |-> Master]
  /\ Broadcast(Master, req')
  /\ mpc' = "wait"
  /\ UNCHANGED <<recovery, ignore, held, late>>

\* A slip: the command alone is compared.
MutConfirmed(q, p) == p.cmd = q.cmd

\* _tta_rs485_pre_check_confirmation compares device and command, the command
\* without its top bit.
Confirmed(q, p) == p.dev = q.dev /\ p.cmd = q.cmd

\* check_confirmation sleeps and flushes with PROTOCOL, _tta_receive_pkt with
\* LINK.
Failed == mpc' = (IF recovery THEN "sleep" ELSE "idle") /\ UNCHANGED accepted

MasterReceive ==
  /\ mpc = "wait" /\ in[Master] # <<>>
  /\ LET p == Head(in[Master]) IN
       /\ \E rc \in {0, check_integrity(p)} : Receive(Master, p, rc)
       /\ IF Confirmed(req, p) THEN mpc' = "idle" /\ accepted' = p ELSE Failed
  /\ in' = [in EXCEPT ![Master] = Tail(@)]
  /\ UNCHANGED <<recovery, req, n, held, late, lost>>

\* The response timeout has passed.  An answer in time comes before it, or,
\* with recovery, before the sleep that follows is over.
Timeout ==
  /\ mpc = "wait" /\ in[Master] = <<>>
  /\ Failed
  /\ late' = (late \/ ~(recovery \/ Silent))
  /\ UNCHANGED <<recovery, req, n, in, ignore, held, lost>>

\* A slip: nothing is flushed.
MutSleepOver ==
  /\ mpc = "sleep"
  /\ late' = (late \/ ~Silent)
  /\ mpc' = "idle"
  /\ UNCHANGED <<recovery, req, accepted, n, in, ignore, held, lost>>

\* _sleep_and_flush
SleepOver ==
  /\ mpc = "sleep"
  /\ late' = (late \/ ~Silent)
  /\ in' = [in EXCEPT ![Master] = <<>>]
  /\ mpc' = "idle"
  /\ UNCHANGED <<recovery, req, accepted, n, ignore, held, lost>>

-----------------------------------------------------------------------------
(* The slaves.  Their application is the loop of unit_test_slave, which    *)
(* answers all that tta_receive returns, or, with Filter, one that leaves  *)
(* alone what is not a query for its device.                               *)

\* What the application answers.
Wanted(s, p) == Filter => p.dev = s /\ ~p.reply

SlaveReceive(s) ==
  /\ held[s] = None /\ in[s] # <<>>
  /\ in' = [in EXCEPT ![s] = Tail(@)]
  /\ LET p == Head(in[s]) IN
       \E rc \in {0, check_integrity(p)} :
         /\ Receive(s, p, rc)
         /\ held' = IF rc = 0 THEN held ELSE [held EXCEPT ![s] = p]
  /\ UNCHANGED <<recovery, mpc, req, accepted, n, late, lost>>

\* An application with a filter only.
SlaveIgnores(s) ==
  /\ held[s] # None /\ ~Wanted(s, held[s])
  /\ held' = [held EXCEPT ![s] = None]
  /\ UNCHANGED <<recovery, mpc, req, accepted, n, in, ignore, late, lost>>

\* tta_reply: device, sub-device and command of the request, the command with
\* its top bit set.
tta_reply(s) ==
  /\ held[s] # None /\ Wanted(s, held[s])
  /\ Broadcast(s, [held[s] EXCEPT !.reply = TRUE, !.from = s])
  /\ held' = [held EXCEPT ![s] = None]
  /\ UNCHANGED <<recovery, mpc, req, accepted, n, ignore, late>>

SlaveStep(s) == SlaveReceive(s) \/ SlaveIgnores(s) \/ tta_reply(s)
MasterStep == MasterReceive \/ Timeout \/ SleepOver

BusNext ==
  \/ \E d \in Slaves, c \in Commands : RequestBegin(d, c)
  \/ MasterStep
  \/ \E s \in Slaves : SlaveStep(s)

BusSpec == BusInit /\ [][BusNext]_busVars

\* All stations run.
BusFairSpec ==
  BusSpec /\ WF_busVars(MasterStep) /\ \A s \in Slaves : WF_busVars(SlaveStep(s))

-----------------------------------------------------------------------------

\* The response tta_request returns was sent by the slave it asked.
FromRequestedSlave == accepted # None => accepted.from = req.dev

\* It is the answer to this request and not to an earlier one, as long as no
\* answer was later than the timeouts allow.
AnswersThisRequest == accepted # None /\ ~late => accepted.n = req.n

\* A query for another slave is ignored, and so is a reply, so that after the last
\* request the line falls silent: this is what tta_receive's page says that the
\* library does.  Without Filter nobody does it, and it does not hold.
FallsSilent == <>[](mpc = "idle" /\ Silent)

=============================================================================
