------------------------------- MODULE RfLink -------------------------------
(***************************************************************************)
(* tta_request over the RF backend: one context, its CC1120, the channel,  *)
(* the peer that answers and another station.                              *)
(*                                                                         *)
(* A tick is the millisecond between two polls of _tta_rf_send.  The code  *)
(* learns that a packet has left from the rise and the fall of GPIO3       *)
(* (PKT_SYNC_RXTX), which the chip also raises for a packet it receives.   *)
(* After STX the chip listens until the channel is clear.                  *)
(***************************************************************************)
EXTENDS Naturals

CONSTANTS
  RfLinks,       \* values of error_recovery & TTA_ERROR_RECOVERY_LINK
  Preamble,    \* time the chip needs to the end of the sync word
  FrameTicks,  \* time a packet takes from there
  Tries,       \* polls of RSSI0 after which the channel is given up
  SendLimit,   \* time the packet is given to leave
  SendGap,     \* bound: the longest time between two polls of a send
  RecvGap,     \* time between two polls of a receive
  ResponseTimeout,  \* response_timeout
  Turnaround,  \* time the peer takes to answer
  MaxOthers    \* bound: packets of another station

ASSUME LinkAssumption ==
  /\ RfLinks \subseteq BOOLEAN
  /\ {Preamble, FrameTicks, Tries, SendGap, RecvGap} \subseteq Nat \ {0}
  /\ {SendLimit, ResponseTimeout, Turnaround, MaxOthers} \subseteq Nat

VARIABLES
  rf_link,  \* TTA_ERROR_RECOVERY_LINK
  rpc,      \* idle, lbt, tx, sleep or rx
  tries,    \* retry of the RSSI loop
  fgstart,  \* GPIO3 was seen high
  time,     \* since the deadline of the loop was set
  since,    \* since the last poll
  radio,    \* idle, rx, cca (STX given, the channel is not clear yet) or tx
  sync,     \* GPIO3
  left,     \* time the packet being sent still takes
  chip,     \* what the receive FIFO holds: none, answer or other
  air,      \* time the packet of another station, or the answer, still takes
  from,     \* whose packet that is: nobody, peer or other
  sent,     \* copies of the request that were sent whole, up to 2
  due,      \* time since the peer got the last copy, Turnaround when answered
  missed,   \* the answer began when the radio did not listen
  others    \* packets of the other station

sendVars == <<rf_link, rpc, tries, fgstart, time, since>>
radioVars == <<radio, sync, left, chip>>
airVars == <<air, from, sent, due, missed, others>>
linkVars == <<sendVars, radioVars, airVars>>

LinkInit ==
  /\ rf_link \in RfLinks
  /\ rpc = "idle" /\ tries = 0 /\ fgstart = FALSE /\ time = 0 /\ since = 0
  /\ radio = "idle" /\ sync = FALSE /\ left = 0 /\ chip = "none"
  /\ air = 0 /\ from = "nobody" /\ sent = 0 /\ due = Turnaround + 1
  /\ missed = FALSE /\ others = 0

-----------------------------------------------------------------------------
(* The strobes.                                                            *)

\* SIDLE ends what the radio does; a packet half sent or received is gone.
Strobe(to) == radio' = to /\ sync' = FALSE /\ left' = 0

Enter(where) ==
  /\ rpc' = where
  /\ tries' = 0 /\ fgstart' = FALSE /\ time' = 0 /\ since' = 0
  /\ UNCHANGED rf_link

-----------------------------------------------------------------------------
(* Sending.                                                                *)

\* SIDLE, SFTX, the packet into the FIFO, SRX.
Begin == Enter("lbt") /\ Strobe("rx") /\ UNCHANGED chip

\* tta_request: the answers to what was asked before have passed.
RfSendBegin ==
  /\ rpc = "idle" /\ air = 0 /\ due = Turnaround + 1
  /\ Begin
  /\ sent' = 0 /\ missed' = FALSE
  /\ UNCHANGED <<air, from, due, others>>

\* out: SIDLE and SFTX.  _send_pkt repeats the send with LINK.
SendFails ==
  /\ Enter(IF rf_link THEN "sleep" ELSE "idle")
  /\ Strobe("idle")
  /\ UNCHANGED <<chip, airVars>>

RssiInvalid ==
  /\ rpc = "lbt" /\ since > 0 /\ tries < Tries
  /\ tries' = tries + 1 /\ since' = 0
  /\ UNCHANGED <<rf_link, rpc, fgstart, time, radioVars, airVars>>

RssiNever == rpc = "lbt" /\ since > 0 /\ tries = Tries /\ SendFails

\* The carrier sense is valid: STX, and a second for the packet to leave.
RssiValid ==
  /\ rpc = "lbt" /\ since > 0
  /\ Enter("tx")
  /\ radio' = "cca"
  /\ UNCHANGED <<sync, left, chip, airVars>>

\* A slip: that GPIO3 was high is not kept.
MutSyncPoll ==
  /\ rpc = "tx" /\ since > 0
  /\ time <= SendLimit
  /\ fgstart' = FALSE /\ since' = 0
  /\ UNCHANGED <<rf_link, rpc, tries, time, radioVars, airVars>>

\* GPIO3 is high, or has not been high yet.
SyncPoll ==
  /\ rpc = "tx" /\ since > 0
  /\ sync \/ ~fgstart
  /\ time <= SendLimit
  /\ fgstart' = (fgstart \/ sync) /\ since' = 0
  /\ UNCHANGED <<rf_link, rpc, tries, time, radioVars, airVars>>

\* A slip: the receiver is left off, as after a send.
MutListenNot == Enter("rx") /\ Strobe("idle") /\ chip' = "none"

\* _tta_rf_receive: SIDLE, SFRX, SRX.
Listen == Enter("rx") /\ Strobe("rx") /\ chip' = "none"

\* A slip: the level alone is looked at.
MutSent ==
  /\ rpc = "tx" /\ since > 0
  /\ ~sync
  /\ Listen
  /\ UNCHANGED airVars

\* It has been high and is low: the packet has left, and the answer is waited
\* for.
Sent ==
  /\ rpc = "tx" /\ since > 0
  /\ fgstart /\ ~sync
  /\ Listen
  /\ UNCHANGED airVars

SendTimeout ==
  /\ rpc = "tx" /\ since > 0
  /\ sync \/ ~fgstart
  /\ time > SendLimit
  /\ SendFails

\* _sleep_and_flush, and again; the peer's answer meanwhile is not heard.
SendAgain ==
  /\ rpc = "sleep" /\ air = 0 /\ due = Turnaround + 1
  /\ time = ResponseTimeout
  /\ Begin
  /\ UNCHANGED airVars

-----------------------------------------------------------------------------
(* Receiving.                                                              *)

\* out: SIDLE and SFRX.
RecvReturn ==
  /\ Enter("idle")
  /\ Strobe("idle") /\ chip' = "none"
  /\ UNCHANGED airVars

\* A packet has been received: MARCSTATE is IDLE again.  _tta_receive_pkt,
\* fed by read_rf, and check_confirmation look at it; the call returns.
Packet == rpc = "rx" /\ chip # "none" /\ radio = "idle" /\ RecvReturn

RecvPoll ==
  /\ rpc = "rx" /\ since > 0
  /\ chip = "none" \/ radio # "idle"
  /\ time <= ResponseTimeout
  /\ since' = 0
  /\ UNCHANGED <<rf_link, rpc, tries, fgstart, time, radioVars, airVars>>

RecvTimeout ==
  /\ rpc = "rx" /\ since > 0
  /\ chip = "none" \/ radio # "idle"
  /\ time > ResponseTimeout
  /\ RecvReturn

-----------------------------------------------------------------------------
(* The chip, the channel and the other stations.                           *)

\* The sync word follows the preamble.
StartTx ==
  /\ radio = "cca" /\ air = 0
  /\ radio' = "tx" /\ left' = FrameTicks + Preamble
  /\ UNCHANGED <<sync, chip, sendVars, airVars>>

Hears == radio \in {"rx", "cca"}

\* A packet appears in the air; a radio that listens raises GPIO3.
Starts(who) ==
  /\ air = 0 /\ radio # "tx"
  /\ air' = FrameTicks /\ from' = who
  /\ sync' = Hears
  /\ UNCHANGED <<sendVars, radio, left, chip, sent>>

OtherStarts ==
  /\ others < MaxOthers /\ others' = others + 1
  /\ Starts("other")
  /\ UNCHANGED <<due, missed>>

PeerAnswers ==
  /\ due = Turnaround /\ due' = Turnaround + 1
  /\ Starts("peer")
  /\ missed' = (rpc \in {"tx", "rx"} /\ radio # "rx")
  /\ UNCHANGED others

\* How long the code may take until it polls again.
Gap ==
  CASE rpc \in {"lbt", "tx"} -> SendGap
    [] rpc = "rx" -> RecvGap
    [] OTHER -> 1

\* The packet being sent, or received, ends with this tick.
SendEnds == radio = "tx" /\ left = 1
SyncWord == radio = "tx" /\ left = FrameTicks + 1
RecvEnds == air = 1 /\ sync /\ Hears

RfTick ==
  /\ since < Gap
  /\ rpc # "idle" \/ air > 0 \/ due <= Turnaround
  /\ ~(radio = "cca" /\ air = 0) /\ (due # Turnaround \/ air > 0)
  /\ time' = CASE rpc = "idle" -> 0
               [] rpc = "sleep" /\ time = ResponseTimeout -> ResponseTimeout
               [] OTHER -> time + 1
  /\ since' = IF rpc \in {"idle", "sleep"} THEN 0 ELSE since + 1
  /\ left' = IF radio = "tx" THEN left - 1 ELSE left
  /\ air' = IF air > 0 THEN air - 1 ELSE 0
  /\ from' = IF air > 1 THEN from ELSE "nobody"
  /\ sync' = (SyncWord \/ (sync /\ ~SendEnds /\ ~RecvEnds))
  /\ radio' = IF SendEnds \/ (RecvEnds /\ radio = "rx") THEN "idle" ELSE radio
  /\ chip' = IF RecvEnds THEN IF from = "peer" THEN "answer" ELSE "other"
             ELSE chip
  /\ sent' = IF SendEnds /\ sent < 2 THEN sent + 1 ELSE sent
  /\ due' = IF SendEnds THEN 0
            ELSE IF due < Turnaround THEN due + 1 ELSE due
  /\ UNCHANGED <<rf_link, rpc, tries, fgstart, missed, others>>

LinkCode ==
  \/ RssiInvalid \/ RssiNever \/ RssiValid
  \/ SyncPoll \/ Sent \/ SendTimeout \/ SendAgain
  \/ Packet \/ RecvPoll \/ RecvTimeout

LinkNext ==
  \/ RfSendBegin \/ LinkCode
  \/ StartTx \/ OtherStarts \/ PeerAnswers \/ RfTick

LinkSpec == LinkInit /\ [][LinkNext]_linkVars

\* The thread runs, time passes, the chip sends on a clear channel and the
\* carrier sense becomes valid again and again.
LinkFairSpec ==
  LinkSpec /\ WF_linkVars(LinkCode) /\ WF_linkVars(RfTick) /\ WF_linkVars(StartTx)
       /\ WF_linkVars(PeerAnswers) /\ SF_linkVars(RssiValid)

-----------------------------------------------------------------------------

\* A poll falls in every packet, and before the answer to one.
Prompt == SendGap <= FrameTicks /\ SendGap <= Turnaround

\* When the call goes on to wait for the answer, the request has left, unless
\* another station's packet was heard after STX.
SentBeforeListening == others = 0 => (rpc = "rx" => sent > 0)

\* However often _send_pkt repeats it, a request leaves whole at most once, if
\* the code polls in time.
RfSentOnce == Prompt => sent <= 1

\* If it does, on a channel of its own an answer finds the radio listening.
AnswerHeard == Prompt /\ others = 0 => ~missed

\* The radio turns from sending to listening neither too early nor too late.
TurnsInTime == SentBeforeListening /\ AnswerHeard

\* tta_request returns, on a busy channel too.
RequestReturns == rpc = "lbt" ~> rpc = "idle"

=============================================================================
