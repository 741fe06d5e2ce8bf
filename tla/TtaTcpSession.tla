--------------------------- MODULE TtaTcpSession ----------------------------
(***************************************************************************)
(* A TCP client in tta_request and a TCP server looping on tta_receive and *)
(* tta_reply, as unit_test_master.c and unit_test_slave.c do.              *)
(*                                                                         *)
(* Both contexts number the packets they build: conv_ttamsg2pkt increments *)
(* ctx_tcp->tid and puts it in the packet, for a reply as for a request.   *)
(* The client accepts a reply when its identifier is the request's.  The   *)
(* server never looks at the identifier it received, so the two agree only *)
(* while the two counters move together: this module is about when they    *)
(* do, and what late replies, timeouts, the recovery modes, failed sends   *)
(* and reconnections make of it.                                           *)
(*                                                                         *)
(* Packets are whole here; TtaReceive is about how they are read.          *)
(***************************************************************************)
EXTENDS Naturals, Sequences

CONSTANTS
  TidMax,         \* UINT16_MAX
  RecoveryModes,  \* the values of error_recovery the client may have
  Faults,         \* what goes wrong, see Fault
  Prompt,         \* the server answers within a recovery sleep
  MaxRequests,    \* bound: requests the client makes
  MaxUnanswered,  \* bound: requests and replies on their way at once
  MaxResets       \* bound: times the connection breaks

Link == "LINK"          \* TTA_ERROR_RECOVERY_LINK
Protocol == "PROTOCOL"  \* TTA_ERROR_RECOVERY_PROTOCOL

\* reset: the connection breaks.  restart: the client process starts afresh.
\* skip: the server application leaves a request unanswered.
\* full: send() finds the socket's buffer full (the socket does not block).
Fault == {"reset", "restart", "skip", "full"}

ASSUME SessionAssumption ==
  /\ {TidMax, MaxRequests, MaxUnanswered, MaxResets} \subseteq Nat
  /\ RecoveryModes \subseteq SUBSET {Link, Protocol}
  /\ Faults \subseteq Fault
  /\ Prompt \in BOOLEAN

VARIABLES
  cpc,       \* the client: idle, sending, waiting or sleep
  ctid,      \* the client's ctx_tcp->tid
  recovery,  \* the client's error_recovery
  req,       \* the number of the client's last request
  answer,    \* the request answered by what its call returned, 0 for none
  conn,      \* the connection: up or down
  c2s, s2c,  \* packets on their way
  resets,    \* times the connection broke
  spc,       \* the server: receive or reply
  stid,      \* the server's ctx_tcp->tid
  sreq       \* the request the server is serving

clientVars == <<cpc, ctid, recovery, req, answer>>
netVars == <<conn, c2s, s2c, resets>>
serverVars == <<spc, stid, sreq>>
vars == <<clientVars, netVars, serverVars>>

\* A packet carries an identifier; about says which request it makes or answers.
Packet == [tid : 0..TidMax, about : 1..MaxRequests]

TypeOK ==
  /\ cpc \in {"idle", "sending", "waiting", "sleep"}
  /\ {ctid, stid} \subseteq 0..TidMax
  /\ recovery \in RecoveryModes
  /\ {req, answer, sreq} \subseteq 0..MaxRequests
  /\ conn \in {"up", "down"}
  /\ {c2s, s2c} \subseteq Seq(Packet)
  /\ resets \in 0..MaxResets
  /\ spc \in {"receive", "reply"}

Init ==
  /\ cpc = "idle" /\ ctid = 0 /\ req = 0 /\ answer = 0
  /\ recovery \in RecoveryModes
  /\ conn = "up" /\ c2s = <<>> /\ s2c = <<>> /\ resets = 0
  /\ spc = "receive" /\ stid = 0 /\ sreq = 0

\* A slip: the identifier does not wrap.
MutNextTidWide(tid) == tid + 1

\* conv_ttamsg2pkt: the identifier wraps to 0
NextTid(tid) == IF tid < TidMax THEN tid + 1 ELSE 0

\* Requests that were sent and whose reply the client has not read.
Unanswered == Len(c2s) + Len(s2c) + (IF spc = "reply" THEN 1 ELSE 0)

\* A new connection: nothing on its way, the server accepts it with the
\* context it has or with a new one, whose counter starts again.
Accepted ==
  /\ conn' = "up"
  /\ c2s' = <<>> /\ s2c' = <<>>
  /\ spc' = "receive" /\ sreq' = 0
  /\ stid' \in {stid, 0}
  /\ UNCHANGED resets

\* tta_close then tta_connect, which succeeds or fails
Reconnect ==
  \/ Accepted
  \/ /\ conn' = "down"
     /\ c2s' = <<>> /\ s2c' = <<>>
     /\ UNCHANGED <<resets, serverVars>>

\* tta_flush: what has arrived is thrown away
Flush ==
  \E n \in 0..Len(s2c) : s2c' = SubSeq(s2c, n + 1, Len(s2c))

\* tta_request returns -1
Failed == cpc' = "idle" /\ UNCHANGED <<ctid, recovery, req, answer>>

-----------------------------------------------------------------------------
(* The client's call of tta_request.                                       *)

\* conv_ttamsg2pkt takes the next identifier, before anything is sent.
RequestBegin ==
  /\ cpc = "idle"
  /\ req < MaxRequests
  /\ Unanswered < MaxUnanswered
  /\ cpc' = "sending"
  /\ ctid' = NextTid(ctid)
  /\ req' = req + 1
  /\ answer' = 0
  /\ UNCHANGED <<recovery, netVars, serverVars>>

\* _send_pkt: the packet is sent, tta_request goes on to wait.
SendOk ==
  /\ cpc = "sending"
  /\ conn = "up"
  /\ c2s' = Append(c2s, [tid |-> ctid, about |-> req])
  /\ cpc' = "waiting"
  /\ UNCHANGED <<ctid, recovery, req, answer, conn, s2c, resets, serverVars>>

\* A slip: with LINK it tries again without connecting.
MutSendDownNoConnect ==
  /\ cpc = "sending"
  /\ conn = "down"
  /\ IF Link \in recovery
       THEN UNCHANGED clientVars
       ELSE Failed
  /\ UNCHANGED <<netVars, serverVars>>

\* _send_pkt fails: with LINK it closes, connects and tries again, for ever.
SendDown ==
  /\ cpc = "sending"
  /\ conn = "down"
  /\ IF Link \in recovery
       THEN Reconnect /\ UNCHANGED clientVars
       ELSE Failed /\ UNCHANGED <<netVars, serverVars>>

\* send() would block: with LINK it sleeps, flushes and tries again.
SendFull ==
  /\ "full" \in Faults
  /\ cpc = "sending"
  /\ conn = "up"
  /\ Len(c2s) > 0
  /\ IF Link \in recovery THEN Flush /\ UNCHANGED clientVars
                          ELSE Failed /\ UNCHANGED s2c
  /\ UNCHANGED <<conn, c2s, resets, serverVars>>

\* A slip: the identifier is not compared.
MutConfirmationAny ==
  /\ cpc = "waiting"
  /\ s2c # <<>>
  /\ cpc' = "idle"
  /\ answer' = Head(s2c).about
  /\ s2c' = Tail(s2c)
  /\ UNCHANGED <<ctid, recovery, req, conn, c2s, resets, serverVars>>

\* The reply carries the request's identifier: tta_request returns it.
ConfirmationOk ==
  /\ cpc = "waiting"
  /\ s2c # <<>>
  /\ Head(s2c).tid = ctid
  /\ cpc' = "idle"
  /\ answer' = Head(s2c).about
  /\ s2c' = Tail(s2c)
  /\ UNCHANGED <<ctid, recovery, req, conn, c2s, resets, serverVars>>

\* It carries another one: -1, after a sleep and a flush with PROTOCOL.
ConfirmationRefused ==
  /\ cpc = "waiting"
  /\ s2c # <<>>
  /\ Head(s2c).tid # ctid
  /\ cpc' = IF Protocol \in recovery THEN "sleep" ELSE "idle"
  /\ s2c' = Tail(s2c)
  /\ UNCHANGED <<ctid, recovery, req, answer, conn, c2s, resets, serverVars>>

\* No reply in time: -1, after a sleep and a flush with LINK.
ResponseTimeout ==
  /\ cpc = "waiting"
  /\ conn = "up"
  /\ cpc' = IF Link \in recovery THEN "sleep" ELSE "idle"
  /\ UNCHANGED <<ctid, recovery, req, answer, netVars, serverVars>>

\* A slip: the sleep without the flush.
MutSleepNoFlush ==
  /\ cpc = "sleep"
  /\ Prompt => c2s = <<>> /\ spc = "receive"
  /\ Failed
  /\ UNCHANGED <<conn, c2s, s2c, resets, serverVars>>

\* The end of _sleep_and_flush.
SleepOver ==
  /\ cpc = "sleep"
  /\ IF Prompt
       THEN c2s = <<>> /\ spc = "receive" /\ s2c' = <<>>
       ELSE Flush
  /\ Failed
  /\ UNCHANGED <<conn, c2s, resets, serverVars>>

\* The connection broke while waiting and there is no reply left to read: -1,
\* after one attempt to reconnect with LINK.
WaitDown ==
  /\ cpc = "waiting"
  /\ conn = "down"
  /\ s2c = <<>>
  /\ Failed
  /\ IF Link \in recovery THEN Reconnect ELSE UNCHANGED <<netVars, serverVars>>

-----------------------------------------------------------------------------
(* The client application, between two calls.                              *)

\* It closes and connects again.
AppReconnect ==
  /\ cpc = "idle"
  /\ conn = "down"
  /\ Accepted
  /\ UNCHANGED clientVars

\* It starts afresh: tta_new_tcp, tta_connect.
ClientRestart ==
  /\ "restart" \in Faults
  /\ cpc' = "idle" /\ ctid' = 0 /\ answer' = 0
  /\ Accepted
  /\ UNCHANGED <<recovery, req>>

-----------------------------------------------------------------------------
(* The server's loop.                                                      *)

ServerReceive ==
  /\ spc = "receive"
  /\ c2s # <<>>
  /\ sreq' = Head(c2s).about
  /\ c2s' = Tail(c2s)
  /\ spc' = "reply"
  /\ UNCHANGED <<clientVars, conn, s2c, resets, stid>>

\* A slip: the identifier is incremented after it was put in the reply.
MutReplyPostIncrement ==
  /\ spc = "reply"
  /\ spc' = "receive"
  /\ stid' = NextTid(stid)
  /\ s2c' = IF conn = "up"
              THEN Append(s2c, [tid |-> stid, about |-> sreq])
              ELSE s2c
  /\ UNCHANGED <<clientVars, conn, c2s, resets, sreq>>

\* tta_reply: the reply takes the identifier of the server's own counter.
ServerReply ==
  /\ spc = "reply"
  /\ spc' = "receive"
  /\ stid' = NextTid(stid)
  /\ s2c' = IF conn = "up"
              THEN Append(s2c, [tid |-> stid', about |-> sreq])
              ELSE s2c
  /\ UNCHANGED <<clientVars, conn, c2s, resets, sreq>>

\* The server application has no answer for this request.
ServerSkip ==
  /\ "skip" \in Faults
  /\ spc = "reply"
  /\ spc' = "receive"
  /\ UNCHANGED <<clientVars, netVars, stid, sreq>>

-----------------------------------------------------------------------------

\* The connection breaks.  What has arrived may still be read on either side,
\* the rest is lost.
ConnectionReset ==
  /\ "reset" \in Faults
  /\ conn = "up"
  /\ resets < MaxResets
  /\ conn' = "down"
  /\ \E n \in 0..Len(c2s) : c2s' = SubSeq(c2s, 1, n)
  /\ \E n \in 0..Len(s2c) : s2c' = SubSeq(s2c, 1, n)
  /\ resets' = resets + 1
  /\ UNCHANGED <<clientVars, serverVars>>

Client ==
  \/ RequestBegin \/ SendOk \/ SendDown \/ SendFull
  \/ ConfirmationOk \/ ConfirmationRefused
  \/ ResponseTimeout \/ SleepOver \/ WaitDown
  \/ AppReconnect \/ ClientRestart

Server == ServerReceive \/ ServerReply \/ ServerSkip

Next == Client \/ Server \/ ConnectionReset

Spec == Init /\ [][Next]_vars

\* The client's thread runs and its timers expire; the server runs; a client
\* that keeps connecting succeeds in the end.
Fairness ==
  /\ WF_vars(SendOk) /\ WF_vars(SendDown) /\ SF_vars(SendDown /\ conn' = "up")
  /\ WF_vars(ConfirmationOk \/ ConfirmationRefused \/ ResponseTimeout \/ WaitDown)
  /\ WF_vars(SleepOver)
  /\ WF_vars(Server)

FairSpec == Spec /\ Fairness

-----------------------------------------------------------------------------

\* The identifier associates the response with the request: tta_request never
\* returns the answer to another request, however late replies come.
AcceptedAnswersRequest == answer # 0 => answer = req

\* The other half: the response to the request the client is waiting for is
\* never refused.
AnswerNotRefused ==
  (cpc = "waiting" /\ s2c # <<>> /\ Head(s2c).about = req) =>
    Head(s2c).tid = ctid

\* With link recovery, and a server that is done within the recovery sleep, a
\* failed call leaves nothing behind that the next call could take for its own
\* reply: no request still to be answered, no reply still to be read.  A server
\* that works on after the connection broke has nobody to reply to.
NothingLeftBehind ==
  cpc = "idle" => /\ c2s = <<>> /\ s2c = <<>>
                  /\ conn = "up" => spc = "receive"

\* Every call returns, although with LINK _send_pkt tries for ever: a
\* connection that comes back ends the loop, and a wait always ends.
CallReturns == cpc # "idle" ~> cpc = "idle"

\* tta_request is a request answered at most once, by its own answer, and
\* every call returns.
Request == INSTANCE TtaRequest WITH busy <- cpc # "idle"
ImplementsRequest == Request!Spec

=============================================================================
