------------------------ MODULE TtaTcpSession_proofs ------------------------
(***************************************************************************)
(* Two fresh contexts on one connection: the identifiers associate replies *)
(* with requests although a reply does not carry its request's, for every  *)
(* width of the identifier, as long as fewer requests are outstanding than *)
(* there are identifiers.                                                  *)
(*                                                                         *)
(* The argument counts.  Every request is sent, served and answered in     *)
(* order, so what is on its way is consecutive requests, the last of them  *)
(* the last that was sent; and an identifier is the client's counter set   *)
(* back by as many steps as its request is older than the current one.     *)
(***************************************************************************)
EXTENDS TtaTcpSession, SequenceTheorems, TLAPS

USE DEF Link, Protocol

Waiting == IF spc = "reply" THEN 1 ELSE 0

\* requests that were sent, and requests that were answered
SentCount == IF cpc = "sending" THEN req - 1 ELSE req
Served == SentCount - Len(c2s) - Waiting

\* The counter t, d increments ago.
Back(t, d) == IF d <= t THEN t - d ELSE t + TidMax + 1 - d

AnyPacket == [tid : 0..TidMax, about : Nat]

Shape ==
  /\ cpc \in {"idle", "sending", "waiting", "sleep"}
  /\ spc \in {"receive", "reply"}
  /\ conn = "up"
  /\ {ctid, stid} \subseteq 0..TidMax
  /\ req \in Nat /\ answer \in Nat /\ sreq \in Nat
  /\ {c2s, s2c} \subseteq Seq(AnyPacket)

Lockstep ==
  /\ cpc = "sending" => req > 0
  /\ Unanswered <= MaxUnanswered
  /\ cpc = "sending" => Unanswered < MaxUnanswered
  /\ Len(s2c) <= Served
  /\ \A i \in 1..Len(c2s) : c2s[i].about = SentCount - Len(c2s) + i
  /\ spc = "reply" => sreq = Served + 1
  /\ \A i \in 1..Len(s2c) :
       /\ s2c[i].about = Served - Len(s2c) + i
       /\ s2c[i].tid = Back(ctid, req - s2c[i].about)
  /\ stid = Back(ctid, req - Served)

SessionInv == Shape /\ Lockstep /\ AcceptedAnswersRequest

-----------------------------------------------------------------------------
(* The arithmetic of a counter that wraps.                                 *)

LEMMA BackZero ==
  ASSUME NEW t \in 0..TidMax
  PROVE  Back(t, 0) = t
BY SessionAssumption DEF Back

LEMMA BackIsTid ==
  ASSUME NEW t \in 0..TidMax, NEW d \in 0..TidMax
  PROVE  Back(t, d) \in 0..TidMax
BY SessionAssumption DEF Back

LEMMA BackStep ==
  ASSUME NEW t \in 0..TidMax, NEW d \in Nat, d + 1 <= TidMax
  PROVE  Back(NextTid(t), d + 1) = Back(t, d)
BY SessionAssumption DEF Back, NextTid

LEMMA BackNext ==
  ASSUME NEW t \in 0..TidMax, NEW d \in Nat, d + 1 <= TidMax
  PROVE  NextTid(Back(t, d + 1)) = Back(t, d)
BY SessionAssumption DEF Back, NextTid

LEMMA BackOnlyZero ==
  ASSUME NEW t \in 0..TidMax, NEW d \in 0..TidMax, Back(t, d) = t
  PROVE  d = 0
BY SessionAssumption DEF Back

LEMMA NextIsTid ==
  ASSUME NEW t \in 0..TidMax
  PROVE  NextTid(t) \in 0..TidMax
BY SessionAssumption DEF NextTid

(***************************************************************************)
(* How old what is on its way can be.                                      *)
(***************************************************************************)
LEMMA Ages ==
  ASSUME SessionInv, MaxUnanswered <= TidMax
  PROVE  /\ SentCount \in Nat /\ Served \in Nat /\ Waiting \in 0..1
         /\ Len(c2s) \in Nat /\ Len(s2c) \in Nat
         /\ req - Served \in 0..TidMax
         /\ SentCount - (Served - Len(s2c)) = Unanswered
         /\ Served + Waiting <= SentCount
         /\ \A i \in 1..Len(s2c) : /\ s2c[i].about \in Nat
                                   /\ s2c[i].tid \in 0..TidMax
                                   /\ s2c[i].about > 0
                                   /\ req - s2c[i].about \in 0..TidMax
<1>1. /\ SentCount \in Nat /\ Waiting \in 0..1
      /\ Len(c2s) \in Nat /\ Len(s2c) \in Nat /\ req \in Nat
      /\ MaxUnanswered \in Nat /\ TidMax \in Nat
      /\ Len(s2c) <= Served
  BY SessionAssumption
  DEF SessionInv, Shape, Lockstep, SentCount, Waiting, Unanswered
<1>2. Served \in Nat /\ Served = SentCount - Len(c2s) - Waiting
  BY <1>1 DEF Served
<1>3. SentCount - (Served - Len(s2c)) = Unanswered
  BY <1>1, <1>2 DEF Unanswered, Waiting
<1>4. req - (Served - Len(s2c)) <= MaxUnanswered
  <2>1. CASE cpc = "sending"
    BY <1>1, <1>2, <1>3, <2>1 DEF SessionInv, Lockstep, SentCount, Unanswered
  <2>2. CASE cpc # "sending"
    BY <1>1, <1>2, <1>3, <2>2 DEF SessionInv, Lockstep, SentCount, Unanswered
  <2> QED
    BY <2>1, <2>2
<1>5. Served <= req
  BY <1>1, <1>2 DEF SentCount
<1>6. req - Served \in 0..TidMax
  BY <1>1, <1>2, <1>4, <1>5
<1>7. ASSUME NEW i \in 1..Len(s2c)
      PROVE  /\ s2c[i].about \in Nat /\ s2c[i].tid \in 0..TidMax
             /\ s2c[i].about > 0
             /\ req - s2c[i].about \in 0..TidMax
  <2>1. s2c[i].about = Served - Len(s2c) + i
    BY <1>7 DEF SessionInv, Lockstep
  <2>2. s2c[i].tid \in 0..TidMax
    <3>1. s2c \in Seq(AnyPacket)
      BY DEF SessionInv, Shape
    <3>2. s2c[i] \in AnyPacket
      BY <1>7, <3>1
    <3> QED
      BY <3>2 DEF AnyPacket
  <2>3. /\ s2c[i].about \in Nat /\ s2c[i].about > 0
        /\ s2c[i].about >= Served - Len(s2c) /\ s2c[i].about <= Served
    BY <1>1, <1>2, <1>7, <2>1
  <2>4. /\ req \in Nat /\ Served \in Nat /\ Len(s2c) \in Nat
        /\ MaxUnanswered \in Nat /\ TidMax \in Nat
    BY <1>1, <1>2
  <2>5. req - s2c[i].about \in 0..TidMax
    BY <1>4, <1>5, <2>3, <2>4
  <2> QED
    BY <2>2, <2>3, <2>5
<1>8. Served + Waiting <= SentCount
  BY <1>1, <1>2
<1> QED
  BY <1>1, <1>2, <1>3, <1>6, <1>7, <1>8

(***************************************************************************)
(* The client's call goes on, and the oldest n replies are gone: one that  *)
(* was read, or those a flush threw away.                                  *)
(***************************************************************************)
LEMMA RepliesGone ==
  ASSUME SessionInv, MaxUnanswered <= TidMax,
         NEW n \in 0..Len(s2c), s2c' = SubSeq(s2c, n + 1, Len(s2c)),
         UNCHANGED <<ctid, req, conn, c2s, spc, stid, sreq>>,
         cpc # "sending", cpc' \in {"idle", "waiting", "sleep"},
         answer' \in {0, req}
  PROVE  SessionInv'
<1>1. /\ s2c \in Seq(AnyPacket) /\ Len(s2c) \in Nat
      /\ req \in Nat
  BY DEF SessionInv, Shape
<1>2. /\ s2c' \in Seq(AnyPacket)
      /\ Len(s2c') = Len(s2c) - n
      /\ \A i \in 1..Len(s2c) - n : s2c'[i] = s2c[i + n]
  <2> DEFINE l == Len(s2c)
  <2>1. s2c \in Seq(AnyPacket) /\ l \in Nat /\ n \in 0..l
    BY <1>1
  <2>2. /\ SubSeq(s2c, n + 1, l) \in Seq(AnyPacket)
        /\ Len(SubSeq(s2c, n + 1, l)) = l - n
        /\ \A i \in 1..l - n : SubSeq(s2c, n + 1, l)[i] = s2c[i + n]
    BY <2>1
  <2> QED
    BY <2>2
<1>3. Shape'
  BY <1>1, <1>2 DEF SessionInv, Shape
<1>4. SentCount' = SentCount /\ Waiting' = Waiting /\ Served' = Served
  BY DEF SentCount, Waiting, Served
<1>5. Served \in Nat /\ Waiting \in 0..1 /\ Len(c2s) \in Nat
  BY Ages
<1>6. ASSUME NEW i \in 1..Len(s2c')
      PROVE  /\ s2c'[i].about = Served - Len(s2c') + i
             /\ s2c'[i].tid = Back(ctid, req - s2c'[i].about)
  <2>1. i + n \in 1..Len(s2c) /\ s2c'[i] = s2c[i + n]
    BY <1>1, <1>2, <1>6
  <2>2. /\ s2c[i + n].about = Served - Len(s2c) + (i + n)
        /\ s2c[i + n].tid = Back(ctid, req - s2c[i + n].about)
    <3>1. \A j \in 1..Len(s2c) : /\ s2c[j].about = Served - Len(s2c) + j
                                 /\ s2c[j].tid = Back(ctid, req - s2c[j].about)
      BY DEF SessionInv, Lockstep
    <3> QED
      BY <2>1, <3>1
  <2>3. Served - Len(s2c) + (i + n) = Served - Len(s2c') + i
    <3> DEFINE l == Len(s2c)
    <3>1. Served \in Nat /\ l \in Nat /\ n \in Nat
      BY <1>1, <1>5
    <3>2. i \in Nat
      BY <1>6
    <3>3. Len(s2c') = l - n
      BY <1>2
    <3> HIDE DEF l
    <3>4. Served - l + (i + n) = Served - (l - n) + i
      BY <3>1, <3>2
    <3> QED
      BY <3>3, <3>4 DEF l
  <2> QED
    BY <2>1, <2>2, <2>3
<1>7. Unanswered' <= Unanswered /\ Unanswered \in Nat
  <2>1. /\ Unanswered = Len(c2s) + Len(s2c) + Waiting
        /\ Unanswered' = Len(c2s) + (Len(s2c) - n) + Waiting
    BY <1>2 DEF Unanswered, Waiting
  <2> QED
    BY <1>1, <1>5, <2>1
<1>8. Unanswered' <= MaxUnanswered /\ Len(s2c') <= Served
  <2>1. Unanswered <= MaxUnanswered /\ Len(s2c) <= Served
    BY DEF SessionInv, Lockstep
  <2>2. Unanswered' \in Nat /\ MaxUnanswered \in Nat
    <3>1. Len(s2c') \in Nat
      BY <1>2
    <3>2. Unanswered' = Len(c2s) + Len(s2c') + Waiting
      BY DEF Unanswered, Waiting
    <3> QED
      BY <1>5, <3>1, <3>2, SessionAssumption
  <2>3. Len(s2c') = Len(s2c) - n /\ Len(s2c) \in Nat /\ n \in Nat /\ Served \in Nat
    BY <1>1, <1>2, <1>5
  <2> QED
    BY <1>7, <2>1, <2>2, <2>3
<1>9. stid' = Back(ctid', req' - Served') /\ (spc' = "reply" => sreq' = Served' + 1)
  BY <1>4 DEF SessionInv, Lockstep
<1>10. \A i \in 1..Len(c2s') : c2s'[i].about = SentCount' - Len(c2s') + i
  BY <1>4 DEF SessionInv, Lockstep
<1>11. Lockstep'
  <2>1. /\ Unanswered' <= MaxUnanswered
        /\ Len(s2c') <= Served'
        /\ \A i \in 1..Len(s2c') :
             /\ s2c'[i].about = Served' - Len(s2c') + i
             /\ s2c'[i].tid = Back(ctid', req' - s2c'[i].about)
        /\ cpc' # "sending"
    BY <1>4, <1>6, <1>8
  <2> QED
    BY <1>9, <1>10, <2>1 DEF Lockstep
<1> QED
  BY <1>3, <1>11 DEF SessionInv, AcceptedAnswersRequest

LEMMA Appended ==
  ASSUME NEW S, NEW q \in Seq(S), NEW e \in S
  PROVE  /\ Append(q, e) \in Seq(S)
         /\ Len(Append(q, e)) = Len(q) + 1
         /\ \A i \in 1..Len(q) : Append(q, e)[i] = q[i]
         /\ Append(q, e)[Len(q) + 1] = e
OBVIOUS

(***************************************************************************)
(* A request begins: everything on its way grows one step older.           *)
(***************************************************************************)
LEMMA BeginKeeps ==
  ASSUME SessionInv, MaxUnanswered <= TidMax, RequestBegin
  PROVE  SessionInv'
<1>1. /\ cpc = "idle" /\ cpc' = "sending" /\ ctid' = NextTid(ctid)
      /\ req' = req + 1 /\ answer' = 0 /\ Unanswered < MaxUnanswered
      /\ UNCHANGED <<conn, c2s, s2c, spc, stid, sreq>>
  BY DEF RequestBegin, netVars, serverVars
<1>2. /\ SentCount \in Nat /\ Served \in Nat /\ Len(s2c) \in Nat
      /\ SentCount - (Served - Len(s2c)) = Unanswered
      /\ req - Served \in 0..TidMax
  BY Ages
<1>3. req \in Nat /\ ctid \in 0..TidMax /\ SentCount = req
  BY <1>1 DEF SessionInv, Shape, SentCount
<1>4. SentCount' = SentCount
  BY <1>1, <1>3 DEF SentCount
<1>5. Served' = Served /\ Unanswered' = Unanswered
  BY <1>1, <1>4 DEF Served, Waiting, Unanswered
<1>6. ctid' \in 0..TidMax
  BY <1>1, <1>3, NextIsTid
<1>7. Shape'
  BY <1>1, <1>3, <1>6 DEF SessionInv, Shape
<1>8. Len(s2c) <= Served /\ MaxUnanswered \in Nat /\ TidMax \in Nat
  BY SessionAssumption DEF SessionInv, Lockstep
<1>9. ASSUME NEW i \in 1..Len(s2c)
      PROVE  s2c[i].tid = Back(ctid', req' - s2c[i].about)
  <2>1. /\ s2c[i].about = Served - Len(s2c) + i
        /\ s2c[i].tid = Back(ctid, req - s2c[i].about)
        /\ s2c[i].about \in Nat /\ req - s2c[i].about \in 0..TidMax
    BY <1>9, Ages DEF SessionInv, Lockstep
  <2> DEFINE d == req - s2c[i].about
  <2>2. d \in Nat /\ d + 1 <= TidMax
    <3> DEFINE l == Len(s2c)  u == Unanswered  a == s2c[i].about
    <3>1. /\ l \in Nat /\ i \in Nat /\ i >= 1 /\ a = Served - l + i
          /\ req - (Served - l) = u /\ u < MaxUnanswered
          /\ req - a \in Nat /\ a \in Nat
      BY <1>1, <1>2, <1>3, <1>9, <2>1
    <3> HIDE DEF l, u, a
    <3>2. u \in Int
      BY <1>2, <1>3, <3>1
    <3>3. req - a + 1 = u - i + 1
      BY <1>2, <1>3, <3>1, <3>2
    <3>4. u - i + 1 <= TidMax
      BY <1>8, <3>1, <3>2
    <3>5. req - a \in Nat /\ (req - a) + 1 <= TidMax
      BY <3>1, <3>3, <3>4
    <3> QED
      BY <3>5 DEF a
  <2>3. req' - s2c[i].about = d + 1
    BY <1>1, <1>3, <2>1
  <2> HIDE DEF d
  <2>4. Back(NextTid(ctid), d + 1) = Back(ctid, d)
    BY <1>3, <2>2, BackStep
  <2> QED
    BY <1>1, <2>1, <2>3, <2>4 DEF d
<1>10. stid = Back(ctid', req' - Served)
  <2>1. stid = Back(ctid, req - Served)
    BY DEF SessionInv, Lockstep
  <2> DEFINE d == req - Served
  <2>2. d \in Nat /\ d + 1 <= TidMax
    BY <1>1, <1>2, <1>3, <1>8
  <2>3. req' - Served = d + 1
    BY <1>1, <1>2, <1>3
  <2> HIDE DEF d
  <2>4. Back(NextTid(ctid), d + 1) = Back(ctid, d)
    BY <1>3, <2>2, BackStep
  <2> QED
    BY <1>1, <2>1, <2>3, <2>4 DEF d
<1>11. Lockstep'
  <2>1. /\ cpc' = "sending" => req' > 0
        /\ Unanswered' <= MaxUnanswered /\ Unanswered' < MaxUnanswered
    BY <1>1, <1>2, <1>3, <1>5, <1>8
  <2>2. /\ Len(s2c') <= Served'
        /\ \A i \in 1..Len(c2s') : c2s'[i].about = SentCount' - Len(c2s') + i
        /\ spc' = "reply" => sreq' = Served' + 1
        /\ \A i \in 1..Len(s2c') : s2c'[i].about = Served' - Len(s2c') + i
    BY <1>1, <1>4, <1>5 DEF SessionInv, Lockstep
  <2>3. /\ \A i \in 1..Len(s2c') : s2c'[i].tid = Back(ctid', req' - s2c'[i].about)
        /\ stid' = Back(ctid', req' - Served')
    BY <1>1, <1>5, <1>9, <1>10
  <2> QED
    BY <2>1, <2>2, <2>3 DEF Lockstep
<1> QED
  BY <1>1, <1>7, <1>11 DEF SessionInv, AcceptedAnswersRequest

(***************************************************************************)
(* The request is sent: it joins the queue as the youngest.                *)
(***************************************************************************)
LEMMA SendKeeps ==
  ASSUME SessionInv, MaxUnanswered <= TidMax, SendOk
  PROVE  SessionInv'
<1> DEFINE e == [tid |-> ctid, about |-> req]
<1>1. /\ cpc = "sending" /\ cpc' = "waiting" /\ c2s' = Append(c2s, e)
      /\ UNCHANGED <<ctid, req, answer, conn, s2c, spc, stid, sreq>>
  BY DEF SendOk, serverVars
<1>2. /\ SentCount \in Nat /\ Served \in Nat /\ Waiting \in 0..1
      /\ Len(c2s) \in Nat /\ Len(s2c) \in Nat
  BY Ages
<1>3. req \in Nat /\ ctid \in 0..TidMax /\ c2s \in Seq(AnyPacket)
  BY DEF SessionInv, Shape
<1>4. e \in AnyPacket /\ e.about = req
  BY <1>3 DEF AnyPacket
<1> HIDE DEF e
<1>5. /\ c2s' \in Seq(AnyPacket) /\ Len(c2s') = Len(c2s) + 1
      /\ \A i \in 1..Len(c2s) : c2s'[i] = c2s[i]
      /\ c2s'[Len(c2s) + 1] = e
  BY <1>1, <1>3, <1>4, Appended
<1>6. SentCount = req - 1 /\ SentCount' = req
  BY <1>1 DEF SentCount
<1>7. Waiting' = Waiting /\ Served = SentCount - Len(c2s) - Waiting
  BY <1>1 DEF Waiting, Served
<1>8. Served' = Served
  <2>1. Served' = SentCount' - Len(c2s') - Waiting'
    BY DEF Served
  <2> QED
    BY <1>2, <1>3, <1>5, <1>6, <1>7, <2>1
<1>9. Unanswered' = Unanswered + 1
  <2>1. Unanswered = Len(c2s) + Len(s2c) + Waiting
    BY DEF Unanswered, Waiting
  <2>2. Unanswered' = Len(c2s') + Len(s2c) + Waiting
    BY <1>1 DEF Unanswered, Waiting
  <2> QED
    BY <1>2, <1>5, <2>1, <2>2
<1>10. Unanswered' <= MaxUnanswered
  <2>1. Unanswered < MaxUnanswered /\ Unanswered \in Nat /\ MaxUnanswered \in Nat
    BY <1>1, <1>2, SessionAssumption DEF SessionInv, Lockstep, Unanswered, Waiting
  <2> QED
    BY <1>9, <2>1
<1>11. ASSUME NEW i \in 1..Len(c2s')
       PROVE  c2s'[i].about = SentCount' - Len(c2s') + i
  <2>1. CASE i = Len(c2s) + 1
    BY <1>2, <1>3, <1>4, <1>5, <1>6, <2>1
  <2>2. CASE i # Len(c2s) + 1
    <3>1. i \in 1..Len(c2s)
      BY <1>2, <1>5, <1>11, <2>2
    <3>2. c2s[i].about = SentCount - Len(c2s) + i
      BY <3>1 DEF SessionInv, Lockstep
    <3>3. SentCount' - Len(c2s') + i = SentCount - Len(c2s) + i
      BY <1>2, <1>3, <1>5, <1>6, <3>1
    <3> QED
      BY <1>5, <3>1, <3>2, <3>3
  <2> QED
    BY <2>1, <2>2
<1>12. Shape'
  BY <1>1, <1>5 DEF SessionInv, Shape
<1>13. Lockstep'
  <2>1. /\ Len(s2c') <= Served'
        /\ spc' = "reply" => sreq' = Served' + 1
        /\ \A i \in 1..Len(s2c') :
             /\ s2c'[i].about = Served' - Len(s2c') + i
             /\ s2c'[i].tid = Back(ctid', req' - s2c'[i].about)
        /\ stid' = Back(ctid', req' - Served')
    BY <1>1, <1>8 DEF SessionInv, Lockstep
  <2> QED
    BY <1>1, <1>10, <1>11, <2>1 DEF Lockstep
<1> QED
  BY <1>1, <1>12, <1>13 DEF SessionInv, AcceptedAnswersRequest

(***************************************************************************)
(* The server takes the oldest request.                                    *)
(***************************************************************************)
LEMMA ReceiveKeeps ==
  ASSUME SessionInv, MaxUnanswered <= TidMax, ServerReceive
  PROVE  SessionInv'
<1>1. /\ spc = "receive" /\ spc' = "reply" /\ c2s # <<>>
      /\ sreq' = Head(c2s).about /\ c2s' = Tail(c2s)
      /\ UNCHANGED <<cpc, ctid, req, answer, conn, s2c, stid>>
  BY DEF ServerReceive, clientVars
<1>2. /\ SentCount \in Nat /\ Served \in Nat /\ Len(c2s) \in Nat /\ Len(s2c) \in Nat
      /\ MaxUnanswered \in Nat
  BY Ages, SessionAssumption
<1>3. c2s \in Seq(AnyPacket)
  BY DEF SessionInv, Shape
<1>4. /\ c2s' \in Seq(AnyPacket) /\ Len(c2s') = Len(c2s) - 1 /\ Len(c2s) > 0
      /\ Head(c2s) = c2s[1] /\ c2s[1] \in AnyPacket
      /\ \A i \in 1..Len(c2s') : c2s'[i] = c2s[i + 1]
  <2>1. Len(c2s) > 0
    BY <1>1, <1>3, EmptySeq
  <2>2. /\ Tail(c2s) \in Seq(AnyPacket) /\ Len(Tail(c2s)) = Len(c2s) - 1
        /\ \A i \in 1..Len(c2s) - 1 : Tail(c2s)[i] = c2s[i + 1]
    BY <1>1, <1>3, <2>1
  <2>3. Head(c2s) = c2s[1] /\ c2s[1] \in AnyPacket
    BY <1>2, <1>3, <2>1
  <2> QED
    BY <1>1, <2>1, <2>2, <2>3
<1>5. SentCount' = SentCount /\ Waiting = 0 /\ Waiting' = 1
  BY <1>1 DEF SentCount, Waiting
<1>6. Served' = Served /\ Served = SentCount - Len(c2s)
  <2>1. Served = SentCount - Len(c2s) - 0 /\ Served' = SentCount - Len(c2s') - 1
    BY <1>5 DEF Served
  <2> QED
    BY <1>2, <1>4, <2>1
<1>7. Unanswered' = Unanswered /\ Unanswered <= MaxUnanswered
  <2>1. /\ Unanswered = Len(c2s) + Len(s2c) + 0
        /\ Unanswered' = Len(c2s') + Len(s2c) + 1
    BY <1>1 DEF Unanswered
  <2>2. Unanswered <= MaxUnanswered
    BY DEF SessionInv, Lockstep
  <2> QED
    BY <1>2, <1>4, <2>1, <2>2
<1>8. \A i \in 1..Len(c2s) : c2s[i].about = SentCount - Len(c2s) + i
  BY DEF SessionInv, Lockstep
<1>9. sreq' = Served' + 1 /\ sreq' \in Nat
  BY <1>1, <1>2, <1>4, <1>6, <1>8
<1>10. ASSUME NEW i \in 1..Len(c2s')
       PROVE  c2s'[i].about = SentCount' - Len(c2s') + i
  <2>1. i + 1 \in 1..Len(c2s) /\ c2s'[i] = c2s[i + 1]
    BY <1>2, <1>4, <1>10
  <2>2. c2s[i + 1].about = SentCount - Len(c2s) + (i + 1)
    BY <1>8, <2>1
  <2>3. SentCount - Len(c2s) + (i + 1) = SentCount' - Len(c2s') + i
    BY <1>2, <1>4, <1>5, <1>10
  <2> QED
    BY <2>1, <2>2, <2>3
<1>11. Shape'
  BY <1>1, <1>4, <1>9 DEF SessionInv, Shape
<1>12. Lockstep'
  <2>1. /\ Len(s2c') <= Served'
        /\ \A i \in 1..Len(s2c') :
             /\ s2c'[i].about = Served' - Len(s2c') + i
             /\ s2c'[i].tid = Back(ctid', req' - s2c'[i].about)
        /\ stid' = Back(ctid', req' - Served')
        /\ cpc' = "sending" => req' > 0
        /\ cpc' = "sending" => Unanswered < MaxUnanswered
    BY <1>1, <1>6 DEF SessionInv, Lockstep
  <2>2. Unanswered' <= MaxUnanswered /\ (cpc' = "sending" => Unanswered' < MaxUnanswered)
    BY <1>7, <2>1
  <2> QED
    BY <1>9, <1>10, <2>1, <2>2 DEF Lockstep
<1> QED
  BY <1>1, <1>11, <1>12 DEF SessionInv, AcceptedAnswersRequest

(***************************************************************************)
(* The server answers: its counter is one increment nearer to the client's *)
(* and the reply takes it.                                                 *)
(***************************************************************************)
LEMMA ReplyKeeps ==
  ASSUME SessionInv, MaxUnanswered <= TidMax, ServerReply
  PROVE  SessionInv'
<1> DEFINE e == [tid |-> stid', about |-> sreq]
<1>1. /\ spc = "reply" /\ spc' = "receive" /\ stid' = NextTid(stid)
      /\ s2c' = Append(s2c, e)
      /\ UNCHANGED <<cpc, ctid, req, answer, conn, c2s, sreq>>
  BY DEF ServerReply, clientVars, SessionInv, Shape
<1>2. /\ SentCount \in Nat /\ Served \in Nat /\ Len(c2s) \in Nat /\ Len(s2c) \in Nat
      /\ MaxUnanswered \in Nat /\ req - Served \in 0..TidMax
      /\ Served + Waiting <= SentCount /\ Len(s2c) <= Served
  BY Ages, SessionAssumption DEF SessionInv, Lockstep
<1>3. /\ s2c \in Seq(AnyPacket) /\ sreq \in Nat /\ req \in Nat
      /\ ctid \in 0..TidMax /\ stid \in 0..TidMax
  BY DEF SessionInv, Shape
<1>4. stid' \in 0..TidMax /\ e \in AnyPacket
  BY <1>1, <1>3, NextIsTid DEF AnyPacket
<1>5. e.tid = stid' /\ e.about = sreq
  OBVIOUS
<1> HIDE DEF e
<1>6. /\ s2c' \in Seq(AnyPacket) /\ Len(s2c') = Len(s2c) + 1
      /\ \A i \in 1..Len(s2c) : s2c'[i] = s2c[i]
      /\ s2c'[Len(s2c) + 1] = e
  BY <1>1, <1>3, <1>4, Appended
<1>7. SentCount' = SentCount /\ Waiting = 1 /\ Waiting' = 0
  BY <1>1 DEF SentCount, Waiting
<1>8. Served' = Served + 1 /\ sreq = Served + 1
  <2>1. Served = SentCount - Len(c2s) - 1 /\ Served' = SentCount - Len(c2s) - 0
    BY <1>1, <1>7 DEF Served
  <2>2. sreq = Served + 1
    BY <1>1 DEF SessionInv, Lockstep
  <2> QED
    BY <1>2, <2>1, <2>2
<1>9. Unanswered' = Unanswered /\ Unanswered <= MaxUnanswered
  <2>1. /\ Unanswered = Len(c2s) + Len(s2c) + 1
        /\ Unanswered' = Len(c2s) + Len(s2c') + 0
    BY <1>1 DEF Unanswered
  <2>2. Unanswered <= MaxUnanswered
    BY DEF SessionInv, Lockstep
  <2> QED
    BY <1>2, <1>6, <2>1, <2>2
<1>10. stid' = Back(ctid, req - (Served + 1))
  <2> DEFINE d == req - (Served + 1)
  <2>1. Served + 1 <= req
    BY <1>2, <1>3, <1>7 DEF SentCount
  <2>2. d \in Nat /\ req - Served = d + 1 /\ d + 1 <= TidMax
    BY <1>2, <1>3, <2>1
  <2>3. stid = Back(ctid, req - Served)
    BY DEF SessionInv, Lockstep
  <2> HIDE DEF d
  <2>4. NextTid(Back(ctid, d + 1)) = Back(ctid, d)
    BY <1>3, <2>2, BackNext
  <2> QED
    BY <1>1, <2>2, <2>3, <2>4 DEF d
<1>11. ASSUME NEW i \in 1..Len(s2c')
       PROVE  /\ s2c'[i].about = Served' - Len(s2c') + i
              /\ s2c'[i].tid = Back(ctid, req - s2c'[i].about)
  <2>1. CASE i = Len(s2c) + 1
    <3>1. s2c'[i].about = Served + 1 /\ s2c'[i].tid = stid'
      BY <1>5, <1>6, <1>8, <2>1
    <3>2. Served' - Len(s2c') + i = Served + 1
      BY <1>2, <1>6, <1>8, <2>1
    <3> QED
      BY <1>10, <3>1, <3>2
  <2>2. CASE i # Len(s2c) + 1
    <3>1. i \in 1..Len(s2c)
      BY <1>2, <1>6, <1>11, <2>2
    <3>2. /\ s2c[i].about = Served - Len(s2c) + i
          /\ s2c[i].tid = Back(ctid, req - s2c[i].about)
      BY <3>1 DEF SessionInv, Lockstep
    <3>3. Served' - Len(s2c') + i = Served - Len(s2c) + i
      BY <1>2, <1>6, <1>8, <3>1
    <3>4. s2c'[i] = s2c[i]
      BY <1>6, <3>1
    <3> QED
      BY <3>2, <3>3, <3>4
  <2> QED
    BY <2>1, <2>2
<1>12. Shape'
  BY <1>1, <1>4, <1>6 DEF SessionInv, Shape
<1>13. Lockstep'
  <2>1. /\ \A i \in 1..Len(c2s') : c2s'[i].about = SentCount' - Len(c2s') + i
        /\ cpc' = "sending" => req' > 0
        /\ cpc' = "sending" => Unanswered < MaxUnanswered
    BY <1>1, <1>7 DEF SessionInv, Lockstep
  <2>2. Unanswered' <= MaxUnanswered /\ (cpc' = "sending" => Unanswered' < MaxUnanswered)
    BY <1>9, <2>1
  <2>3. Len(s2c') <= Served'
    BY <1>2, <1>6, <1>8
  <2>4. stid' = Back(ctid', req' - Served')
    BY <1>1, <1>8, <1>10
  <2>5. \A i \in 1..Len(s2c') :
          /\ s2c'[i].about = Served' - Len(s2c') + i
          /\ s2c'[i].tid = Back(ctid', req' - s2c'[i].about)
    BY <1>1, <1>11
  <2> QED
    BY <1>1, <2>1, <2>2, <2>3, <2>4, <2>5 DEF Lockstep
<1> QED
  BY <1>1, <1>12, <1>13 DEF SessionInv, AcceptedAnswersRequest


(***************************************************************************)
(* The reply at the head: it is accepted when it is the awaited one and    *)
(* only then.                                                              *)
(***************************************************************************)
LEMMA HeadReply ==
  ASSUME SessionInv, MaxUnanswered <= TidMax, s2c # <<>>
  PROVE  Head(s2c).tid = ctid <=> Head(s2c).about = req
<1>1. s2c \in Seq(AnyPacket) /\ ctid \in 0..TidMax /\ req \in Nat
  BY DEF SessionInv, Shape
<1>2. Len(s2c) \in Nat /\ Len(s2c) > 0
  BY <1>1, EmptySeq
<1>3. Head(s2c) = s2c[1] /\ 1 \in 1..Len(s2c)
  BY <1>1, <1>2
<1> DEFINE d == req - s2c[1].about
<1>4. s2c[1].about \in Nat /\ d \in 0..TidMax
  BY <1>3, Ages
<1>5. s2c[1].tid = Back(ctid, d)
  BY <1>3 DEF SessionInv, Lockstep
<1>6. s2c[1].about = req <=> d = 0
  BY <1>1, <1>4
<1> HIDE DEF d
<1>7. Back(ctid, d) = ctid <=> d = 0
  BY <1>1, <1>4, BackZero, BackOnlyZero
<1> QED
  BY <1>3, <1>5, <1>6, <1>7

LEMMA SessionInit ==
  ASSUME Init
  PROVE  SessionInv
<1>1. TidMax \in Nat /\ MaxUnanswered \in Nat
  BY SessionAssumption
<1>2. /\ cpc = "idle" /\ ctid = 0 /\ req = 0 /\ answer = 0 /\ conn = "up"
      /\ c2s = <<>> /\ s2c = <<>> /\ spc = "receive" /\ stid = 0 /\ sreq = 0
  BY DEF Init
<1>3. Len(c2s) = 0 /\ Len(s2c) = 0
  BY <1>2
<1>4. SentCount = 0 /\ Waiting = 0 /\ Served = 0
  <2>1. SentCount = 0 /\ Waiting = 0
    BY <1>2 DEF SentCount, Waiting
  <2>2. Served = 0 - 0 - 0
    BY <1>3, <2>1 DEF Served
  <2> QED
    BY <2>1, <2>2
<1>5. Shape
  BY <1>1, <1>2 DEF Shape
<1>6. Unanswered = 0
  BY <1>2, <1>3 DEF Unanswered
<1>7. stid = Back(ctid, req - Served)
  BY <1>1, <1>2, <1>4 DEF Back
<1> QED
  BY <1>1, <1>2, <1>3, <1>4, <1>5, <1>6, <1>7
  DEF SessionInv, Lockstep, AcceptedAnswersRequest

(***************************************************************************)
(* One case per action.  Without a fault the connection stays up, so no    *)
(* action that reconnects is ever possible.                                *)
(***************************************************************************)
LEMMA SessionNext ==
  ASSUME Faults = {}, MaxUnanswered <= TidMax, SessionInv, [Next]_vars
  PROVE  SessionInv'
<1>1. conn = "up" /\ s2c \in Seq(AnyPacket) /\ Len(s2c) \in Nat
  BY DEF SessionInv, Shape
<1>2. answer \in {0, req}
  BY DEF SessionInv, AcceptedAnswersRequest
<1>3. CASE RequestBegin
  BY <1>3, BeginKeeps
<1>4. CASE SendOk
  BY <1>4, SendKeeps
<1>5. CASE ServerReceive
  BY <1>5, ReceiveKeeps
<1>6. CASE ServerReply
  BY <1>6, ReplyKeeps
<1>7. ASSUME s2c # <<>>
      PROVE  Tail(s2c) = SubSeq(s2c, 1 + 1, Len(s2c)) /\ 1 \in 0..Len(s2c)
  <2>1. Tail(s2c) = SubSeq(s2c, 2, Len(s2c)) /\ 1 + 1 = 2
    BY <1>1, <1>7, TailIsSubSeq
  <2>2. Len(s2c) # 0
    BY <1>1, <1>7, EmptySeq
  <2> QED
    BY <1>1, <2>1, <2>2
<1>8. CASE ConfirmationOk
  <2>1. /\ cpc = "waiting" /\ cpc' = "idle" /\ s2c # <<>> /\ s2c' = Tail(s2c)
        /\ Head(s2c).tid = ctid /\ answer' = Head(s2c).about
        /\ UNCHANGED <<ctid, req, conn, c2s, spc, stid, sreq>>
    BY <1>8 DEF ConfirmationOk, serverVars
  <2>2. answer' = req
    BY <2>1, HeadReply
  <2> QED
    BY <1>7, <2>1, <2>2, RepliesGone
<1>9. CASE ConfirmationRefused
  <2>1. /\ cpc = "waiting" /\ cpc' \in {"sleep", "idle"} /\ s2c # <<>>
        /\ s2c' = Tail(s2c)
        /\ UNCHANGED <<ctid, req, answer, conn, c2s, spc, stid, sreq>>
    BY <1>9 DEF ConfirmationRefused, serverVars
  <2>2. answer' \in {0, req}
    BY <1>2, <2>1
  <2> QED
    BY <1>7, <2>1, <2>2, RepliesGone
<1>10. CASE ResponseTimeout
  <2>1. /\ cpc = "waiting" /\ cpc' \in {"sleep", "idle"} /\ s2c' = s2c
        /\ UNCHANGED <<ctid, req, answer, conn, c2s, spc, stid, sreq>>
    BY <1>10 DEF ResponseTimeout, netVars, serverVars
  <2>2. s2c' = SubSeq(s2c, 0 + 1, Len(s2c)) /\ 0 \in 0..Len(s2c)
    BY <1>1, <2>1, SubSeqFull
  <2>3. answer' \in {0, req}
    BY <1>2, <2>1
  <2> QED
    BY <2>1, <2>2, <2>3, RepliesGone
<1>11. CASE SleepOver
  <2>1. /\ cpc = "sleep" /\ cpc' = "idle"
        /\ UNCHANGED <<ctid, req, answer, conn, c2s, spc, stid, sreq>>
    BY <1>11 DEF SleepOver, Failed, serverVars
  <2>2. PICK n \in 0..Len(s2c) : s2c' = SubSeq(s2c, n + 1, Len(s2c))
    <3>1. CASE Prompt
      <4>1. s2c' = <<>> /\ Len(s2c) \in 0..Len(s2c)
        BY <1>1, <1>11, <3>1 DEF SleepOver
      <4>2. SubSeq(s2c, Len(s2c) + 1, Len(s2c)) = <<>>
        BY <1>1, SubSeqEmpty
      <4> QED
        BY <4>1, <4>2
    <3>2. CASE ~Prompt
      BY <1>11, <3>2 DEF SleepOver, Flush
    <3> QED
      BY <3>1, <3>2
  <2>3. answer' \in {0, req}
    BY <1>2, <2>1
  <2> QED
    BY <2>1, <2>2, <2>3, RepliesGone
<1>12. CASE SendDown \/ WaitDown \/ AppReconnect
  BY <1>1, <1>12 DEF SendDown, WaitDown, AppReconnect
<1>13. CASE SendFull \/ ClientRestart \/ ServerSkip \/ ConnectionReset
  BY <1>13 DEF SendFull, ClientRestart, ServerSkip, ConnectionReset
<1>14. CASE UNCHANGED vars
  <2>1. UNCHANGED <<cpc, ctid, req, answer, conn, c2s, s2c, spc, stid, sreq>>
    BY <1>14 DEF vars, clientVars, netVars, serverVars
  <2> QED
    BY <2>1 DEF SessionInv, Shape, Lockstep, AcceptedAnswersRequest,
                SentCount, Served, Waiting, Unanswered
<1> QED
  BY <1>3, <1>4, <1>5, <1>6, <1>8, <1>9, <1>10, <1>11, <1>12, <1>13, <1>14
  DEF Next, Client, Server

-----------------------------------------------------------------------------

\* For fresh contexts on a connection that does not break, tta_request never
\* returns the answer to another request, for every identifier width and
\* however late the replies come, while no more requests are unanswered than
\* the identifier has values less one.
THEOREM FreshAnswers ==
  ASSUME Faults = {}, MaxUnanswered <= TidMax
  PROVE  Spec => []AcceptedAnswersRequest
<1>1. SessionInv => AcceptedAnswersRequest
  BY DEF SessionInv
<1> QED
  BY <1>1, SessionInit, SessionNext, PTL DEF Spec

\* Under the same conditions the response to the request the client waits for
\* is never refused.
THEOREM FreshNotRefused ==
  ASSUME Faults = {}, MaxUnanswered <= TidMax
  PROVE  Spec => []AnswerNotRefused
<1>1. SessionInv => AnswerNotRefused
  BY HeadReply DEF AnswerNotRefused
<1> QED
  BY <1>1, SessionInit, SessionNext, PTL DEF Spec

(***************************************************************************)
(* Types, whatever fails.  A packet is about a request that was made.      *)
(***************************************************************************)
TypeInv ==
  /\ TypeOK
  /\ cpc = "sending" => req > 0
  /\ spc = "reply" => sreq > 0

LEMMA Part ==
  ASSUME NEW S, NEW q \in Seq(S), NEW i \in Nat \ {0}, NEW j \in 0..Len(q)
  PROVE  SubSeq(q, i, j) \in Seq(S)
<1>1. \A k \in i..j : q[k] \in S
  <2>1. \A k \in 1..Len(q) : q[k] \in S
    OBVIOUS
  <2> QED
    BY <2>1
<1> QED
  BY <1>1, SubSeqProperties

LEMMA Flushed ==
  ASSUME NEW q \in Seq(Packet), NEW n \in 0..Len(q)
  PROVE  SubSeq(q, n + 1, Len(q)) \in Seq(Packet)
<1>1. n + 1 \in Nat \ {0} /\ Len(q) \in 0..Len(q)
  OBVIOUS
<1> QED
  BY <1>1, Part

LEMMA First ==
  ASSUME NEW q \in Seq(Packet), q # <<>>
  PROVE  /\ Head(q).tid \in 0..TidMax /\ Head(q).about \in 1..MaxRequests
         /\ Tail(q) \in Seq(Packet)
<1>1. Head(q) \in Packet /\ Tail(q) \in Seq(Packet)
  BY HeadTailProperties
<1> QED
  BY <1>1 DEF Packet

LEMMA OneLess ==
  ASSUME NEW q \in Seq(Packet), Len(q) = 1
  PROVE  q # <<>> /\ Tail(q) = <<>> /\ Head(q) = q[1]
<1>1. q # <<>>
  BY EmptySeq
<1>2. Tail(q) \in Seq(Packet) /\ Len(Tail(q)) = 0
  BY <1>1, HeadTailProperties
<1>3. Head(q) = q[1]
  OBVIOUS
<1>4. Tail(q) = <<>>
  BY <1>2, EmptySeq
<1> QED
  BY <1>1, <1>3, <1>4

LEMMA Prefix ==
  ASSUME NEW q \in Seq(Packet), NEW n \in 0..Len(q)
  PROVE  /\ q = <<>> => SubSeq(q, 1, n) = <<>>
         /\ Len(q) = 1 => SubSeq(q, 1, n) = <<>> \/ SubSeq(q, 1, n) = q
<1>1. Len(q) \in Nat /\ n \in Nat
  OBVIOUS
<1>2. n = 0 => SubSeq(q, 1, n) = <<>>
  BY SubSeqEmpty
<1>3. n = Len(q) => SubSeq(q, 1, n) = q
  <2>1. SubSeq(q, 1, Len(q)) = q
    BY SubSeqFull
  <2> QED
    BY <2>1
<1>4. q = <<>> => n = 0
  <2>1. q = <<>> => Len(q) = 0
    BY EmptySeq
  <2> QED
    BY <1>1, <2>1
<1>5. Len(q) = 1 => n = 0 \/ n = Len(q)
  BY <1>1
<1> HIDE DEF Packet
<1> QED
  BY <1>2, <1>3, <1>4, <1>5

LEMMA TypeInit == Init => TypeInv
  BY SessionAssumption DEF Init, TypeInv, TypeOK

LEMMA TypeClient ==
  ASSUME TypeInv, Client
  PROVE  TypeInv'
<1> USE SessionAssumption DEF TypeInv, TypeOK
<1>1. <<>> \in Seq(Packet) /\ 0 \in 0..TidMax
  OBVIOUS
<1>2. ASSUME Accepted PROVE /\ {c2s', s2c'} \subseteq Seq(Packet) /\ conn' = "up"
                            /\ spc' = "receive" /\ sreq' = 0 /\ stid' \in 0..TidMax
                            /\ resets' = resets
  BY <1>1, <1>2 DEF Accepted
<1>3. ASSUME Reconnect PROVE /\ {c2s', s2c'} \subseteq Seq(Packet)
                             /\ conn' \in {"up", "down"} /\ spc' \in {"receive", "reply"}
                             /\ spc' = "reply" => sreq' > 0
                             /\ sreq' \in 0..MaxRequests /\ stid' \in 0..TidMax
                             /\ resets' = resets
  <2>1. CASE Accepted
    BY <1>2, <2>1
  <2>2. CASE ~Accepted
    <3>1. c2s' = <<>> /\ s2c' = <<>> /\ conn' = "down" /\ UNCHANGED <<resets, serverVars>>
      BY <1>3, <2>2 DEF Reconnect
    <3> QED
      BY <1>1, <3>1 DEF serverVars
  <2> QED
    BY <2>1, <2>2
<1>4. ASSUME Flush PROVE s2c' \in Seq(Packet)
  <2>1. PICK n \in 0..Len(s2c) : s2c' = SubSeq(s2c, n + 1, Len(s2c))
    BY <1>4 DEF Flush
  <2>2. SubSeq(s2c, n + 1, Len(s2c)) \in Seq(Packet)
    BY Flushed
  <2> QED
    BY <2>1, <2>2
<1>5. CASE RequestBegin
  <2>1. req' \in 0..MaxRequests /\ req' > 0
    BY <1>5, SMTT(60) DEF RequestBegin
  <2>2. ctid' \in 0..TidMax
    BY <1>5, NextIsTid DEF RequestBegin
  <2>3. /\ cpc' = "sending" /\ answer' = 0
        /\ UNCHANGED <<recovery, conn, c2s, s2c, resets, spc, stid, sreq>>
    BY <1>5 DEF RequestBegin, netVars, serverVars
  <2> QED
    BY <2>1, <2>2, <2>3
<1>6. CASE SendOk
  <2>1. [tid |-> ctid, about |-> req] \in Packet
    BY <1>6 DEF SendOk, Packet
  <2>2. c2s' \in Seq(Packet)
    BY <1>6, <2>1, Appended DEF SendOk
  <2> QED
    BY <1>6, <2>2 DEF SendOk, serverVars
<1>7. CASE SendDown
  <2>1. CASE Link \in recovery
    BY <1>3, <1>7, <2>1 DEF SendDown, clientVars
  <2>2. CASE Link \notin recovery
    BY <1>7, <2>2 DEF SendDown, Failed, netVars, serverVars
  <2> QED
    BY <2>1, <2>2
<1>8. CASE SendFull
  BY <1>4, <1>8 DEF SendFull, Failed, clientVars, serverVars
<1>9. CASE ConfirmationOk
  <2>1. Head(s2c).about \in 1..MaxRequests /\ Tail(s2c) \in Seq(Packet)
    BY <1>9, First DEF ConfirmationOk
  <2> QED
    BY <1>9, <2>1, SMTT(60) DEF ConfirmationOk, serverVars
<1>10. CASE ConfirmationRefused
  <2>1. Tail(s2c) \in Seq(Packet)
    BY <1>10, First DEF ConfirmationRefused
  <2> QED
    BY <1>10, <2>1 DEF ConfirmationRefused, serverVars
<1>11. CASE ResponseTimeout
  BY <1>11 DEF ResponseTimeout, netVars, serverVars
<1>12. CASE SleepOver
  <2>1. s2c' \in Seq(Packet)
    BY <1>1, <1>4, <1>12 DEF SleepOver
  <2> QED
    BY <1>12, <2>1 DEF SleepOver, Failed, serverVars
<1>13. CASE WaitDown
  <2>1. CASE Link \in recovery
    BY <1>3, <1>13, <2>1 DEF WaitDown, Failed
  <2>2. CASE Link \notin recovery
    BY <1>13, <2>2 DEF WaitDown, Failed, netVars, serverVars
  <2> QED
    BY <2>1, <2>2
<1>14. CASE AppReconnect
  BY <1>2, <1>14 DEF AppReconnect, clientVars
<1>15. CASE ClientRestart
  BY <1>2, <1>15 DEF ClientRestart
<1> QED
  BY <1>5, <1>6, <1>7, <1>8, <1>9, <1>10, <1>11, <1>12, <1>13, <1>14, <1>15
  DEF Client

LEMMA TypeServer ==
  ASSUME TypeInv, Server
  PROVE  TypeInv'
<1> USE SessionAssumption DEF TypeInv, TypeOK
<1>1. CASE ServerReceive
  <2>1. Head(c2s).about \in 1..MaxRequests /\ Tail(c2s) \in Seq(Packet)
    <3>1. c2s \in Seq(Packet) /\ c2s # <<>>
      BY <1>1 DEF ServerReceive
    <3> QED
      BY <3>1, First
  <2> QED
    BY <1>1, <2>1, SMTT(60) DEF ServerReceive, clientVars
<1>2. CASE ServerReply
  <2>1. stid' \in 0..TidMax
    BY <1>2, NextIsTid DEF ServerReply
  <2>2. [tid |-> stid', about |-> sreq] \in Packet
    BY <1>2, <2>1 DEF ServerReply, Packet
  <2>3. s2c' \in Seq(Packet)
    BY <1>2, <2>2, Appended DEF ServerReply
  <2> QED
    BY <1>2, <2>1, <2>3 DEF ServerReply, clientVars
<1>3. CASE ServerSkip
  BY <1>3 DEF ServerSkip, clientVars, netVars
<1> QED
  BY <1>1, <1>2, <1>3 DEF Server

LEMMA TypeNext ==
  ASSUME TypeInv, [Next]_vars
  PROVE  TypeInv'
<1>1. CASE ConnectionReset
  <2> USE SessionAssumption DEF TypeInv, TypeOK
  <2>1. {c2s', s2c'} \subseteq Seq(Packet)
    <3>1. c2s \in Seq(Packet) /\ s2c \in Seq(Packet) /\ 1 \in Nat \ {0}
      OBVIOUS
    <3>2. PICK n \in 0..Len(c2s) : c2s' = SubSeq(c2s, 1, n)
      BY <1>1 DEF ConnectionReset
    <3>3. PICK k \in 0..Len(s2c) : s2c' = SubSeq(s2c, 1, k)
      BY <1>1 DEF ConnectionReset
    <3>4. SubSeq(c2s, 1, n) \in Seq(Packet)
      BY <3>1, Part
    <3>5. SubSeq(s2c, 1, k) \in Seq(Packet)
      BY <3>1, Part
    <3> QED
      BY <3>2, <3>3, <3>4, <3>5
  <2> QED
    BY <1>1, <2>1, SMTT(60) DEF ConnectionReset, clientVars, serverVars
<1>2. CASE UNCHANGED vars
  BY <1>2 DEF TypeInv, TypeOK, vars, clientVars, netVars, serverVars
<1> QED
  BY <1>1, <1>2, TypeClient, TypeServer DEF Next

\* The identifiers stay in their range, every packet on its way is about a
\* request that was made, and the answer is about one that was: for every width
\* of the identifier and all faults together.
THEOREM SessionTypes == Spec => []TypeOK
<1>1. TypeInv => TypeOK
  BY DEF TypeInv
<1> QED
  BY <1>1, TypeInit, TypeNext, PTL DEF Spec

(***************************************************************************)
(* What a failed call leaves behind.                                       *)
(***************************************************************************)

\* The settings: every client recovers the link and the server is prompt.
Recovering ==
  /\ Prompt
  /\ \A modes \in RecoveryModes : Link \in modes

\* Nothing is on its way.
Nothing == c2s = <<>> /\ s2c = <<>> /\ spc = "receive"

\* The client's request is on its way, or with the server, or its answer is on
\* its way, or nothing is.
AtMostOne ==
  \/ Nothing
  \/ Len(c2s) = 1 /\ c2s[1].about = req /\ s2c = <<>> /\ spc = "receive"
  \/ c2s = <<>> /\ s2c = <<>> /\ spc = "reply" /\ sreq = req
  \/ c2s = <<>> /\ Len(s2c) = 1 /\ s2c[1].about = req /\ spc = "receive"

\* Between two calls and until a request is sent nothing is; a server that is
\* still working when the connection is gone replies to nobody.
QuietInv ==
  /\ cpc \in {"idle", "sending"} => /\ c2s = <<>> /\ s2c = <<>>
                                    /\ conn = "up" => spc = "receive"
  /\ cpc = "waiting" => AtMostOne
  /\ cpc # "idle" => answer = 0
  /\ answer # 0 => answer = req

LEMMA QuietNext ==
  ASSUME Recovering, TypeInv, QuietInv, [Next]_vars
  PROVE  QuietInv'
<1> USE DEF QuietInv, Nothing, AtMostOne
<1>1. /\ Link \in recovery /\ {c2s, s2c} \subseteq Seq(Packet)
      /\ cpc \in {"idle", "sending", "waiting", "sleep"}
  BY DEF Recovering, TypeInv, TypeOK
<1>2. \A q \in Seq(Packet) : Len(q) = 1 => /\ q # <<>> /\ Tail(q) = <<>>
                                           /\ Head(q) = q[1]
  BY OneLess
<1>3. CASE RequestBegin
  BY <1>3 DEF RequestBegin, netVars, serverVars
<1>4. CASE SendOk
  <2>1. LET q == Append(<<>>, [tid |-> ctid, about |-> req])
        IN  Len(q) = 1 /\ q[1].about = req
    OBVIOUS
  <2> QED
    BY <1>4, <2>1 DEF SendOk, serverVars
<1>5. CASE ConfirmationOk \/ ConfirmationRefused
  <2>1. Len(s2c) = 1 /\ s2c[1].about = req /\ c2s = <<>> /\ spc = "receive"
    BY <1>1, <1>5 DEF ConfirmationOk, ConfirmationRefused
  <2>2. Nothing' /\ cpc' \in {"idle", "sleep"}
    BY <1>1, <1>2, <1>5, <2>1 DEF ConfirmationOk, ConfirmationRefused, serverVars
  <2>3. answer' \in {0, req} /\ req' = req /\ (cpc' # "idle" => answer' = 0)
    BY <1>1, <1>2, <1>5, <2>1 DEF ConfirmationOk, ConfirmationRefused
  <2> QED
    BY <2>2, <2>3
<1>6. CASE ResponseTimeout
  BY <1>1, <1>6 DEF ResponseTimeout, netVars, serverVars
<1>7. CASE SleepOver
  BY <1>7 DEF SleepOver, Recovering, Failed, serverVars
<1>8. CASE ServerReceive
  BY <1>1, <1>2, <1>8 DEF ServerReceive, clientVars
<1>9. CASE ServerReply
  <2>1. LET q == Append(<<>>, [tid |-> stid', about |-> sreq])
        IN  Len(q) = 1 /\ q[1].about = sreq
    OBVIOUS
  <2> QED
    BY <1>9, <2>1 DEF ServerReply, clientVars
<1>10. CASE ServerSkip
  BY <1>10 DEF ServerSkip, clientVars, netVars
<1>11. CASE ConnectionReset
  <2>1. PICK n \in 0..Len(c2s) : c2s' = SubSeq(c2s, 1, n)
    BY <1>11 DEF ConnectionReset
  <2>2. PICK k \in 0..Len(s2c) : s2c' = SubSeq(s2c, 1, k)
    BY <1>11 DEF ConnectionReset
  <2>3. /\ c2s = <<>> => c2s' = <<>>
        /\ Len(c2s) = 1 => c2s' = <<>> \/ c2s' = c2s
    BY <1>1, <2>1, Prefix
  <2>4. /\ s2c = <<>> => s2c' = <<>>
        /\ Len(s2c) = 1 => s2c' = <<>> \/ s2c' = s2c
    BY <1>1, <2>2, Prefix
  <2>5. conn' = "down" /\ UNCHANGED <<clientVars, serverVars>>
    BY <1>11 DEF ConnectionReset
  <2> QED
    BY <2>3, <2>4, <2>5 DEF clientVars, serverVars
<1>12. CASE SendDown \/ WaitDown
  <2>1. Reconnect
    BY <1>1, <1>12 DEF SendDown, WaitDown
  <2>2. /\ c2s' = <<>> /\ s2c' = <<>> /\ (conn' = "up" => spc' = "receive")
    BY <2>1 DEF Reconnect, Accepted
  <2>3. /\ cpc' \in {"idle", "sending"} /\ answer' = answer /\ req' = req
        /\ (cpc' # "idle" => answer = 0)
    BY <1>1, <1>12 DEF SendDown, WaitDown, Failed, clientVars
  <2> QED
    BY <2>2, <2>3
<1>13. CASE SendFull
  BY <1>13 DEF SendFull
<1>14. CASE AppReconnect \/ ClientRestart
  BY <1>14 DEF AppReconnect, ClientRestart, Accepted, clientVars
<1>15. CASE UNCHANGED vars
  BY <1>15 DEF vars, clientVars, netVars, serverVars
<1> QED
  BY <1>3, <1>4, <1>5, <1>6, <1>7, <1>8, <1>9, <1>10, <1>11, <1>12, <1>13,
     <1>14, <1>15
  DEF Next, Client, Server

LEMMA QuietInit == Init => QuietInv
  BY DEF Init, QuietInv

\* With link recovery and a server that is done within the recovery sleep, no
\* call leaves a request to be answered or a reply to be read, whatever breaks,
\* restarts or goes unanswered: for any number of requests and of faults.
THEOREM RecoveryLeavesNothing == Recovering => (Spec => []NothingLeftBehind)
<1> SUFFICES ASSUME Recovering PROVE Spec => []NothingLeftBehind
  OBVIOUS
<1>1. QuietInv => NothingLeftBehind
  BY DEF QuietInv, NothingLeftBehind
<1> QED
  BY <1>1, QuietInit, TypeInit, TypeNext, QuietNext, PTL DEF Spec

\* In that setting no answer to another request is ever accepted either, not
\* after a client's restart and not when identifiers are used again: there is
\* no other answer to accept.  This needs no relation between the counters.
THEOREM RecoveryAnswers == Recovering => (Spec => []AcceptedAnswersRequest)
<1> SUFFICES ASSUME Recovering PROVE Spec => []AcceptedAnswersRequest
  OBVIOUS
<1>1. QuietInv => AcceptedAnswersRequest
  BY DEF QuietInv, AcceptedAnswersRequest
<1> QED
  BY <1>1, QuietInit, TypeInit, TypeNext, QuietNext, PTL DEF Spec

(***************************************************************************)
(* The refinement: what a caller of tta_request sees.                      *)
(***************************************************************************)

LEMMA RequestStep ==
  ASSUME Faults = {}, MaxUnanswered <= TidMax, SessionInv, [Next]_vars
  PROVE  [Request!Next]_(Request!vars)
<1> USE DEF Request!Next, Request!vars, Request!Begin, Request!Succeed, Request!Fail
<1>1. conn = "up"
  BY DEF SessionInv, Shape
<1>2. CASE RequestBegin
  BY <1>2 DEF RequestBegin
<1>3. CASE ConfirmationOk
  <2>1. answer' = req
    BY <1>3, HeadReply DEF ConfirmationOk
  <2> QED
    BY <1>3, <2>1 DEF ConfirmationOk
<1>4. CASE ConfirmationRefused
  BY <1>4 DEF ConfirmationRefused
<1>5. CASE ResponseTimeout
  BY <1>5 DEF ResponseTimeout
<1>6. CASE SleepOver
  BY <1>6 DEF SleepOver, Failed
<1>7. CASE SendOk
  BY <1>7 DEF SendOk
<1>8. CASE ServerReceive \/ ServerReply \/ UNCHANGED vars
  BY <1>8 DEF ServerReceive, ServerReply, vars, clientVars
<1>9. CASE SendDown \/ WaitDown \/ AppReconnect
  BY <1>1, <1>9 DEF SendDown, WaitDown, AppReconnect
<1>10. CASE SendFull \/ ClientRestart \/ ServerSkip \/ ConnectionReset
  BY <1>10 DEF SendFull, ClientRestart, ServerSkip, ConnectionReset
<1> QED
  BY <1>2, <1>3, <1>4, <1>5, <1>6, <1>7, <1>8, <1>9, <1>10 DEF Next, Client, Server

\* For fresh contexts tta_request implements TtaRequest, its fairness apart: a
\* call is answered at most once, by its own answer or by a failure.
THEOREM FreshRefines ==
  ASSUME Faults = {}, MaxUnanswered <= TidMax
  PROVE  Spec => Request!Init /\ [][Request!Next]_(Request!vars)
<1>1. Init => Request!Init
  BY DEF Init, Request!Init
<1> QED
  BY <1>1, SessionInit, SessionNext, RequestStep, PTL DEF Spec

LEMMA QuietStep ==
  ASSUME Recovering, "restart" \notin Faults, TypeInv, QuietInv, QuietInv', [Next]_vars
  PROVE  [Request!Next]_(Request!vars)
<1> USE DEF Request!Next, Request!vars, Request!Begin, Request!Succeed, Request!Fail
<1>1. cpc \in {"idle", "sending", "waiting", "sleep"}
  BY DEF TypeInv, TypeOK
<1>2. CASE RequestBegin
  BY <1>2 DEF RequestBegin
<1>3. CASE ConfirmationOk
  <2>1. answer' = req
    <3>1. Len(s2c) = 1 /\ s2c[1].about = req /\ s2c \in Seq(Packet)
      BY <1>3 DEF ConfirmationOk, QuietInv, AtMostOne, Nothing, TypeInv, TypeOK
    <3> QED
      BY <1>3, <3>1, OneLess DEF ConfirmationOk
  <2> QED
    BY <1>3, <2>1 DEF ConfirmationOk
<1>4. CASE ConfirmationRefused
  BY <1>4 DEF ConfirmationRefused
<1>5. CASE ResponseTimeout
  BY <1>5 DEF ResponseTimeout
<1>6. CASE SleepOver \/ WaitDown
  BY <1>6 DEF SleepOver, WaitDown, Failed
<1>7. CASE SendOk
  BY <1>7 DEF SendOk
<1>8. CASE SendDown \/ SendFull
  BY <1>8 DEF SendDown, SendFull, Failed, clientVars
<1>9. CASE AppReconnect \/ Server \/ ConnectionReset \/ UNCHANGED vars
  BY <1>9 DEF AppReconnect, Server, ServerReceive, ServerReply, ServerSkip,
              ConnectionReset, vars, clientVars
<1>10. CASE ClientRestart
  BY <1>10 DEF ClientRestart
<1> QED
  BY <1>2, <1>3, <1>4, <1>5, <1>6, <1>7, <1>8, <1>9, <1>10 DEF Next, Client

\* With link recovery and a prompt server tta_request implements TtaRequest
\* over connections that break too, and with requests the server skips.  Only a
\* client that starts afresh is left out: it forgets an answer it returned.
THEOREM RecoveryRefines ==
  Recovering /\ "restart" \notin Faults
    => (Spec => Request!Init /\ [][Request!Next]_(Request!vars))
<1> SUFFICES ASSUME Recovering, "restart" \notin Faults
             PROVE  Spec => Request!Init /\ [][Request!Next]_(Request!vars)
  OBVIOUS
<1>1. Init => Request!Init
  BY DEF Init, Request!Init
<1> QED
  BY <1>1, QuietInit, TypeInit, TypeNext, QuietNext, QuietStep, PTL DEF Spec

=============================================================================
