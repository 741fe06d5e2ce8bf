-------------------------- MODULE TtaReceive_proofs --------------------------
(***************************************************************************)
(* Proofs about the receive engine, for every backend (header, checksum    *)
(* and buffer length, integrity check), every set of frames and any number *)
(* of them.                                                                *)
(***************************************************************************)
EXTENDS TtaReceive, SequenceTheorems, TLAPS

USE LengthAssumption DEF Link, Protocol

(***************************************************************************)
(* What the loop knows between two turns: in the header phase it is short  *)
(* of the header's length, in the data phase of the length the header      *)
(* announced, which was compared with the buffer's.                        *)
(***************************************************************************)
LoopInv ==
  /\ pc # "select" => pkt = <<>> /\ length_to_read = 0
  /\ pc = "select" /\ step = "HD" =>
       /\ Len(pkt) + length_to_read = HeaderLen
       /\ length_to_read > 0
  /\ pc = "select" /\ step = "DATA" =>
       /\ Len(pkt) >= HeaderLen
       /\ length_to_read > 0
       /\ Len(pkt) + length_to_read = HeaderLen + compute_data_length_after_hd(pkt)
       /\ Len(pkt) + length_to_read <= MaxAdu

Inv == TypeOK /\ LoopInv

-----------------------------------------------------------------------------

LEMMA FunctionIsSeq ==
  ASSUME NEW S, NEW n \in Nat, NEW s \in [1..n -> S]
  PROVE  s \in Seq(S)
BY SeqDef

(***************************************************************************)
(* A byte's value is a number.                                             *)
(***************************************************************************)
LEMMA ValueIsNat ==
  ASSUME TypeOK, NEW b \in LineByte
  PROVE  Value(b) \in Nat
<1>1. sent[b.frame] \in Seq(Byte)
  BY FramesAssumption DEF TypeOK, LineByte
<1>2. sent[b.frame][b.pos] \in Byte
  BY <1>1 DEF LineByte
<1> QED
  BY <1>2, ByteAssumption DEF Value

LEMMA LengthIsNat ==
  ASSUME TypeOK, NEW p \in Seq(LineByte), Len(p) >= HeaderLen
  PROVE  compute_data_length_after_hd(p) \in Nat
<1>1. p[HeaderLen] \in LineByte
  OBVIOUS
<1> QED
  BY <1>1, ValueIsNat DEF compute_data_length_after_hd

(***************************************************************************)
(* Sending a frame changes no byte that is already on the line.            *)
(***************************************************************************)
LEMMA SendKeepsBytes ==
  ASSUME TypeOK, NEW f \in Frames, sent' = Append(sent, f)
  PROVE  /\ LineByte \subseteq LineByte'
         /\ \A b \in LineByte : sent'[b.frame] = sent[b.frame]
         /\ Stamp(f, Len(sent')) \in Seq(LineByte')
<1> USE DEF TypeOK
<1>1. /\ Len(sent') = Len(sent) + 1
      /\ \A i \in 1..Len(sent) : sent'[i] = sent[i]
      /\ sent'[Len(sent')] = f
  OBVIOUS
<1>2. \A b \in LineByte : b \in LineByte' /\ sent'[b.frame] = sent[b.frame]
  BY <1>1 DEF LineByte
<1>3. f \in Seq(Byte)
  BY FramesAssumption
<1>4. Stamp(f, Len(sent')) \in [1..Len(f) -> LineByte']
  BY <1>1, <1>3 DEF Stamp, LineByte
<1>5. Stamp(f, Len(sent')) \in Seq(LineByte')
  BY <1>3, <1>4, FunctionIsSeq, LenProperties
<1>6. LineByte \subseteq LineByte'
  BY <1>2
<1> QED
  BY <1>2, <1>5, <1>6

(***************************************************************************)
(* What one recv() does: pkt grows by the first Count bytes of the kernel  *)
(* buffer.                                                                 *)
(***************************************************************************)
LEMMA RecvBytes ==
  ASSUME TypeOK, LoopInv, Readable
  PROVE  /\ Count \in Nat \ {0}
         /\ Count <= length_to_read
         /\ Grown \in Seq(LineByte)
         /\ Rest \in Seq(LineByte)
         /\ Len(Grown) = Len(pkt) + Count
         /\ \A i \in 1..Len(pkt) : Grown[i] = pkt[i]
<1> USE DEF TypeOK
<1>1. Count \in Nat \ {0} /\ Count <= length_to_read /\ Count <= Len(rxbuf)
  BY DEF LoopInv, Readable, Count
<1> DEFINE read == SubSeq(rxbuf, 1, Count)
<1>2. read \in Seq(LineByte) /\ Len(read) = Count
  BY <1>1, SubSeqProperties
<1>3. Rest \in Seq(LineByte)
  BY <1>1, SubSeqProperties DEF Rest
<1>4. /\ pkt \o read \in Seq(LineByte)
      /\ Len(pkt \o read) = Len(pkt) + Count
      /\ \A i \in 1..Len(pkt) : (pkt \o read)[i] = pkt[i]
  BY <1>2, ConcatProperties
<1> QED
  BY <1>1, <1>3, <1>4 DEF Grown

(***************************************************************************)
(* The invariant is kept by every step.                                    *)
(***************************************************************************)
LEMMA InvInit == Init => Inv
BY EnvironmentAssumption DEF Init, Inv, TypeOK, LoopInv

LEMMA InvNext == Inv /\ [Next]_vars => Inv'
<1> SUFFICES ASSUME Inv, [Next]_vars PROVE Inv'
  OBVIOUS
<1> USE DEF Inv
<1>1. CASE PeerSend
  <2>1. PICK f \in Frames : sent' = Append(sent, f)
                            /\ wire' = wire \o Stamp(f, Len(sent'))
    BY <1>1 DEF PeerSend
  <2>2. /\ LineByte \subseteq LineByte'
        /\ \A b \in LineByte : sent'[b.frame] = sent[b.frame]
        /\ Stamp(f, Len(sent')) \in Seq(LineByte')
    BY <2>1, SendKeepsBytes
  <2>3. /\ wire \in Seq(LineByte') /\ rxbuf \in Seq(LineByte')
        /\ pkt \in Seq(LineByte') /\ got \in Seq(LineByte')
    BY <2>2 DEF TypeOK
  <2>4. wire' \in Seq(LineByte')
    BY <2>1, <2>2, <2>3
  <2>5. sent' \in Seq(Frames)
    BY <2>1 DEF TypeOK
  <2>6. TypeOK'
    BY <1>1, <2>3, <2>4, <2>5 DEF TypeOK, PeerSend, callVars
  <2>7. ASSUME Len(pkt) >= HeaderLen
        PROVE  compute_data_length_after_hd(pkt)' = compute_data_length_after_hd(pkt)
    <3>1. pkt[HeaderLen] \in LineByte
      BY <2>7 DEF TypeOK
    <3> QED
      BY <1>1, <2>2, <3>1
      DEF PeerSend, callVars, compute_data_length_after_hd, Value
  <2>8. UNCHANGED callVars
    BY <1>1 DEF PeerSend
  <2>9. LoopInv'
    BY <2>7, <2>8 DEF LoopInv, callVars
  <2> QED
    BY <2>6, <2>9
<1>2. CASE Arrive
  BY <1>2 DEF Arrive, callVars, TypeOK, LoopInv, LineByte, Value,
              compute_data_length_after_hd
<1>3. CASE LoseByte
  BY <1>3 DEF LoseByte, callVars, TypeOK, LoopInv, LineByte, Value,
              compute_data_length_after_hd
<1>4. CASE PeerClose
  BY <1>4 DEF PeerClose, callVars, TypeOK, LoopInv, LineByte, Value,
              compute_data_length_after_hd
<1>5. CASE PeerReset
  <2>1. /\ wire' = <<>> /\ (rxbuf' = rxbuf \/ rxbuf' = <<>>) /\ conn' = "reset"
        /\ UNCHANGED <<sent, lost, recovery, callVars, got>>
    BY <1>5 DEF PeerReset
  <2>2. LineByte' = LineByte
    BY <2>1 DEF LineByte
  <2>3. wire' \in Seq(LineByte) /\ rxbuf' \in Seq(LineByte)
    BY <2>1, EmptySeq DEF TypeOK
  <2>4. TypeOK'
    BY <2>1, <2>2, <2>3 DEF TypeOK, callVars
  <2>5. LoopInv'
    BY <2>1 DEF LoopInv, callVars, compute_data_length_after_hd, Value
  <2> QED
    BY <2>4, <2>5
<1>6. CASE SetErrorRecovery
  BY <1>6, EnvironmentAssumption
  DEF SetErrorRecovery, lineVars, callVars, TypeOK, LoopInv, LineByte
<1>7. CASE AppReconnect
  BY <1>7 DEF AppReconnect, Reconnect, callVars, TypeOK, LoopInv, LineByte
<1>8. CASE Receive
  BY <1>8 DEF Receive, lineVars, TypeOK, LoopInv, LineByte
<1>9. CASE RecvPartial
  <2>1. /\ Count \in Nat \ {0} /\ Count < length_to_read
        /\ Grown \in Seq(LineByte) /\ Rest \in Seq(LineByte)
        /\ Len(Grown) = Len(pkt) + Count
        /\ \A i \in 1..Len(pkt) : Grown[i] = pkt[i]
    BY <1>9, RecvBytes DEF RecvPartial
  <2>2. TypeOK'
    BY <1>9, <2>1 DEF RecvPartial, TypeOK, LineByte
  <2>3. ASSUME Len(pkt) >= HeaderLen
        PROVE  compute_data_length_after_hd(pkt)' = compute_data_length_after_hd(pkt)
    BY <1>9, <2>1, <2>3
    DEF RecvPartial, compute_data_length_after_hd, Value, TypeOK
  <2>4. /\ Len(pkt') + length_to_read' = Len(pkt) + length_to_read
        /\ Len(pkt') >= Len(pkt)
        /\ length_to_read' > 0
        /\ pc' = "select" /\ step' = step
    BY <1>9, <2>1 DEF RecvPartial, Readable, TypeOK
  <2>5. CASE step = "HD"
    BY <1>9, <2>2, <2>4, <2>5 DEF RecvPartial, Readable, LoopInv
  <2>6. CASE step = "DATA"
    <3>1. /\ Len(pkt) >= HeaderLen
          /\ Len(pkt) + length_to_read = HeaderLen + compute_data_length_after_hd(pkt)
          /\ Len(pkt) + length_to_read <= MaxAdu
      BY <1>9, <2>6 DEF RecvPartial, Readable, LoopInv
    <3>2. compute_data_length_after_hd(pkt)' = compute_data_length_after_hd(pkt)
      BY <2>3, <3>1
    <3>3. Len(pkt') >= HeaderLen
      BY <2>2, <2>4, <3>1 DEF TypeOK
    <3> QED
      BY <2>2, <2>4, <2>6, <3>1, <3>2, <3>3 DEF LoopInv
  <2> QED
    BY <2>2, <2>5, <2>6 DEF TypeOK
<1>10. CASE RecvTooLong
  BY <1>10, RecvBytes
  DEF RecvTooLong, HeaderDone, ReturnError, Forget, TypeOK, LoopInv, LineByte
<1>11. CASE RecvHeader
  <2>1. /\ Grown \in Seq(LineByte) /\ Rest \in Seq(LineByte)
        /\ Len(Grown) = HeaderLen
    BY <1>11, RecvBytes DEF RecvHeader, HeaderDone, Readable, LoopInv, TypeOK
  <2>2. compute_data_length_after_hd(Grown) \in Nat
    BY <2>1, LengthIsNat
  <2>3. TypeOK'
    BY <1>11, <2>1, <2>2 DEF RecvHeader, TypeOK, LineByte
  <2>4. compute_data_length_after_hd(pkt)' = compute_data_length_after_hd(Grown)
    BY <1>11 DEF RecvHeader, compute_data_length_after_hd, Value
  <2>5. LoopInv'
    BY <1>11, <2>1, <2>2, <2>4
    DEF RecvHeader, HeaderDone, Readable, TooLong, LoopInv
  <2> QED
    BY <2>3, <2>5
<1>12. CASE RecvPacket
  BY <1>12, RecvBytes
  DEF RecvPacket, PacketDone, Forget, TypeOK, LoopInv, LineByte
<1>13. CASE RecvBadSum
  BY <1>13, RecvBytes
  DEF RecvBadSum, PacketDone, ReturnError, Forget, TypeOK, LoopInv, LineByte
<1>14. CASE SelectTimeout
  BY <1>14 DEF SelectTimeout, lineVars, Forget, TypeOK, LoopInv, LineByte
<1>15. CASE SleepOver
  BY <1>15 DEF SleepOver, ReturnError, Forget, TypeOK, LoopInv, LineByte
<1>16. CASE SelectBadF
  <2>1. /\ wire' = wire \/ wire' = <<>>
        /\ rxbuf' = rxbuf \/ rxbuf' = <<>>
        /\ conn' \in {conn, "up", "bad"} /\ sent' = sent /\ lost' = lost
    BY <1>16 DEF SelectBadF, Reconnect, lineVars
  <2>2. LineByte' = LineByte
    BY <2>1 DEF LineByte
  <2>3. wire' \in Seq(LineByte) /\ rxbuf' \in Seq(LineByte)
    BY <2>1, EmptySeq DEF TypeOK
  <2>4. pc' = "idle" /\ Forget /\ got' = got /\ recovery' = recovery
    BY <1>16 DEF SelectBadF, ReturnError
  <2>5. TypeOK'
    BY <2>1, <2>2, <2>3, <2>4 DEF Forget, TypeOK
  <2>6. LoopInv'
    BY <2>4 DEF Forget, LoopInv
  <2> QED
    BY <2>5, <2>6
<1>17. CASE RecvReset
  <2>1. /\ wire' = wire \/ wire' = <<>>
        /\ rxbuf' = rxbuf \/ rxbuf' = <<>>
        /\ conn' \in {conn, "up", "bad"} /\ sent' = sent /\ lost' = lost
    BY <1>17 DEF RecvReset, Reconnect, lineVars
  <2>2. LineByte' = LineByte
    BY <2>1 DEF LineByte
  <2>3. wire' \in Seq(LineByte) /\ rxbuf' \in Seq(LineByte)
    BY <2>1, EmptySeq DEF TypeOK
  <2>4. pc' = "idle" /\ Forget /\ got' = got /\ recovery' = recovery
    BY <1>17 DEF RecvReset, ReturnError
  <2>5. TypeOK'
    BY <2>1, <2>2, <2>3, <2>4 DEF Forget, TypeOK
  <2>6. LoopInv'
    BY <2>4 DEF Forget, LoopInv
  <2> QED
    BY <2>5, <2>6
<1>18. CASE UNCHANGED vars
  BY <1>18
  DEF vars, lineVars, callVars, TypeOK, LoopInv, LineByte, Value,
      compute_data_length_after_hd
<1> QED
  BY <1>1, <1>2, <1>3, <1>4, <1>5, <1>6, <1>7, <1>8, <1>9, <1>10, <1>11,
     <1>12, <1>13, <1>14, <1>15, <1>16, <1>17, <1>18
  DEF Next, Line, Application, Engine

THEOREM Invariance == Spec => []Inv
BY InvInit, InvNext, PTL DEF Spec

(***************************************************************************)
(* Every variable keeps its type; in particular a byte that was read is a  *)
(* byte some frame put on the line.                                        *)
(***************************************************************************)
THEOREM TypeCorrect == Spec => []TypeOK
BY Invariance, PTL DEF Inv

(***************************************************************************)
(* recv() is never asked for more than the caller's buffer can take, for   *)
(* every value the length byte of a header can have.                       *)
(***************************************************************************)
THEOREM BufferSafe == Spec => []BufferBound
<1>1. Inv => BufferBound
  BY DEF Inv, TypeOK, LoopInv, BufferBound
<1> QED
  BY <1>1, Invariance, PTL

(***************************************************************************)
(* What a step may do to a call that has begun: end it, put it to the      *)
(* sleep after which it ends, or have it read on, by at least one byte, in *)
(* what is left of the buffer, and from then on with the byte timeout.     *)
(***************************************************************************)
Nearer ==
  pc # "idle" =>
    \/ pc' = "idle"
    \/ pc = "select" /\ pc' = "sleep"
    \/ /\ pc = "select" /\ pc' = "select"
       /\ Len(pkt) < Len(pkt') /\ Len(pkt') < MaxAdu
       /\ p_tv' = "byte"

(***************************************************************************)
(* Every step that changes a call brings it nearer to its end: it reads at *)
(* most MaxAdu times and sleeps at most once, whatever the peer sends and  *)
(* however the bytes come, and has a timeout once it has read one.  This   *)
(* is the safety half of TimedReceiveReturns.                              *)
(***************************************************************************)
THEOREM CallsComeToAnEnd == Spec => [][Nearer]_callVars
<1>1. ASSUME Inv, Inv', [Next]_vars PROVE [Nearer]_callVars
  <2> SUFFICES ASSUME pc # "idle", ~ UNCHANGED callVars PROVE Nearer
    BY DEF Nearer
  <2>1. pc \in {"select", "sleep"}
    BY <1>1 DEF Inv, TypeOK
  <2>2. CASE Line
    BY <2>2 DEF Line, PeerSend, Arrive, LoseByte, PeerClose, PeerReset
  <2>3. CASE Application
    BY <2>3 DEF Application, SetErrorRecovery, AppReconnect, Receive
  <2>4. CASE RecvPartial \/ RecvHeader
    <3>1. Readable
      BY <2>4 DEF RecvPartial, RecvHeader, HeaderDone
    <3>2. Count \in Nat \ {0} /\ Len(Grown) = Len(pkt) + Count
      BY <1>1, <3>1, RecvBytes DEF Inv
    <3>3. pkt' = Grown /\ pc' = "select" /\ pc = "select" /\ p_tv' = "byte"
      BY <2>4, <3>1 DEF RecvPartial, RecvHeader, Readable
    <3>4. Len(pkt) < Len(pkt')
      BY <1>1, <3>2, <3>3 DEF Inv, TypeOK
    <3>5. Len(pkt') < MaxAdu
      <4>1. /\ Len(pkt') \in Nat /\ length_to_read' \in Nat /\ MaxAdu \in Nat
            /\ step' \in {"HD", "DATA"}
        BY <1>1 DEF Inv, TypeOK
      <4>2. length_to_read' > 0 /\ Len(pkt') + length_to_read' <= MaxAdu
        BY <1>1, <3>3, <4>1 DEF Inv, LoopInv
      <4> QED
        BY <4>1, <4>2
    <3> QED
      BY <3>3, <3>4, <3>5 DEF Nearer
  <2>5. CASE RecvTooLong \/ RecvPacket \/ RecvBadSum
    BY <2>5 DEF RecvTooLong, RecvPacket, RecvBadSum, ReturnError, Nearer
  <2>6. CASE SelectTimeout
    BY <2>6 DEF SelectTimeout, Nearer
  <2>7. CASE SleepOver \/ SelectBadF \/ RecvReset
    BY <2>7 DEF SleepOver, SelectBadF, RecvReset, ReturnError, Nearer
  <2>8. CASE UNCHANGED vars
    BY <2>8 DEF vars
  <2> QED
    BY <1>1, <2>2, <2>3, <2>4, <2>5, <2>6, <2>7, <2>8 DEF Next, Engine
<1> QED
  BY <1>1, Invariance, PTL DEF Spec

-----------------------------------------------------------------------------
(***************************************************************************)
(* Framing: on a line that loses no byte a call that begins at a frame's   *)
(* first byte reads that frame exactly.                                    *)
(*                                                                         *)
(* The argument is about Left, the bytes the call has read followed by     *)
(* those still to be read.  They are one run of consecutive bytes of       *)
(* consecutive frames.  The run is described by what any two of its bytes  *)
(* have to do with each other rather than from neighbour to neighbour, so  *)
(* that no step needs an induction over the run.                           *)
(***************************************************************************)

\* Two bytes of a run are as far apart as their places say, and the run stays
\* in a frame as long as there is room for it.
OneRun(s) ==
  /\ \A i, j \in 1..Len(s) : i <= j =>
       /\ s[i].frame <= s[j].frame
       /\ s[i].frame = s[j].frame => s[j].pos = s[i].pos + (j - i)
       /\ s[i].pos + (j - i) <= Len(sent[s[i].frame]) => s[j].frame = s[i].frame
  /\ \A i \in 1..Len(s) : (i < Len(s) /\ s[i + 1].frame # s[i].frame) =>
       s[i + 1].frame = s[i].frame + 1 /\ s[i + 1].pos = 1

\* The run goes on to the last byte of the last frame sent.
ReachesLast(s) ==
  s # <<>> => /\ s[Len(s)].frame = Len(sent)
              /\ s[Len(s)].pos = Len(sent[Len(sent)])

FramingInv ==
  /\ OneRun(Left)
  /\ conn = "up" => ReachesLast(Left)

-----------------------------------------------------------------------------
(* Sequences put together from three.                                      *)

LEMMA ThreeParts ==
  ASSUME NEW S, NEW p \in Seq(S), NEW r \in Seq(S), NEW w \in Seq(S)
  PROVE  /\ p \o r \o w \in Seq(S)
         /\ Len(p \o r \o w) = Len(p) + Len(r) + Len(w)
         /\ \A i \in 1..Len(p) : (p \o r \o w)[i] = p[i]
         /\ \A i \in 1..Len(r) : (p \o r \o w)[i + Len(p)] = r[i]
         /\ \A i \in 1..Len(w) : (p \o r \o w)[i + Len(p) + Len(r)] = w[i]
<1>1. /\ p \o r \in Seq(S)
      /\ Len(p \o r) = Len(p) + Len(r)
      /\ \A i \in 1..Len(p) + Len(r) :
           (p \o r)[i] = IF i <= Len(p) THEN p[i] ELSE r[i - Len(p)]
  BY ConcatProperties
<1>2. /\ (p \o r) \o w \in Seq(S)
      /\ Len((p \o r) \o w) = Len(p \o r) + Len(w)
      /\ \A i \in 1..Len(p \o r) + Len(w) :
           ((p \o r) \o w)[i] =
             IF i <= Len(p \o r) THEN (p \o r)[i] ELSE w[i - Len(p \o r)]
  BY <1>1, ConcatProperties
<1>3. Len(p) \in Nat /\ Len(r) \in Nat /\ Len(w) \in Nat
  OBVIOUS
<1>4. Len((p \o r) \o w) = Len(p) + Len(r) + Len(w)
  BY <1>1, <1>2
<1>5. ASSUME NEW i \in 1..Len(p) PROVE (p \o r \o w)[i] = p[i]
  BY <1>1, <1>2, <1>3
<1>6. ASSUME NEW i \in 1..Len(r) PROVE (p \o r \o w)[i + Len(p)] = r[i]
  BY <1>1, <1>2, <1>3
<1>7. ASSUME NEW i \in 1..Len(w)
      PROVE  (p \o r \o w)[i + Len(p) + Len(r)] = w[i]
  BY <1>1, <1>2, <1>3
<1> QED
  BY <1>2, <1>4, <1>5, <1>6, <1>7

LEMMA DropFirst ==
  ASSUME NEW S, NEW p \in Seq(S), NEW r \in Seq(S), NEW w \in Seq(S)
  PROVE  /\ Len(<<>> \o r \o w) = Len(p \o r \o w) - Len(p)
         /\ \A i \in 1..Len(<<>> \o r \o w) :
              (<<>> \o r \o w)[i] = (p \o r \o w)[i + Len(p)]
<1>1. <<>> \in Seq(S) /\ Len(<<>>) = 0
  BY EmptySeq
<1> DEFINE a == p \o r \o w
           b == <<>> \o r \o w
<1>2. /\ Len(a) = Len(p) + Len(r) + Len(w)
      /\ \A i \in 1..Len(r) : a[i + Len(p)] = r[i]
      /\ \A i \in 1..Len(w) : a[i + Len(p) + Len(r)] = w[i]
  BY ThreeParts, SMTT(60)
<1>3. /\ Len(b) = Len(<<>>) + Len(r) + Len(w)
      /\ \A i \in 1..Len(r) : b[i + Len(<<>>)] = r[i]
      /\ \A i \in 1..Len(w) : b[i + Len(<<>>) + Len(r)] = w[i]
  BY <1>1, ThreeParts
<1>4. Len(p) \in Nat /\ Len(r) \in Nat /\ Len(w) \in Nat
  OBVIOUS
<1> HIDE DEF a, b
<1>5. Len(b) = Len(r) + Len(w) /\ Len(b) = Len(a) - Len(p)
  BY <1>1, <1>2, <1>3, <1>4
<1>6. ASSUME NEW i \in 1..Len(b) PROVE b[i] = a[i + Len(p)]
  <2>1. CASE i <= Len(r)
    BY <1>1, <1>2, <1>3, <1>4, <1>5, <2>1
  <2>2. CASE i > Len(r)
    <3>1. i - Len(r) \in 1..Len(w)
      BY <1>4, <1>5, <2>2
    <3>2. b[(i - Len(r)) + 0 + Len(r)] = w[i - Len(r)]
      BY <1>1, <1>3, <3>1
    <3>3. a[(i - Len(r)) + Len(p) + Len(r)] = w[i - Len(r)]
      BY <1>2, <3>1
    <3> QED
      BY <1>4, <1>5, <3>2, <3>3
  <2> QED
    BY <1>4, <1>5, <2>1, <2>2
<1> QED
  BY <1>5, <1>6 DEF a, b

LEMMA LeftType == TypeOK => Left \in Seq(LineByte) /\ Len(Left) \in Nat
BY ThreeParts DEF TypeOK, Left

-----------------------------------------------------------------------------
(* What happens to the run.                                                *)

(***************************************************************************)
(* A stretch of a run is a run.                                            *)
(***************************************************************************)
LEMMA PartOfRun ==
  ASSUME NEW s \in Seq(LineByte), NEW t \in Seq(LineByte), OneRun(s),
         NEW k \in Nat, Len(t) + k <= Len(s),
         \A i \in 1..Len(t) : t[i] = s[i + k]
  PROVE  OneRun(t)
<1>1. ASSUME NEW i \in 1..Len(t), NEW j \in 1..Len(t), i <= j
      PROVE  /\ t[i].frame <= t[j].frame
             /\ t[i].frame = t[j].frame => t[j].pos = t[i].pos + (j - i)
             /\ t[i].pos + (j - i) <= Len(sent[t[i].frame]) => t[j].frame = t[i].frame
  <2>1. i + k \in 1..Len(s) /\ j + k \in 1..Len(s) /\ i + k <= j + k
    BY <1>1
  <2>2. (j + k) - (i + k) = j - i
    BY <1>1
  <2>3. t[i] = s[i + k] /\ t[j] = s[j + k]
    BY <1>1
  <2> DEFINE x == i + k
             y == j + k
  <2>4. /\ s[x].frame <= s[y].frame
        /\ s[x].frame = s[y].frame => s[y].pos = s[x].pos + (y - x)
        /\ s[x].pos + (y - x) <= Len(sent[s[x].frame]) => s[y].frame = s[x].frame
    <3> HIDE DEF x, y
    <3> QED BY <2>1 DEF OneRun, x, y
  <2> QED
    BY <2>2, <2>3, <2>4
<1>2. ASSUME NEW i \in 1..Len(t), i < Len(t), t[i + 1].frame # t[i].frame
      PROVE  t[i + 1].frame = t[i].frame + 1 /\ t[i + 1].pos = 1
  <2>1. i + k \in 1..Len(s) /\ i + k < Len(s) /\ (i + 1) + k = (i + k) + 1
    BY <1>2
  <2>2. i + 1 \in 1..Len(t)
    BY <1>2
  <2>3. t[i + 1] = s[(i + k) + 1] /\ t[i] = s[i + k]
    BY <2>1, <2>2, SMTT(60)
  <2> DEFINE x == i + k
  <2>4. s[x + 1].frame # s[x].frame => s[x + 1].frame = s[x].frame + 1 /\ s[x + 1].pos = 1
    <3> HIDE DEF x
    <3> QED BY <2>1 DEF OneRun, x
  <2> QED
    BY <1>2, <2>3, <2>4
<1> QED
  BY <1>1, <1>2 DEF OneRun

(***************************************************************************)
(* When the front of the run is taken off, what is left is such a run.     *)
(***************************************************************************)
LEMMA RestOfRun ==
  ASSUME Inv, Inv', FramingInv, sent' = sent, conn' = "up" => conn = "up",
         NEW k \in 0..Len(Left), Len(Left') = Len(Left) - k,
         \A i \in 1..Len(Left') : Left'[i] = Left[i + k]
  PROVE  FramingInv'
<1>1. LineByte' = LineByte
  BY DEF LineByte
<1>2. Left \in Seq(LineByte) /\ Left' \in Seq(LineByte)
  <2>1. (Left \in Seq(LineByte))'
    BY LeftType, PTL DEF Inv
  <2> QED
    BY <1>1, <2>1, LeftType DEF Inv
<1> DEFINE t == Left'
<1>3. OneRun(t)
  <2> HIDE DEF t
  <2>1. /\ t \in Seq(LineByte) /\ k \in Nat /\ Len(t) + k <= Len(Left)
        /\ \A i \in 1..Len(t) : t[i] = Left[i + k]
    BY <1>2 DEF t
  <2> QED
    BY <1>2, <2>1, PartOfRun DEF FramingInv
<1>4. OneRun(Left)'
  BY <1>3 DEF OneRun
<1>5. ASSUME conn' = "up", t # <<>>
      PROVE  /\ t[Len(t)].frame = Len(sent)
             /\ t[Len(t)].pos = Len(sent[Len(sent)])
  <2> HIDE DEF t
  <2>1. Len(t) \in Nat \ {0} /\ Len(t) + k = Len(Left)
    BY <1>2, <1>5 DEF t
  <2>2. t[Len(t)] = Left[Len(Left)] /\ Left # <<>>
    BY <1>2, <2>1 DEF t
  <2> QED
    BY <1>5, <2>2 DEF FramingInv, ReachesLast
<1> QED
  BY <1>4, <1>5 DEF FramingInv, ReachesLast

LEMMA SameRun ==
  ASSUME Inv, Inv', FramingInv, sent' = sent, conn' = "up" => conn = "up",
         Left' = Left
  PROVE  FramingInv'
BY LeftType, RestOfRun DEF Inv

LEMMA NoRun ==
  ASSUME Left' = <<>>
  PROVE  FramingInv'
BY EmptySeq DEF FramingInv, OneRun, ReachesLast

(***************************************************************************)
(* A recv() moves bytes within the run.                                    *)
(***************************************************************************)
LEMMA RecvLeft ==
  ASSUME Inv, Readable
  PROVE  Left = Grown \o Rest \o wire
<1>1. pkt \in Seq(LineByte) /\ rxbuf \in Seq(LineByte) /\ wire \in Seq(LineByte)
  BY DEF Inv, TypeOK
<1>2. Count \in Nat /\ Count <= Len(rxbuf) /\ Len(rxbuf) \in Nat
  <2>1. Count \in Nat
    BY RecvBytes DEF Inv
  <2> QED
    BY <1>1, <2>1 DEF Count, Inv, TypeOK
<1> DEFINE a == SubSeq(rxbuf, 1, Count)
           b == SubSeq(rxbuf, Count + 1, Len(rxbuf))
<1>3. a \in Seq(LineByte) /\ b \in Seq(LineByte)
  BY <1>1, <1>2, SubSeqProperties
<1>4. a \o b = SubSeq(rxbuf, 1, Len(rxbuf))
  <2>1. /\ 1 \in 1..Len(rxbuf) + 1
        /\ Count \in 1 - 1..Len(rxbuf)
        /\ Len(rxbuf) \in Count..Len(rxbuf)
    BY <1>2
  <2> QED
    BY <1>1, <2>1, ConcatAdjacentSubSeq, Zenon
<1>5. a \o b = rxbuf
  BY <1>1, <1>4, SubSeqFull
<1> HIDE DEF a, b
<1>6. (pkt \o a) \o b = pkt \o rxbuf
  <2>1. (pkt \o a) \o b = pkt \o (a \o b)
    BY <1>1, <1>3, ConcatAssociative, SMTT(60)
  <2> QED
    BY <1>5, <2>1
<1> QED
  BY <1>6 DEF Left, Grown, Rest, a, b

(***************************************************************************)
(* Sending a frame makes the run longer by that frame.                     *)
(***************************************************************************)
LEMMA SendLeft ==
  ASSUME Inv, Inv', FramingInv, PeerSend
  PROVE  FramingInv'
<1>1. PICK f \in Frames : sent' = Append(sent, f)
                          /\ wire' = wire \o Stamp(f, Len(sent'))
  BY DEF PeerSend
<1> DEFINE n == Len(sent)
           m == Len(Left)
           t == Left'
<1>2. /\ n \in Nat
      /\ Len(sent') = n + 1
      /\ \A i \in 1..n : sent'[i] = sent[i]
      /\ sent'[n + 1] = f
  <2>1. sent \in Seq(Frames)
    BY DEF Inv, TypeOK
  <2> QED
    BY <1>1, <2>1
<1>3. f \in Seq(Byte) /\ Len(f) \in Nat \ {0}
  BY FramesAssumption
<1>4. \A i \in 1..Len(f) : Stamp(f, n + 1)[i] = [frame |-> n + 1, pos |-> i]
  BY DEF Stamp
<1>5. /\ pkt \in Seq(LineByte) /\ rxbuf \in Seq(LineByte) /\ wire \in Seq(LineByte)
      /\ Left \in Seq(LineByte) /\ m \in Nat
  BY LeftType DEF Inv, TypeOK
<1>6. /\ LineByte \subseteq LineByte'
      /\ Stamp(f, n + 1) \in Seq(LineByte')
      /\ Len(Stamp(f, n + 1)) = Len(f)
  BY <1>1, <1>2, <1>3, SendKeepsBytes DEF Inv, Stamp
<1>7. t = Left \o Stamp(f, n + 1)
  <2>1. t = pkt \o rxbuf \o (wire \o Stamp(f, n + 1))
    <3>1. pkt' = pkt /\ rxbuf' = rxbuf /\ wire' = wire \o Stamp(f, n + 1)
      BY <1>1, <1>2 DEF PeerSend, callVars
    <3> QED
      BY <3>1 DEF Left
  <2>2. /\ pkt \o rxbuf \in Seq(LineByte')
        /\ wire \in Seq(LineByte')
        /\ Stamp(f, n + 1) \in Seq(LineByte')
    BY <1>5, <1>6, ConcatProperties
  <2>3. (pkt \o rxbuf) \o (wire \o Stamp(f, n + 1))
          = ((pkt \o rxbuf) \o wire) \o Stamp(f, n + 1)
    <3> DEFINE a == pkt \o rxbuf
               u == Stamp(f, n + 1)
    <3> HIDE DEF a, u
    <3>1. a \in Seq(LineByte') /\ wire \in Seq(LineByte') /\ u \in Seq(LineByte')
      BY <2>2 DEF a, u
    <3>2. (a \o wire) \o u = a \o (wire \o u)
      BY <3>1, ConcatAssociative
    <3> QED
      BY <3>2 DEF a, u
  <2> QED
    BY <2>1, <2>3 DEF Left
<1>8. /\ Len(t) = m + Len(f)
      /\ \A i \in 1..m : t[i] = Left[i]
      /\ \A i \in 1..m + Len(f) :
           i > m => t[i].frame = n + 1 /\ t[i].pos = i - m
  <2> DEFINE u == Stamp(f, n + 1)
  <2>1. Left \in Seq(LineByte')
    BY <1>5, <1>6
  <2>2. /\ Len(Left \o u) = m + Len(u)
        /\ \A i \in 1..m + Len(u) :
             (Left \o u)[i] = IF i <= m THEN Left[i] ELSE u[i - m]
    BY <1>6, <2>1, ConcatProperties
  <2>3. /\ Len(t) = m + Len(f)
        /\ \A i \in 1..m + Len(f) : t[i] = IF i <= m THEN Left[i] ELSE u[i - m]
    BY <1>6, <1>7, <2>2
  <2> HIDE DEF t, u, m
  <2>4. ASSUME NEW i \in 1..m + Len(f), i > m
        PROVE  t[i].frame = n + 1 /\ t[i].pos = i - m
    <3>1. i - m \in 1..Len(f)
      BY <1>3, <1>5, <2>4
    <3>2. t[i] = u[i - m]
      BY <1>3, <1>5, <2>3, <2>4
    <3>3. u[i - m] = [frame |-> n + 1, pos |-> i - m]
      BY <1>4, <3>1 DEF u
    <3> QED
      BY <3>2, <3>3
  <2>5. \A i \in 1..m : t[i] = Left[i]
    BY <1>3, <1>5, <2>3
  <2> QED
    BY <2>3, <2>4, <2>5
<1> HIDE DEF n, m, t
<1>9. /\ n \in Nat /\ m \in Nat /\ Len(f) \in Nat \ {0}
      /\ \A i \in 1..m : /\ Left[i].frame \in 1..n /\ Left[i].pos \in Nat
                         /\ t[i] = Left[i]
                         /\ sent'[Left[i].frame] = sent[Left[i].frame]
                         /\ Len(sent[Left[i].frame]) \in Nat
  <2>1. ASSUME NEW i \in 1..m
        PROVE  /\ Left[i].frame \in 1..n /\ Left[i].pos \in Nat
               /\ Len(sent[Left[i].frame]) \in Nat
    <3>1. Left[i] \in LineByte
      BY <1>5, <2>1 DEF m
    <3>2. sent[Left[i].frame] \in Frames
      BY <3>1, SMTT(60) DEF LineByte, Inv, TypeOK
    <3>3. sent[Left[i].frame] \in Seq(Byte)
      BY <3>2, FramesAssumption
    <3> QED
      BY <3>1, <3>3 DEF LineByte, n
  <2> QED
    BY <1>2, <1>3, <1>5, <1>8, <2>1 DEF m, n
<1>10. m > 0 => Left[m].frame = n /\ Left[m].pos = Len(sent[n])
  BY <1>5 DEF FramingInv, ReachesLast, PeerSend, m, n
\* A byte of an earlier frame is too far from the new frame's bytes.
<1>11. ASSUME NEW i \in 1..m
       PROVE  Left[i].pos + (m - i) >= Len(sent[Left[i].frame])
  <2>1. m \in 1..m /\ i <= m
    BY <1>9
  <2>2. /\ Left[i].frame = Left[m].frame => Left[m].pos = Left[i].pos + (m - i)
        /\ Left[i].pos + (m - i) <= Len(sent[Left[i].frame])
             => Left[m].frame = Left[i].frame
    BY <2>1 DEF FramingInv, OneRun, m
  <2>3. /\ Left[i].frame \in 1..n /\ Left[i].pos \in Nat
        /\ Len(sent[Left[i].frame]) \in Nat /\ m - i \in Int
    BY <1>9, <2>1
  <2>4. Left[m].frame = n /\ Left[m].pos = Len(sent[n])
    BY <1>10, <2>1
  <2> HIDE DEF m, n
  <2> QED
    BY <2>2, <2>3, <2>4
<1>12. ASSUME NEW i \in 1..m + Len(f), NEW j \in 1..m + Len(f), i <= j
       PROVE  /\ t[i].frame <= t[j].frame
              /\ t[i].frame = t[j].frame => t[j].pos = t[i].pos + (j - i)
              /\ t[i].pos + (j - i) <= Len(sent'[t[i].frame]) => t[j].frame = t[i].frame
  <2>1. CASE j <= m
    <3>1. i \in 1..m /\ j \in 1..m
      BY <1>9, <1>12, <2>1
    <3>2. /\ Left[i].frame <= Left[j].frame
          /\ Left[i].frame = Left[j].frame => Left[j].pos = Left[i].pos + (j - i)
          /\ Left[i].pos + (j - i) <= Len(sent[Left[i].frame])
               => Left[j].frame = Left[i].frame
      BY <1>12, <3>1 DEF FramingInv, OneRun, m
    <3> QED
      BY <1>9, <3>1, <3>2
  <2>2. CASE i <= m /\ j > m
    <3>1. i \in 1..m
      BY <1>9, <2>2
    <3>2. t[j].frame = n + 1 /\ t[j].pos = j - m
      BY <1>8, <2>2
    <3>3. Left[i].pos + (m - i) >= Len(sent[Left[i].frame])
      BY <1>11, <3>1
    <3>4. /\ Left[i].frame \in 1..n /\ Left[i].pos \in Nat /\ t[i] = Left[i]
          /\ sent'[Left[i].frame] = sent[Left[i].frame]
          /\ Len(sent[Left[i].frame]) \in Nat
      BY <1>9, <3>1
    <3>5. t[i].frame < t[j].frame
      BY <1>9, <3>2, <3>4
    <3>6. Left[i].pos + (j - i) > Len(sent[Left[i].frame])
      <4>1. i \in Nat /\ j \in Nat /\ m \in Nat /\ j > m
        BY <1>9, <1>12, <2>2
      <4> HIDE DEF m
      <4> QED
        BY <3>3, <3>4, <4>1, SMTT(60)
    <3>7. ~(t[i].pos + (j - i) <= Len(sent'[t[i].frame]))
      BY <1>9, <3>4, <3>6, SMTT(60)
    <3>8. t[i].frame <= t[j].frame /\ t[i].frame # t[j].frame
      BY <1>9, <3>2, <3>4
    <3> QED
      BY <3>7, <3>8
  <2>3. CASE i > m
    <3>1. j > m
      BY <1>9, <1>12, <2>3
    <3>2. /\ t[i].frame = n + 1 /\ t[i].pos = i - m
          /\ t[j].frame = n + 1 /\ t[j].pos = j - m
      BY <1>8, <2>3, <3>1
    <3>3. j - m = (i - m) + (j - i) /\ n + 1 <= n + 1
      BY <1>9
    <3> QED
      BY <3>2, <3>3
  <2> QED
    BY <1>9, <1>12, <2>1, <2>2, <2>3
<1>13. ASSUME NEW i \in 1..m + Len(f), i < m + Len(f), t[i + 1].frame # t[i].frame
       PROVE  t[i + 1].frame = t[i].frame + 1 /\ t[i + 1].pos = 1
  <2>1. CASE i < m
    <3>1. i \in 1..m /\ i + 1 \in 1..m
      BY <1>9, <2>1
    <3>2. Left[i + 1].frame # Left[i].frame
            => Left[i + 1].frame = Left[i].frame + 1 /\ Left[i + 1].pos = 1
      BY <1>9, <2>1, <3>1 DEF FramingInv, OneRun, m
    <3> QED
      BY <1>9, <1>13, <3>1, <3>2
  <2>2. CASE i = m
    <3>1. m + 1 \in 1..m + Len(f) /\ m \in 1..m /\ (m + 1) - m = 1 /\ m > 0
      BY <1>9, <2>2
    <3>2. t[m + 1].frame = n + 1 /\ t[m + 1].pos = 1
      BY <1>8, <1>9, <3>1
    <3>3. t[m].frame = n
      BY <1>9, <1>10, <3>1
    <3> QED
      BY <2>2, <3>2, <3>3
  <2>3. CASE i > m
    <3>1. i + 1 \in 1..m + Len(f) /\ i + 1 > m
      BY <1>9, <1>13, <2>3
    <3>2. t[i].frame = n + 1 /\ t[i + 1].frame = n + 1
      BY <1>8, <2>3, <3>1
    <3> QED
      BY <1>13, <3>2
  <2> QED
    BY <1>9, <1>13, <2>1, <2>2, <2>3
<1>14. OneRun(Left)'
  BY <1>8, <1>12, <1>13 DEF OneRun, t
<1>15. ReachesLast(Left)'
  <2>1. /\ Len(t) = m + Len(f) /\ Len(t) > m /\ Len(t) \in 1..m + Len(f)
        /\ Len(t) - m = Len(f)
    BY <1>8, <1>9
  <2>2. t[Len(t)].frame = n + 1 /\ t[Len(t)].pos = Len(t) - m
    BY <1>8, <2>1
  <2> QED
    BY <1>2, <2>1, <2>2 DEF ReachesLast, t, n
<1> QED
  BY <1>14, <1>15 DEF FramingInv

(***************************************************************************)
(* The front of the run that an action takes off, when it takes any.       *)
(***************************************************************************)
LEMMA DropPkt ==
  ASSUME Inv, Inv', FramingInv, sent' = sent, conn' = "up" => conn = "up",
         pkt' = <<>>, rxbuf' = rxbuf, wire' = wire
  PROVE  FramingInv'
<1>1. pkt \in Seq(LineByte) /\ rxbuf \in Seq(LineByte) /\ wire \in Seq(LineByte)
  BY DEF Inv, TypeOK
<1>2. /\ Len(Left') = Len(Left) - Len(pkt)
      /\ \A i \in 1..Len(Left') : Left'[i] = Left[i + Len(pkt)]
  BY <1>1, DropFirst DEF Left
<1>3. Len(pkt) \in 0..Len(Left)
  BY <1>1, ThreeParts DEF Left
<1> QED
  BY <1>2, <1>3, RestOfRun

LEMMA DropRead ==
  ASSUME Inv, Inv', FramingInv, Readable, sent' = sent, conn' = conn,
         pkt' = <<>>, rxbuf' = Rest, wire' = wire
  PROVE  FramingInv'
<1>1. Grown \in Seq(LineByte) /\ Rest \in Seq(LineByte) /\ wire \in Seq(LineByte)
  BY RecvBytes DEF Inv, TypeOK
<1>2. Left = Grown \o Rest \o wire
  BY RecvLeft
<1>3. Left' = <<>> \o Rest \o wire
  BY DEF Left
<1>4. /\ Len(Left') = Len(Left) - Len(Grown)
      /\ \A i \in 1..Len(Left') : Left'[i] = Left[i + Len(Grown)]
  BY <1>1, <1>2, <1>3, DropFirst
<1>5. Len(Grown) \in 0..Len(Left)
  BY <1>1, <1>2, ThreeParts
<1> QED
  BY <1>4, <1>5, RestOfRun

LEMMA DropKernel ==
  ASSUME Inv, Inv', FramingInv, sent' = sent, conn' = conn,
         pkt' = <<>>, rxbuf' = <<>>, wire' = wire
  PROVE  FramingInv'
<1>1. pkt \in Seq(LineByte) /\ rxbuf \in Seq(LineByte) /\ wire \in Seq(LineByte)
  BY DEF Inv, TypeOK
<1>2. /\ pkt \o rxbuf \in Seq(LineByte)
      /\ <<>> \in Seq(LineByte)
      /\ Len(pkt \o rxbuf) = Len(pkt) + Len(rxbuf)
  BY <1>1, ConcatProperties, EmptySeq
<1>3. (pkt \o rxbuf) \o <<>> \o wire = Left
  <2>1. (pkt \o rxbuf) \o <<>> = pkt \o rxbuf
    BY <1>2, ConcatEmptySeq
  <2> QED
    BY <2>1 DEF Left
<1>4. Left' = <<>> \o <<>> \o wire
  BY DEF Left
<1>5. /\ Len(Left') = Len(Left) - Len(pkt \o rxbuf)
      /\ \A i \in 1..Len(Left') : Left'[i] = Left[i + Len(pkt \o rxbuf)]
  BY <1>1, <1>2, <1>3, <1>4, DropFirst
<1>6. Len(pkt \o rxbuf) \in 0..Len(Left)
  BY <1>1, <1>2, ThreeParts DEF Left
<1> QED
  BY <1>5, <1>6, RestOfRun

(***************************************************************************)
(* The descriptor has a new connection, or none.                           *)
(***************************************************************************)
LEMMA DropAll ==
  ASSUME pkt' = <<>>, rxbuf' = <<>>, wire' = <<>>
  PROVE  Left' = <<>> /\ FramingInv'
<1>1. Left' = <<>>
  BY EmptySeq, ConcatEmptySeq DEF Left
<1> QED
  BY <1>1, NoRun

LEMMA FramingInit == Init => FramingInv
<1> SUFFICES ASSUME Init PROVE FramingInv
  OBVIOUS
<1>1. Left = <<>>
  BY EmptySeq, ConcatEmptySeq DEF Init, Left
<1> QED
  BY <1>1, EmptySeq DEF FramingInv, OneRun, ReachesLast

(***************************************************************************)
(* A byte that arrives moves from the line to the kernel: Left keeps it.   *)
(***************************************************************************)
LEMMA ArriveLeft ==
  ASSUME Inv, Arrive
  PROVE  Left' = Left
<1>1. /\ pkt \in Seq(LineByte) /\ rxbuf \in Seq(LineByte) /\ wire \in Seq(LineByte)
      /\ wire # <<>>
  BY DEF Inv, TypeOK, Arrive
<1> DEFINE h == <<Head(wire)>>
           w == Tail(wire)
<1>0. h \in Seq(LineByte) /\ w \in Seq(LineByte)
  BY <1>1
<1>2. h \o w = wire /\ Append(rxbuf, Head(wire)) = rxbuf \o h
  <2>1. 1 \in 1..Len(wire) /\ Len(wire) \in 1..Len(wire) /\ Head(wire) \in LineByte
    BY <1>1
  <2>2. SubSeq(wire, 1, Len(wire)) = <<wire[1]>> \o SubSeq(wire, 1 + 1, Len(wire))
    BY <1>1, <2>1, SubSeqRecursiveFirst
  <2>3. SubSeq(wire, 1, Len(wire)) = wire /\ Tail(wire) = SubSeq(wire, 2, Len(wire))
    BY <1>1, SubSeqFull, TailIsSubSeq
  <2>4. Head(wire) = wire[1] /\ 1 + 1 = 2
    BY <1>1
  <2>5. Append(rxbuf, Head(wire)) = rxbuf \o <<Head(wire)>>
    BY <1>1, <2>1, AppendIsConcat
  <2> QED
    BY <2>2, <2>3, <2>4, <2>5
<1>3. Left' = pkt \o (rxbuf \o h) \o w
  BY SMTT(60) DEF Arrive, callVars, Left
<1> HIDE DEF h, w
<1>4. pkt \o (rxbuf \o h) \o w = pkt \o rxbuf \o (h \o w)
  <2> DEFINE S == LineByte
             q == pkt \o rxbuf
  <2>1. pkt \in Seq(S) /\ rxbuf \in Seq(S) /\ h \in Seq(S) /\ w \in Seq(S)
    BY <1>0, <1>1
  <2>2. q \in Seq(S)
    BY <2>1, ConcatProperties
  <2> HIDE DEF S
  <2>3. (pkt \o rxbuf) \o h = pkt \o (rxbuf \o h)
    BY <2>1, ConcatAssociative, SMTT(60)
  <2>4. q \o h = pkt \o (rxbuf \o h)
    BY <2>3
  <2> HIDE DEF q
  <2>5. (q \o h) \o w = q \o (h \o w)
    BY <2>1, <2>2, ConcatAssociative, SMTT(60)
  <2> QED
    BY <2>4, <2>5 DEF q
<1>5. Left' = Left
  BY <1>2, <1>3, <1>4 DEF Left
<1> QED
  BY <1>5

LEMMA FramingNext ==
  ASSUME ~Serial, Inv, Inv', FramingInv, [Next]_vars
  PROVE  FramingInv'
<1>1. CASE PeerSend
  BY <1>1, SendLeft
<1>2. CASE Arrive
  BY <1>2, ArriveLeft, SameRun DEF Arrive
<1>3. CASE LoseByte
  BY <1>3 DEF LoseByte
<1>4. CASE PeerClose
  <2>1. Left' = Left
    BY <1>4 DEF PeerClose, callVars, Left
  <2> QED
    BY <1>4, <2>1, SameRun DEF PeerClose
<1>5. CASE PeerReset
  <2>1. /\ pkt \in Seq(LineByte) /\ rxbuf \in Seq(LineByte) /\ wire \in Seq(LineByte)
        /\ Left \in Seq(LineByte)
    BY LeftType DEF Inv, TypeOK
  <2>2. sent' = sent /\ conn' # "up" /\ pkt' = pkt /\ wire' = <<>>
    BY <1>5 DEF PeerReset, callVars
  <2>3. CASE rxbuf' = <<>>
    <3>1. /\ Len(pkt) + 0 <= Len(Left)
          /\ \A i \in 1..Len(pkt) : pkt[i] = Left[i + 0]
      BY <2>1, ThreeParts DEF Left
    <3>2. OneRun(pkt)
      BY <2>1, <3>1, PartOfRun DEF FramingInv
    <3>3. Left' = pkt
      BY <2>1, <2>2, <2>3, ConcatEmptySeq DEF Left
    <3> QED
      BY <2>2, <3>2, <3>3 DEF FramingInv, OneRun
  <2>4. CASE rxbuf' = rxbuf
    <3> DEFINE q == pkt \o rxbuf
    <3>1. q \in Seq(LineByte) /\ q \o wire = Left
      BY <2>1, ConcatProperties DEF Left
    <3>2. Left' = q
      BY <2>2, <2>4, <3>1, ConcatEmptySeq DEF Left
    <3> HIDE DEF q
    <3>3. /\ Len(q) + 0 <= Len(Left)
          /\ \A i \in 1..Len(q) : q[i] = Left[i + 0]
      BY <2>1, <3>1, ConcatProperties
    <3>4. OneRun(q)
      BY <2>1, <3>1, <3>3, PartOfRun DEF FramingInv
    <3> QED
      BY <2>2, <3>2, <3>4 DEF FramingInv, OneRun
  <2> QED
    BY <1>5, <2>3, <2>4 DEF PeerReset
<1>6. CASE SetErrorRecovery
  <2>1. Left' = Left
    BY <1>6 DEF SetErrorRecovery, lineVars, callVars, Left
  <2> QED
    BY <1>6, <2>1, SameRun DEF SetErrorRecovery, lineVars
<1>7. CASE AppReconnect
  <2>1. pkt' = <<>> /\ rxbuf' = <<>> /\ wire' = <<>>
    BY <1>7 DEF AppReconnect, Reconnect, callVars, Inv, LoopInv
  <2> QED
    BY <2>1, DropAll
<1>8. CASE Receive
  BY <1>8, DropPkt DEF Receive, lineVars
<1>9. CASE RecvPartial
  <2>1. Left' = Left
    BY <1>9, RecvLeft DEF RecvPartial, Left
  <2> QED
    BY <1>9, <2>1, SameRun DEF RecvPartial
<1>10. CASE RecvTooLong
  BY <1>10, DropRead DEF RecvTooLong, HeaderDone, ReturnError, Forget
<1>11. CASE RecvHeader
  <2>1. Left' = Left
    BY <1>11, RecvLeft DEF RecvHeader, HeaderDone, Left
  <2> QED
    BY <1>11, <2>1, SameRun DEF RecvHeader
<1>12. CASE RecvPacket
  BY <1>12, DropRead DEF RecvPacket, PacketDone, Forget
<1>13. CASE RecvBadSum
  <2>1. CASE Protocol \in recovery
    BY <1>13, <2>1, DropKernel DEF RecvBadSum, ReturnError, Forget
  <2>2. CASE Protocol \notin recovery
    BY <1>13, <2>2, DropRead DEF RecvBadSum, PacketDone, ReturnError, Forget
  <2> QED
    BY <2>1, <2>2
<1>14. CASE SelectTimeout
  BY <1>14, DropPkt DEF SelectTimeout, lineVars, Forget
<1>15. CASE SleepOver
  BY <1>15, DropKernel DEF SleepOver, ReturnError, Forget
<1>16. CASE SelectBadF
  <2>1. CASE Link \in recovery
    BY <1>16, <2>1, DropAll DEF SelectBadF, Reconnect, ReturnError, Forget
  <2>2. CASE Link \notin recovery
    BY <1>16, <2>2, DropPkt DEF SelectBadF, lineVars, ReturnError, Forget
  <2> QED
    BY <2>1, <2>2
<1>17. CASE RecvReset
  <2>1. CASE Link \in recovery
    BY <1>17, <2>1, DropAll DEF RecvReset, Reconnect, ReturnError, Forget
  <2>2. CASE Link \notin recovery
    BY <1>17, <2>2, DropPkt DEF RecvReset, lineVars, ReturnError, Forget
  <2> QED
    BY <2>1, <2>2
<1>18. CASE UNCHANGED vars
  <2>1. Left' = Left /\ sent' = sent /\ conn' = conn
    BY <1>18 DEF vars, lineVars, callVars, Left
  <2> QED
    BY <2>1, SameRun
<1> QED
  BY <1>1, <1>2, <1>3, <1>4, <1>5, <1>6, <1>7, <1>8, <1>9, <1>10, <1>11,
     <1>12, <1>13, <1>14, <1>15, <1>16, <1>17, <1>18
  DEF Next, Line, Application, Engine

-----------------------------------------------------------------------------
(* What a run that begins at a frame's first byte is.                      *)

LEMMA FrameOfRun ==
  ASSUME TypeOK, NEW s \in Seq(LineByte), OneRun(s), s # <<>>, s[1].pos = 1
  PROVE  /\ sent[s[1].frame] \in Frames
         /\ FrameLen(s) \in Nat
         /\ \A j \in 1..Len(s) :
              j <= FrameLen(s) => s[j].frame = s[1].frame /\ s[j].pos = j
<1>1. 1 \in 1..Len(s) /\ s[1] \in LineByte
  OBVIOUS
<1>2. sent[s[1].frame] \in Frames
  BY <1>1 DEF TypeOK, LineByte
<1>3. sent[s[1].frame] \in Seq(Byte)
  BY <1>2, FramesAssumption
<1>4. ASSUME NEW j \in 1..Len(s), j <= FrameLen(s)
      PROVE  s[j].frame = s[1].frame /\ s[j].pos = j
  <2>1. /\ s[1].frame = s[j].frame => s[j].pos = s[1].pos + (j - 1)
        /\ s[1].pos + (j - 1) <= Len(sent[s[1].frame]) => s[j].frame = s[1].frame
    BY <1>1 DEF OneRun
  <2>2. 1 + (j - 1) = j
    OBVIOUS
  <2> QED
    BY <1>4, <2>1, <2>2 DEF FrameLen
<1> QED
  BY <1>2, <1>3, <1>4 DEF FrameLen

LEMMA Announced ==
  ASSUME TypeOK, NEW s \in Seq(LineByte), OneRun(s), s[1].pos = 1,
         HeaderLen <= Len(s)
  PROVE  HeaderLen + compute_data_length_after_hd(s) = FrameLen(s)
<1>1. s # <<>> /\ HeaderLen \in 1..Len(s)
  OBVIOUS
<1> DEFINE f == sent[s[1].frame]
<1>2. /\ f \in Frames
      /\ HeaderLen <= FrameLen(s) =>
           s[HeaderLen].frame = s[1].frame /\ s[HeaderLen].pos = HeaderLen
  BY <1>1, FrameOfRun
<1>3. /\ FrameLen(s) >= HeaderLen
      /\ FrameLen(s) = HeaderLen + f[HeaderLen] + ChecksumLen
      /\ f \in Seq(Byte)
  BY <1>2, FramesAssumption DEF FrameLen
<1>4. f[HeaderLen] \in Nat
  <2>1. HeaderLen \in 1..Len(f) /\ f \in Seq(Byte)
    BY <1>3 DEF FrameLen
  <2>2. ASSUME NEW g \in Seq(Byte), NEW i \in 1..Len(g)
        PROVE  g[i] \in Byte
    OBVIOUS
  <2> HIDE DEF f
  <2>3. f[HeaderLen] \in Byte
    BY <2>1, <2>2
  <2> QED
    BY <2>3, ByteAssumption
<1>5. Value(s[HeaderLen]) = f[HeaderLen]
  BY <1>2, <1>3 DEF Value
<1> QED
  BY <1>3, <1>4, <1>5 DEF compute_data_length_after_hd

LEMMA PktIsRun ==
  ASSUME Inv, FramingInv
  PROVE  OneRun(pkt)
<1>1. /\ pkt \in Seq(LineByte) /\ rxbuf \in Seq(LineByte) /\ wire \in Seq(LineByte)
      /\ Left \in Seq(LineByte)
  BY LeftType DEF Inv, TypeOK
<1>2. /\ Len(pkt) + 0 <= Len(Left)
      /\ \A i \in 1..Len(pkt) : pkt[i] = Left[i + 0]
  BY <1>1, ThreeParts DEF Left
<1> QED
  BY <1>1, <1>2, PartOfRun DEF FramingInv

LEMMA GrownIsRun ==
  ASSUME Inv, FramingInv, Readable
  PROVE  OneRun(Grown)
<1>1. /\ Grown \in Seq(LineByte) /\ Rest \in Seq(LineByte) /\ wire \in Seq(LineByte)
      /\ Left \in Seq(LineByte)
  BY LeftType, RecvBytes DEF Inv, TypeOK
<1>2. /\ Len(Grown) + 0 <= Len(Left)
      /\ \A i \in 1..Len(Grown) : Grown[i] = Left[i + 0]
  <2>1. /\ Len(Grown \o Rest \o wire) = Len(Grown) + Len(Rest) + Len(wire)
        /\ \A i \in 1..Len(Grown) : (Grown \o Rest \o wire)[i] = Grown[i]
    BY <1>1, ThreeParts
  <2>2. Left = Grown \o Rest \o wire
    BY RecvLeft
  <2>3. /\ Len(Left) = Len(Grown) + Len(Rest) + Len(wire)
        /\ \A i \in 1..Len(Grown) : Left[i] = Grown[i]
    BY <2>1, <2>2
  <2> QED
    BY <1>1, <2>3
<1> QED
  BY <1>1, <1>2, PartOfRun DEF FramingInv

LEMMA ReadExact ==
  ASSUME Inv, FramingInv, pkt # <<>>, pkt[1].pos = 1
  PROVE  InOneFrame(pkt) /\ Len(pkt) < FrameLen(pkt)
<1>1. pkt \in Seq(LineByte) /\ OneRun(pkt)
  BY PktIsRun DEF Inv, TypeOK
<1>2. /\ sent[pkt[1].frame] \in Frames
      /\ FrameLen(pkt) \in Nat
      /\ \A j \in 1..Len(pkt) :
           j <= FrameLen(pkt) => pkt[j].frame = pkt[1].frame /\ pkt[j].pos = j
  BY <1>1, FrameOfRun DEF Inv
<1>3. Len(pkt) < FrameLen(pkt)
  <2>1. CASE step = "HD"
    <3>1. Len(pkt) < HeaderLen
      BY <2>1 DEF Inv, TypeOK, LoopInv
    <3>2. HeaderLen <= FrameLen(pkt)
      BY <1>2, FramesAssumption DEF FrameLen
    <3> QED
      BY <1>1, <1>2, <3>1, <3>2
  <2>2. CASE step = "DATA"
    <3>1. /\ Len(pkt) >= HeaderLen
          /\ length_to_read \in Nat \ {0}
          /\ Len(pkt) + length_to_read
               = HeaderLen + compute_data_length_after_hd(pkt)
      BY <2>2 DEF Inv, TypeOK, LoopInv
    <3>2. HeaderLen + compute_data_length_after_hd(pkt) = FrameLen(pkt)
      BY <1>1, <3>1, Announced DEF Inv
    <3> QED
      BY <1>1, <3>1, <3>2
  <2> QED
    BY <2>1, <2>2 DEF Inv, TypeOK
<1>4. InOneFrame(pkt)
  BY <1>1, <1>2, <1>3 DEF InOneFrame
<1> QED
  BY <1>3, <1>4

LEMMA PacketExact ==
  ASSUME Inv, FramingInv, PacketDone, Grown[1].pos = 1
  PROVE  /\ Grown # <<>> /\ InOneFrame(Grown) /\ Len(Grown) = FrameLen(Grown)
         /\ sent[Grown[1].frame] \in Frames
<1>1. /\ Grown \in Seq(LineByte) /\ OneRun(Grown)
      /\ Len(Grown) = Len(pkt) + Count /\ Count \in Nat \ {0}
      /\ \A i \in 1..Len(pkt) : Grown[i] = pkt[i]
      /\ Count = length_to_read
  BY RecvBytes, GrownIsRun DEF Inv, PacketDone
<1>2. pkt \in Seq(LineByte) /\ Len(pkt) \in Nat /\ OneRun(pkt) /\ Grown # <<>>
  BY <1>1, PktIsRun DEF Inv, TypeOK
<1>3. /\ sent[Grown[1].frame] \in Frames
      /\ \A j \in 1..Len(Grown) :
           j <= FrameLen(Grown) =>
             Grown[j].frame = Grown[1].frame /\ Grown[j].pos = j
  BY <1>1, <1>2, FrameOfRun DEF Inv
<1>4. Len(Grown) = FrameLen(Grown)
  <2>1. CASE step = "HD"
    <3>1. Len(Grown) = HeaderLen /\ compute_data_length_after_hd(Grown) = 0
      BY <1>1, <1>2, <2>1 DEF PacketDone, Readable, Inv, LoopInv
    <3> QED
      BY <1>1, <3>1, Announced DEF Inv
  <2>2. CASE step = "DATA"
    <3>1. /\ Len(pkt) >= HeaderLen
          /\ Len(Grown) = HeaderLen + compute_data_length_after_hd(pkt)
      BY <1>1, <2>2 DEF PacketDone, Readable, Inv, LoopInv
    <3>2. Grown[1] = pkt[1]
      BY <1>1, <1>2, <3>1
    <3>3. FrameLen(pkt) = FrameLen(Grown)
      BY <3>2 DEF FrameLen
    <3>4. HeaderLen + compute_data_length_after_hd(pkt) = FrameLen(pkt)
      BY <1>2, <3>1, <3>2, Announced DEF Inv
    <3> QED
      BY <3>1, <3>3, <3>4
  <2> QED
    BY <2>1, <2>2 DEF PacketDone
<1>5. InOneFrame(Grown)
  BY <1>1, <1>3, <1>4 DEF InOneFrame
<1> QED
  BY <1>2, <1>3, <1>4, <1>5

-----------------------------------------------------------------------------
(* A call that begins at a frame's first byte returns that frame.          *)

GotExact == got # <<>> /\ got[1].pos = 1 => InOneFrame(got) /\ Len(got) = FrameLen(got)

LEMMA GotExactNext ==
  ASSUME Inv, FramingInv, GotExact, [Next]_vars
  PROVE  GotExact'
<1>1. CASE RecvPacket
  <2>1. got' = Grown /\ sent' = sent /\ PacketDone
    BY <1>1 DEF RecvPacket
  <2> QED
    BY <2>1, PacketExact DEF GotExact, InOneFrame, FrameLen
<1>2. CASE PeerSend
  <2>1. PICK f \in Frames : sent' = Append(sent, f)
    BY <1>2 DEF PeerSend
  <2>2. got' = got
    BY <1>2 DEF PeerSend
  <2>3. ASSUME got # <<>> PROVE FrameLen(got)' = FrameLen(got)
    <3>1. got[1] \in LineByte
      BY <2>3 DEF Inv, TypeOK
    <3> QED
      BY <2>1, <2>2, <3>1, SendKeepsBytes DEF Inv, FrameLen
  <2> QED
    BY <2>2, <2>3 DEF GotExact, InOneFrame
<1>3. CASE got' = got /\ sent' = sent
  BY <1>3 DEF GotExact, InOneFrame, FrameLen
<1>4. [Next]_vars /\ ~RecvPacket /\ ~PeerSend => got' = got /\ sent' = sent
  BY DEF Next, Line, Application, Engine, Arrive, LoseByte, PeerClose, PeerReset,
     SetErrorRecovery, AppReconnect, Receive, RecvPartial, RecvTooLong,
     RecvHeader, RecvBadSum, SelectTimeout, SleepOver, SelectBadF, RecvReset,
     ReturnError, Reconnect, Forget, vars, lineVars, callVars
<1> QED
  BY <1>1, <1>2, <1>3, <1>4

(***************************************************************************)
(* Framing is exact: for every backend and every peer, however the bytes   *)
(* arrive and wherever calls were cut short, a call that begins at a       *)
(* frame's first byte reads nothing beyond it and returns it whole.        *)
(***************************************************************************)
THEOREM FramingExact ==
  ASSUME ~Serial
  PROVE  Spec => []FrameExact
<1>1. Init => FramingInv /\ GotExact
  BY FramingInit DEF Init, GotExact
<1>2. Inv /\ Inv' /\ FramingInv /\ GotExact /\ [Next]_vars => FramingInv' /\ GotExact'
  BY FramingNext, GotExactNext
<1>3. Inv /\ FramingInv /\ GotExact => FrameExact
  BY ReadExact DEF GotExact, FrameExact
<1> QED
  BY <1>1, <1>2, <1>3, Invariance, PTL DEF Spec

=============================================================================
