---------------------- MODULE TtaReceiveAligned_proofs ----------------------
(***************************************************************************)
(* Alignment, proved: with link recovery, on a stream whose frames fit the *)
(* buffer and are all in by the end of a recovery sleep, every call begins *)
(* at a frame's first byte, and the engine is a channel of whole frames.   *)
(*                                                                         *)
(* That calls begin well is not inductive: what has to be kept is that     *)
(* Left, the bytes read and those to come, begins with a frame's first     *)
(* byte, except during the recovery sleep, which is where the rest of a    *)
(* frame cut short waits to be thrown away.                                *)
(***************************************************************************)
EXTENDS TtaReceive_proofs

USE LengthAssumption DEF Link, Protocol

\* The conditions under which the recovery modes do what they are for.
Recoverable ==
  /\ ~Serial /\ Prompt
  /\ \A m \in RecoveryModes : Link \in m
  /\ \A f \in Frames : Len(f) <= MaxAdu /\ CheckIntegrity(f)

StartInv ==
  /\ recovery \in RecoveryModes
  /\ pc # "sleep" /\ Left # <<>> => Left[1].pos = 1
  /\ got # <<>> => got[1].pos = 1

(***************************************************************************)
(* While the loop runs, what has been read begins with a frame's first     *)
(* byte, because it is the beginning of Left.                              *)
(***************************************************************************)
LEMMA GrownStart ==
  ASSUME Inv, FramingInv, StartInv, Readable
  PROVE  Grown # <<>> /\ Grown[1].pos = 1
<1>1. /\ Grown \in Seq(LineByte) /\ Rest \in Seq(LineByte) /\ wire \in Seq(LineByte)
      /\ Left \in Seq(LineByte)
  BY LeftType, RecvBytes DEF Inv, TypeOK
<1>2. 1 \in 1..Len(Grown) /\ Grown # <<>>
  <2>1. Len(Grown) = Len(pkt) + Count /\ Count \in Nat \ {0} /\ Len(pkt) \in Nat
    BY RecvBytes DEF Inv, TypeOK
  <2> QED
    BY <1>1, <2>1
<1>3. /\ Len(Left) = Len(Grown) + Len(Rest) + Len(wire)
      /\ \A i \in 1..Len(Grown) : Left[i] = Grown[i]
  <2>1. Left = Grown \o Rest \o wire
    BY RecvLeft
  <2>2. /\ Len(Grown \o Rest \o wire) = Len(Grown) + Len(Rest) + Len(wire)
        /\ \A i \in 1..Len(Grown) : (Grown \o Rest \o wire)[i] = Grown[i]
    BY <1>1, ThreeParts
  <2> QED
    BY <2>1, <2>2
<1>4. Left # <<>> /\ Left[1] = Grown[1]
  BY <1>1, <1>2, <1>3
<1>5. Left[1].pos = 1
  BY <1>4 DEF StartInv, Readable
<1> QED
  BY <1>2, <1>4, <1>5

(***************************************************************************)
(* No header announces too much, and no packet fails its check.            *)
(***************************************************************************)
LEMMA NeverTooLong ==
  ASSUME Recoverable, Inv, FramingInv, StartInv, HeaderDone
  PROVE  ~TooLong
<1>1. /\ Grown \in Seq(LineByte) /\ OneRun(Grown)
      /\ Len(Grown) = HeaderLen
  BY RecvBytes, GrownIsRun DEF HeaderDone, Readable, Inv, LoopInv, TypeOK
<1>2. Grown # <<>> /\ Grown[1].pos = 1
  BY GrownStart DEF HeaderDone
<1>3. HeaderLen + compute_data_length_after_hd(Grown) = FrameLen(Grown)
  BY <1>1, <1>2, Announced DEF Inv
<1>4. sent[Grown[1].frame] \in Frames /\ FrameLen(Grown) \in Nat
  BY <1>1, <1>2, FrameOfRun DEF Inv
<1>5. FrameLen(Grown) <= MaxAdu
  BY <1>4 DEF Recoverable, FrameLen
<1>6. Len(Grown) + compute_data_length_after_hd(Grown) = FrameLen(Grown)
  BY <1>1, <1>3
<1> QED
  BY <1>4, <1>5, <1>6 DEF TooLong

LEMMA NeverBadSum ==
  ASSUME Recoverable, Inv, FramingInv, StartInv, PacketDone
  PROVE  CheckIntegrity(Values(Grown))
<1>1. Grown[1].pos = 1
  BY GrownStart DEF PacketDone
<1> DEFINE f == sent[Grown[1].frame]
<1>2. InOneFrame(Grown) /\ Len(Grown) = Len(f) /\ f \in Frames
  BY <1>1, PacketExact DEF FrameLen
<1>3. f \in Seq(Byte)
  BY <1>2, FramesAssumption
<1>4. \A i \in 1..Len(Grown) : Value(Grown[i]) = f[i]
  BY <1>2 DEF InOneFrame, Value
<1> HIDE DEF f
<1>5. Values(Grown) = [i \in 1..Len(f) |-> f[i]]
  BY <1>2, <1>4 DEF Values
<1>6. [i \in 1..Len(f) |-> f[i]] = f
  BY <1>3
<1>7. Values(Grown) = f
  BY <1>5, <1>6
<1> QED
  BY <1>2, <1>7 DEF Recoverable

(***************************************************************************)
(* What follows a whole frame begins with the next frame's first byte.     *)
(***************************************************************************)
LEMMA NextStart ==
  ASSUME Inv, FramingInv, PacketDone, Grown[1].pos = 1, Rest \o wire # <<>>
  PROVE  /\ (Rest \o wire)[1].pos = 1
         /\ (Rest \o wire)[1].frame = Grown[1].frame + 1
<1>1. /\ Grown \in Seq(LineByte) /\ Rest \in Seq(LineByte) /\ wire \in Seq(LineByte)
      /\ Left \in Seq(LineByte)
  BY LeftType, RecvBytes DEF Inv, TypeOK, PacketDone
<1>2. Grown # <<>> /\ InOneFrame(Grown) /\ Len(Grown) = FrameLen(Grown)
  BY PacketExact
<1> DEFINE n == Len(Grown)
           w == Rest \o wire
<1>3. n \in 1..Len(Grown) /\ n \in Nat
  BY <1>1, <1>2
<1>4. w \in Seq(LineByte) /\ Left = Grown \o w
  <2>1. Left = Grown \o Rest \o wire
    BY RecvLeft DEF PacketDone
  <2>2. (Grown \o Rest) \o wire = Grown \o (Rest \o wire)
    BY <1>1, ConcatAssociative, SMTT(60)
  <2> QED
    BY <1>1, <2>1, <2>2, ConcatProperties
<1>5. 1 \in 1..Len(w) /\ w # <<>>
  BY <1>4
<1> HIDE DEF w
<1>6. /\ Len(Left) = n + Len(w)
      /\ \A i \in 1..n + Len(w) :
           (Grown \o w)[i] = IF i <= n THEN Grown[i] ELSE w[i - n]
  BY <1>1, <1>4, ConcatProperties
<1>7. /\ n \in 1..Len(Left) /\ n + 1 \in 1..Len(Left) /\ n < Len(Left)
      /\ Left[n] = Grown[n] /\ Left[n + 1] = w[1]
  <2>1. n + 1 \in 1..n + Len(w) /\ ~(n + 1 <= n) /\ (n + 1) - n = 1 /\ Len(w) \in Nat
    BY <1>3, <1>4, <1>5
  <2>2. (Grown \o w)[n + 1] = w[(n + 1) - n]
    BY <1>6, <2>1
  <2>3. (Grown \o w)[n] = Grown[n]
    BY <1>3, <1>6, <2>1
  <2> QED
    BY <1>3, <1>4, <1>6, <2>1, <2>2, <2>3
<1>8. /\ Grown[n].pos = n /\ Grown[n].frame = Grown[1].frame
      /\ n = Len(sent[Grown[n].frame])
  BY <1>2, <1>3 DEF InOneFrame, FrameLen
<1>9. Left[n + 1] \in LineByte
  BY <1>1, <1>7
<1>10. Left[n + 1].frame # Left[n].frame
  <2>1. ASSUME Left[n + 1].frame = Left[n].frame PROVE FALSE
    <3>1. n <= n + 1 /\ (n + 1) - n = 1
      BY <1>3
    <3>2. Left[n + 1].pos = Left[n].pos + ((n + 1) - n)
      BY <1>7, <2>1, <3>1 DEF FramingInv, OneRun
    <3>3. Left[n + 1].pos = n + 1
      BY <1>7, <1>8, <3>1, <3>2
    <3>4. Left[n + 1].pos \in 1..Len(sent[Left[n + 1].frame])
      BY <1>9 DEF LineByte
    <3>5. Len(sent[Left[n + 1].frame]) = n
      BY <1>7, <1>8, <2>1
    <3>6. n + 1 \in 1..n
      BY <3>3, <3>4, <3>5
    <3> QED
      BY <1>3, <3>6
  <2> QED
    BY <2>1
<1>11. Left[n + 1].pos = 1 /\ Left[n + 1].frame = Left[n].frame + 1
  BY <1>7, <1>10 DEF FramingInv, OneRun
<1> QED
  BY <1>7, <1>8, <1>11 DEF w

(***************************************************************************)
(* Every step keeps the beginning of Left at a frame's first byte.         *)
(***************************************************************************)
LEMMA SendAdds ==
  ASSUME TypeOK, PeerSend
  PROVE  \E f \in Frames :
           /\ sent' = Append(sent, f)
           /\ Left' = Left \o Stamp(f, Len(sent'))
           /\ Stamp(f, Len(sent')) \in Seq(LineByte') /\ Left \in Seq(LineByte')
<1>1. PICK f \in Frames : sent' = Append(sent, f)
                          /\ wire' = wire \o Stamp(f, Len(sent'))
  BY DEF PeerSend
<1>2. pkt' = pkt /\ rxbuf' = rxbuf
  BY DEF PeerSend, callVars
<1>3. /\ pkt \in Seq(LineByte') /\ rxbuf \in Seq(LineByte')
      /\ wire \in Seq(LineByte') /\ Stamp(f, Len(sent')) \in Seq(LineByte')
  BY <1>1, SendKeepsBytes DEF TypeOK
<1> DEFINE t == Stamp(f, Len(sent'))
           q == pkt \o rxbuf
           S == LineByte'
<1>4. /\ q \in Seq(S) /\ wire \in Seq(S) /\ t \in Seq(S)
      /\ Left \in Seq(LineByte')
  BY <1>3, ConcatProperties DEF Left
<1>5. Left' = q \o (wire \o t) /\ Left = q \o wire
  BY <1>1, <1>2 DEF Left
<1>6. (q \o wire) \o t = q \o (wire \o t)
  <2> HIDE DEF q, t, S
  <2> QED
    BY <1>4, ConcatAssociative, SMTT(60)
<1> QED
  BY <1>1, <1>3, <1>4, <1>5, <1>6

LEMMA SendStart ==
  ASSUME Inv, Inv', StartInv, PeerSend
  PROVE  StartInv'
<1>1. PICK f \in Frames :
        /\ sent' = Append(sent, f)
        /\ Left' = Left \o Stamp(f, Len(sent'))
        /\ Stamp(f, Len(sent')) \in Seq(LineByte') /\ Left \in Seq(LineByte')
  BY SendAdds DEF Inv
<1>2. got' = got /\ pc' = pc /\ recovery' = recovery
  BY DEF PeerSend, callVars
<1> DEFINE t == Stamp(f, Len(sent'))
<1>4. Left \in Seq(LineByte') /\ t \in Seq(LineByte')
  BY <1>1
<1>5. Left' = Left \o t
  BY <1>1
<1>6. t # <<>> /\ t[1].pos = 1
  <2>1. f \in Seq(Byte) /\ Len(f) \in Nat /\ Len(f) >= HeaderLen
    BY FramesAssumption
  <2>2. 1 \in 1..Len(f)
    BY <2>1
  <2>3. t = [i \in 1..Len(f) |-> [frame |-> Len(sent'), pos |-> i]]
    BY DEF Stamp
  <2>4. t[1].pos = 1
    BY <2>2, <2>3
  <2>5. Len(t) = Len(f)
    BY <2>1, <2>3, LenProperties
  <2> QED
    BY <2>2, <2>4, <2>5, <1>4
<1> HIDE DEF t
<1>7. ASSUME pc # "sleep" PROVE Left'[1].pos = 1
  <2>1. CASE Left = <<>>
    <3>1. Left' = t
      BY <1>4, <1>5, <2>1, ConcatEmptySeq
    <3> QED
      BY <1>6, <3>1
  <2>2. CASE Left # <<>>
    <3>1. 1 \in 1..Len(Left) /\ Len(t) \in Nat
      BY <1>4, <2>2
    <3>2. \A i \in 1..Len(Left) + Len(t) :
            (Left \o t)[i] = IF i <= Len(Left) THEN Left[i] ELSE t[i - Len(Left)]
      BY <1>4, ConcatProperties
    <3>3. 1 \in 1..Len(Left) + Len(t) /\ 1 <= Len(Left)
      BY <1>4, <3>1
    <3>4. Left'[1] = Left[1]
      BY <1>5, <3>2, <3>3
    <3> QED
      BY <1>7, <2>2, <3>4 DEF StartInv
  <2> QED
    BY <2>1, <2>2
<1> QED
  BY <1>2, <1>7 DEF StartInv

\* What an action leaves of Left, when that is its beginning.
LEMMA PrefixStart ==
  ASSUME StartInv, NEW S, NEW p \in Seq(S), NEW w \in Seq(S), Left = p \o w,
         Left' = p, pc' = pc, recovery' = recovery, got' = got
  PROVE  StartInv'
<1>1. ASSUME p # <<>> PROVE Left # <<>> /\ Left[1] = p[1]
  <2>1. 1 \in 1..Len(p) /\ Len(w) \in Nat
    BY <1>1
  <2>2. /\ Len(p \o w) = Len(p) + Len(w)
        /\ \A i \in 1..Len(p) + Len(w) :
             (p \o w)[i] = IF i <= Len(p) THEN p[i] ELSE w[i - Len(p)]
        /\ p \o w \in Seq(S)
    BY ConcatProperties
  <2>3. 1 \in 1..Len(p) + Len(w) /\ 1 <= Len(p)
    BY <2>1
  <2> QED
    BY <2>2, <2>3
<1> QED
  BY <1>1 DEF StartInv

LEMMA StartNext ==
  ASSUME Recoverable, Inv, Inv', FramingInv, StartInv, [Next]_vars
  PROVE  StartInv'
<1>1. CASE PeerSend
  BY <1>1, SendStart
<1>2. CASE Arrive
  <2>1. Left' = Left
    BY <1>2, ArriveLeft
  <2> QED
    BY <1>2, <2>1 DEF Arrive, callVars, StartInv
<1>3. CASE LoseByte
  BY <1>3 DEF LoseByte, Recoverable
<1>4. CASE PeerClose
  BY <1>4 DEF PeerClose, callVars, StartInv, Left
<1>5. CASE PeerReset
  <2>1. /\ pkt \in Seq(LineByte) /\ rxbuf \in Seq(LineByte) /\ wire \in Seq(LineByte)
        /\ pkt' = pkt /\ wire' = <<>> /\ pc' = pc /\ recovery' = recovery
        /\ got' = got
    BY <1>5 DEF PeerReset, callVars, Inv, TypeOK
  <2>2. CASE rxbuf' = <<>>
    <3>1. Left' = pkt
      BY <2>1, <2>2, ConcatEmptySeq DEF Left
    <3>2. rxbuf \o wire \in Seq(LineByte) /\ Left = pkt \o (rxbuf \o wire)
      BY <2>1, ConcatProperties, ConcatAssociative DEF Left
    <3> QED
      BY <2>1, <3>1, <3>2, PrefixStart
  <2>3. CASE rxbuf' = rxbuf
    <3>1. pkt \o rxbuf \in Seq(LineByte) /\ Left = (pkt \o rxbuf) \o wire
      BY <2>1, ConcatProperties DEF Left
    <3>2. Left' = pkt \o rxbuf
      BY <2>1, <2>3, <3>1, ConcatEmptySeq DEF Left
    <3> QED
      BY <2>1, <3>1, <3>2, PrefixStart
  <2> QED
    BY <1>5, <2>2, <2>3 DEF PeerReset
<1>6. CASE SetErrorRecovery
  BY <1>6 DEF SetErrorRecovery, lineVars, callVars, StartInv, Left
<1>7. CASE AppReconnect
  <2>1. pkt' = <<>> /\ rxbuf' = <<>> /\ wire' = <<>>
    BY <1>7 DEF AppReconnect, Reconnect, callVars, Inv, LoopInv
  <2> QED
    BY <1>7, <2>1, DropAll DEF AppReconnect, StartInv
<1>8. CASE Receive
  BY <1>8 DEF Receive, lineVars, StartInv, Left, Inv, LoopInv
<1>9. CASE RecvPartial
  <2>1. Left' = Left
    BY <1>9, RecvLeft DEF RecvPartial, Left
  <2> QED
    BY <1>9, <2>1 DEF RecvPartial, StartInv
<1>10. CASE RecvTooLong
  BY <1>10, NeverTooLong DEF RecvTooLong
<1>11. CASE RecvHeader
  <2>1. Left' = Left
    BY <1>11, RecvLeft DEF RecvHeader, HeaderDone, Left
  <2> QED
    BY <1>11, <2>1 DEF RecvHeader, StartInv
<1>12. CASE RecvPacket
  <2>1. PacketDone /\ Readable /\ got' = Grown /\ recovery' = recovery
        /\ pkt' = <<>> /\ rxbuf' = Rest /\ wire' = wire
    BY <1>12 DEF RecvPacket, PacketDone, Forget
  <2>2. Grown[1].pos = 1
    BY <2>1, GrownStart
  <2>3. Left' = Rest \o wire
    <3>1. Rest \in Seq(LineByte)
      BY <2>1, RecvBytes DEF Inv
    <3>2. <<>> \o Rest = Rest
      BY <3>1, ConcatEmptySeq
    <3> QED
      BY <2>1, <3>2 DEF Left
  <2>4. Left' # <<>> => Left'[1].pos = 1
    BY <2>1, <2>2, <2>3, NextStart
  <2> QED
    BY <2>1, <2>2, <2>4 DEF StartInv
<1>13. CASE RecvBadSum
  BY <1>13, NeverBadSum DEF RecvBadSum
<1>14. CASE SelectTimeout
  BY <1>14 DEF SelectTimeout, Recoverable, StartInv
<1>15. CASE SleepOver
  <2>1. pkt' = <<>> /\ rxbuf' = <<>> /\ wire' = <<>>
    BY <1>15 DEF SleepOver, ReturnError, Forget, Recoverable
  <2> QED
    BY <1>15, <2>1, DropAll DEF SleepOver, ReturnError, StartInv
<1>16. CASE SelectBadF \/ RecvReset
  <2>1. pkt' = <<>> /\ rxbuf' = <<>> /\ wire' = <<>> /\ got' = got
        /\ recovery' = recovery
    BY <1>16
    DEF SelectBadF, RecvReset, Reconnect, ReturnError, Forget, Recoverable, StartInv
  <2> QED
    BY <2>1, DropAll DEF StartInv
<1>17. CASE UNCHANGED vars
  BY <1>17 DEF vars, lineVars, callVars, StartInv, Left
<1> QED
  BY <1>1, <1>2, <1>3, <1>4, <1>5, <1>6, <1>7, <1>8, <1>9, <1>10, <1>11,
     <1>12, <1>13, <1>14, <1>15, <1>16, <1>17
  DEF Next, Line, Application, Engine

-----------------------------------------------------------------------------

LEMMA AlwaysStarts ==
  ASSUME Recoverable
  PROVE  Spec => [](Inv /\ FramingInv /\ StartInv)
<1>1. Init => FramingInv /\ StartInv
  <2> SUFFICES ASSUME Init PROVE FramingInv /\ StartInv
    OBVIOUS
  <2>1. Left = <<>>
    BY EmptySeq, ConcatEmptySeq DEF Init, Left
  <2> QED
    BY <2>1, FramingInit DEF Init, StartInv
<1>2. Inv /\ Inv' /\ FramingInv /\ StartInv /\ [Next]_vars
        => FramingInv' /\ StartInv'
  BY FramingNext, StartNext DEF Recoverable
<1> QED
  BY <1>1, <1>2, Invariance, PTL DEF Spec

(***************************************************************************)
(* With link recovery no timeout, refusal or reconnection leaves the rest  *)
(* of a frame where the next call takes it for a header: every call begins *)
(* at a frame's first byte, and so does everything a call returns.  The    *)
(* conditions are those of Recoverable; without the one on the frames'     *)
(* lengths the run TtaReceiveOversize refutes it.                          *)
(***************************************************************************)
THEOREM EveryCallAligned ==
  ASSUME Recoverable
  PROVE  Spec => []AlignedStart
<1>1. Inv /\ FramingInv /\ StartInv => AlignedStart
  <2> SUFFICES ASSUME Inv, StartInv, pkt # <<>> PROVE pkt[1].pos = 1
    BY DEF AlignedStart, StartInv
  <2>1. pkt \in Seq(LineByte) /\ rxbuf \in Seq(LineByte) /\ wire \in Seq(LineByte)
        /\ Left \in Seq(LineByte)
    BY LeftType DEF Inv, TypeOK
  <2>2. /\ Len(Left) = Len(pkt) + Len(rxbuf) + Len(wire)
        /\ \A i \in 1..Len(pkt) : Left[i] = pkt[i]
    BY <2>1, ThreeParts DEF Left
  <2>3. 1 \in 1..Len(pkt) /\ Len(rxbuf) \in Nat /\ Len(wire) \in Nat
    BY <2>1
  <2>4. Left # <<>> /\ Left[1] = pkt[1]
    BY <2>1, <2>2, <2>3
  <2>5. pc # "sleep"
    BY DEF Inv, LoopInv
  <2> QED
    BY <2>4, <2>5 DEF StartInv
<1> QED
  BY <1>1, AlwaysStarts, PTL

(***************************************************************************)
(* Then what a call returns is one whole frame, and what it has read when  *)
(* it has not returned yet is the beginning of one.                        *)
(***************************************************************************)
COROLLARY WholeFrames ==
  ASSUME Recoverable
  PROVE  Spec => [](/\ InOneFrame(got) /\ InOneFrame(pkt)
                    /\ got # <<>> => Len(got) = FrameLen(got)
                    /\ pkt # <<>> => Len(pkt) < FrameLen(pkt))
<1>1. TypeOK /\ AlignedStart /\ FrameExact =>
        /\ InOneFrame(got) /\ InOneFrame(pkt)
        /\ got # <<>> => Len(got) = FrameLen(got)
        /\ pkt # <<>> => Len(pkt) < FrameLen(pkt)
  BY EmptySeq DEF TypeOK, AlignedStart, FrameExact, InOneFrame
<1>2. ~Serial
  BY DEF Recoverable
<1> QED
  BY <1>1, <1>2, TypeCorrect, EveryCallAligned, FramingExact, PTL

-----------------------------------------------------------------------------
(* The channel of frames.                                                  *)

\* The frames from a to b, and those with a byte in the run s.
Row(a, b) == [i \in 1..(b - a + 1) |-> a + i - 1]
Touched(s) == IF s = <<>> THEN <<>> ELSE Row(s[1].frame, s[Len(s)].frame)

LEMMA PendingTouched == Pending = Touched(Left) /\ Pending' = Touched(Left')
  BY DEF Pending, Touched, Row

LEMMA RowIsSeq ==
  ASSUME NEW a \in Nat, NEW b \in Nat, a <= b
  PROVE  /\ Row(a, b) \in Seq(Nat) /\ Row(a, b) # <<>>
         /\ Len(Row(a, b)) = b - a + 1
         /\ \A i \in 1..(b - a + 1) : Row(a, b)[i] = a + i - 1
<1>1. b - a + 1 \in Nat \ {0} /\ \A i \in 1..(b - a + 1) : a + i - 1 \in Nat
  OBVIOUS
<1> QED
  BY <1>1, FunctionIsSeq, EmptySeq DEF Row

LEMMA RowLen ==
  ASSUME NEW a \in Nat, NEW b \in Nat, a <= b
  PROVE  Len(Row(a, b)) = b - a + 1 /\ Len(Row(a, b)) \in Nat \ {0}
<1>1. Len(Row(a, b)) = b - a + 1
  BY RowIsSeq
<1> QED
  BY <1>1

LEMMA RowAt ==
  ASSUME NEW a \in Nat, NEW b \in Nat, a <= b, NEW i \in 1..(b - a + 1)
  PROVE  Row(a, b)[i] = a + i - 1
  BY DEF Row

LEMMA PartOfRow ==
  ASSUME NEW a \in Nat, NEW b \in Nat, NEW c \in Nat, NEW d \in Nat,
         a <= c, c <= d, d <= b
  PROVE  SubSeq(Row(a, b), c - a + 1, d - a + 1) = Row(c, d)
<1> DEFINE p == SubSeq(Row(a, b), c - a + 1, d - a + 1)
<1>1. /\ c - a + 1 \in Nat \ {0} /\ d - a + 1 \in Nat /\ c - a + 1 <= d - a + 1
      /\ (d - a + 1) - (c - a + 1) + 1 = d - c + 1
      /\ \A i \in (c - a + 1)..(d - a + 1) : i \in 1..(b - a + 1) /\ a + i - 1 \in Nat
  OBVIOUS
<1>2. \A i \in (c - a + 1)..(d - a + 1) : Row(a, b)[i] \in Nat
  <2>1. ASSUME NEW i \in (c - a + 1)..(d - a + 1)
        PROVE  Row(a, b)[i] \in Nat
    BY <1>1, RowAt
  <2> QED
    BY <2>1
<1>3. /\ p \in Seq(Nat) /\ Len(p) = d - c + 1
      /\ \A i \in 1..(d - c + 1) : p[i] = Row(a, b)[(c - a + 1) + i - 1]
  BY <1>1, <1>2, SubSeqProperties
<1>4. \A i \in 1..(d - c + 1) : p[i] = c + i - 1
  <2> SUFFICES ASSUME NEW i \in 1..(d - c + 1) PROVE p[i] = c + i - 1
    OBVIOUS
  <2> DEFINE j == (c - a + 1) + i - 1
  <2>1. j \in 1..(b - a + 1) /\ a + j - 1 = c + i - 1 /\ a <= b
    OBVIOUS
  <2>2. p[i] = Row(a, b)[j]
    BY <1>3
  <2> HIDE DEF p, j
  <2>3. Row(a, b)[j] = a + j - 1
    BY <2>1, RowAt
  <2> QED
    BY <2>1, <2>2, <2>3
<1> HIDE DEF p
<1>5. p = [i \in 1..(d - c + 1) |-> p[i]]
  BY <1>3
<1> QED
  BY <1>4, <1>5 DEF Row, p

LEMMA RowTail ==
  ASSUME NEW a \in Nat, NEW b \in Nat, a + 1 <= b
  PROVE  /\ Row(a, b) # <<>> /\ Head(Row(a, b)) = a
         /\ Tail(Row(a, b)) = Row(a + 1, b)
<1>1. /\ Row(a, b) \in Seq(Nat) /\ Row(a, b) # <<>> /\ Len(Row(a, b)) = b - a + 1
      /\ 1 \in 1..(b - a + 1) /\ a <= b /\ a + 1 \in Nat
      /\ (b - a + 1) - 1 = b - (a + 1) + 1
  BY RowIsSeq
<1> DEFINE p == Tail(Row(a, b))
<1>2. /\ p \in Seq(Nat) /\ Len(p) = b - (a + 1) + 1
      /\ \A i \in 1..(b - (a + 1) + 1) : p[i] = Row(a, b)[i + 1]
  BY <1>1, HeadTailProperties
<1>3. ASSUME NEW i \in 1..(b - (a + 1) + 1) PROVE p[i] = (a + 1) + i - 1
  <2>1. i + 1 \in 1..(b - a + 1) /\ a + (i + 1) - 1 = (a + 1) + i - 1
    OBVIOUS
  <2>2. Row(a, b)[i + 1] = a + (i + 1) - 1
    BY <1>1, <2>1, RowAt
  <2> HIDE DEF p
  <2> QED
    BY <1>2, <2>1, <2>2
<1>4. Head(Row(a, b)) = a
  <2>1. Row(a, b)[1] = a + 1 - 1
    BY <1>1, RowAt
  <2> QED
    BY <1>1, <2>1
<1> HIDE DEF p
<1>5. p = [i \in 1..(b - (a + 1) + 1) |-> p[i]]
  BY <1>2
<1> QED
  BY <1>1, <1>3, <1>4, <1>5 DEF Row, p

\* A row that becomes a part of itself is a loss, or nothing at all.
LEMMA RowShrinks ==
  ASSUME NEW a \in Nat, NEW b \in Nat, NEW c \in Nat, NEW d \in Nat,
         a <= c, c <= d, d <= b,
         Pending = Row(a, b), Pending' = Row(c, d), sent' = sent, got' = got
  PROVE  [Channel!Next]_(Channel!vars)
<1>1. CASE a = c /\ b = d
  BY <1>1 DEF Channel!vars
<1>2. CASE ~(a = c /\ b = d)
  <2>1. Len(Pending) = b - a + 1
    <3>1. a <= b
      OBVIOUS
    <3> QED
      BY <3>1, RowLen
  <2>2. Pending' = SubSeq(Pending, c - a + 1, d - a + 1)
    <3>1. SubSeq(Row(a, b), c - a + 1, d - a + 1) = Row(c, d)
      BY PartOfRow
    <3> QED
      BY <3>1
  <2>3. /\ c - a + 1 \in 1..(Len(Pending) + 1) /\ d - a + 1 \in 0..Len(Pending)
        /\ c - a + 1 > 1 \/ d - a + 1 < Len(Pending)
    BY <1>2, <2>1
  <2>4. Channel!Lose
    BY <2>2, <2>3 DEF Channel!Lose
  <2> QED
    BY <2>4 DEF Channel!Next
<1> QED
  BY <1>1, <1>2

\* When a part of the bytes is lost, a part of the frames is, or none.
LEMMA LosesPart ==
  ASSUME TypeOK, TypeOK', FramingInv, sent' = sent, got' = got,
         NEW k \in Nat, Len(Left') + k <= Len(Left),
         \A i \in 1..Len(Left') : Left'[i] = Left[i + k]
  PROVE  [Channel!Next]_(Channel!vars)
<1> DEFINE m == Len(Left)
           n == Len(Left')
<1>1. Left \in Seq(LineByte) /\ m \in Nat
  BY LeftType
<1>2. Left' \in Seq(LineByte) /\ n \in Nat
  <2>1. (Left \in Seq(LineByte))' /\ (Len(Left) \in Nat)'
    BY LeftType, PTL
  <2> QED
    BY <2>1 DEF LineByte
<1>3. CASE Left' = <<>>
  <2>1. Pending' = <<>>
    BY <1>3, PendingTouched DEF Touched
  <2>2. CASE Left = <<>>
    BY <2>1, <2>2, PendingTouched DEF Touched, Channel!vars
  <2>3. CASE Left # <<>>
    <3>1. /\ Left[1].frame \in Nat /\ Left[m].frame \in Nat
          /\ Left[1].frame <= Left[m].frame
      <4>1. 1 \in 1..m /\ m \in 1..m /\ 1 <= m
        BY <1>1, <2>3
      <4> QED
        BY <1>1, <4>1 DEF FramingInv, OneRun, LineByte
    <3>2. Len(Pending) \in Nat \ {0}
      BY <2>3, <3>1, PendingTouched, RowLen DEF Touched
    <3>3. SubSeq(Pending, 1, 0) = <<>>
      BY SubSeqEmpty
    <3>4. Channel!Lose
      BY <2>1, <3>2, <3>3 DEF Channel!Lose
    <3> QED
      BY <3>4 DEF Channel!Next
  <2> QED
    BY <2>2, <2>3
<1>4. CASE Left' # <<>>
  <2>1. /\ 1 \in 1..m /\ 1 + k \in 1..m /\ n + k \in 1..m /\ m \in 1..m
        /\ 1 <= 1 + k /\ 1 + k <= n + k /\ n + k <= m
        /\ 1 \in 1..n /\ n \in 1..n
    BY <1>1, <1>2, <1>4
  <2> DEFINE a == Left[1].frame
             b == Left[m].frame
             c == Left[1 + k].frame
             d == Left[n + k].frame
  <2>2. /\ a \in Nat /\ b \in Nat /\ c \in Nat /\ d \in Nat
        /\ a <= c /\ c <= d /\ d <= b
    <3>1. \A i \in 1..m : Left[i].frame \in Nat
      BY <1>1 DEF LineByte
    <3>2. \A i, j \in 1..m : i <= j => Left[i].frame <= Left[j].frame
      BY DEF FramingInv, OneRun
    <3> QED
      BY <2>1, <3>1, <3>2
  <2>3. Left # <<>>
    BY <1>1, <2>1
  <2>4. Left'[1] = Left[1 + k] /\ Left'[n] = Left[n + k]
    BY <2>1
  <2>5. Pending = Row(a, b) /\ Pending' = Row(c, d)
    BY <1>4, <2>3, <2>4, PendingTouched DEF Touched
  <2> HIDE DEF a, b, c, d
  <2> QED
    BY <2>2, <2>5, RowShrinks
<1> QED
  BY <1>3, <1>4

LEMMA SendsFrame ==
  ASSUME TypeOK, TypeOK', FramingInv, PeerSend
  PROVE  Channel!Send
<1>1. PICK f \in Frames :
        /\ sent' = Append(sent, f)
        /\ Left' = Left \o Stamp(f, Len(sent'))
        /\ Stamp(f, Len(sent')) \in Seq(LineByte') /\ Left \in Seq(LineByte')
  BY SendAdds
<1> DEFINE t == Stamp(f, Len(sent'))
           m == Len(Left)
           n == Len(sent')
<1>2. /\ n \in Nat /\ n = Len(sent) + 1 /\ n > 0
      /\ f \in Seq(Byte) /\ Len(f) \in Nat \ {0}
  <2>1. f \in Seq(Byte) /\ Len(f) \in Nat \ {0}
    BY FramesAssumption, LenProperties
  <2>2. Len(sent') = Len(sent) + 1 /\ Len(sent) \in Nat
    <3>1. sent \in Seq(Frames)
      BY DEF TypeOK
    <3> QED
      BY <1>1, <3>1, AppendProperties, LenProperties
  <2> QED
    BY <2>1, <2>2
<1>3. /\ Len(t) = Len(f) /\ \A i \in 1..Len(f) : t[i].frame = n
  BY <1>2, LenProperties DEF Stamp
<1>4. /\ Len(Left') = m + Len(t) /\ m \in Nat
      /\ \A i \in 1..(m + Len(t)) :
           Left'[i] = IF i <= m THEN Left[i] ELSE t[i - m]
  BY <1>1, ConcatProperties
<1> HIDE DEF t, m
<1>5. Left'[m + Len(t)].frame = n
  <2>1. /\ m + Len(t) \in 1..(m + Len(t)) /\ ~(m + Len(t) <= m)
        /\ (m + Len(t)) - m \in 1..Len(f)
    BY <1>2, <1>3, <1>4
  <2> QED
    BY <1>3, <1>4, <2>1
<1>6. Left' # <<>> /\ Pending' = Row(Left'[1].frame, n)
  <2>1. Len(Left') # 0
    BY <1>2, <1>3, <1>4
  <2> QED
    BY <1>4, <1>5, <2>1, PendingTouched, EmptySeq DEF Touched
<1>7. got' = got
  BY DEF PeerSend
<1>8. CASE Left = <<>>
  <2>1. m = 0
    BY <1>8 DEF m
  <2>2. Left'[1] = t[1] /\ 1 \in 1..Len(f)
    BY <1>2, <1>3, <1>4, <2>1
  <2>3. Pending' = Row(n, n)
    BY <1>3, <1>6, <2>2
  <2>4. Row(n, n) = <<n>>
    BY <1>2 DEF Row
  <2>5. Pending = <<>>
    BY <1>8, PendingTouched DEF Touched
  <2> QED
    BY <1>2, <1>7, <2>3, <2>4, <2>5 DEF Channel!Send
<1>9. CASE Left # <<>>
  <2> DEFINE a == Left[1].frame
             b == Left[m].frame
  <2>1. m \in Nat \ {0} /\ 1 \in 1..m /\ m \in 1..m /\ Left \in Seq(LineByte)
    BY <1>9, LeftType DEF m
  <2>2. a \in Nat /\ b \in Nat /\ a <= b
    BY <2>1 DEF FramingInv, OneRun, LineByte, m
  <2>3. b = Len(sent)
    BY <1>9 DEF PeerSend, FramingInv, ReachesLast, m
  <2>4. Left'[1] = Left[1]
    BY <1>4, <2>1, <1>3, <1>2
  <2>5. Pending = Row(a, b) /\ Pending' = Row(a, b + 1)
    BY <1>2, <1>6, <1>9, <2>3, <2>4, PendingTouched DEF Touched, m
  <2> HIDE DEF a, b
  <2>6. Row(a, b + 1) = Append(Row(a, b), b + 1)
    <3>1. /\ Row(a, b) \in Seq(Nat) /\ b + 1 \in Nat /\ a <= b + 1
          /\ b - a + 1 \in Nat /\ (b + 1) - a + 1 = (b - a + 1) + 1
      BY <2>2, RowIsSeq
    <3>2. Len(Row(a, b)) = b - a + 1
      BY <2>2, RowLen
    <3> DEFINE p == Append(Row(a, b), b + 1)
    <3>3. /\ p \in Seq(Nat) /\ Len(p) = (b + 1) - a + 1
          /\ \A i \in 1..(b - a + 1) : p[i] = Row(a, b)[i]
          /\ p[(b + 1) - a + 1] = b + 1
      BY <3>1, <3>2, AppendProperties
    <3>4. \A i \in 1..((b + 1) - a + 1) : p[i] = a + i - 1
      <4> HIDE DEF p
      <4>1. ASSUME NEW i \in 1..(b - a + 1) PROVE p[i] = a + i - 1
        BY <2>2, <3>3, RowAt
      <4>2. a + ((b + 1) - a + 1) - 1 = b + 1
        BY <2>2
      <4> QED
        BY <2>2, <3>3, <4>1, <4>2
    <3> HIDE DEF p
    <3>5. p = [i \in 1..((b + 1) - a + 1) |-> p[i]]
      BY <3>3
    <3> QED
      BY <3>4, <3>5 DEF Row, p
  <2> QED
    BY <1>2, <1>7, <2>3, <2>5, <2>6 DEF Channel!Send
<1> QED
  BY <1>8, <1>9

LEMMA GetsFrame ==
  ASSUME Inv, Inv', FramingInv, StartInv, RecvPacket
  PROVE  Channel!Get
<1>1. /\ PacketDone /\ Readable /\ got' = Grown /\ sent' = sent
      /\ pkt' = <<>> /\ rxbuf' = Rest /\ wire' = wire
  BY DEF RecvPacket, PacketDone, Forget
<1> DEFINE w == Rest \o wire
           a == Grown[1].frame
<1>2. /\ Grown # <<>> /\ Grown[1].pos = 1 /\ InOneFrame(Grown)
      /\ Grown \in Seq(LineByte) /\ Rest \in Seq(LineByte) /\ wire \in Seq(LineByte)
      /\ Left \in Seq(LineByte)
  BY <1>1, GrownStart, PacketExact, LeftType, RecvBytes DEF Inv, TypeOK
<1>3. /\ w \in Seq(LineByte) /\ Left = Grown \o w
  <2>1. Left = Grown \o Rest \o wire
    BY <1>1, RecvLeft
  <2>2. (Grown \o Rest) \o wire = Grown \o (Rest \o wire)
    BY <1>2, ConcatAssociative, SMTT(60)
  <2> QED
    BY <1>2, <2>1, <2>2, ConcatProperties
<1>4. Left' = w
  <2>1. <<>> \o Rest = Rest
    BY <1>2, ConcatEmptySeq
  <2> QED
    BY <1>1, <2>1 DEF Left
<1>5. w # <<>> => w[1].frame = a + 1
  BY <1>1, <1>2, NextStart
<1>6. {got'[i].frame : i \in 1..Len(got')} = {a}
  <2>1. Len(Grown) \in Nat /\ 1 \in 1..Len(Grown)
    BY <1>2
  <2>2. \A i \in 1..Len(Grown) : Grown[i].frame = a
    BY <1>2 DEF InOneFrame
  <2> QED
    BY <1>1, <2>1, <2>2
<1> HIDE DEF w
<1>7. /\ Len(Left) = Len(Grown) + Len(w)
      /\ \A i \in 1..(Len(Grown) + Len(w)) :
           Left[i] = IF i <= Len(Grown) THEN Grown[i] ELSE w[i - Len(Grown)]
  BY <1>2, <1>3, ConcatProperties
<1>8. /\ 1 \in 1..Len(Left) /\ Len(Left) \in 1..Len(Left) /\ Len(Left) \in Nat
      /\ Left # <<>> /\ Left[1].frame = a
  <2>1. 1 \in 1..(Len(Grown) + Len(w)) /\ 1 <= Len(Grown)
    BY <1>2, <1>3
  <2> QED
    BY <1>2, <1>3, <1>7, <2>1
<1>9. CASE w = <<>>
  <2>1. Left = Grown
    BY <1>2, <1>3, <1>9, ConcatEmptySeq
  <2>2. Left[Len(Left)].frame = a
    BY <1>2, <1>8, <2>1 DEF InOneFrame
  <2>3. a \in Nat
    BY <1>2, <1>8, <2>1 DEF LineByte
  <2>4. Pending = Row(a, a) /\ Pending' = <<>>
    BY <1>4, <1>8, <1>9, <2>2, PendingTouched DEF Touched
  <2> HIDE DEF a
  <2>5. Row(a, a) = <<a>>
    BY <2>3 DEF Row
  <2>6. Pending = <<a>> /\ Pending # <<>> /\ Head(Pending) = a /\ Tail(Pending) = <<>>
    BY <2>4, <2>5
  <2> QED
    BY <1>1, <1>6, <2>4, <2>6 DEF Channel!Get
<1>10. CASE w # <<>>
  <2> DEFINE b == Left[Len(Left)].frame
  <2>1. /\ Len(w) \in Nat \ {0} /\ 1 \in 1..Len(w) /\ Len(w) \in 1..Len(w)
        /\ Len(Grown) \in Nat
    BY <1>2, <1>3, <1>10
  <2>2. w[Len(w)].frame = b /\ w[1] = Left[Len(Grown) + 1]
    <3>1. /\ Len(Grown) + Len(w) \in 1..(Len(Grown) + Len(w))
          /\ ~(Len(Grown) + Len(w) <= Len(Grown))
          /\ (Len(Grown) + Len(w)) - Len(Grown) = Len(w)
          /\ Len(Grown) + 1 \in 1..(Len(Grown) + Len(w))
          /\ ~(Len(Grown) + 1 <= Len(Grown)) /\ (Len(Grown) + 1) - Len(Grown) = 1
      BY <2>1
    <3> QED
      BY <1>7, <3>1
  <2>3. a \in Nat /\ b \in Nat /\ a + 1 <= b
    <3>1. \A i \in 1..Len(Left) : Left[i].frame \in Nat
      BY <1>2, SMTT(60) DEF LineByte
    <3>2. \A i, j \in 1..Len(Left) : i <= j => Left[i].frame <= Left[j].frame
      BY DEF FramingInv, OneRun
    <3>3. Len(Grown) + 1 \in 1..Len(Left) /\ Len(Grown) + 1 <= Len(Left)
      BY <1>7, <2>1
    <3>4. Left[Len(Grown) + 1].frame <= b
      BY <1>8, <3>2, <3>3
    <3> QED
      BY <1>5, <1>8, <1>10, <2>2, <3>1, <3>4
  <2>4. Pending = Row(a, b) /\ Pending' = Row(a + 1, b)
    BY <1>4, <1>5, <1>8, <1>10, <2>2, PendingTouched DEF Touched
  <2> HIDE DEF a, b
  <2>5. /\ Row(a, b) # <<>> /\ Head(Row(a, b)) = a
        /\ Tail(Row(a, b)) = Row(a + 1, b)
    BY <2>3, RowTail
  <2> QED
    BY <1>1, <1>6, <2>4, <2>5 DEF Channel!Get
<1> QED
  BY <1>9, <1>10

LEMMA ChannelStep ==
  ASSUME Recoverable, Inv, Inv', FramingInv, StartInv, [Next]_vars
  PROVE  [Channel!Next]_(Channel!vars)
<1>1. /\ pkt \in Seq(LineByte) /\ rxbuf \in Seq(LineByte) /\ wire \in Seq(LineByte)
      /\ Left \in Seq(LineByte) /\ Len(Left) \in Nat /\ TypeOK /\ TypeOK'
  BY LeftType DEF Inv, TypeOK
<1>2. ASSUME sent' = sent, got' = got, Left' = Left
      PROVE  [Channel!Next]_(Channel!vars)
  BY <1>2 DEF Channel!vars, Pending
<1>3. ASSUME sent' = sent, got' = got, Left' = <<>>
      PROVE  [Channel!Next]_(Channel!vars)
  <2>1. 0 \in Nat /\ Len(Left') = 0 /\ Len(Left') + 0 <= Len(Left)
    BY <1>1, <1>3
  <2> QED
    BY <1>1, <1>3, <2>1, LosesPart
<1>4. ASSUME sent' = sent, got' = got,
             NEW p \in Seq(LineByte), NEW q \in Seq(LineByte),
             Left = p \o q, Left' = p
      PROVE  [Channel!Next]_(Channel!vars)
  <2>1. /\ Len(Left) = Len(p) + Len(q) /\ Len(p) \in Nat /\ Len(q) \in Nat
        /\ \A i \in 1..Len(p) : Left[i] = p[i]
    BY <1>4, ConcatProperties
  <2>2. /\ 0 \in Nat /\ Len(Left') + 0 <= Len(Left)
        /\ \A i \in 1..Len(Left') : Left'[i] = Left[i + 0]
    BY <1>4, <2>1
  <2> QED
    BY <1>1, <1>4, <2>2, LosesPart
<1>5. CASE PeerSend
  BY <1>1, <1>5, SendsFrame DEF Channel!Next
<1>6. CASE Arrive
  BY <1>2, <1>6, ArriveLeft DEF Arrive
<1>7. CASE LoseByte
  BY <1>7 DEF LoseByte, Recoverable
<1>8. CASE PeerClose
  BY <1>2, <1>8 DEF PeerClose, callVars, Left
<1>9. CASE PeerReset
  <2>1. pkt' = pkt /\ wire' = <<>> /\ got' = got /\ sent' = sent
    BY <1>9 DEF PeerReset, callVars
  <2>2. CASE rxbuf' = <<>>
    <3>1. Left' = pkt
      BY <1>1, <2>1, <2>2, ConcatEmptySeq DEF Left
    <3>2. rxbuf \o wire \in Seq(LineByte) /\ Left = pkt \o (rxbuf \o wire)
      BY <1>1, ConcatProperties, ConcatAssociative, SMTT(60) DEF Left
    <3> QED
      BY <1>1, <1>4, <2>1, <3>1, <3>2
  <2>3. CASE rxbuf' = rxbuf
    <3>1. pkt \o rxbuf \in Seq(LineByte) /\ Left = (pkt \o rxbuf) \o wire
      BY <1>1, ConcatProperties DEF Left
    <3>2. Left' = pkt \o rxbuf
      BY <2>1, <2>3, <3>1, ConcatEmptySeq DEF Left
    <3> QED
      BY <1>1, <1>4, <2>1, <3>1, <3>2
  <2> QED
    BY <1>9, <2>2, <2>3 DEF PeerReset
<1>10. CASE SetErrorRecovery
  BY <1>2, <1>10 DEF SetErrorRecovery, lineVars, callVars, Left
<1>11. CASE AppReconnect
  <2>1. pkt' = <<>> /\ rxbuf' = <<>> /\ wire' = <<>> /\ got' = got /\ sent' = sent
    BY <1>11 DEF AppReconnect, Reconnect, callVars, Inv, LoopInv
  <2> QED
    BY <1>3, <2>1, DropAll
<1>12. CASE Receive
  BY <1>2, <1>12 DEF Receive, lineVars, Left, Inv, LoopInv
<1>13. CASE RecvPartial
  <2>1. Left' = Left
    BY <1>13, RecvLeft DEF RecvPartial, Left
  <2> QED
    BY <1>2, <1>13, <2>1 DEF RecvPartial
<1>14. CASE RecvTooLong
  BY <1>14, NeverTooLong DEF RecvTooLong
<1>15. CASE RecvHeader
  <2>1. Left' = Left
    BY <1>15, RecvLeft DEF RecvHeader, HeaderDone, Left
  <2> QED
    BY <1>2, <1>15, <2>1 DEF RecvHeader
<1>16. CASE RecvPacket
  BY <1>16, GetsFrame DEF Channel!Next
<1>17. CASE RecvBadSum
  BY <1>17, NeverBadSum DEF RecvBadSum
<1>18. CASE SelectTimeout
  <2>1. /\ pkt' = <<>> /\ rxbuf' = rxbuf /\ wire' = wire
        /\ got' = got /\ sent' = sent
    BY <1>18 DEF SelectTimeout, Forget, lineVars
  <2>2. Left' = <<>> \o rxbuf \o wire
    BY <2>1 DEF Left
  <2>3. /\ Len(Left') = Len(Left) - Len(pkt)
        /\ \A i \in 1..Len(Left') : Left'[i] = Left[i + Len(pkt)]
    <3>1. Left = pkt \o rxbuf \o wire
      BY DEF Left
    <3>2. /\ pkt \in Seq(LineByte) /\ rxbuf \in Seq(LineByte)
          /\ wire \in Seq(LineByte)
      BY <1>1
    <3> HIDE DEF Left
    <3> QED
      BY <2>2, <3>1, <3>2, DropFirst
  <2>4. Len(pkt) \in Nat /\ Len(Left') + Len(pkt) <= Len(Left)
    BY <1>1, <2>3
  <2> QED
    BY <1>1, <2>1, <2>3, <2>4, LosesPart
<1>19. CASE SleepOver
  <2>1. pkt' = <<>> /\ rxbuf' = <<>> /\ wire' = <<>> /\ got' = got /\ sent' = sent
    BY <1>19 DEF SleepOver, ReturnError, Forget, Recoverable
  <2> QED
    BY <1>3, <2>1, DropAll
<1>20. CASE SelectBadF \/ RecvReset
  <2>1. pkt' = <<>> /\ rxbuf' = <<>> /\ wire' = <<>> /\ got' = got /\ sent' = sent
    BY <1>20
    DEF SelectBadF, RecvReset, Reconnect, ReturnError, Forget, Recoverable, StartInv
  <2> QED
    BY <1>3, <2>1, DropAll
<1>21. CASE UNCHANGED vars
  BY <1>2, <1>21 DEF vars, lineVars, callVars, Left
<1> QED
  BY <1>5, <1>6, <1>7, <1>8, <1>9, <1>10, <1>11, <1>12, <1>13, <1>14, <1>15,
     <1>16, <1>17, <1>18, <1>19, <1>20, <1>21
  DEF Next, Line, Application, Engine

(***************************************************************************)
(* With link recovery the engine is a channel of whole frames: they come   *)
(* out in the order they were sent, each at most once, none in pieces and  *)
(* no two glued together, whatever timeouts, resets and reconnections cut  *)
(* short and however the kernel cuts or joins the bytes.                   *)
(***************************************************************************)
THEOREM EngineIsChannel ==
  ASSUME Recoverable
  PROVE  Spec => ImplementsChannel
<1>1. Init => Channel!Init
  <2> SUFFICES ASSUME Init PROVE Channel!Init
    OBVIOUS
  <2>1. Left = <<>>
    BY EmptySeq, ConcatEmptySeq DEF Init, Left
  <2>2. /\ Len(sent) = 0 /\ Pending = <<>>
        /\ {got[i].frame : i \in 1..Len(got)} = {}
    BY <2>1 DEF Init, Pending
  <2> QED
    BY <2>2 DEF Channel!Init
<1>2. Inv /\ Inv' /\ FramingInv /\ StartInv /\ [Next]_vars
        => [Channel!Next]_(Channel!vars)
  BY ChannelStep
<1> QED
  BY <1>1, <1>2, AlwaysStarts, PTL DEF Spec, ImplementsChannel, Channel!Spec

=============================================================================
