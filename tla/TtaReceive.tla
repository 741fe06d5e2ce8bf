----------------------------- MODULE TtaReceive -----------------------------
(***************************************************************************)
(* The receive engine of libtta: _tta_receive_pkt of tta.c, together with  *)
(* the descriptor it reads and the peer that fills it.                     *)
(*                                                                         *)
(* A packet is read in two phases.  First header_length bytes; the last    *)
(* of them is the number of data bytes, so it tells how much is left       *)
(* (data and checksum).  Each turn of the loop waits in select() and reads *)
(* whatever the kernel holds, up to length_to_read.  The backend supplies  *)
(* the lengths and the integrity check, here the constants.                *)
(*                                                                         *)
(* The engine has no start-of-frame search: where a packet begins is where *)
(* the previous call stopped reading.  What is hard is therefore what      *)
(* timeouts, refused lengths, flushes and reconnections leave behind.      *)
(***************************************************************************)
EXTENDS Naturals, Sequences

CONSTANTS
  HeaderLen,          \* backend->header_length
  ChecksumLen,        \* backend->checksum_length
  MaxAdu,             \* backend->max_adu_length, the callers' buffer size
  CheckIntegrity(_),  \* backend->check_integrity, on the byte values
  Byte,               \* the byte values in use
  Frames,             \* the byte sequences the peer may put on the line
  RecoveryModes,      \* the values of error_recovery the application uses
  Serial,             \* a serial line: no EOF or reset, but bytes get lost
  Prompt,             \* what is in flight arrives within a recovery sleep
  MaxSent,            \* bound: frames the peer sends
  MaxLost             \* bound: bytes the line loses

Link == "LINK"          \* TTA_ERROR_RECOVERY_LINK
Protocol == "PROTOCOL"  \* TTA_ERROR_RECOVERY_PROTOCOL

ASSUME LengthAssumption ==
  /\ HeaderLen \in Nat \ {0}
  /\ ChecksumLen \in Nat
  /\ MaxAdu \in Nat
  /\ HeaderLen <= MaxAdu

ASSUME ByteAssumption == Byte \subseteq Nat

\* what conv_ttamsg2pkt emits: the count of data bytes is the last of the header
ASSUME FramesAssumption ==
  /\ Frames \subseteq Seq(Byte)
  /\ \A f \in Frames : /\ Len(f) >= HeaderLen
                       /\ Len(f) = HeaderLen + f[HeaderLen] + ChecksumLen

ASSUME EnvironmentAssumption ==
  /\ RecoveryModes \subseteq SUBSET {Link, Protocol}
  /\ {Serial, Prompt} \subseteq BOOLEAN
  /\ {MaxSent, MaxLost} \subseteq Nat

VARIABLES
  wire,            \* bytes in flight
  rxbuf,           \* bytes the kernel holds for ctx->s
  conn,            \* what ctx->s refers to: up, eof, reset, or bad (closed)
  sent,            \* the frames sent so far
  lost,            \* bytes lost so far
  recovery,        \* ctx->error_recovery
  pc,              \* idle, select (inside the loop) or sleep (recovering)
  pkt,             \* the bytes read by this call; its length is pktlen
  length_to_read,  \* what this phase still wants
  step,            \* _STEP_HD or _STEP_DATA
  p_tv,            \* the timeout select() was given: none, response, byte
  got              \* the packet the last successful call returned

lineVars == <<wire, rxbuf, conn, sent, lost>>
callVars == <<pc, pkt, length_to_read, step, p_tv>>
vars == <<lineVars, recovery, callVars, got>>

-----------------------------------------------------------------------------
(* A byte on the line is named by the frame it belongs to and its place in *)
(* it.  The code sees its value only: the names are for the properties.    *)

LineByte ==
  {b \in [frame : Nat, pos : Nat] :
     b.frame \in 1..Len(sent) /\ b.pos \in 1..Len(sent[b.frame])}

Stamp(f, n) == [i \in 1..Len(f) |-> [frame |-> n, pos |-> i]]

Value(b) == sent[b.frame][b.pos]

Values(p) == [i \in 1..Len(p) |-> Value(p[i])]

\* compute_data_length_after_hd: the last header byte counts the data bytes
compute_data_length_after_hd(p) == Value(p[HeaderLen]) + ChecksumLen

\* recv() returns what is there, up to what was asked for
Count == IF Len(rxbuf) < length_to_read THEN Len(rxbuf) ELSE length_to_read
Grown == pkt \o SubSeq(rxbuf, 1, Count)
Rest == SubSeq(rxbuf, Count + 1, Len(rxbuf))

TypeOK ==
  /\ wire \in Seq(LineByte)
  /\ rxbuf \in Seq(LineByte)
  /\ conn \in {"up", "eof", "reset", "bad"}
  /\ sent \in Seq(Frames)
  /\ lost \in Nat
  /\ recovery \in SUBSET {Link, Protocol}
  /\ pc \in {"idle", "select", "sleep"}
  /\ pkt \in Seq(LineByte)
  /\ length_to_read \in Nat
  /\ step \in {"HD", "DATA"}
  /\ p_tv \in {"none", "response", "byte"}
  /\ got \in Seq(LineByte)

Init ==
  /\ wire = <<>> /\ rxbuf = <<>> /\ conn = "up" /\ sent = <<>> /\ lost = 0
  /\ recovery \in RecoveryModes
  /\ pc = "idle" /\ pkt = <<>> /\ length_to_read = 0
  /\ step = "HD" /\ p_tv = "none"
  /\ got = <<>>

-----------------------------------------------------------------------------
(* The line and the peer.                                                  *)

\* The peer puts one frame on the line.
PeerSend ==
  /\ conn = "up"
  /\ Len(sent) < MaxSent
  /\ \E f \in Frames :
       /\ sent' = Append(sent, f)
       /\ wire' = wire \o Stamp(f, Len(sent'))
  /\ UNCHANGED <<rxbuf, conn, lost, recovery, callVars, got>>

\* One byte reaches the kernel: a frame may arrive in any pieces.
Arrive ==
  /\ wire # <<>>
  /\ rxbuf' = Append(rxbuf, Head(wire))
  /\ wire' = Tail(wire)
  /\ UNCHANGED <<conn, sent, lost, recovery, callVars, got>>

\* A serial line loses a byte (overrun, noise).
LoseByte ==
  /\ Serial
  /\ wire # <<>>
  /\ lost < MaxLost
  /\ wire' = Tail(wire)
  /\ lost' = lost + 1
  /\ UNCHANGED <<rxbuf, conn, sent, recovery, callVars, got>>

\* The peer closes in order: what it sent can still be read, then EOF.
PeerClose ==
  /\ ~Serial
  /\ conn = "up"
  /\ conn' = "eof"
  /\ UNCHANGED <<wire, rxbuf, sent, lost, recovery, callVars, got>>

\* The connection is reset: what is in flight is gone; the kernel may still
\* give what it holds before it reports the reset, or throw it away.
PeerReset ==
  /\ ~Serial
  /\ conn \in {"up", "eof"}
  /\ conn' = "reset"
  /\ wire' = <<>>
  /\ rxbuf' \in {rxbuf, <<>>}
  /\ UNCHANGED <<sent, lost, recovery, callVars, got>>

-----------------------------------------------------------------------------
(* The outcomes the engine leaves behind.                                  *)

\* The call's locals are gone.
Forget == pkt' = <<>> /\ length_to_read' = 0 /\ step' = "HD" /\ p_tv' = "none"

\* return -1
ReturnError == pc' = "idle" /\ Forget /\ UNCHANGED got

\* tta_close then tta_connect; when the connect fails ctx->s names a closed
\* descriptor.  Either way the old connection's bytes are out of reach.
Reconnect ==
  /\ conn' \in {"up", "bad"}
  /\ wire' = <<>> /\ rxbuf' = <<>>
  /\ UNCHANGED <<sent, lost>>

-----------------------------------------------------------------------------
(* The application, between two calls.                                     *)

\* tta_set_error_recovery
SetErrorRecovery ==
  /\ pc = "idle"
  /\ recovery' \in RecoveryModes \ {recovery}
  /\ UNCHANGED <<lineVars, callVars, got>>

\* The application closes the context and connects it again.
AppReconnect ==
  /\ pc = "idle"
  /\ ~Serial
  /\ Reconnect
  /\ UNCHANGED <<recovery, callVars, got>>

\* The call begins: tta_receive with fgtm, or the receive of tta_request (1).
Receive ==
  /\ pc = "idle"
  /\ pc' = "select"
  /\ pkt' = <<>>
  /\ length_to_read' = HeaderLen
  /\ step' = "HD"
  /\ \E fgtimeout \in BOOLEAN :
       p_tv' = IF fgtimeout THEN "response" ELSE "none"
  /\ UNCHANGED <<lineVars, recovery, got>>

-----------------------------------------------------------------------------
(* One turn of the loop: select() says ready and recv() returns bytes.     *)

Readable == pc = "select" /\ rxbuf # <<>>

\* Two slips: the whole packet's length subtracted for the chunk's, and the
\* wait for the next byte left with the timeout of the first.
MutRecvPartialLength ==
  /\ Readable
  /\ Count < length_to_read
  /\ pkt' = Grown
  /\ rxbuf' = Rest
  /\ length_to_read' = length_to_read - Len(Grown)
  /\ p_tv' = "byte"
  /\ UNCHANGED <<wire, conn, sent, lost, recovery, pc, step, got>>

MutRecvPartialTimeout ==
  /\ Readable
  /\ Count < length_to_read
  /\ pkt' = Grown
  /\ rxbuf' = Rest
  /\ length_to_read' = length_to_read - Count
  /\ UNCHANGED <<wire, conn, sent, lost, recovery, pc, step, p_tv, got>>

\* The phase is not complete: wait again, now with the byte timeout.
RecvPartial ==
  /\ Readable
  /\ Count < length_to_read
  /\ pkt' = Grown
  /\ rxbuf' = Rest
  /\ length_to_read' = length_to_read - Count
  /\ p_tv' = "byte"
  /\ UNCHANGED <<wire, conn, sent, lost, recovery, pc, step, got>>

\* The bytes in the kernel complete the header.
HeaderDone == Readable /\ Count = length_to_read /\ step = "HD"

\* Two slips: the header, or the checksum, not counted in the room needed.
MutTooLongHeader == compute_data_length_after_hd(Grown) > MaxAdu
MutTooLongChecksum == Len(Grown) + Value(Grown[HeaderLen]) > MaxAdu

TooLong == Len(Grown) + compute_data_length_after_hd(Grown) > MaxAdu

\* The header announces more than the buffer holds: -1, and nothing is flushed.
RecvTooLong ==
  /\ HeaderDone
  /\ TooLong
  /\ rxbuf' = Rest
  /\ ReturnError
  /\ UNCHANGED <<wire, conn, sent, lost, recovery>>

\* A slip: the data awaited without a timeout when the header had none.
MutRecvHeaderTimeout ==
  /\ HeaderDone
  /\ ~TooLong
  /\ compute_data_length_after_hd(Grown) > 0
  /\ pkt' = Grown
  /\ rxbuf' = Rest
  /\ length_to_read' = compute_data_length_after_hd(Grown)
  /\ step' = "DATA"
  /\ UNCHANGED <<wire, conn, sent, lost, recovery, pc, p_tv, got>>

\* The header is complete and something follows it.
RecvHeader ==
  /\ HeaderDone
  /\ ~TooLong
  /\ compute_data_length_after_hd(Grown) > 0
  /\ pkt' = Grown
  /\ rxbuf' = Rest
  /\ length_to_read' = compute_data_length_after_hd(Grown)
  /\ step' = "DATA"
  /\ p_tv' = "byte"
  /\ UNCHANGED <<wire, conn, sent, lost, recovery, pc, got>>

\* A slip: one recv() taken for the whole data phase.
MutPacketDoneEarly ==
  /\ Readable
  /\ \/ step = "DATA"
     \/ /\ step = "HD" /\ Count = length_to_read
        /\ ~TooLong /\ compute_data_length_after_hd(Grown) = 0

\* The bytes in the kernel complete the packet.
PacketDone ==
  /\ Readable
  /\ Count = length_to_read
  /\ \/ step = "DATA"
     \/ step = "HD" /\ ~TooLong /\ compute_data_length_after_hd(Grown) = 0

\* check_integrity accepts it: the call returns the packet.
RecvPacket ==
  /\ PacketDone
  /\ CheckIntegrity(Values(Grown))
  /\ got' = Grown
  /\ rxbuf' = Rest
  /\ pc' = "idle"
  /\ Forget
  /\ UNCHANGED <<wire, conn, sent, lost, recovery>>

\* check_integrity refuses it; with PROTOCOL it flushes, without sleeping.
RecvBadSum ==
  /\ PacketDone
  /\ ~CheckIntegrity(Values(Grown))
  /\ rxbuf' = IF Protocol \in recovery THEN <<>> ELSE Rest
  /\ ReturnError
  /\ UNCHANGED <<wire, conn, sent, lost, recovery>>

-----------------------------------------------------------------------------
(* The error paths.                                                        *)

\* select() times out: -1, after a sleep and a flush when LINK is set.
SelectTimeout ==
  /\ pc = "select"
  /\ p_tv # "none"
  /\ rxbuf = <<>>
  /\ conn = "up" \/ (conn = "eof" /\ wire # <<>>)
  /\ pc' = IF Link \in recovery THEN "sleep" ELSE "idle"
  /\ Forget
  /\ UNCHANGED <<lineVars, recovery, got>>

\* A slip: the sleep without the flush.
MutSleepNoFlush ==
  /\ pc = "sleep"
  /\ Prompt => wire = <<>>
  /\ ReturnError
  /\ UNCHANGED <<wire, rxbuf, conn, sent, lost, recovery>>

\* The end of _sleep_and_flush: what the kernel holds by now is thrown away.
SleepOver ==
  /\ pc = "sleep"
  /\ Prompt => wire = <<>>
  /\ rxbuf' = <<>>
  /\ ReturnError
  /\ UNCHANGED <<wire, conn, sent, lost, recovery>>

\* The descriptor is not open: select() fails with EBADF.  (So it does when
\* ctx->s is -1 because the last socket() failed, which is not told apart here
\* from the number of a closed descriptor.)
SelectBadF ==
  /\ pc = "select"
  /\ conn = "bad"
  /\ ReturnError
  /\ IF Link \in recovery THEN Reconnect ELSE UNCHANGED lineVars
  /\ UNCHANGED recovery

\* recv() returns 0 at the end of the stream, or fails with ECONNRESET.
RecvReset ==
  /\ pc = "select"
  /\ rxbuf = <<>>
  /\ \/ conn = "reset"
     \/ conn = "eof" /\ wire = <<>>
  /\ ReturnError
  /\ IF Link \in recovery THEN Reconnect ELSE UNCHANGED lineVars
  /\ UNCHANGED recovery

-----------------------------------------------------------------------------

Line == PeerSend \/ Arrive \/ LoseByte \/ PeerClose \/ PeerReset

Application == SetErrorRecovery \/ AppReconnect \/ Receive

\* What _tta_receive_pkt does once called.
Engine ==
  \/ RecvPartial \/ RecvTooLong \/ RecvHeader \/ RecvPacket \/ RecvBadSum
  \/ SelectTimeout \/ SleepOver \/ SelectBadF \/ RecvReset

Next == Line \/ Application \/ Engine

Spec == Init /\ [][Next]_vars

\* The calling thread is scheduled, the timers of select() and nanosleep()
\* expire, and bytes in flight arrive.  Nothing obliges the peer to send.
FairSpec == Spec /\ WF_vars(Engine) /\ WF_vars(Arrive)

-----------------------------------------------------------------------------
(* What the engine promises.                                               *)

\* The bytes p are the first bytes of one frame, in order and with no gap.
InOneFrame(p) ==
  \A i \in 1..Len(p) : p[i].frame = p[1].frame /\ p[i].pos = i

FrameLen(p) == Len(sent[p[1].frame])

\* Whatever the bytes on the line are, the loop never asks recv() for more
\* than the caller's buffer has room for after what was already read.
BufferBound == Len(pkt) + length_to_read <= MaxAdu

\* A call that begins at a frame's first byte reads that frame and nothing of
\* the next one, however the kernel cuts or joins the bytes, and what it
\* returns is the whole frame.  (A line that loses bytes has no such promise.)
FrameExact ==
  /\ pkt # <<>> /\ pkt[1].pos = 1 => InOneFrame(pkt) /\ Len(pkt) < FrameLen(pkt)
  /\ got # <<>> /\ got[1].pos = 1 => InOneFrame(got) /\ Len(got) = FrameLen(got)

\* Every call begins at a frame's first byte.  This is what the recovery modes
\* are for: a timeout, a refused packet or a reconnection must not leave the
\* rest of a frame where the next call takes it for a header.
AlignedStart ==
  /\ pkt # <<>> => pkt[1].pos = 1
  /\ got # <<>> => got[1].pos = 1

\* A call that has a timeout returns, and so does one without as soon as it
\* has read a byte: a peer that stops in mid-frame blocks nobody for ever.
TimedReceiveReturns ==
  (pc = "select" /\ (p_tv # "none" \/ pkt # <<>>)) ~> pc = "idle"

-----------------------------------------------------------------------------
(* The engine as a channel of frames.                                      *)

\* What the current call has read and what is still to be read.
Left == pkt \o rxbuf \o wire

\* The frames with a byte there: from the first one's to the last one's.
Pending ==
  IF Left = <<>> THEN <<>>
  ELSE [i \in 1..Left[Len(Left)].frame - Left[1].frame + 1 |->
          Left[1].frame + i - 1]

Channel == INSTANCE FrameChannel WITH
  count   <- Len(sent),
  pending <- Pending,
  last    <- {got[i].frame : i \in 1..Len(got)}

\* With link recovery, on a stream whose frames fit and arrive within the
\* recovery sleep, the engine is a channel of whole frames: none out of order,
\* none twice, none in pieces, no two glued together, whatever is cut short.
ImplementsChannel == Channel!Spec

=============================================================================
