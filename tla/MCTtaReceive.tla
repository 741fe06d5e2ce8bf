---------------------------- MODULE MCTtaReceive ----------------------------
(***************************************************************************)
(* Small instances of TtaReceive: a header of two bytes, the second one    *)
(* the count.                                                              *)
(***************************************************************************)
EXTENDS TtaReceive, SequencesExt

MCByte == 0..3

\* TCP frames: no checksum, at most two data bytes.
MCTcpFrames == {<<1, 0>>, <<1, 1, 3>>, <<1, 2, 0, 1>>}

\* With a frame the sender's conv accepts and the receiver refuses.
MCTcpFramesAndOversize == {<<1, 0>>, <<1, 2, 0, 1>>, <<1, 3, 0, 0, 0>>}

MCNoCheck(p) == TRUE

\* Serial frames: the checksum is the sum of all bytes before it.
MCSum(p) == FoldSeq(LAMBDA b, s : (b + s) % 4, 0, p)
MCSumCheck(p) == p[Len(p)] = MCSum(SubSeq(p, 1, Len(p) - 1))
MCSerialFrames == {<<1, 0, 1>>, <<1, 1, 2, 0>>, <<2, 1, 3, 2>>}

MCAllModes == SUBSET {Link, Protocol}
MCLinkModes == {{Link}, {Link, Protocol}}
MCBothModes == {{Link, Protocol}}

=============================================================================
