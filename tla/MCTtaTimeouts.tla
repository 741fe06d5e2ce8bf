--------------------------- MODULE MCTtaTimeouts ----------------------------
(***************************************************************************)
(* Small instances of TtaTimeouts: seconds of three ticks, so that         *)
(* microseconds can add up to one.                                         *)
(***************************************************************************)
EXTENDS TtaTimeouts

OneSecond == [sec |-> 1, usec |-> 0]
MCTimeouts == [sec : 0..2, usec : 0..2] \ {[sec |-> 0, usec |-> 0]}
MCOneSecond == {OneSecond}
MCByteTimes == {-1, 1, 2}
MCNoByteTime == {-1}

=============================================================================
