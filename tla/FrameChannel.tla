---------------------------- MODULE FrameChannel ----------------------------
(***************************************************************************)
(* What a receiver of frames may rely on: frames come out whole, in the    *)
(* order they were sent and at most once.  Some may be lost: the oldest    *)
(* when what has arrived is thrown away, the newest when the line fails    *)
(* before they arrive.                                                     *)
(***************************************************************************)
EXTENDS Naturals, Sequences

VARIABLES
  count,    \* frames sent so far; the n-th frame is called n
  pending,  \* the frames sent and neither received nor lost
  last      \* the frames in what the receiver got last: one, none before

vars == <<count, pending, last>>

Init == count = 0 /\ pending = <<>> /\ last = {}

Send ==
  /\ count' = count + 1
  /\ pending' = Append(pending, count + 1)
  /\ UNCHANGED last

Get ==
  /\ pending # <<>>
  /\ last' = {Head(pending)}
  /\ pending' = Tail(pending)
  /\ UNCHANGED count

Lose ==
  /\ \E first \in 1..Len(pending) + 1, final \in 0..Len(pending) :
       /\ first > 1 \/ final < Len(pending)
       /\ pending' = SubSeq(pending, first, final)
  /\ UNCHANGED <<count, last>>

Next == Send \/ Get \/ Lose

Spec == Init /\ [][Next]_vars

=============================================================================
