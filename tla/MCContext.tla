------------------------------ MODULE MCContext ------------------------------
(***************************************************************************)
(* What all backends have in common, in small instances: message objects,  *)
(* descriptors, timeouts, the bit and float helpers.  They share no state, *)
(* so a behaviour is one of one part, chosen at the start; the others stay *)
(* as they begin.                                                          *)
(***************************************************************************)
EXTENDS TtaMsg, TtaDescriptor, MCTtaTimeouts, TtaData

CONSTANTS h1, h2

MCHeaders == {h1, h2}

\* 0x4465229a is the float of the documentation's example.
MCFloats == {<<68, 101, 34, 154>>, <<1, 2, 3, 4>>}

VARIABLE part

-----------------------------------------------------------------------------

MCInit ==
  /\ part \in {"msg", "descriptor", "timeouts", "data"}
  /\ MsgInit /\ FdInit /\ TimeInit /\ DataInit
  /\ part # "descriptor" => backend = "tcp" /\ ~server
  /\ part # "timeouts" =>
       ~rf /\ delay = 0 /\ wanted = OneSecond /\ byte_timeout = 1

MCNext ==
  /\ UNCHANGED part
  /\ \/ /\ part = "msg" /\ MsgNext
        /\ UNCHANGED <<fdVars, timeVars, dataVars>>
     \/ /\ part = "descriptor" /\ FdNext
        /\ UNCHANGED <<msgVars, timeVars, dataVars>>
     \/ /\ part = "timeouts" /\ TimeNext
        /\ UNCHANGED <<msgVars, fdVars, dataVars>>
     \/ /\ part = "data" /\ DataNext
        /\ UNCHANGED <<msgVars, fdVars, timeVars>>

MCSpec ==
  MCInit /\ [][MCNext]_<<part, msgVars, fdVars, timeVars, dataVars>>

=============================================================================
