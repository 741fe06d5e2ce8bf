----------------------------- MODULE MCReceive ------------------------------
(***************************************************************************)
(* The receive engine twice: on a stream, with the variables of            *)
(* TtaReceive, and on a serial line that loses bytes, with variables of    *)
(* its own.  A behaviour is one of one of the two, chosen at the start.    *)
(***************************************************************************)
EXTENDS MCTtaReceive

CONSTANT Parts   \* the parts to be checked: stream, serial

VARIABLES
  part,   \* which of the two
  s_wire, s_rxbuf, s_conn, s_sent, s_lost, s_recovery,
  s_pc, s_pkt, s_length_to_read, s_step, s_p_tv, s_got

serialVars ==
  <<s_wire, s_rxbuf, s_conn, s_sent, s_lost, s_recovery,
    s_pc, s_pkt, s_length_to_read, s_step, s_p_tv, s_got>>

OnSerial == INSTANCE TtaReceive WITH
  ChecksumLen    <- 1,
  CheckIntegrity <- MCSumCheck,
  Frames         <- MCSerialFrames,
  RecoveryModes  <- MCAllModes,
  Serial         <- TRUE,
  Prompt         <- FALSE,
  MaxSent        <- 2,
  MaxLost        <- 1,
  wire           <- s_wire,
  rxbuf          <- s_rxbuf,
  conn           <- s_conn,
  sent           <- s_sent,
  lost           <- s_lost,
  recovery       <- s_recovery,
  pc             <- s_pc,
  pkt            <- s_pkt,
  length_to_read <- s_length_to_read,
  step           <- s_step,
  p_tv           <- s_p_tv,
  got            <- s_got

-----------------------------------------------------------------------------

MCInit ==
  /\ part \in Parts
  /\ Init /\ OnSerial!Init
  /\ part # "stream" => recovery = {}
  /\ part # "serial" => s_recovery = {}

MCNext ==
  /\ UNCHANGED part
  /\ \/ part = "stream" /\ Next /\ UNCHANGED serialVars
     \/ part = "serial" /\ OnSerial!Next /\ UNCHANGED vars

\* The fairness of TtaReceive.
MCSpec ==
  /\ MCInit /\ [][MCNext]_<<part, vars, serialVars>>
  /\ WF_vars(part = "stream" /\ Engine)
  /\ WF_vars(part = "stream" /\ Arrive)
  /\ WF_serialVars(part = "serial" /\ OnSerial!Engine)
  /\ WF_serialVars(part = "serial" /\ OnSerial!Arrive)

-----------------------------------------------------------------------------

\* BufferBound and TimedReceiveReturns where a lost byte makes any byte of a
\* frame the length.
SerialBufferBound == OnSerial!BufferBound
SerialReceiveReturns == OnSerial!TimedReceiveReturns

=============================================================================
