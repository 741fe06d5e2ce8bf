----------------------------- MODULE MCSession ------------------------------
(***************************************************************************)
(* A session in three settings: with link recovery and everything that can *)
(* go wrong, in the variables of TtaTcpSession; on one connection without  *)
(* faults, in every recovery mode; and with faults in every recovery mode, *)
(* the server as slow as it likes.  Each has its own variables, and a      *)
(* behaviour is one in one setting, chosen at the start; the other two     *)
(* stay as they begin, where no action that must happen is enabled.        *)
(***************************************************************************)
EXTENDS MCTtaTcpSession

VARIABLES
  part,   \* the setting: recovery, fresh or faulty
  o_cpc, o_ctid, o_recovery, o_req, o_answer,
  o_conn, o_c2s, o_s2c, o_resets, o_spc, o_stid, o_sreq,
  f_cpc, f_ctid, f_recovery, f_req, f_answer,
  f_conn, f_c2s, f_s2c, f_resets, f_spc, f_stid, f_sreq

freshVars ==
  <<o_cpc, o_ctid, o_recovery, o_req, o_answer,
    o_conn, o_c2s, o_s2c, o_resets, o_spc, o_stid, o_sreq>>

faultyVars ==
  <<f_cpc, f_ctid, f_recovery, f_req, f_answer,
    f_conn, f_c2s, f_s2c, f_resets, f_spc, f_stid, f_sreq>>

Fresh == INSTANCE TtaTcpSession WITH
  RecoveryModes <- MCAllModes,
  Faults        <- {},
  Prompt        <- FALSE,
  MaxRequests   <- 6,
  MaxUnanswered <- 3,
  MaxResets     <- 0,
  cpc      <- o_cpc,
  ctid     <- o_ctid,
  recovery <- o_recovery,
  req      <- o_req,
  answer   <- o_answer,
  conn     <- o_conn,
  c2s      <- o_c2s,
  s2c      <- o_s2c,
  resets   <- o_resets,
  spc      <- o_spc,
  stid     <- o_stid,
  sreq     <- o_sreq

Faulty == INSTANCE TtaTcpSession WITH
  RecoveryModes <- MCAllModes,
  Faults        <- Fault,
  Prompt        <- FALSE,
  MaxRequests   <- 4,
  MaxUnanswered <- 2,
  MaxResets     <- 2,
  cpc      <- f_cpc,
  ctid     <- f_ctid,
  recovery <- f_recovery,
  req      <- f_req,
  answer   <- f_answer,
  conn     <- f_conn,
  c2s      <- f_c2s,
  s2c      <- f_s2c,
  resets   <- f_resets,
  spc      <- f_spc,
  stid     <- f_stid,
  sreq     <- f_sreq

-----------------------------------------------------------------------------

MCInit ==
  /\ part \in {"recovery", "fresh", "faulty"}
  /\ Init /\ Fresh!Init /\ Faulty!Init
  /\ part # "recovery" => recovery = {Link}
  /\ part # "fresh" => o_recovery = {}
  /\ part # "faulty" => f_recovery = {}

MCNext ==
  /\ UNCHANGED part
  /\ \/ part = "recovery" /\ Next /\ UNCHANGED <<freshVars, faultyVars>>
     \/ part = "fresh" /\ Fresh!Next /\ UNCHANGED <<vars, faultyVars>>
     \/ part = "faulty" /\ Faulty!Next /\ UNCHANGED <<vars, freshVars>>

\* The fairness of TtaTcpSession in the two settings that need it.
MCSpec ==
  /\ MCInit /\ [][MCNext]_<<part, vars, freshVars, faultyVars>>
  /\ Fresh!Fairness /\ Faulty!Fairness

-----------------------------------------------------------------------------

\* On one connection without faults the awaited answer is never refused, and
\* tta_request implements a request answered by its own answer.
FreshNotRefused == Fresh!AnswerNotRefused
FreshImplementsRequest == Fresh!ImplementsRequest

\* Every call returns, whatever breaks.
FaultyCallReturns == Faulty!CallReturns

=============================================================================
