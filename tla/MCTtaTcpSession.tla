-------------------------- MODULE MCTtaTcpSession ---------------------------
(***************************************************************************)
(* Small instances of TtaTcpSession.                                       *)
(***************************************************************************)
EXTENDS TtaTcpSession

MCAllModes == SUBSET {Link, Protocol}
MCLinkModes == {{Link}, {Link, Protocol}}
MCNoRecovery == {{}}

=============================================================================
