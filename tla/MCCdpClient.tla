---------------------------- MODULE MCCdpClient -----------------------------
(* CdpClient with three calls: one under a deadline, one without and one    *)
(* whose parameters cannot be encoded.                                      *)
EXTENDS CdpClient

MCResults == {"result", "error"}
=============================================================================
