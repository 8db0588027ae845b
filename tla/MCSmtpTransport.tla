--------------------------- MODULE MCSmtpTransport ---------------------------
(* Bounds for the run of SmtpTransport.                                     *)
EXTENDS SmtpTransport

OneOfEach == [k \in FaultKinds |-> 1]
=============================================================================
