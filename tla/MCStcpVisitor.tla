---------------------------- MODULE MCStcpVisitor ----------------------------
(* Two user connections of one visitor, with every step of the handshake.    *)
EXTENDS StcpVisitor
=============================================================================
