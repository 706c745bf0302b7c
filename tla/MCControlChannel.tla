-------------------------- MODULE MCControlChannel --------------------------
(* Small configurations of the control channel. *)
EXTENDS ControlChannel
OneProxy == <<"web">>
OneVisitor == <<"db">>
None == <<>>
=============================================================================
