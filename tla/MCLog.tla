------------------------------- MODULE MCLog --------------------------------
(* Instance of Log with a process that nests begin_op(). *)
EXTENDS Log
=============================================================================
