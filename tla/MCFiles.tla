------------------------------- MODULE MCFiles ------------------------------
(* Instance of Files with programs that move files. *)
EXTENDS Files

Messages == {<<0, 1, 0>>}
Moving == {{"move", "open", "close"}}
=============================================================================
