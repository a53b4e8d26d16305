------------------------------ MODULE MCInodes ------------------------------
(* Instances of Inodes: two processes that make, link and remove names under   *)
(* one another's feet.                                                         *)
EXTENDS Inodes, TLC

CONSTANTS p1, p2
Abs(s) == [abs |-> TRUE, elems |-> s]
Rel(s) == [abs |-> FALSE, elems |-> s]
Does(op, x) == [op |-> op, path |-> x, new |-> x]
Links(x, y) == [op |-> "link", path |-> x, new |-> y]
A == Abs(<<"a">>)
B == Abs(<<"b">>)
AB == Abs(<<"a", "b">>)

Builder == {Does("mkdir", A), Does("create", AB), Does("chdir", A), Does("mkdir", Rel(<<"b">>))}
Remover == {Does("unlink", AB), Does("unlink", A), Does("open", AB), Does("mkdir", A), Does("chdir", AB)}
Linker == {Does("mkdir", A), Does("create", B), Links(B, AB), Links(A, AB), Does("open", AB)}
Unlinker == {Does("unlink", AB), Does("unlink", A), Does("unlink", B)}
Programs == {(p1 :> Builder @@ p2 :> Remover), (p1 :> Linker @@ p2 :> Unlinker)}
=============================================================================
