----------------------------- MODULE MCTransfer -----------------------------
(* Instances of what carries the bytes of read() and write(): the file table with its *)
(* pipes, and the blocks of a file.  A behaviour is one of one of them.               *)
EXTENDS Files, TLC

CONSTANTS
  f1, f2,
  Inum, Fd, Opens, Data, BSIZE, NDIRECT, NINDIRECT, NBLOCKS,  \* Blocks
  MAXOPBLOCKS, UINT, Reads, Writes, MaxTrunc

ASSUME FilesConstants == FilesAssumption

\* Programs that open files, that share them, and that use a pipe.
Messages == {<<0, 1, 0>>}
Shares == {"close", "pipe", "fork"}
ProgramSets == {Shares \cup {"dup", "open"}, Shares \cup {"read", "write"}}

\* Two open files of one inode, or one after the other of two; each writes its own byte.
Ways == {{<<f1, 1>>, <<f2, 1>>}, {<<f1, 1>>, <<f1, 2>>}}
Letters == (f1 :> 8) @@ (f2 :> 9)

VARIABLES
  part,      \* the component of this behaviour
  used, disk, addrs, size, may, of, off, left, bytes, truncs

B == INSTANCE Blocks WITH todo <- left

blocks == <<used, disk, addrs, size, may, of, off, left, bytes, truncs>>

\* The component that is not chosen stands still, Files in an initial state of its own.
NoB == /\ used = 0 /\ disk = 0 /\ addrs = 0 /\ size = 0 /\ may = 0 /\ of = 0 /\ off = 0
       /\ left = 0 /\ bytes = 0 /\ truncs = 0

MInit == /\ Init
         /\ \/ part = "files" /\ NoB
            \/ part = "blocks" /\ B!BInit /\ prog = Shares \cup {"read", "write"}

MNext == \/ part = "files" /\ Next /\ UNCHANGED <<part, blocks>>
         \/ part = "blocks" /\ B!BNext /\ UNCHANGED <<part, vars>>

\* The fairness of Files, in its own behaviours.
MFair == \A p \in Proc : WF_vars(part = "files" /\ Runs(p))

MSpec == MInit /\ [][MNext]_<<part, vars, blocks>> /\ MFair

-----------------------------------------------------------------------------
(* The properties of Blocks, see there; those of Files are its own. *)

\* readi() yields the bytes that writei() put there.
Content == part = "blocks" => B!Content
\* The bitmap marks the blocks of the inodes, and each has one place.
BitmapExact == part = "blocks" => B!BitmapExact
\* A turn of filewrite() stays within the log space that begin_op() reserved.
OpFits == part = "blocks" => B!OpFits
=============================================================================
