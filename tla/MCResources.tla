----------------------------- MODULE MCResources ----------------------------
(* Instances of what hands out and takes back: the log, pages and address spaces, the *)
(* user heap, inodes with their names, and the shell with its processes and pipes.    *)
(* A behaviour is one of one of them.                                                 *)
EXTENDS Log, Integers, TLC

CONSTANTS
  p1, p2,
  Init1, NPAGE, PGSIZE, NPTE, NTAB, KVPAGES, W,         \* Memory
  Id, Entry, ProgSize, Incr, Orderly,
  HeapMax, Least, Units,                                     \* Umalloc
  NINODES, Name, MaxLink, Prog,                              \* Inodes
  Scripts, MaxLine, MAXARGS, NPROC, NOFILE                   \* Shell

\* Arguments of sbrk() that grow, shrink, empty, overflow.
Increments == {-2, 1, 3, 26}

\* Two processes that make, link and remove names under one another's feet.
Abs(s) == [abs |-> TRUE, elems |-> s]
Rel(s) == [abs |-> FALSE, elems |-> s]
Does(op, x) == [op |-> op, path |-> x, new |-> x]
Links(x, y) == [op |-> "link", path |-> x, new |-> y]
A == Abs(<<"a">>)
BB == Abs(<<"b">>)
AB == Abs(<<"a", "b">>)

Builder == {Does("mkdir", A), Does("create", AB), Does("chdir", A), Does("mkdir", Rel(<<"b">>))}
Remover == {Does("unlink", AB), Does("unlink", A), Does("open", AB), Does("mkdir", A), Does("chdir", AB)}
Linker == {Does("mkdir", A), Does("create", BB), Links(BB, AB), Links(A, AB), Does("open", AB)}
Unlinker == {Does("unlink", AB), Does("unlink", A), Does("unlink", BB)}
Programs == {(p1 :> Builder @@ p2 :> Remover), (p1 :> Linker @@ p2 :> Unlinker)}

\* A line in the background, with redirections, blocks and lists, one that is not of the
\* grammar, and one with more processes than there are slots.
Lines == {<<"a", "|", "a", "|", "a">>, <<"(", "a", ";", "a", ")", "|", "a", ">", "a">>,
          <<"a", "|", "a", "&", ";", "a">>, <<"(", "a", "|", "a", ")", "<", "a">>,
          <<"a", "&", "a">>, <<"a", "|", "a", "|", "a", "|", "a">>}

VARIABLES
  part,      \* the component of this behaviour
  free, kstack, space, sz, pa, id, ref_count, va, mpc, idx, opened, panic,
  heap, inuse,
  type, nlink, dir, ref, lock, cwd, fd, prog, ipc, icall, path, cur, ip, todo, freed, lost,
  buf, tree, ps

M == INSTANCE Memory WITH pc <- mpc
U == INSTANCE Umalloc
N == INSTANCE Inodes WITH pc <- ipc, call <- icall
S == INSTANCE Shell

memory == <<free, kstack, space, sz, pa, id, ref_count, va, mpc, idx, opened, panic>>
heaps == <<heap, inuse>>
inodes == <<type, nlink, dir, ref, lock, cwd, fd, prog, ipc, icall, path, cur, ip, todo, freed,
            lost>>
shell == <<buf, tree, ps>>

\* The components that are not chosen stand still, Log in an initial state of its own.
NoM == /\ free = 0 /\ kstack = 0 /\ space = 0 /\ sz = 0 /\ pa = 0 /\ id = 0 /\ ref_count = 0
       /\ va = 0 /\ mpc = 0 /\ idx = 0 /\ opened = 0 /\ panic = 0
NoU == /\ heap = 0 /\ inuse = 0
NoN == /\ type = 0 /\ nlink = 0 /\ dir = 0 /\ ref = 0 /\ lock = 0 /\ cwd = 0 /\ fd = 0
       /\ prog = 0 /\ ipc = 0 /\ icall = 0 /\ path = 0 /\ cur = 0 /\ ip = 0 /\ todo = 0
       /\ freed = 0 /\ lost = 0
NoS == /\ buf = 0 /\ tree = 0 /\ ps = 0

SomeDisk == \A b \in Block : home[b] = CHOOSE v \in Val : TRUE

MInit ==
  /\ Init
  /\ \/ part = "log" /\ NoM /\ NoU /\ NoN /\ NoS
     \/ part = "memory" /\ SomeDisk /\ M!Init /\ NoU /\ NoN /\ NoS
     \/ part = "heaps" /\ SomeDisk /\ U!UInit /\ NoM /\ NoN /\ NoS
     \/ part = "inodes" /\ SomeDisk /\ N!Init /\ NoM /\ NoU /\ NoS
     \/ part = "shell" /\ SomeDisk /\ S!Init /\ NoM /\ NoU /\ NoN

MNext ==
  \/ part = "log" /\ Next /\ UNCHANGED <<part, memory, heaps, inodes, shell>>
  \/ part = "memory" /\ M!Next /\ UNCHANGED <<part, vars, heaps, inodes, shell>>
  \/ part = "heaps" /\ U!UNext /\ UNCHANGED <<part, vars, memory, inodes, shell>>
  \/ part = "inodes" /\ N!Next /\ UNCHANGED <<part, vars, memory, heaps, shell>>
  \/ part = "shell" /\ S!Next /\ UNCHANGED <<part, vars, memory, heaps, inodes>>

\* The fairness of Log, in its own behaviours.
MFair ==
  /\ WF_vars(part = "log" /\ commit)
  /\ \A p \in Proc : WF_vars(part = "log" /\ Runs(p)) /\ SF_vars(part = "log" /\ end_op(p))

MSpec == MInit /\ [][MNext]_<<part, vars, memory, heaps, inodes, shell>> /\ MFair

-----------------------------------------------------------------------------
(* The properties of the components, see there; those of Log are its own. *)

\* Every page is free, shared, or in exactly one use.
OneUse == part = "memory" => M!OneUse
\* Exactly the pages below sz are mapped, and no call panics.
Present == part = "memory" => M!Present
\* The reference count of a shared page is the number of processes that map it.
RefCount == part = "memory" => M!RefCount
\* The heap is cut exactly into malloc()'s free blocks and the blocks in use.
HeapWhole == part = "heaps" => U!HeapWhole
\* ip->nlink is the number of names of an inode.
LinkCount == part = "inodes" => N!LinkCount
\* ip->ref counts the pointers, and what has a name or a pointer is allocated.
LiveRefs == part = "inodes" => N!LiveRefs
\* The directories are a tree.
Tree == part = "inodes" => N!Tree
\* parsecmd() accepts the lines of the grammar and gives each its one tree.
ParsesGrammar == part = "shell" => S!ParsesGrammar
\* runcmd() gives every program its descriptors and no other, and nobody hangs.
Plumbed == part = "shell" => S!Plumbed
=============================================================================
