------------------------------- MODULE Inodes -------------------------------
(***************************************************************************)
(* Inodes and directories: the inode cache and path lookup of fs.c, and the  *)
(* calls of sysfile.c on names, by processes that interleave wherever an     *)
(* inode's sleep-lock is taken or released.  The cached and the disk copy    *)
(* of an inode are one, since iupdate() follows every change under the lock. *)
(***************************************************************************)
EXTENDS Naturals, Sequences, FiniteSets, FiniteSetsExt

CONSTANTS Proc,
          NINODES,     \* inodes on the disk
          Name,        \* names other than "." and ".."
          MaxLink,     \* bound: nlink when a file is linked once more
          Prog         \* what the processes of a behaviour may call: functions
                       \* from processes to sets of [op, path, new]; a path is
                       \* [abs, elems]

Inode == 1..NINODES
ROOTINO == 1
No == 0
NoCall == [op |-> "none", new |-> <<>>]
Empty == [n \in Name \cup {".."} |-> No]

VARIABLES
  type, nlink, dir,   \* of an inode; dir: the entries, with the number they name
  ref, lock,          \* ip->ref; the process that holds ip->lock
  cwd, fd,            \* of a process: current directory, open file
  prog,               \* what the processes call
  pc, call,           \* where a process is in which call
  path, cur,          \* namex(): the elements left, the inode reached; later dp
  ip,                 \* the other inode of a call
  todo, freed,        \* inodes to iput() before the call goes on; iput() is past its test
  lost                \* history: entries that went with a removed directory

disk == <<type, nlink, dir, lost>>
kept == <<cwd, fd, prog>>
vars == <<disk, ref, lock, kept, pc, call, path, cur, ip, todo, freed>>

\* The file system mkfs makes.
Init ==
  /\ type = [i \in Inode |-> IF i = ROOTINO THEN "DIR" ELSE "NONE"]
  /\ nlink = [i \in Inode |-> IF i = ROOTINO THEN 1 ELSE 0]
  /\ dir = [i \in Inode |-> IF i = ROOTINO THEN [Empty EXCEPT ![".."] = ROOTINO] ELSE Empty]
  /\ ref = [i \in Inode |-> IF i = ROOTINO THEN Cardinality(Proc) ELSE 0]
  /\ lock = [i \in Inode |-> {}] /\ lost = [i \in Inode |-> 0]
  /\ cwd = [p \in Proc |-> ROOTINO] /\ fd = [p \in Proc |-> No] /\ prog \in Prog
  /\ pc = [p \in Proc |-> "user"] /\ call = [p \in Proc |-> NoCall] /\ path = [p \in Proc |-> <<>>]
  /\ cur = [p \in Proc |-> No] /\ ip = [p \in Proc |-> No]
  /\ todo = [p \in Proc |-> <<>>] /\ freed = [p \in Proc |-> FALSE]

Set(f, x, v) == [f EXCEPT ![x] = v]
Inc(f, i) == [f EXCEPT ![i] = @ + 1]
Dec(f, i) == [f EXCEPT ![i] = @ - 1]
At(p, l) == pc[p] = l /\ todo[p] = <<>>
Goto(p, l) == pc' = Set(pc, p, l)
Unlocked(i) == lock[i] = {}               \* ilock() goes on
iget(i) == Inc(ref, i)                    \* and idup()
ialloc == Min({i \in Inode : type[i] = "NONE"})
dirlookup(i, n) == dir[i][n]
\* The call continues at l once the inodes of s are put.
PutThen(p, s, l) == todo' = Set(todo, p, s) /\ Goto(p, l)
\* The call returns; what it worked on is forgotten.
Return(p, s) == /\ PutThen(p, s, "user") /\ call' = Set(call, p, NoCall)
                /\ cur' = Set(cur, p, No) /\ ip' = Set(ip, p, No) /\ path' = Set(path, p, <<>>)

-----------------------------------------------------------------------------
(* references *)

\* iput(): under the lock an inode without links and other references is freed ...
bug_Unused(i) == nlink[i] = 0                        \* r is not tested
Unused(i) == nlink[i] = 0 /\ ref[i] = 1
iput(p) ==
  /\ todo[p] # <<>> /\ ~freed[p] /\ Unlocked(Head(todo[p]))
  /\ LET i == Head(todo[p]) IN
     IF Unused(i)
     THEN /\ type' = Set(type, i, "NONE") /\ dir' = Set(dir, i, Empty)    \* itrunc(), iupdate()
          /\ lost' = [j \in Inode |-> lost[j] + Cardinality({n \in Name : dir[i][n] = j})]
     ELSE UNCHANGED <<type, dir, lost>>
  /\ freed' = Set(freed, p, TRUE)
  /\ UNCHANGED <<nlink, ref, lock, kept, pc, call, path, cur, ip, todo>>

\* ... and then, without it, the reference is given up.
idrop(p) ==
  /\ freed[p] /\ freed' = Set(freed, p, FALSE)
  /\ ref' = Dec(ref, Head(todo[p])) /\ todo' = Set(todo, p, Tail(todo[p]))
  /\ UNCHANGED <<disk, lock, kept, pc, call, path, cur, ip>>

-----------------------------------------------------------------------------
(* path lookup *)

Parent == {"create", "mkdir", "unlink", "link_new"}   \* calls of nameiparent()
Start(p, x) == IF x.abs THEN ROOTINO ELSE cwd[p]

\* A system call up to the first reference of namex().  Bounds: a process has one
\* open file, links are few, and ialloc() finds an inode.
Creating == {"create", "mkdir"}
begin(p) ==
  /\ At(p, "user")
  /\ \E c \in prog[p] :
     /\ c.op \in {"open", "create"} => fd[p] = No
     /\ c.op = "link" => \A i \in Inode : nlink[i] < MaxLink
     /\ c.op \in Creating => Cardinality({i \in Inode : type[i] = "NONE"}) > Cardinality({q \in Proc : call[q].op \in Creating})
     /\ call' = Set(call, p, [op |-> c.op, new |-> c.new])
     /\ path' = Set(path, p, c.path.elems) /\ cur' = Set(cur, p, Start(p, c.path))
     /\ ref' = iget(Start(p, c.path))
  /\ Goto(p, "walk")
  /\ UNCHANGED <<disk, lock, kept, ip, todo, freed>>

\* One element of the path: ilock(), dirlookup(), iunlockput().
Fails(p, s) ==
  IF call[p].op = "link_new" THEN PutThen(p, s, "link_bad") /\ cur' = Set(cur, p, No) /\ UNCHANGED <<call, ip, path>>
  ELSE Return(p, s)
walk(p) ==
  LET i == cur[p]
      next == dirlookup(i, Head(path[p]))
  IN  /\ At(p, "walk") /\ Unlocked(i)
      /\ IF type[i] # "DIR" THEN Fails(p, <<i>>) /\ UNCHANGED ref
         ELSE IF call[p].op \in Parent /\ Len(path[p]) = 1
         THEN Goto(p, call[p].op) /\ UNCHANGED <<ref, call, cur, ip, path, todo>>
         ELSE IF next = No THEN Fails(p, <<i>>) /\ UNCHANGED ref
         ELSE /\ ref' = iget(next) /\ cur' = Set(cur, p, next) /\ path' = Set(path, p, Tail(path[p]))
              /\ PutThen(p, <<i>>, IF Len(path[p]) = 1 THEN call[p].op ELSE "walk") /\ UNCHANGED <<call, ip>>
      /\ UNCHANGED <<disk, lock, kept, freed>>

-----------------------------------------------------------------------------
(* calls *)

\* The end of sys_open(): it fails if no file or descriptor is left, or for a directory
\* that is not opened to read.
Opened(p, i) == \/ Return(p, <<>>) /\ fd' = Set(fd, p, i)
                \/ Return(p, <<i>>) /\ UNCHANGED fd

\* sys_open() without O_CREATE, sys_chdir(), sys_close().
open(p) ==
  /\ At(p, "open") /\ Unlocked(cur[p]) /\ Opened(p, cur[p])
  /\ UNCHANGED <<disk, ref, lock, cwd, prog, freed>>
chdir(p) ==
  /\ At(p, "chdir") /\ Unlocked(cur[p])
  /\ IF type[cur[p]] # "DIR" THEN Return(p, <<cur[p]>>) /\ UNCHANGED cwd
     ELSE Return(p, <<cwd[p]>>) /\ cwd' = Set(cwd, p, cur[p])
  /\ UNCHANGED <<disk, ref, lock, fd, prog, freed>>
close(p) ==
  /\ At(p, "user") /\ fd[p] # No
  /\ fd' = Set(fd, p, No) /\ PutThen(p, <<fd[p]>>, "user")
  /\ UNCHANGED <<disk, ref, lock, cwd, prog, call, path, cur, ip, freed>>

\* create(), for sys_open() with O_CREATE and sys_mkdir(): the name exists, or an
\* inode is allocated and linked.
Last(p) == path[p][Len(path[p])]
create(p) ==
  LET dp == cur[p]
      old == dirlookup(dp, Last(p))
      new == ialloc
      kind == IF pc[p] = "mkdir" THEN "DIR" ELSE "FILE"
  IN  /\ At(p, "create") \/ At(p, "mkdir")
      /\ Unlocked(dp)
      /\ IF old # No
         THEN /\ ref' = iget(old) /\ ip' = Set(ip, p, old) /\ PutThen(p, <<dp>>, "exists")
              /\ UNCHANGED <<disk, lock>>
         ELSE /\ Unlocked(new) /\ lock' = Set(lock, new, {p})
              /\ type' = Set(type, new, kind)
              /\ nlink' = [nlink EXCEPT ![new] = 1, ![dp] = IF kind = "DIR" THEN @ + 1 ELSE @]
              /\ dir' = [dir EXCEPT ![new] = IF kind = "DIR" THEN [Empty EXCEPT ![".."] = dp] ELSE Empty,
                                    ![dp] = Set(@, Last(p), new)]
              /\ ref' = iget(new) /\ ip' = Set(ip, p, new) /\ PutThen(p, <<dp>>, "created")
              /\ UNCHANGED lost
      /\ cur' = Set(cur, p, No) /\ UNCHANGED <<kept, call, path, freed>>
exists(p) ==
  /\ At(p, "exists") /\ Unlocked(ip[p])
  /\ IF call[p].op = "create" /\ type[ip[p]] = "FILE"
     THEN Opened(p, ip[p])
     ELSE Return(p, <<ip[p]>>) /\ UNCHANGED fd
  /\ UNCHANGED <<disk, ref, lock, cwd, prog, freed>>
created(p) ==
  /\ At(p, "created") /\ lock' = Set(lock, ip[p], {})
  /\ IF call[p].op = "create" THEN Opened(p, ip[p])
     ELSE Return(p, <<ip[p]>>) /\ UNCHANGED fd
  /\ UNCHANGED <<disk, ref, cwd, prog, freed>>

\* sys_link(): the count first, then the lookup of the new name, then the entry.
bug_Linkable(i) == TRUE                               \* directories too
Linkable(i) == type[i] # "DIR"
link(p) ==
  /\ At(p, "link") /\ Unlocked(cur[p])
  /\ IF ~Linkable(cur[p])
     THEN Return(p, <<cur[p]>>) /\ UNCHANGED <<nlink, ref>>
     ELSE LET to == call[p].new IN
          /\ nlink' = Inc(nlink, cur[p]) /\ ip' = Set(ip, p, cur[p])
          /\ cur' = Set(cur, p, Start(p, to)) /\ ref' = iget(Start(p, to))
          /\ path' = Set(path, p, to.elems) /\ call' = [call EXCEPT ![p].op = "link_new"]
          /\ Goto(p, "walk") /\ UNCHANGED todo
  /\ UNCHANGED <<type, dir, lost, lock, kept, freed>>
link_new(p) ==
  LET dp == cur[p]
      old == dirlookup(dp, Last(p))
  IN  /\ At(p, "link_new") /\ Unlocked(dp)
      /\ IF old # No                                   \* dirlink() puts it, dp locked
         THEN /\ ref' = iget(old) /\ lock' = Set(lock, dp, {p}) /\ PutThen(p, <<old>>, "link_dup")
              /\ UNCHANGED <<dir, call, cur, ip, path>>
         ELSE /\ dir' = [dir EXCEPT ![dp] = Set(@, Last(p), ip[p])]
              /\ Return(p, <<dp, ip[p]>>) /\ UNCHANGED <<ref, lock>>
      /\ UNCHANGED <<type, nlink, lost, kept, freed>>
link_dup(p) ==
  /\ At(p, "link_dup") /\ lock' = Set(lock, cur[p], {}) /\ PutThen(p, <<cur[p]>>, "link_bad")
  /\ cur' = Set(cur, p, No) /\ UNCHANGED <<disk, ref, kept, call, path, ip, freed>>
bug_Unlinked(i) == nlink                               \* the count is not taken back
Unlinked(i) == Dec(nlink, i)
link_bad(p) ==
  /\ At(p, "link_bad") /\ Unlocked(ip[p])
  /\ nlink' = Unlinked(ip[p]) /\ Return(p, <<ip[p]>>)
  /\ UNCHANGED <<type, dir, lost, ref, lock, kept, freed>>

\* sys_unlink(): the directory is locked, then the inode too; the entry goes and the
\* directory is put; then the inode's count is lowered and it is put.
unlink(p) ==
  LET dp == cur[p]
      old == IF Last(p) \in {".", ".."} THEN No ELSE dirlookup(dp, Last(p))
  IN  /\ At(p, "unlink") /\ Unlocked(dp)
      /\ IF old = No THEN Return(p, <<dp>>) /\ UNCHANGED <<ref, lock>>
         ELSE /\ lock' = Set(lock, dp, {p}) /\ ref' = iget(old) /\ ip' = Set(ip, p, old)
              /\ Goto(p, "unlink_ip") /\ UNCHANGED <<call, path, cur, todo>>
      /\ UNCHANGED <<disk, kept, freed>>
isdirempty(i) == \A n \in Name : dir[i][n] = No
unlink_ip(p) ==
  LET dp == cur[p]
      i == ip[p]
  IN  /\ At(p, "unlink_ip") /\ Unlocked(i)
      /\ IF type[i] = "DIR" /\ ~isdirempty(i)
         THEN PutThen(p, <<i>>, "unlink_bad") /\ ip' = Set(ip, p, No) /\ UNCHANGED <<dir, nlink, lock, cur>>
         ELSE /\ dir' = [dir EXCEPT ![dp] = Set(@, Last(p), No)]
              /\ nlink' = IF type[i] = "DIR" THEN Dec(nlink, dp) ELSE nlink
              /\ lock' = [lock EXCEPT ![dp] = {}, ![i] = {p}]
              /\ PutThen(p, <<dp>>, "unlinked") /\ cur' = Set(cur, p, No) /\ UNCHANGED ip
      /\ UNCHANGED <<type, lost, ref, kept, call, path, freed>>
unlink_bad(p) ==
  /\ At(p, "unlink_bad") /\ lock' = Set(lock, cur[p], {}) /\ Return(p, <<cur[p]>>)
  /\ UNCHANGED <<disk, ref, kept, freed>>
unlinked(p) ==
  /\ At(p, "unlinked") /\ lock' = Set(lock, ip[p], {})
  /\ nlink' = Unlinked(ip[p]) /\ Return(p, <<ip[p]>>)
  /\ UNCHANGED <<type, dir, lost, ref, kept, freed>>

Next == \E p \in Proc :
  \/ iput(p) \/ idrop(p) \/ begin(p) \/ walk(p)
  \/ open(p) \/ chdir(p) \/ close(p) \/ create(p) \/ exists(p) \/ created(p)
  \/ link(p) \/ link_new(p) \/ link_dup(p) \/ link_bad(p)
  \/ unlink(p) \/ unlink_ip(p) \/ unlink_bad(p) \/ unlinked(p)
Spec == Init /\ [][Next]_vars

-----------------------------------------------------------------------------
Entries(i) == {e \in Inode \X Name : dir[e[1]][e[2]] = i}
Linked(i) == Entries(i) # {}

\* ip->nlink is the number of names of an inode, counting ".." of the directories in
\* it, one more while link() or unlink() is halfway; names in a directory that was
\* removed under the caller's feet are the only ones ever lost.
LinkCount == \A i \in Inode : type[i] # "NONE" =>
  nlink[i] = Cardinality(Entries(i)) + lost[i] + (IF i = ROOTINO THEN 1 ELSE 0)
             + Cardinality({d \in Inode : type[d] = "DIR" /\ d # ROOTINO /\ Linked(d) /\ dir[d][".."] = i})
             + Cardinality({p \in Proc : ip[p] = i /\ (pc[p] \in {"unlinked", "link_new", "link_dup", "link_bad"}
                                                       \/ (pc[p] = "walk" /\ call[p].op = "link_new"))})

\* ip->ref counts the pointers to an inode, and an inode with a name or a pointer is
\* allocated: ilock() never finds one that has no type.
Holds(p, i) == Cardinality({k \in 1..Len(todo[p]) : todo[p][k] = i})
               + Cardinality({k \in 1..4 : <<cwd[p], fd[p], cur[p], ip[p]>>[k] = i})
LiveRefs == \A i \in Inode :
  /\ ref[i] = MapThenSumSet(LAMBDA p : Holds(p, i), Proc)
  /\ Linked(i) \/ (ref[i] > 0 /\ \A p \in Proc : freed[p] => Head(todo[p]) # i) => type[i] # "NONE"

\* The directories are a tree: one has at most one name, in the directory its ".."
\* names, whatever creates, links and unlinks interleave.
Tree == \A i \in Inode : type[i] = "DIR" =>
  \A e, f \in Entries(i) : e = f /\ (type[e[1]] = "DIR" => dir[i][".."] = e[1])

\* No process waits for a lock that it holds itself or whose holder waits for one of
\* its own.
Wants(p) == IF todo[p] # <<>> THEN (IF freed[p] THEN No ELSE Head(todo[p]))
            ELSE IF pc[p] \in {"walk", "open", "chdir", "create", "mkdir", "link", "link_new", "unlink"} THEN cur[p]
            ELSE IF pc[p] \in {"exists", "link_bad", "unlink_ip"} THEN ip[p] ELSE No
Waits(p, q) == Wants(p) # No /\ q \in lock[Wants(p)]
NoLockCycle == ~\E p, q \in Proc : Waits(p, q) /\ (p = q \/ Waits(q, p))
=============================================================================
