-------------------------------- MODULE Files -------------------------------
(***************************************************************************)
(* The file table of file.c, the descriptors of sysfile.c, fork() and       *)
(* exit(), and the pipes of pipe.c.  A section under ftable.lock or a       *)
(* pipe's lock is one step; descriptors are private to their process.       *)
(* Inodes are represented by the references files hold on them.             *)
(***************************************************************************)
EXTENDS Naturals, Sequences, FiniteSets, FiniteSetsExt

CONSTANTS Proc, Init1,    \* processes; the one that runs first
          NFILE, NOFILE,
          Pipe,           \* pages kalloc() has for pipes
          Inode,
          PIPESIZE,
          W,              \* counters wrap at W, 2^32 in the code, a multiple of PIPESIZE
          Message,        \* what is written
          MaxRead,        \* the n of read()
          Programs,       \* sets of calls; the programs of a behaviour use one
          MaxKill,        \* bound: kills in one behaviour
          None

\* The code has PIPESIZE = 512 and W = 2^32.
FilesAssumption ==
  /\ IsFiniteSet(Proc) /\ NFILE \in Nat /\ NOFILE \in Nat
  /\ PIPESIZE \in Nat \ {0} /\ W \in Nat /\ W > PIPESIZE /\ W % PIPESIZE = 0
  /\ MaxRead \in Nat \ {0} /\ Message \subseteq Seq(Nat)
  /\ None \notin 1..NFILE /\ None \notin Pipe /\ None \notin Inode

File == 1..NFILE
FD == 0..(NOFILE - 1)
Cell == 0..(PIPESIZE - 1)
NoFile == [ref |-> 0, type |-> "NONE", obj |-> None, writable |-> FALSE]
NoPipe == [live |-> FALSE, nread |-> 0, nwrite |-> 0, readopen |-> FALSE, writeopen |-> FALSE,
           data |-> [c \in Cell |-> 0]]

VARIABLES
  file,      \* ftable.file[]; an end of a pipe is writable or readable; a free
             \* entry's other fields are never read
  ofile,     \* of each process
  pipe,
  iref,      \* references to each inode held through files or about to be
  pc,        \* of each process: unused, user, or where it is in a call
  todo,      \* files the call of a process still has to fileclose()
  ff,        \* fileclose()'s copy of the file whose last reference is gone
  hold,      \* references a call holds: the files of sys_pipe()
  using, buf, \* the pipe a process reads or writes; pipewrite()'s bytes not yet written
  prog,      \* the calls the programs make
  killed, kills,
  missed,    \* history: kill() came after the test of killed and before the sleep
  cut        \* history: pipes whose last pipewrite() stopped because its process was killed

fdVars == <<todo, ff, hold>>
procVars == <<prog, killed, kills, missed>>
ioVars == <<using, buf, cut>>
vars == <<file, ofile, pipe, iref, pc, fdVars, ioVars, procVars>>

Nobody == [fd \in FD |-> None]

\* The first process before it opens anything.
Init == /\ file = [f \in File |-> NoFile] /\ ofile = [p \in Proc |-> Nobody]
        /\ pipe = [x \in Pipe |-> NoPipe] /\ iref = [i \in Inode |-> 0]
        /\ pc = [p \in Proc |-> IF p = Init1 THEN "user" ELSE "unused"]
        /\ todo = [p \in Proc |-> <<>>] /\ ff = [p \in Proc |-> NoFile] /\ hold = [p \in Proc |-> <<>>]
        /\ using = [p \in Proc |-> None] /\ buf = [p \in Proc |-> <<>>]
        /\ prog \in Programs
        /\ killed = [p \in Proc |-> FALSE] /\ kills = 0 /\ missed = {} /\ cut = {}

Set(f, x, v) == [f EXCEPT ![x] = v]
Goto(p, l) == pc' = Set(pc, p, l)
\* A process that trap() finds killed makes no call; one call is over before the next.
Returning(p) == todo[p] = <<>> /\ ff[p] = NoFile /\ hold[p] = <<>>
Calls(p, call) == pc[p] = "user" /\ ~killed[p] /\ Returning(p) /\ call \in prog
\* A process about to sleep still has the pipe's lock.
Locked(x) == \E p \in Proc : pc[p] \in {"read_sleeps", "write_sleeps"} /\ using[p] = x
OpenFds(p) == {fd \in FD : ofile[p][fd] # None}

-----------------------------------------------------------------------------
(* the file table *)

\* filealloc() and fdalloc() take the first free entry.
FreeFiles == {f \in File : file[f].ref = 0}
filealloc == Min(FreeFiles)
FreeFds(p) == FD \ OpenFds(p)
fdalloc(p) == Min(FreeFds(p))

\* fileclose() on the first file of todo: the section under ftable.lock.
Dropped(f) == file[f].ref <= 1
fileclose(p) ==
  /\ todo[p] # <<>> /\ ff[p] = NoFile
  /\ LET f == Head(todo[p]) IN
     IF Dropped(f)
     THEN file' = Set(file, f, NoFile) /\ ff' = Set(ff, p, file[f])
     ELSE file' = [file EXCEPT ![f].ref = @ - 1] /\ UNCHANGED ff
  /\ todo' = Set(todo, p, Tail(todo[p]))
  /\ UNCHANGED <<ofile, pipe, iref, pc, hold, ioVars, procVars>>

\* ... and what follows it when the reference was the last: pipeclose() with its
\* wakeup() and kfree(), or iput().
bug_Woken(x, chan) == pc                            \* nobody is woken
Woken(x, chan) ==
  [p \in Proc |-> IF using[p] # x THEN pc[p]
                  ELSE IF chan = "nread" /\ pc[p] = "read_asleep" THEN "read"
                  ELSE IF chan = "nwrite" /\ pc[p] = "write_asleep" THEN "write" ELSE pc[p]]
pipeclose(x, writable) ==
  /\ LET y == IF writable THEN [pipe[x] EXCEPT !.writeopen = FALSE] ELSE [pipe[x] EXCEPT !.readopen = FALSE]
     IN  pipe' = Set(pipe, x, IF y.readopen \/ y.writeopen THEN y ELSE NoPipe)
  /\ pc' = Woken(x, IF writable THEN "nread" ELSE "nwrite")

lastclose(p) ==
  /\ ff[p] # NoFile /\ ff' = Set(ff, p, NoFile)
  /\ \/ ff[p].type = "PIPE" /\ ~Locked(ff[p].obj) /\ pipeclose(ff[p].obj, ff[p].writable) /\ UNCHANGED iref
     \/ ff[p].type = "INODE" /\ iref' = [iref EXCEPT ![ff[p].obj] = @ - 1] /\ UNCHANGED <<pipe, pc>>
     \/ ff[p].type = "NONE" /\ UNCHANGED <<pipe, iref, pc>>
  /\ UNCHANGED <<file, ofile, todo, hold, ioVars, procVars>>

-----------------------------------------------------------------------------
(* descriptors *)

sys_open(p, i) ==
  /\ Calls(p, "open")
  /\ IF FreeFiles = {} \/ FreeFds(p) = {}
     THEN UNCHANGED <<file, ofile, iref>>            \* fileclose(f), iunlockput(ip)
     ELSE /\ file' = Set(file, filealloc, [ref |-> 1, type |-> "INODE", obj |-> i, writable |-> FALSE])
          /\ ofile' = [ofile EXCEPT ![p][fdalloc(p)] = filealloc]
          /\ iref' = [iref EXCEPT ![i] = @ + 1]
  /\ UNCHANGED <<pipe, pc, fdVars, ioVars, procVars>>

sys_dup(p, fd) ==
  /\ Calls(p, "dup") /\ fd \in OpenFds(p) /\ FreeFds(p) # {}
  /\ ofile' = [ofile EXCEPT ![p][fdalloc(p)] = ofile[p][fd]]
  /\ file' = [file EXCEPT ![ofile[p][fd]].ref = @ + 1]
  /\ UNCHANGED <<pipe, iref, pc, fdVars, ioVars, procVars>>

sys_close(p, fd) ==
  /\ Calls(p, "close") /\ fd \in OpenFds(p)
  /\ ofile' = [ofile EXCEPT ![p][fd] = None] /\ todo' = Set(todo, p, <<ofile[p][fd]>>)
  /\ UNCHANGED <<file, pipe, iref, pc, ff, hold, ioVars, procVars>>

\* sys_pipe(): pipealloc() fails when it lacks a file or a page (what it has taken
\* by then it gives back), else its two ends are ready ...
pipealloc(p) ==
  /\ Calls(p, "pipe")
  /\ \E x \in {y \in Pipe : ~pipe[y].live} :
     LET rf == Min(FreeFiles)
         wf == Min(FreeFiles \ {rf})
         end == [ref |-> 1, type |-> "PIPE", obj |-> x, writable |-> FALSE]
     IN  /\ Cardinality(FreeFiles) >= 2
         /\ file' = [file EXCEPT ![rf] = end, ![wf] = [end EXCEPT !.writable = TRUE]]
         /\ pipe' = Set(pipe, x, [NoPipe EXCEPT !.live = TRUE, !.readopen = TRUE, !.writeopen = TRUE])
         /\ hold' = Set(hold, p, <<rf, wf>>)
  /\ Goto(p, "pipe") /\ UNCHANGED <<ofile, iref, todo, ff, ioVars, procVars>>

\* ... for two descriptors, or to be closed again.
bug_sys_pipe(p) ==                               \* the first descriptor is not taken back
  /\ pc[p] = "pipe" /\ Goto(p, "user") /\ hold' = Set(hold, p, <<>>)
  /\ IF FreeFds(p) = {} THEN UNCHANGED ofile
     ELSE LET one == [ofile EXCEPT ![p][fdalloc(p)] = hold[p][1]]
              left == FreeFds(p) \ {fdalloc(p)}
          IN  ofile' = IF left = {} THEN one ELSE [one EXCEPT ![p][Min(left)] = hold[p][2]]
  /\ todo' = IF Cardinality(FreeFds(p)) >= 2 THEN todo ELSE Set(todo, p, hold[p])
  /\ UNCHANGED <<file, pipe, iref, ff, ioVars, procVars>>
sys_pipe(p) ==
  /\ pc[p] = "pipe" /\ Goto(p, "user") /\ hold' = Set(hold, p, <<>>)
  /\ IF Cardinality(FreeFds(p)) >= 2
     THEN /\ ofile' = [ofile EXCEPT ![p][fdalloc(p)] = hold[p][1],
                                    ![p][Min(FreeFds(p) \ {fdalloc(p)})] = hold[p][2]]
          /\ UNCHANGED todo
     ELSE todo' = Set(todo, p, hold[p]) /\ UNCHANGED ofile
  /\ UNCHANGED <<file, pipe, iref, ff, ioVars, procVars>>

\* sys_move_file(): the source is opened ...
move_open(p, i) ==
  /\ Calls(p, "move") /\ FreeFiles # {} /\ FreeFds(p) # {}
  /\ file' = Set(file, filealloc, [ref |-> 1, type |-> "INODE", obj |-> i, writable |-> FALSE])
  /\ ofile' = [ofile EXCEPT ![p][fdalloc(p)] = filealloc]
  /\ iref' = [iref EXCEPT ![i] = @ + 1] /\ hold' = Set(hold, p, <<filealloc>>)
  /\ Goto(p, "move") /\ UNCHANGED <<pipe, todo, ff, ioVars, procVars>>

\* ... and the destination made, filled and both closed.  create() may fail, so may
\* the allocation of the destination's file, and so may a filewrite(): the last two
\* close files that ofile[] goes on naming.
move_copy(p, j) ==
  LET src == hold[p][1]
      sfd == CHOOSE fd \in FD : ofile[p][fd] = src
      dest == [ref |-> 1, type |-> "INODE", obj |-> j, writable |-> TRUE]
      room == FreeFiles # {} /\ FreeFds(p) # {}
  IN  /\ pc[p] = "move" /\ Goto(p, "user") /\ hold' = Set(hold, p, <<>>)
      /\ \/ UNCHANGED <<file, ofile, iref, todo>>
         \/ ~room /\ todo' = Set(todo, p, <<src>>) /\ UNCHANGED <<file, ofile, iref>>
         \/ /\ room /\ todo' = Set(todo, p, <<src, filealloc>>)
            /\ file' = Set(file, filealloc, dest) /\ iref' = [iref EXCEPT ![j] = @ + 1]
            /\ \/ ofile' = [ofile EXCEPT ![p][sfd] = None]
               \/ ofile' = [ofile EXCEPT ![p][fdalloc(p)] = filealloc]
      /\ UNCHANGED <<pipe, ff, ioVars, procVars>>

\* fork()'s loop of filedup() calls.
Uses(p, f) == Cardinality({fd \in FD : ofile[p][fd] = f})
fork(p, c) ==
  /\ Calls(p, "fork") /\ pc[c] = "unused"
  /\ ofile' = Set(ofile, c, ofile[p])
  /\ file' = [f \in File |-> [file[f] EXCEPT !.ref = @ + Uses(p, f)]]
  /\ Goto(c, "user") /\ UNCHANGED <<pipe, iref, fdVars, ioVars, procVars>>

\* exit(), by choice or killed: the descriptors one by one, then the slot, which
\* the parent's wait() frees.
exit(p) ==
  /\ Returning(p)
  /\ pc[p] = "exit" \/ (pc[p] = "user" /\ (killed[p] \/ p # Init1))
  /\ IF OpenFds(p) = {}
     THEN Goto(p, "unused") /\ killed' = Set(killed, p, FALSE) /\ missed' = missed \ {p}
          /\ UNCHANGED <<ofile, todo>>
     ELSE LET fd == Min(OpenFds(p)) IN
          /\ Goto(p, "exit") /\ todo' = Set(todo, p, <<ofile[p][fd]>>)
          /\ ofile' = [ofile EXCEPT ![p][fd] = None] /\ UNCHANGED <<killed, missed>>
  /\ UNCHANGED <<file, pipe, iref, ff, hold, ioVars, prog, kills>>

-----------------------------------------------------------------------------
(* pipes *)

Count(y) == (y.nwrite + W - y.nread) % W
Full(y) == y.nwrite = (y.nread + PIPESIZE) % W
Empty(y) == y.nread = y.nwrite

\* sys_read() and sys_write() on a descriptor of a pipe, up to the pipe's lock.
sys_read(p, fd) ==
  /\ Calls(p, "read") /\ fd \in OpenFds(p)
  /\ file[ofile[p][fd]].type = "PIPE" /\ ~file[ofile[p][fd]].writable
  /\ using' = Set(using, p, file[ofile[p][fd]].obj) /\ Goto(p, "read")
  /\ UNCHANGED <<file, ofile, pipe, iref, fdVars, buf, cut, procVars>>

sys_write(p, fd, m) ==
  /\ Calls(p, "write") /\ fd \in OpenFds(p)
  /\ file[ofile[p][fd]].type = "PIPE" /\ file[ofile[p][fd]].writable
  /\ using' = Set(using, p, file[ofile[p][fd]].obj) /\ buf' = Set(buf, p, m) /\ Goto(p, "write")
  /\ UNCHANGED <<file, ofile, pipe, iref, fdVars, cut, procVars>>

\* k bytes leave the pipe; bytes that have been read are forgotten.
Taken(y, k) ==
  [y EXCEPT !.data = [c \in Cell |-> IF (c + W - y.nread) % PIPESIZE < k THEN 0 ELSE @[c]],
            !.nread = (@ + k) % W]

\* piperead() from its lock to its return or its sleep.
piperead(p) ==
  /\ pc[p] = "read" /\ ~Locked(using[p])
  /\ LET x == using[p]
         k == Min({MaxRead, Count(pipe[x])})
     IN  IF Empty(pipe[x]) /\ pipe[x].writeopen
         THEN /\ IF killed[p] THEN Goto(p, "user") /\ using' = Set(using, p, None)
                 ELSE Goto(p, "read_sleeps") /\ UNCHANGED using
              /\ UNCHANGED pipe
         ELSE /\ pipe' = Set(pipe, x, Taken(pipe[x], k))
              /\ pc' = Set(Woken(x, "nwrite"), p, "user") /\ using' = Set(using, p, None)
  /\ UNCHANGED <<file, ofile, iref, fdVars, buf, cut, procVars>>

\* The bytes of m that fit, at the places nwrite points to.
bug_Put(y, m, k) ==                                   \* the index is not reduced
  [y EXCEPT !.data = [c \in Cell |-> IF c >= y.nwrite /\ c < y.nwrite + k THEN m[1 + c - y.nwrite] ELSE @[c]],
            !.nwrite = (@ + k) % W]
Put(y, m, k) ==
  [y EXCEPT !.data = [c \in Cell |-> LET j == (c + W - y.nwrite) % PIPESIZE
                                     IN  IF j < k THEN m[1 + j] ELSE @[c]],
            !.nwrite = (@ + k) % W]

\* pipewrite() from its lock, or its wakeup, to its return or its next sleep.
bug_GivesUp(p, y) == ~y.readopen                     \* killed is not tested
GivesUp(p, y) == ~y.readopen \/ killed[p]
pipewrite(p) ==
  /\ pc[p] = "write" /\ ~Locked(using[p])
  /\ LET x == using[p]
         k == Min({Len(buf[p]), PIPESIZE - Count(pipe[x])})
         y == Put(pipe[x], buf[p], k)
         rest == SubSeq(buf[p], k + 1, Len(buf[p]))
     IN  /\ pipe' = Set(pipe, x, y)
         /\ IF rest = <<>>
            THEN pc' = Set(Woken(x, "nread"), p, "user")
            ELSE IF GivesUp(p, y) THEN Goto(p, "user")
            ELSE pc' = Set(Woken(x, "nread"), p, "write_sleeps")
         /\ IF rest = <<>> \/ GivesUp(p, y)
            THEN buf' = Set(buf, p, <<>>) /\ using' = Set(using, p, None)
            ELSE buf' = Set(buf, p, rest) /\ UNCHANGED using
         /\ cut' = IF rest # <<>> /\ killed[p] THEN cut \cup {x} ELSE cut \ {x}
  /\ UNCHANGED <<file, ofile, iref, fdVars, procVars>>

\* sleep(): the lock is released and the process is asleep.
sleep(p) ==
  /\ \/ pc[p] = "read_sleeps" /\ Goto(p, "read_asleep")
     \/ pc[p] = "write_sleeps" /\ Goto(p, "write_asleep")
  /\ UNCHANGED <<file, ofile, pipe, iref, fdVars, ioVars, procVars>>

\* kill() marks a process and makes it runnable if it is asleep.
kill(p) ==
  /\ kills < MaxKill /\ pc[p] # "unused" /\ ~killed[p]
  /\ killed' = Set(killed, p, TRUE) /\ kills' = kills + 1
  /\ Goto(p, IF pc[p] = "read_asleep" THEN "read" ELSE IF pc[p] = "write_asleep" THEN "write" ELSE pc[p])
  /\ missed' = IF pc[p] \in {"read_sleeps", "write_sleeps"} THEN missed \cup {p} ELSE missed
  /\ UNCHANGED <<file, ofile, pipe, iref, fdVars, ioVars, prog>>

\* What a process does by itself once it is in a call.
Step(p) == fileclose(p) \/ lastclose(p) \/ sys_pipe(p) \/ piperead(p) \/ pipewrite(p) \/ sleep(p)
Call(p) == \/ \E i \in Inode : sys_open(p, i)
           \/ \E fd \in FD : sys_dup(p, fd) \/ sys_close(p, fd) \/ sys_read(p, fd)
           \/ \E fd \in FD, m \in Message : sys_write(p, fd, m)
           \/ pipealloc(p) \/ \E c \in Proc : fork(p, c)
Next == \E p \in Proc : Step(p) \/ Call(p) \/ exit(p) \/ kill(p)
Spec == Init /\ [][Next]_vars
\* A runnable process runs, and trap() makes a killed one exit.
Runs(p) == Step(p) \/ ((killed[p] \/ pc[p] = "exit") /\ exit(p))
FairSpec == Spec /\ \A p \in Proc : WF_vars(Runs(p))

\* ... with programs that move files.
Move == \E p \in Proc, i \in Inode : move_open(p, i) \/ move_copy(p, i)
MoveSpec == Init /\ [][Next \/ Move]_vars

-----------------------------------------------------------------------------
\* References to file f: descriptors, files a call holds and files it has yet to
\* close, these counted from the last one.
FdRefs(f) == {r \in Proc \X FD : ofile[r[1]][r[2]] = f}
HoldRefs(f) == {r \in Proc \X (1..2) : r[2] <= Len(hold[r[1]]) /\ hold[r[1]][r[2]] = f}
TodoRefs(f) == {r \in Proc \X (1..2) : /\ r[2] <= Len(todo[r[1]])
                                       /\ todo[r[1]][Len(todo[r[1]]) + 1 - r[2]] = f}
Refs(f) == Cardinality(FdRefs(f)) + Cardinality(HoldRefs(f)) + Cardinality(TodoRefs(f))

\* The ends of a pipe that a file, or a fileclose() on its way to pipeclose(), is.
End(g, x, w) == g.type = "PIPE" /\ g.obj = x /\ g.writable = w
HasEnd(x, w) == (\E f \in File : End(file[f], x, w)) \/ (\E p \in Proc : End(ff[p], x, w))

\* f->ref is the number of references at every moment, through dup(), fork(), exit()
\* and the error paths of pipe(); so is the count on the inodes behind files.  An end of
\* a pipe is open exactly while somebody has it, and the page of a pipe lives as long.
RefCounts ==
  /\ \A f \in File : file[f].ref = Refs(f)
  /\ \A i \in Inode : iref[i] =
       Cardinality({f \in File : file[f].type = "INODE" /\ file[f].obj = i})
       + Cardinality({p \in Proc : ff[p].type = "INODE" /\ ff[p].obj = i})
  /\ \A x \in Pipe : /\ pipe[x].readopen = HasEnd(x, FALSE) /\ pipe[x].writeopen = HasEnd(x, TRUE)
                     /\ pipe[x].live = (pipe[x].readopen \/ pipe[x].writeopen)

\* A file about to be closed is in use: fileclose() does not reach panic("fileclose").
NoClosePanic == \A p \in Proc : todo[p] # <<>> => file[Head(todo[p])].ref >= 1

\* A reader sleeps only while a writer may come and nothing is there, a writer only
\* while a reader may come and nothing fits.  The exception is a killed writer, which
\* leaves what it has written without waking the readers; the next writer does.
NoSleeperLost == \A p \in Proc :
  /\ pc[p] = "read_asleep" => LET y == pipe[using[p]] IN
       y.writeopen /\ (Empty(y) \/ using[p] \in cut)
  /\ pc[p] = "write_asleep" => LET y == pipe[using[p]] IN
       /\ y.readopen /\ Full(y)
       /\ \A q \in Proc : ~(using[q] = using[p] /\ pc[q] = "read_asleep")

\* Every pipe is a bounded channel, whatever its counters have wrapped to.
Ring(y) == [i \in 1..Count(y) |-> y.data[(y.nread + i - 1) % PIPESIZE]]
Chan == INSTANCE Channel WITH Capacity <- PIPESIZE, open <- {x \in Pipe : pipe[x].live},
                              queue <- [x \in Pipe |-> Ring(pipe[x])], out <- buf
FIFO == Chan!Spec

\* A killed process leaves, with all its descriptors closed, wherever in a pipe it
\* was when kill() found it: asleep, or anywhere but just before the sleep.  Nothing
\* clears killed but the last step of exit(), so who is not killed any more has left.
KilledLeaves == \A p \in Proc : []<>(~killed[p] \/ p \in missed)
=============================================================================
