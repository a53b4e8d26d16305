----------------------------- MODULE FilesProofs ----------------------------
(***************************************************************************)
(* Proofs about the pipes, and the theorems about Files: a pipe holds no   *)
(* more than it has room for, nobody sleeps in one that has what they wait *)
(* for, and every pipe is a bounded FIFO channel.                          *)
(***************************************************************************)
EXTENDS FilesCountProofs

-----------------------------------------------------------------------------
(* Sleepers *)

\* No step puts more into a pipe than it has room for.
LEMMA CountStep == ASSUME FilesAssumption, IInv, Next PROVE CountInv'
<1> USE DEF fdVars, ioVars, procVars
<1>0. TypeOK /\ CountInv /\ PIPESIZE \in Nat /\ W \in Nat /\ W > PIPESIZE
  BY Zenon, Numbers DEF IInv
<1>1. Count(NoPipe) <= PIPESIZE /\ Count(NewPipe) <= PIPESIZE
  BY SMTT(40), <1>0 DEF Count, NoPipe, NewPipe
<1>2. ASSUME NEW p \in Proc, lastclose(p) PROVE CountInv'
  <2>1. CASE pipe' = pipe
    BY Zenon, <1>0, <2>1 DEF CountInv
  <2>2. CASE pipeclose(ff[p].obj, ff[p].writable)
    <3> DEFINE x == ff[p].obj
               y == IF ff[p].writable THEN [pipe[x] EXCEPT !.writeopen = FALSE]
                    ELSE [pipe[x] EXCEPT !.readopen = FALSE]
    <3>1. pipe' = Set(pipe, x, IF y.readopen \/ y.writeopen THEN y ELSE NoPipe)
      BY Zenon, <2>2 DEF pipeclose
    <3>2. ASSUME NEW z \in Pipe PROVE Count(pipe'[z]) <= PIPESIZE
      <4>1. pipe[z] \in PipeRec /\ Count(pipe[z]) <= PIPESIZE
        BY Zenon, <1>0 DEF TypeOK, CountInv
      <4>2. CASE z # x
        BY SMTT(40), <1>0, <3>1, <4>1, <4>2 DEF TypeOK, Set
      <4>3. CASE z = x
        <5>1. pipe'[z] = y \/ pipe'[z] = NoPipe
          BY ZenonT(40), <1>0, <3>1, <4>3 DEF TypeOK, Set
        <5>2. y.nread = pipe[z].nread /\ y.nwrite = pipe[z].nwrite
          BY <4>1, <4>3 DEF PipeRec
        <5>3. Count(y) = Count(pipe[z])
          BY Zenon, <5>2 DEF Count
        <5> QED BY SMTT(40), <1>1, <4>1, <5>1, <5>3
      <4> QED BY Zenon, <4>2, <4>3
    <3> QED BY Zenon, <3>2 DEF CountInv
  <2> QED BY Zenon, <1>2, <2>1, <2>2 DEF lastclose
<1>3. ASSUME NEW p \in Proc, pipealloc(p) PROVE CountInv'
  <2>1. PICK x \in Pipe, rf \in File, wf \in File : Allocated(p, x, rf, wf)
    BY Zenon, <1>3, PipeAlloc
  <2> QED BY SMTT(40), <1>0, <1>1, <2>1 DEF Allocated, Set, CountInv, TypeOK
<1>4. ASSUME NEW p \in Proc, piperead(p) \/ pipewrite(p) PROVE CountInv'
  BY SMTT(40), <1>4, ReadFacts, WriteFacts
<1>5. ASSUME NEW p \in Proc,
             \/ fileclose(p) \/ sys_pipe(p) \/ sleep(p) \/ exit(p) \/ kill(p)
             \/ \E i \in Inode : sys_open(p, i)
             \/ \E fd \in FD : sys_dup(p, fd) \/ sys_close(p, fd) \/ sys_read(p, fd)
             \/ \E fd \in FD, m \in Message : sys_write(p, fd, m)
             \/ \E c \in Proc : fork(p, c)
      PROVE  CountInv'
  <2>1. pipe' = pipe
    BY ZenonT(40), <1>5 DEF fileclose, sys_pipe, sleep, exit, kill, sys_open, sys_dup,
       sys_close, sys_read, sys_write, fork
  <2> QED BY SMTT(40), <1>0, <2>1 DEF CountInv
<1> QED BY SMTT(40), <1>2, <1>3, <1>4, <1>5 DEF Next, Step, Call

\* In the next state q does not sleep, or it sleeps as it did on the same pipe.
Rests(q) == \/ pc'[q] \notin ReadSleeps \cup WriteSleeps
            \/ /\ pc'[q] \in ReadSleeps => pc[q] \in ReadSleeps
               /\ pc'[q] \in WriteSleeps => pc[q] \in WriteSleeps
               /\ using'[q] = using[q] /\ pipe'[using[q]] = pipe[using[q]]

\* A step that leaves the sleepers and their pipes alone.
LEMMA SleepSame ==
  ASSUME SleepInv, UNCHANGED cut, \A q \in Proc : Rests(q)
  PROVE  SleepInv'
<1> SUFFICES ASSUME NEW q \in Proc PROVE Sleeps(q)'
  BY Zenon DEF SleepInv
<1>1. Sleeps(q) /\ Rests(q)
  BY Zenon DEF SleepInv
<1>2. ASSUME pc'[q] \in ReadSleeps
      PROVE  pipe'[using'[q]].writeopen /\ (Empty(pipe'[using'[q]]) \/ using'[q] \in cut')
  BY Zenon, <1>1, <1>2 DEF Sleeps, Rests
<1>3. ASSUME pc'[q] \in WriteSleeps
      PROVE  /\ pipe'[using'[q]].readopen /\ Full(pipe'[using'[q]])
             /\ \A r \in Proc : using'[r] = using'[q] => pc'[r] \notin ReadSleeps
  <2>1. pc[q] \in WriteSleeps /\ using'[q] = using[q] /\ pipe'[using[q]] = pipe[using[q]]
    BY Zenon, <1>1, <1>3 DEF Rests
  <2>2. ASSUME NEW r \in Proc, using'[r] = using'[q], pc'[r] \in ReadSleeps PROVE FALSE
    <3>1. pc[r] \in ReadSleeps /\ using'[r] = using[r]
      BY Zenon, <2>2 DEF Rests
    <3> QED BY SMTT(40), <1>1, <2>1, <2>2, <3>1 DEF Sleeps
  <2> QED BY Zenon, <1>1, <2>1, <2>2 DEF Sleeps
<1>4. Empty(pipe[using[q]])' <=> Empty(pipe'[using'[q]])
  BY Zenon DEF Empty
<1>5. Full(pipe[using[q]])' <=> Full(pipe'[using'[q]])
  BY Zenon DEF Full
<1> QED BY SMTT(40), <1>1, <1>2, <1>3, <1>4, <1>5 DEF Sleeps

\* Who is about to sleep has the lock of the pipe.
LEMMA LockedOut ==
  ASSUME NEW x, ~Locked(x), NEW q \in Proc, using[q] = x
  PROVE  /\ pc[q] \in ReadSleeps => pc[q] = "read_asleep"
         /\ pc[q] \in WriteSleeps => pc[q] = "write_asleep"
BY Zenon DEF Locked, ReadSleeps, WriteSleeps

\* A process woken does not sleep, and no other wakes or sleeps.
LEMMA AwokeSleeps ==
  ASSUME NEW q, pc'[q] = pc[q] \/ (pc[q] = "read_asleep" /\ pc'[q] = "read")
                \/ (pc[q] = "write_asleep" /\ pc'[q] = "write")
  PROVE  /\ pc'[q] \in ReadSleeps => pc'[q] = pc[q]
         /\ pc'[q] \in WriteSleeps => pc'[q] = pc[q]
BY Zenon DEF ReadSleeps, WriteSleeps

\* The last close of an end wakes who waits for it, and only those can be there.
LEMMA CloseSleeps == ASSUME FilesAssumption, IInv, NEW p \in Proc, lastclose(p) PROVE SleepInv'
<1>0. /\ TypeOK /\ TableInv /\ EndInv /\ UserInv /\ SleepInv
      /\ UNCHANGED <<using, cut>>
  BY Zenon DEF IInv, lastclose, ioVars, procVars
<1>2. CASE pipe' = pipe /\ pc' = pc
  BY SMTT(40), <1>0, <1>2, SleepSame DEF Rests
<1>3. CASE ff[p].type = "PIPE" /\ ~Locked(ff[p].obj) /\ pipeclose(ff[p].obj, ff[p].writable)
  <2> DEFINE x == ff[p].obj
  <2>1. x \in Pipe /\ ff[p].writable \in BOOLEAN
    BY Zenon, <1>0, <1>3 DEF TableInv, Names, TypeOK, FileRec
  <2>2. \A z \in Pipe \ {x} : pipe'[z] = pipe[z]
    BY Zenon, <1>0, <1>3 DEF pipeclose, Set, TypeOK
  <2>3. OneEnd(x, TRUE) /\ OneEnd(x, FALSE)
    BY ZenonT(40), <1>0, <2>1 DEF EndInv, PipeEnds
  <2>4. ASSUME NEW q \in Proc, using[q] = x
        PROVE  pc'[q] \notin ReadSleeps \cup WriteSleeps
    <3>1. /\ pc[q] \in ReadSleeps => pc[q] = "read_asleep"
          /\ pc[q] \in WriteSleeps => pc[q] = "write_asleep"
      BY SMTT(40), <1>3, <2>4, LockedOut
    <3>2. pc'[q] = pc[q] \/ (pc[q] = "read_asleep" /\ pc'[q] = "read")
                \/ (pc[q] = "write_asleep" /\ pc'[q] = "write")
      BY SMTT(40), <1>0, <1>3, WokenFacts DEF pipeclose, Awoke
    <3>3. CASE ff[p].writable
      <4>1. pc'[q] # "read_asleep"
        BY SMTT(40), <1>0, <1>3, <2>4, <3>3, WokenFacts DEF pipeclose
      <4>2. End(ff[p], x, TRUE)
        BY SMTT(40), <1>3, <2>1, <3>3 DEF End
      <4>3. pc[q] \notin Writing
        BY ZenonT(40), <1>0, <2>3, <2>4, <4>2 DEF UserInv, HasOpen, OneEnd
      <4> QED BY ZenonT(40), <3>1, <3>2, <4>1, <4>3, AwokeSleeps DEF Writing, WriteSleeps, ReadSleeps
    <3>4. CASE ~ff[p].writable
      <4>1. pc'[q] # "write_asleep"
        BY SMTT(40), <1>0, <1>3, <2>4, <3>4, WokenFacts DEF pipeclose
      <4>2. End(ff[p], x, FALSE)
        BY SMTT(40), <1>3, <2>1, <3>4 DEF End
      <4>3. pc[q] \notin Reading
        BY ZenonT(40), <1>0, <2>3, <2>4, <4>2 DEF UserInv, HasOpen, OneEnd
      <4> QED BY SMTT(40), <3>1, <3>2, <4>1, <4>3, AwokeSleeps DEF Reading, WriteSleeps, ReadSleeps
    <3> QED BY Zenon, <3>3, <3>4
  <2>5. ASSUME NEW q \in Proc, using[q] # x PROVE Rests(q)
    <3>1. pc'[q] = pc[q]
      BY SMTT(40), <1>0, <1>3, <2>5, WokenFacts DEF pipeclose
    <3>2. pc[q] \in ReadSleeps \cup WriteSleeps => using[q] \in Pipe
      BY Zenon, <1>0, InUse DEF ReadSleeps, WriteSleeps, Reading, Writing
    <3> QED BY SMTT(40), <1>0, <2>2, <2>5, <3>1, <3>2 DEF Rests
  <2>6. \A q \in Proc : Rests(q)
    BY Zenon, <2>4, <2>5 DEF Rests
  <2> QED BY SMTT(40), <1>0, <2>6, SleepSame
<1> QED BY Zenon, <1>2, <1>3 DEF lastclose

\* pipealloc() takes a page that no process uses.
LEMMA AllocSleeps == ASSUME FilesAssumption, IInv, NEW p \in Proc, pipealloc(p) PROVE SleepInv'
<1>0. /\ TypeOK /\ TableInv /\ EndInv /\ UserInv /\ SleepInv
      /\ UNCHANGED <<using, cut>>
      /\ pc'[p] = "pipe" /\ \A q \in Proc \ {p} : pc'[q] = pc[q]
  BY DEF IInv, pipealloc, ioVars, procVars, Goto, Set, TypeOK
<1>2. PICK x \in Pipe, rf \in File, wf \in File : Allocated(p, x, rf, wf)
  BY Zenon, PipeAlloc
<1>3. (\A z \in Pipe \ {x} : pipe'[z] = pipe[z]) /\ ~pipe[x].live
  BY Zenon, <1>0, <1>2 DEF Allocated, Set, TypeOK
<1>4. ~pipe[x].readopen /\ ~pipe[x].writeopen
  BY ZenonT(40), <1>0, <1>3 DEF EndInv, PipeEnds
<1>5. ASSUME NEW q \in Proc, q # p PROVE Rests(q)
  <2>1. pc[q] \in ReadSleeps \cup WriteSleeps => using[q] \in Pipe /\ using[q] # x
    BY SMTT(40), <1>0, <1>4, InUse DEF ReadSleeps, WriteSleeps, Reading, Writing
  <2> QED BY SMTT(40), <1>0, <1>3, <1>5, <2>1 DEF Rests
<1>6. Rests(p)
  BY Zenon, <1>0 DEF Rests, ReadSleeps, WriteSleeps
<1> QED BY SMTT(40), <1>0, <1>5, <1>6, SleepSame

\* piperead() sleeps at an empty pipe, where no writer sleeps, and wakes the writers
\* when it has taken something.
LEMMA ReadSleep == ASSUME FilesAssumption, IInv, NEW p \in Proc, piperead(p) PROVE SleepInv'
<1>0. /\ TypeOK /\ CountInv /\ SleepInv /\ UNCHANGED cut /\ pc[p] = "read"
      /\ ~Locked(using[p])
  BY Zenon DEF IInv, piperead, procVars
<1> DEFINE x == using[p]
           k == Min({MaxRead, Count(pipe[x])})
<1>2. /\ x \in Pipe /\ pipe[x] \in PipeRec /\ Count(pipe[x]) <= PIPESIZE
      /\ pipe[x].nread \in 0..(W - 1) /\ pipe[x].nwrite \in 0..(W - 1)
  BY ZenonT(40), <1>0, InUse DEF IInv, Reading, TypeOK, CountInv, PipeRec
<1>3. CASE Empty(pipe[x]) /\ pipe[x].writeopen /\ killed[p]
  <2>1. pipe' = pipe /\ pc' = Set(pc, p, "user") /\ using' = Set(using, p, None)
    BY Zenon, <1>3 DEF piperead, Goto
  <2>2. pc'[p] = "user" /\ \A q \in Proc \ {p} : pc'[q] = pc[q] /\ using'[q] = using[q]
    BY Zenon, <1>0, <2>1 DEF Set, TypeOK
  <2>3. \A q \in Proc : Rests(q)
    BY Zenon, <2>1, <2>2 DEF Rests, ReadSleeps, WriteSleeps
  <2> QED BY SMTT(40), <1>0, <2>3, SleepSame
<1>4. CASE Empty(pipe[x]) /\ pipe[x].writeopen /\ ~killed[p]
  <2>1. pipe' = pipe /\ pc' = Set(pc, p, "read_sleeps") /\ using' = using
    BY Zenon, <1>4 DEF piperead, Goto
  <2>2. pc'[p] = "read_sleeps" /\ \A q \in Proc \ {p} : pc'[q] = pc[q]
    BY Zenon, <1>0, <2>1 DEF Set, TypeOK
  <2>3. ~Full(pipe[x])
    BY SMTT(40), <1>2, <1>4, Fill, Numbers
  <2>4. ASSUME NEW q \in Proc PROVE Sleeps(q)'
    <3>1. CASE q = p
      BY SMTT(40), <1>0, <1>4, <2>1, <2>2, <3>1 DEF Sleeps, ReadSleeps, WriteSleeps, Empty
    <3>2. CASE q # p
      <4>1. Sleeps(q) /\ pc'[q] = pc[q]
        BY SMTT(40), <1>0, <2>2, <3>2 DEF SleepInv
      <4>2. pc[q] \in WriteSleeps => using[q] # using[p]
        BY Zenon, <2>3, <4>1 DEF Sleeps
      <4>3. pc[q] \in WriteSleeps =>
              \A r \in Proc : using'[r] = using'[q] => pc'[r] \notin ReadSleeps
        BY SMTT(40), <2>1, <2>2, <4>1, <4>2 DEF Sleeps
      <4> QED BY SMTT(40), <1>0, <2>1, <4>1, <4>3 DEF Sleeps, Empty, Full
    <3> QED BY ZenonT(40), <3>1, <3>2
  <2> QED BY Zenon, <2>4 DEF SleepInv
<1>5. CASE ~(Empty(pipe[x]) /\ pipe[x].writeopen)
  <2>1. /\ pipe' = Set(pipe, x, Taken(pipe[x], k))
        /\ pc' = Set(Woken(x, "nwrite"), p, "user") /\ using' = Set(using, p, None)
    BY Zenon, <1>5 DEF piperead
  <2>2. /\ Taken(pipe[x], k).writeopen = pipe[x].writeopen
        /\ Empty(pipe[x]) => Empty(Taken(pipe[x], k))
    BY Zenon, <1>2, TakenFacts
  <2>3. /\ Awoke(Proc, pc, Woken(x, "nwrite")) /\ Woken(x, "nwrite") \in [Proc -> Places]
        /\ \A q \in Proc : using[q] = x => Woken(x, "nwrite")[q] # "write_asleep"
    BY ZenonT(40), <1>0, WokenFacts
  <2>4. /\ pc'[p] = "user" /\ \A q \in Proc \ {p} : pc'[q] = Woken(x, "nwrite")[q]
        /\ \A q \in Proc \ {p} : using'[q] = using[q]
        /\ pipe'[x] = Taken(pipe[x], k) /\ \A z : z # x /\ z \in Pipe => pipe'[z] = pipe[z]
    BY SMTT(40), <1>0, <1>2, <2>1, <2>3 DEF Set, TypeOK
  <2> HIDE DEF k
  <2>5. ASSUME NEW q \in Proc, q # p
        PROVE  /\ pc'[q] \in ReadSleeps => pc'[q] = pc[q]
               /\ pc'[q] \in WriteSleeps => pc'[q] = pc[q] /\ using[q] # x
    <3>1. pc'[q] = pc[q] \/ (pc[q] = "read_asleep" /\ pc'[q] = "read")
                \/ (pc[q] = "write_asleep" /\ pc'[q] = "write")
      BY ZenonT(40), <2>3, <2>4, <2>5 DEF Awoke
    <3>2. using[q] = x => pc'[q] # "write_asleep"
      BY ZenonT(40), <2>3, <2>4, <2>5
    <3>3. using[q] = x /\ pc[q] \in WriteSleeps => pc[q] = "write_asleep"
      BY SMTT(40), <1>0, LockedOut
    <3> QED BY SMTT(40), <3>1, <3>2, <3>3, AwokeSleeps
  <2>6. ASSUME NEW q \in Proc PROVE Sleeps(q)'
    <3>1. CASE q = p
      BY SMTT(40), <2>4, <3>1 DEF Sleeps, ReadSleeps, WriteSleeps
    <3>2. CASE q # p
      <4>1. Sleeps(q) /\ using'[q] = using[q]
        BY SMTT(40), <1>0, <2>4, <3>2 DEF SleepInv
      <4>2. pc[q] \in ReadSleeps \cup WriteSleeps => using[q] \in Pipe
        BY SMTT(40), <1>0, InUse DEF IInv, ReadSleeps, WriteSleeps, Reading, Writing
      <4>3. ASSUME pc'[q] \in ReadSleeps
            PROVE  pipe'[using[q]].writeopen /\ (Empty(pipe'[using[q]]) \/ using[q] \in cut)
        <5>1. pc[q] \in ReadSleeps
          BY SMTT(40), <2>5, <3>2, <4>3
        <5>2. CASE using[q] = x
          BY SMTT(40), <2>2, <2>4, <4>1, <5>1, <5>2 DEF Sleeps
        <5>3. CASE using[q] # x
          BY SMTT(40), <2>4, <4>1, <4>2, <5>1, <5>3 DEF Sleeps
        <5> QED BY Zenon, <5>2, <5>3
      <4>4. ASSUME pc'[q] \in WriteSleeps
            PROVE  /\ pipe'[using[q]] = pipe[using[q]] /\ pc[q] \in WriteSleeps
                   /\ \A r \in Proc : using'[r] = using[q] => pc'[r] \notin ReadSleeps
        <5>1. pc[q] \in WriteSleeps /\ using[q] # x
          BY SMTT(40), <2>5, <3>2, <4>4
        <5>2. ASSUME NEW r \in Proc, using'[r] = using[q], pc'[r] \in ReadSleeps PROVE FALSE
          <6>1. r # p
            BY ZenonT(40), <2>4, <5>2 DEF ReadSleeps
          <6>2. pc[r] \in ReadSleeps /\ using[r] = using[q]
            BY SMTT(40), <2>4, <2>5, <5>2, <6>1
          <6> QED BY SMTT(40), <4>1, <5>1, <6>2 DEF Sleeps
        <5> QED BY SMTT(40), <2>4, <4>2, <5>1, <5>2
      <4> QED BY SMTT(40), <1>0, <4>1, <4>3, <4>4 DEF Sleeps, Empty, Full
    <3> QED BY Zenon, <3>1, <3>2
  <2> QED BY Zenon, <2>6 DEF SleepInv
<1> QED BY SMTT(40), <1>3, <1>4, <1>5

\* pipewrite() sleeps at a full pipe, where it leaves no reader asleep.
LEMMA WriteSleep == ASSUME FilesAssumption, IInv, NEW p \in Proc, pipewrite(p) PROVE SleepInv'
<1>0. /\ TypeOK /\ CountInv /\ SleepInv /\ pc[p] = "write"
      /\ ~Locked(using[p]) /\ TableInv /\ EndInv /\ UserInv
  BY Zenon DEF IInv, pipewrite, procVars
<1> DEFINE x == using[p]
           k == Min({Len(buf[p]), PIPESIZE - Count(pipe[x])})
           y == Put(pipe[x], buf[p], k)
           rest == SubSeq(buf[p], k + 1, Len(buf[p]))
<1>2. x \in Pipe /\ pipe[x] \in PipeRec /\ Count(pipe[x]) <= PIPESIZE /\ buf[p] \in Seq(Nat)
  BY ZenonT(40), <1>0, InUse DEF Writing, TypeOK, CountInv
<1>3. /\ k \in 0..Len(buf[p]) /\ Len(buf[p]) \in Nat
      /\ y.readopen = pipe[x].readopen /\ y.writeopen = pipe[x].writeopen
      /\ k < Len(buf[p]) => Full(y)
      /\ Full(pipe[x]) => Full(y)
  BY SMTT(40), <1>2, PutFacts
<1>4. rest # <<>> => Full(y)
  <2> HIDE DEF k, y
  <2>1. k < Len(buf[p]) \/ k = Len(buf[p])
    BY SMTT(40), <1>3
  <2>2. k = Len(buf[p]) => rest = <<>>
    BY Zenon, <1>2, NoRest
  <2> QED BY SMTT(40), <1>3, <2>1, <2>2
<1>5. /\ pipe' = Set(pipe, x, y)
      /\ cut' = IF rest # <<>> /\ killed[p] THEN cut \cup {x} ELSE cut \ {x}
      /\ \/ pc' = Set(Woken(x, "nread"), p, "user") /\ using' = Set(using, p, None)
         \/ /\ rest # <<>> /\ GivesUp(p, y)
            /\ pc' = Set(pc, p, "user") /\ using' = Set(using, p, None)
         \/ /\ rest # <<>> /\ ~GivesUp(p, y)
            /\ pc' = Set(Woken(x, "nread"), p, "write_sleeps") /\ using' = using
  BY ZenonT(40) DEF pipewrite, Goto
<1>6. /\ Awoke(Proc, pc, Woken(x, "nread")) /\ Woken(x, "nread") \in [Proc -> Places]
      /\ \A q \in Proc : using[q] = x => Woken(x, "nread")[q] # "read_asleep"
  BY ZenonT(40), <1>0, WokenFacts
<1> HIDE DEF k, y, rest
<1>7. /\ \A q \in Proc \ {p} : using'[q] = using[q]
      /\ pipe'[x] = y /\ \A z : z # x /\ z \in Pipe => pipe'[z] = pipe[z]
      /\ \/ pc'[p] = "user"
         \/ pc'[p] = "write_sleeps" /\ Full(y) /\ y.readopen /\ using'[p] = x
  BY SMTT(40), <1>0, <1>2, <1>4, <1>5, <1>6 DEF Set, TypeOK, GivesUp
<1>c. \A z : z # x /\ z \in cut => z \in cut'
  BY ZenonT(40), <1>5
<1>8. \/ \A q \in Proc \ {p} : pc'[q] = Woken(x, "nread")[q]
      \/ /\ pc'[p] = "user" /\ (~pipe[x].readopen \/ x \in cut')
         /\ \A q \in Proc \ {p} : pc'[q] = pc[q]
  BY SMTT(40), <1>0, <1>3, <1>5, <1>6 DEF Set, TypeOK, GivesUp
<1>9. ASSUME NEW q \in Proc, q # p
      PROVE  /\ pc'[q] \in ReadSleeps => pc'[q] = pc[q]
             /\ pc'[q] \in WriteSleeps => pc'[q] = pc[q]
             /\ pc'[q] \in ReadSleeps /\ using[q] = x => x \in cut' /\ pc'[p] = "user"
  <2>1. pc'[q] = pc[q] \/ (pc[q] = "read_asleep" /\ pc'[q] = "read")
              \/ (pc[q] = "write_asleep" /\ pc'[q] = "write")
    BY SMTT(40), <1>6, <1>8, <1>9 DEF Awoke
  <2>2. /\ pc'[q] \in ReadSleeps => pc'[q] = pc[q]
        /\ pc'[q] \in WriteSleeps => pc'[q] = pc[q]
    BY ZenonT(40), <2>1, AwokeSleeps
  <2>3. ASSUME pc'[q] \in ReadSleeps, using[q] = x PROVE x \in cut' /\ pc'[p] = "user"
    <3>1. pc[q] = "read_asleep" /\ pc'[q] = "read_asleep"
      BY SMTT(40), <1>0, <2>2, <2>3, LockedOut
    <3>2. pc'[q] # Woken(x, "nread")[q]
      BY SMTT(40), <1>6, <2>3, <3>1
    <3>3. pipe[x].readopen
      BY SMTT(40), <1>0, <2>3, <3>1, InUse DEF Reading
    <3> QED BY SMTT(40), <1>8, <1>9, <3>2, <3>3
  <2> QED BY ZenonT(40), <2>2, <2>3
<1>10. ASSUME NEW q \in Proc PROVE Sleeps(q)'
  <2>1. CASE q = p /\ pc'[p] = "user"
    BY Zenon, <2>1 DEF Sleeps, ReadSleeps, WriteSleeps
  <2>2. CASE q = p /\ pc'[p] = "write_sleeps"
    <3>1. Full(y) /\ y.readopen /\ using'[p] = x /\ pipe'[x] = y
      BY Zenon, <1>7, <2>2
    <3>2. ASSUME NEW r \in Proc, using'[r] = x, pc'[r] \in ReadSleeps PROVE FALSE
      <4>1. r # p
        BY Zenon, <2>2, <3>2 DEF ReadSleeps
      <4> QED BY ZenonT(40), <1>7, <1>9, <2>2, <3>2, <4>1
    <3>3. pc'[p] \notin ReadSleeps
      BY Zenon, <2>2 DEF ReadSleeps
    <3> QED BY SMTT(40), <2>2, <3>1, <3>2, <3>3 DEF Sleeps, Full
  <2>3. CASE q # p
    <3>1. Sleeps(q) /\ using'[q] = using[q]
      BY SMTT(40), <1>0, <1>7, <2>3 DEF SleepInv
    <3>2. pc[q] \in ReadSleeps \cup WriteSleeps => using[q] \in Pipe
      BY Zenon, <1>0, InUse DEF ReadSleeps, WriteSleeps, Reading, Writing
    <3>3. ASSUME pc'[q] \in ReadSleeps
          PROVE  pipe'[using[q]].writeopen /\ (Empty(pipe'[using[q]]) \/ using[q] \in cut')
      <4>1. pc[q] \in ReadSleeps
        BY SMTT(40), <1>9, <2>3, <3>3
      <4>2. CASE using[q] = x
        BY SMTT(40), <1>3, <1>7, <1>9, <2>3, <3>1, <3>3, <4>1, <4>2 DEF Sleeps
      <4>3. CASE using[q] # x
        BY ZenonT(40), <1>7, <1>c, <3>1, <3>2, <4>1, <4>3 DEF Sleeps
      <4> QED BY ZenonT(40), <4>2, <4>3
    <3>4. ASSUME pc'[q] \in WriteSleeps
          PROVE  /\ pipe'[using[q]].readopen /\ Full(pipe'[using[q]])
                 /\ \A r \in Proc : using'[r] = using[q] => pc'[r] \notin ReadSleeps
      <4>1. pc[q] \in WriteSleeps
        BY SMTT(40), <1>9, <2>3, <3>4
      <4>2. pipe'[using[q]].readopen /\ Full(pipe'[using[q]])
        <5>1. CASE using[q] = x
          BY SMTT(40), <1>3, <1>7, <3>1, <4>1, <5>1 DEF Sleeps
        <5>2. CASE using[q] # x
          BY SMTT(40), <1>7, <3>1, <3>2, <4>1, <5>2 DEF Sleeps
        <5> QED BY ZenonT(40), <5>1, <5>2
      <4>3. ASSUME NEW r \in Proc, using'[r] = using[q], pc'[r] \in ReadSleeps PROVE FALSE
        <5>1. r # p
          BY ZenonT(40), <1>7, <4>3 DEF ReadSleeps
        <5>2. pc[r] \in ReadSleeps /\ using[r] = using[q]
          BY SMTT(40), <1>7, <1>9, <4>3, <5>1
        <5> QED BY SMTT(40), <3>1, <4>1, <5>2 DEF Sleeps
      <4> QED BY Zenon, <4>2, <4>3
    <3> QED BY ZenonT(40), <1>0, <3>1, <3>3, <3>4 DEF Sleeps, Empty, Full
  <2> QED BY SMTT(40), <1>7, <2>1, <2>2, <2>3
<1> QED BY Zenon, <1>10 DEF SleepInv

\* Every step that ends what a process sleeps for wakes it up.
LEMMA SleepStep == ASSUME FilesAssumption, IInv, Next PROVE SleepInv'
<1> USE DEF fdVars, ioVars, procVars
<1>0. TypeOK /\ UserInv /\ SleepInv
  BY Zenon DEF IInv
<1>u. {"user", "pipe", "unused", "exit", "read", "write"} \cap (ReadSleeps \cup WriteSleeps) = {}
  BY Zenon DEF ReadSleeps, WriteSleeps
<1>1. ASSUME UNCHANGED <<cut, pipe>>, NEW p \in Proc,
             pc'[p] \notin ReadSleeps \cup WriteSleeps,
             \A q \in Proc \ {p} : pc'[q] = pc[q] /\ using'[q] = using[q]
      PROVE  SleepInv'
  <2>1. \A q \in Proc : Rests(q)
    BY Zenon, <1>1 DEF Rests
  <2> QED BY SMTT(40), <1>0, <1>1, <2>1, SleepSame
<1>2. ASSUME UNCHANGED <<cut, pipe, pc, using>> PROVE SleepInv'
  <2>1. \A q \in Proc : Rests(q)
    BY Zenon, <1>2 DEF Rests
  <2> QED BY SMTT(40), <1>0, <1>2, <2>1, SleepSame
<1>3. ASSUME NEW p \in Proc,
             \/ fileclose(p) \/ \E i \in Inode : sys_open(p, i)
             \/ \E fd \in FD : sys_dup(p, fd) \/ sys_close(p, fd)
      PROVE  SleepInv'
  BY ZenonT(40), <1>2, <1>3 DEF fileclose, sys_open, sys_dup, sys_close
<1>4. ASSUME NEW p \in Proc, sys_pipe(p) PROVE SleepInv'
  <2>1. /\ UNCHANGED <<cut, pipe, using>> /\ pc'[p] = "user"
        /\ \A q \in Proc \ {p} : pc'[q] = pc[q]
    BY SMTT(40), <1>0, <1>4 DEF sys_pipe, Goto, Set, TypeOK
  <2> QED BY SMTT(40), <1>u, <1>1, <2>1
<1>5. ASSUME NEW p \in Proc,
             \/ \E fd \in FD : sys_read(p, fd)
             \/ \E fd \in FD, m \in Message : sys_write(p, fd, m)
      PROVE  SleepInv'
  <2>1. /\ UNCHANGED <<cut, pipe>> /\ pc'[p] \in {"read", "write"}
        /\ \A q \in Proc \ {p} : pc'[q] = pc[q] /\ using'[q] = using[q]
    BY ZenonT(40), <1>0, <1>5 DEF sys_read, sys_write, Goto, Set, TypeOK
  <2> QED BY ZenonT(40), <1>u, <1>1, <2>1
<1>6. ASSUME NEW p \in Proc, NEW c \in Proc, fork(p, c) PROVE SleepInv'
  <2>1. /\ UNCHANGED <<cut, pipe, using>> /\ pc'[c] = "user"
        /\ \A q \in Proc \ {c} : pc'[q] = pc[q]
    BY SMTT(40), <1>0, <1>6 DEF fork, Goto, Set, TypeOK
  <2> QED BY ZenonT(40), <1>u, <1>1, <2>1
<1>7. ASSUME NEW p \in Proc, exit(p) PROVE SleepInv'
  <2>1. /\ UNCHANGED <<cut, pipe, using>> /\ pc'[p] \in {"unused", "exit"}
        /\ \A q \in Proc \ {p} : pc'[q] = pc[q]
    BY SMTT(40), <1>0, <1>7 DEF exit, Goto, Set, TypeOK
  <2>3. \A q \in Proc : Rests(q)
    BY Zenon, <1>u, <2>1 DEF Rests
  <2> QED BY SMTT(40), <1>0, <2>1, <2>3, SleepSame
<1>8. ASSUME NEW p \in Proc, kill(p) PROVE SleepInv'
  <2>1. /\ UNCHANGED <<cut, pipe, using>>
        /\ \A q \in Proc \ {p} : pc'[q] = pc[q]
    BY Zenon, <1>0, <1>8 DEF kill, Goto, Set, TypeOK
  <2>2. pc'[p] = pc[p] \/ pc'[p] \in {"read", "write"}
    BY ZenonT(40), <1>0, <1>8 DEF kill, Goto, Set, TypeOK
  <2>4. \A q \in Proc : Rests(q)
    BY SMTT(40), <1>u, <2>1, <2>2 DEF Rests
  <2> QED BY SMTT(40), <1>0, <2>1, <2>4, SleepSame
<1>9. ASSUME NEW p \in Proc, sleep(p) PROVE SleepInv'
  <2>1. /\ UNCHANGED <<cut, pipe, using>> /\ \A q \in Proc \ {p} : pc'[q] = pc[q]
        /\ \/ pc[p] = "read_sleeps" /\ pc'[p] = "read_asleep"
           \/ pc[p] = "write_sleeps" /\ pc'[p] = "write_asleep"
    BY Zenon, <1>0, <1>9 DEF sleep, Goto, Set, TypeOK
  <2>2. \A q \in Proc : Rests(q)
    BY Zenon, <2>1 DEF Rests, ReadSleeps, WriteSleeps
  <2> QED BY SMTT(40), <1>0, <2>1, <2>2, SleepSame
<1> QED BY SMTT(40), <1>3, <1>4, <1>5, <1>6, <1>7, <1>8, <1>9, CloseSleeps, AllocSleeps,
   ReadSleep, WriteSleep DEF Next, Step, Call

-----------------------------------------------------------------------------
(* The invariant *)

\* The first state.
LEMMA InitInv == ASSUME FilesAssumption, Init PROVE IInv
<1>1. /\ \A f \in File : file[f] = NoFile
      /\ \A p \in Proc : ff[p] = NoFile /\ todo[p] = <<>> /\ hold[p] = <<>> /\ ~killed[p]
      /\ \A p \in Proc : ofile[p] = Nobody /\ pc[p] \in {"user", "unused"}
      /\ \A x \in Pipe : pipe[x] = NoPipe
      /\ \A i \in Inode : iref[i] = 0
  BY Zenon DEF Init
<1>2. \A p \in Proc, fd \in FD : ofile[p][fd] = None
  BY Zenon, <1>1 DEF Nobody
<1>3. TypeOK
  <2>1. Nobody \in [FD -> File \cup {None}] /\ NoFile \in FileRec /\ NoPipe \in PipeRec
        /\ {"user", "unused"} \subseteq Places
    BY ZenonT(40), NoFileRec, NoPipeRec DEF Nobody, Places
  <2> QED BY SMTT(40), <2>1 DEF Init, TypeOK
<1>4. ControlInv
  BY SMTT(40), <1>1 DEF ControlInv, Control
<1>5. TableInv
  <2>1. Names(NoFile)
    BY Zenon DEF Names, NoFile
  <2> QED BY ZenonT(40), <1>1, <2>1 DEF TableInv
<1>6. RefInv
  <2> SUFFICES ASSUME NEW f \in File PROVE file[f].ref = Refs(f)
    BY Zenon DEF RefInv
  <2>1. f # None
    BY Zenon DEF FilesAssumption, File
  <2>2. FdRefs(f) = {} /\ HoldRefs(f) = {} /\ TodoRefs(f) = {}
    <3>1. FdRefs(f) = {}
      BY ZenonT(40), <1>2, <2>1 DEF FdRefs
    <3>2. \A p \in Proc, k \in 1..2 : ~(k <= Len(hold[p])) /\ ~(k <= Len(todo[p]))
      BY SMTT(40), <1>1
    <3>3. HoldRefs(f) = {} /\ TodoRefs(f) = {}
      BY Zenon, <3>2 DEF HoldRefs, TodoRefs
    <3> QED BY Zenon, <3>1, <3>3
  <2>3. Cardinality({}) = 0
    BY Zenon, FS_EmptySet
  <2> QED BY SMTT(40), <1>1, <2>2, <2>3 DEF Refs, NoFile
<1>7. InodeInv
  <2> SUFFICES ASSUME NEW i \in Inode
               PROVE  iref[i] = Cardinality(InodeFiles(i)) + Cardinality(InodeCloses(i))
    BY Zenon DEF InodeInv
  <2>1. InodeFiles(i) = {} /\ InodeCloses(i) = {}
    BY SMTT(40), <1>1 DEF InodeFiles, InodeCloses, NoFile
  <2>2. Cardinality({}) = 0
    BY Zenon, FS_EmptySet
  <2> QED BY SMTT(40), <1>1, <2>1, <2>2
<1>8. EndInv
  <2>1. \A x, w : ~End(NoFile, x, w)
    BY Zenon DEF End, NoFile
  <2>2. \A x, w : ~HasEnd(x, w) /\ OneEnd(x, w)
    BY SMTT(40), <1>1, <2>1 DEF HasEnd, OneEnd
  <2>3. \A x \in Pipe : ~pipe[x].readopen /\ ~pipe[x].writeopen /\ ~pipe[x].live
    <3>1. ~NoPipe.readopen /\ ~NoPipe.writeopen /\ ~NoPipe.live
      BY Zenon DEF NoPipe
    <3> QED BY Zenon, <1>1, <3>1
  <2> QED BY ZenonT(40), <2>2, <2>3 DEF EndInv, PipeEnds
<1>9. CountInv
  <2>1. Count(NoPipe) <= PIPESIZE
    BY SMTT(40), Numbers DEF Count, NoPipe
  <2> QED BY ZenonT(40), <1>1, <2>1 DEF CountInv
<1>10. UserInv /\ SleepInv
  BY ZenonT(40), <1>1 DEF UserInv, SleepInv, Sleeps, Reading, Writing, ReadSleeps, WriteSleeps
<1> QED BY SMTT(40), <1>3, <1>4, <1>5, <1>6, <1>7, <1>8, <1>9, <1>10 DEF IInv

\* A step of something else.
LEMMA Stutter == ASSUME IInv, UNCHANGED vars PROVE IInv'
<1> USE DEF vars, fdVars, ioVars, procVars
<1>1. TypeOK' /\ ControlInv' /\ TableInv'
  BY Zenon DEF IInv, TypeOK, ControlInv, Control, TableInv
<1>2. RefInv' /\ InodeInv'
  BY ZenonT(40) DEF IInv, RefInv, Refs, FdRefs, HoldRefs, TodoRefs, InodeInv, InodeFiles,
     InodeCloses
<1>3. CountInv'
  BY Zenon DEF IInv, CountInv
<1>5. EndInv'
  <2>1. EndInv /\ UNCHANGED ff /\ SameEnds /\ \A f \in File : SameFile(f)
    BY Zenon DEF IInv, SameEnds, SameFile
  <2> QED BY Zenon, <2>1, EndSame
<1>4. UserInv' /\ SleepInv'
  BY ZenonT(40) DEF IInv, UserInv, HasOpen, SleepInv, Sleeps
<1> QED BY SMTT(40), <1>1, <1>2, <1>3, <1>4, <1>5 DEF IInv

\* The conjuncts of IInv hold together at every moment: each step of file.c, sysfile.c
\* and pipe.c keeps them.
THEOREM FilesInvariant == ASSUME FilesAssumption PROVE Spec => []IInv
<1>1. Init => IInv
  BY Zenon, InitInv
<1>2. IInv /\ [Next]_vars => IInv'
  <2>1. IInv /\ Next => IInv'
    BY SMTT(40), Shape, RefStep, InodeStep, EndStep, CountStep, UserStep, SleepStep DEF IInv
  <2> QED BY Zenon, <2>1, Stutter
<1> QED BY <1>1, <1>2, PTL DEF Spec

\* RefCounts: f->ref counts the descriptors, the files that calls hold and those they
\* have yet to close; an inode's count and a pipe's readopen, writeopen and page agree
\* with the files that name them, for any number of processes, files and pipes.
THEOREM CountsRight == ASSUME FilesAssumption PROVE Spec => []RefCounts
<1>1. ASSUME IInv PROVE RefCounts
  <2>1. \A f \in File : file[f].ref = Refs(f)
    BY Zenon, <1>1 DEF IInv, RefInv
  <2>2. \A i \in Inode : iref[i] =
          Cardinality({f \in File : file[f].type = "INODE" /\ file[f].obj = i})
          + Cardinality({p \in Proc : ff[p].type = "INODE" /\ ff[p].obj = i})
    BY Zenon, <1>1 DEF IInv, InodeInv, InodeFiles, InodeCloses
  <2>3. ASSUME NEW x \in Pipe
        PROVE  /\ pipe[x].readopen = HasEnd(x, FALSE) /\ pipe[x].writeopen = HasEnd(x, TRUE)
               /\ pipe[x].live = (pipe[x].readopen \/ pipe[x].writeopen)
    <3>1. pipe[x].readopen \in BOOLEAN /\ pipe[x].writeopen \in BOOLEAN /\ pipe[x].live \in BOOLEAN
      BY Zenon, <1>1 DEF IInv, TypeOK, PipeRec
    <3>2. HasEnd(x, FALSE) \in BOOLEAN /\ HasEnd(x, TRUE) \in BOOLEAN
      BY Zenon DEF HasEnd
    <3>3. PipeEnds(x)
      BY SMTT(40), <1>1 DEF IInv, EndInv
    <3> QED BY ZenonT(40), <3>1, <3>2, <3>3 DEF PipeEnds
  <2> QED BY ZenonT(40), <2>1, <2>2, <2>3 DEF RefCounts
<1> QED BY <1>1, FilesInvariant, PTL

\* NoSleeperLost: with any number of readers, writers and pipes, whatever the counters
\* nread and nwrite have wrapped to, piperead() and pipewrite() leave nobody asleep who
\* could go on.
THEOREM NobodyLost == ASSUME FilesAssumption PROVE Spec => []NoSleeperLost
<1>1. ASSUME IInv PROVE NoSleeperLost
  <2> SUFFICES ASSUME NEW p \in Proc
      PROVE  /\ pc[p] = "read_asleep" => pipe[using[p]].writeopen
                                         /\ (Empty(pipe[using[p]]) \/ using[p] \in cut)
             /\ pc[p] = "write_asleep" =>
                  /\ pipe[using[p]].readopen /\ Full(pipe[using[p]])
                  /\ \A q \in Proc : ~(using[q] = using[p] /\ pc[q] = "read_asleep")
    BY Zenon DEF NoSleeperLost
  <2>1. Sleeps(p)
    BY SMTT(40), <1>1 DEF IInv, SleepInv
  <2> QED BY Zenon, <2>1 DEF Sleeps, ReadSleeps, WriteSleeps
<1> QED BY <1>1, FilesInvariant, PTL

\* NoClosePanic: fileclose() finds a reference on the file it is given.
THEOREM ClosesOpenFiles == ASSUME FilesAssumption PROVE Spec => []NoClosePanic
<1>1. ASSUME IInv PROVE NoClosePanic
  BY Zenon, <1>1, CloseHas DEF IInv, NoClosePanic
<1> QED BY <1>1, FilesInvariant, PTL

-----------------------------------------------------------------------------
(* A pipe is a channel *)

\* A page that is no pipe holds nothing, and who is not writing has nothing to write.
ChanInv == /\ \A x \in Pipe : ~pipe[x].live => pipe[x] = NoPipe
           /\ \A p \in Proc : pc[p] \notin Writing => buf[p] = <<>>

\* The state of the channels.
Open == {x \in Pipe : pipe[x].live}
Queue == [x \in Pipe |-> Ring(pipe[x])]
ChanStep == Chan!Next \/ UNCHANGED <<Open, Queue, buf>>

\* A new pipe is empty.
LEMMA RingNew == ASSUME FilesAssumption
                 PROVE  /\ Ring(NoPipe) = <<>> /\ Ring(NewPipe) = <<>>
                        /\ NewPipe.live /\ ~NoPipe.live
<1>1. (0 + W - 0) % W = 0
  BY DEF FilesAssumption
<1>2. Count(NoPipe) = 0 /\ Count(NewPipe) = 0
  BY Zenon, <1>1 DEF Count, NoPipe, NewPipe
<1>3. \A y : Count(y) = 0 => Ring(y) = <<>>
  BY DEF Ring
<1> QED BY ZenonT(40), <1>2, <1>3 DEF NoPipe, NewPipe

\* Steps that neither touch a pipe nor what is left to write.
LEMMA Quiet ==
  ASSUME TypeOK, Next
  PROVE  \/ /\ UNCHANGED <<pipe, buf>>
            /\ \A q \in Proc : pc[q] \in Writing => pc'[q] \in Writing
         \/ \E p \in Proc : \/ lastclose(p) \/ pipealloc(p) \/ piperead(p) \/ pipewrite(p)
                            \/ \E fd \in FD, m \in Message : sys_write(p, fd, m)
<1> DEFINE Still == /\ UNCHANGED <<pipe, buf>>
                    /\ \A q \in Proc : pc[q] \in Writing => pc'[q] \in Writing
<1> USE DEF fdVars, ioVars, procVars
<1>1. ASSUME NEW p \in Proc, fileclose(p) PROVE Still
  BY ZenonT(40), <1>1 DEF fileclose
<1>2. ASSUME NEW p \in Proc, sys_pipe(p) PROVE Still
  BY SMTT(40), <1>2 DEF sys_pipe, Goto, Set, TypeOK, Writing
<1>3. ASSUME NEW p \in Proc, sleep(p) PROVE Still
  BY SMTT(40), <1>3 DEF sleep, Goto, Set, TypeOK, Writing
<1>4. ASSUME NEW p \in Proc, exit(p) PROVE Still
  BY SMTT(40), <1>4 DEF exit, Goto, Set, TypeOK, Writing
<1>5. ASSUME NEW p \in Proc, kill(p) PROVE Still
  BY SMTT(40), <1>5 DEF kill, Goto, Set, TypeOK, Writing
<1>6. ASSUME NEW p \in Proc, NEW i \in Inode, sys_open(p, i) PROVE Still
  BY Zenon, <1>6 DEF sys_open
<1>7. ASSUME NEW p \in Proc, NEW fd \in FD, sys_dup(p, fd) PROVE Still
  BY Zenon, <1>7 DEF sys_dup
<1>8. ASSUME NEW p \in Proc, NEW fd \in FD, sys_close(p, fd) PROVE Still
  BY ZenonT(40), <1>8 DEF sys_close
<1>9. ASSUME NEW p \in Proc, NEW fd \in FD, sys_read(p, fd) PROVE Still
  BY SMTT(40), <1>9 DEF sys_read, Calls, Goto, Set, TypeOK, Writing
<1>10. ASSUME NEW p \in Proc, NEW c \in Proc, fork(p, c) PROVE Still
  BY SMTT(40), <1>10 DEF fork, Calls, Goto, Set, TypeOK, Writing
<1> HIDE DEF Still
<1> QED BY ZenonT(40), <1>1, <1>2, <1>3, <1>4, <1>5, <1>6, <1>7, <1>8, <1>9, <1>10
        DEF Next, Step, Call, Still

\* One page changes: what that does to the pages and the bytes.
LEMMA OnePipe ==
  ASSUME TypeOK, NEW x \in Pipe, NEW y, pipe' = Set(pipe, x, y)
  PROVE  /\ pipe'[x] = y /\ \A z \in Pipe \ {x} : pipe'[z] = pipe[z]
         /\ Queue' = [Queue EXCEPT ![x] = Ring(y)]
         /\ Queue[x] = Ring(pipe[x])
         /\ y.live => Open' = Open \cup {x}
         /\ ~y.live => Open' = Open \ {x}
<1>1. pipe'[x] = y /\ \A z \in Pipe \ {x} : pipe'[z] = pipe[z]
  BY Zenon DEF TypeOK, Set
<1>2. Queue' = [Queue EXCEPT ![x] = Ring(y)]
  BY Zenon, <1>1 DEF Queue
<1>3. y.live => Open' = Open \cup {x}
  BY SMTT(40), <1>1 DEF Open
<1>4. ~y.live => Open' = Open \ {x}
  BY <1>1 DEF Open
<1>5. Queue[x] = Ring(pipe[x])
  BY Zenon DEF Queue
<1> QED BY ZenonT(40), <1>1, <1>2, <1>3, <1>4, <1>5

\* ... nothing, when its bytes stay.
LEMMA SamePipe ==
  ASSUME TypeOK, NEW x \in Pipe, NEW y, pipe' = Set(pipe, x, y), Ring(y) = Ring(pipe[x]),
         y.live, x \in Open
  PROVE  Open' = Open /\ Queue' = Queue
<1>1. Queue' = [Queue EXCEPT ![x] = Ring(y)] /\ Queue[x] = Ring(y) /\ Open' = Open \cup {x}
  BY Zenon, OnePipe
<1>2. [Queue EXCEPT ![x] = Queue[x]] = Queue
  BY DEF Queue
<1> QED BY SMTT(40), <1>1, <1>2

\* The bytes are where the counters say, whoever has the ends.
LEMMA SameBytes ==
  ASSUME NEW y, NEW z, y.nread = z.nread, y.nwrite = z.nwrite, y.data = z.data
  PROVE  Ring(y) = Ring(z)
BY DEF Ring, Count

\* An action of the channel is a step of it.
LEMMA Acts ==
  ASSUME NEW x \in Pipe, NEW p \in Proc,
         \/ Chan!Create(x) \/ Chan!Destroy(x) \/ Chan!Receive(x) \/ Chan!Send(x, p) \/ Chan!Write(p)
  PROVE  ChanStep
BY DEF ChanStep, Chan!Next

\* The last fileclose() of an end of a pipe: the pipe stays, or its page is freed.
LEMMA CloseStep ==
  ASSUME FilesAssumption, IInv, ChanInv, NEW p \in Proc, lastclose(p)
  PROVE  ChanInv' /\ ChanStep
<1>0. TypeOK /\ TableInv /\ EndInv /\ buf' = buf
  BY Zenon DEF IInv, lastclose, ioVars
<1>1. CASE ff[p].type # "PIPE"
  <2>1. pipe' = pipe /\ pc' = pc
    BY Zenon, <1>1 DEF lastclose
  <2>2. Open' = Open /\ Queue' = Queue
    BY Zenon, <2>1 DEF Open, Queue
  <2>3. ChanInv'
    BY Zenon, <1>0, <2>1 DEF ChanInv
  <2> QED BY ZenonT(40), <1>0, <2>2, <2>3 DEF ChanStep
<1>2. CASE ff[p].type = "PIPE"
  <2>0. PICK x \in Pipe : x = ff[p].obj
    BY Zenon, <1>0, <1>2 DEF TableInv, Names
  <2> DEFINE y == IF ff[p].writable THEN [pipe[x] EXCEPT !.writeopen = FALSE]
                  ELSE [pipe[x] EXCEPT !.readopen = FALSE]
             chan == IF ff[p].writable THEN "nread" ELSE "nwrite"
  <2>1. /\ pipe' = Set(pipe, x, IF y.readopen \/ y.writeopen THEN y ELSE NoPipe)
        /\ pc' = Woken(x, chan)
    BY ZenonT(40), <1>2, <2>0 DEF lastclose, pipeclose
  <2>2. x \in Pipe /\ ff[p] \in FileRec /\ ff[p].writable \in BOOLEAN /\ pipe[x] \in PipeRec
    BY Zenon, <1>0 DEF TypeOK, FileRec
  <2>3. pipe[x].live /\ x \in Open
    <3>1. End(ff[p], x, ff[p].writable)
      BY Zenon, <1>2, <2>0 DEF End
    <3>2. HasEnd(x, TRUE) \/ HasEnd(x, FALSE)
      BY Zenon, <2>2, <3>1 DEF HasEnd
    <3>3. PipeEnds(x)
      BY Zenon, <1>0, <2>2 DEF EndInv
    <3> QED BY ZenonT(40), <2>2, <3>2, <3>3 DEF PipeEnds, Open
  <2>4. y.live = pipe[x].live /\ y.nread = pipe[x].nread /\ y.nwrite = pipe[x].nwrite
        /\ y.data = pipe[x].data
    BY <2>2 DEF PipeRec
  <2>5. Ring(y) = Ring(pipe[x])
    BY Zenon, <2>4, SameBytes
  <2>6. Awoke(Proc, pc, pc')
    BY ZenonT(40), <1>0, <2>1, WokenFacts
  <2>7. \A q \in Proc : pc'[q] \notin Writing => buf'[q] = <<>>
    BY SMTT(40), <1>0, <2>6 DEF ChanInv, Awoke, Writing
  <2> HIDE DEF y
  <2>8. CASE y.readopen \/ y.writeopen
    <3>1. pipe' = Set(pipe, x, y) /\ y.live
      BY ZenonT(40), <2>1, <2>3, <2>4, <2>8
    <3>2. Open' = Open /\ Queue' = Queue
      BY ZenonT(40), <1>0, <2>2, <2>3, <2>5, <3>1, SamePipe
    <3>3. pipe'[x] = y /\ \A z \in Pipe \ {x} : pipe'[z] = pipe[z]
      BY ZenonT(40), <1>0, <2>2, <3>1, OnePipe
    <3>4. ChanInv'
      BY ZenonT(40), <2>2, <2>7, <3>1, <3>3 DEF ChanInv
    <3> QED BY ZenonT(40), <1>0, <3>2, <3>4 DEF ChanStep
  <2>9. CASE ~(y.readopen \/ y.writeopen)
    <3>1. pipe' = Set(pipe, x, NoPipe)
      BY Zenon, <2>1, <2>9
    <3>2. /\ pipe'[x] = NoPipe /\ \A z \in Pipe \ {x} : pipe'[z] = pipe[z]
          /\ Queue' = [Queue EXCEPT ![x] = <<>>] /\ Open' = Open \ {x}
      <4>1. Ring(NoPipe) = <<>> /\ ~NoPipe.live
        BY Zenon, RingNew
      <4>2. /\ pipe'[x] = NoPipe /\ \A z \in Pipe \ {x} : pipe'[z] = pipe[z]
            /\ Queue' = [Queue EXCEPT ![x] = Ring(NoPipe)]
            /\ ~NoPipe.live => Open' = Open \ {x}
        BY ZenonT(40), <1>0, <2>2, <3>1, OnePipe
      <4> QED BY ZenonT(40), <4>1, <4>2
    <3>3. ChanInv'
      BY ZenonT(40), <2>2, <2>7, <3>2 DEF ChanInv
    <3>4. Chan!Destroy(x)
      BY ZenonT(40), <1>0, <2>3, <3>2 DEF Chan!Destroy, Open, Queue
    <3> QED BY ZenonT(40), <3>3, <3>4, Acts
  <2> QED BY Zenon, <2>8, <2>9
<1> QED BY Zenon, <1>1, <1>2

\* pipealloc() opens an empty channel.
LEMMA CreateStep ==
  ASSUME FilesAssumption, IInv, ChanInv, NEW p \in Proc, pipealloc(p)
  PROVE  ChanInv' /\ ChanStep
<1>0. /\ TypeOK /\ buf' = buf /\ pc[p] = "user" /\ pc' = Set(pc, p, "pipe")
  BY Zenon DEF IInv, pipealloc, Calls, Goto, ioVars
<1>1. PICK x \in Pipe : ~pipe[x].live /\ pipe' = Set(pipe, x, NewPipe)
  BY Zenon, PipeAlloc DEF Allocated
<1>2. /\ pipe'[x] = NewPipe /\ \A z \in Pipe \ {x} : pipe'[z] = pipe[z]
      /\ Queue' = [Queue EXCEPT ![x] = <<>>] /\ Open' = Open \cup {x}
  BY ZenonT(40), <1>0, <1>1, OnePipe, RingNew
<1>3. Queue[x] = <<>> /\ x \notin Open
  BY ZenonT(40), <1>1, RingNew DEF ChanInv, Queue, Open
<1>4. [Queue EXCEPT ![x] = <<>>] = Queue
  BY SMTT(40), <1>3 DEF Queue
<1>5. \A q \in Proc : pc'[q] \notin Writing => pc[q] \notin Writing
  BY SMTT(40), <1>0 DEF TypeOK, Set, Writing
<1>6. ChanInv'
  BY ZenonT(40), <1>0, <1>2, <1>5, RingNew DEF ChanInv
<1>7. Chan!Create(x)
  BY ZenonT(40), <1>0, <1>2, <1>3, <1>4 DEF Chan!Create, Open, Queue
<1> QED BY ZenonT(40), <1>6, <1>7, Acts

\* A call of write() brings a message.
LEMMA MessageStep ==
  ASSUME FilesAssumption, IInv, ChanInv, NEW p \in Proc, NEW fd \in FD, NEW m \in Message,
         sys_write(p, fd, m)
  PROVE  ChanInv' /\ ChanStep
<1>0. /\ TypeOK /\ pipe' = pipe /\ pc[p] = "user" /\ pc' = Set(pc, p, "write")
      /\ buf' = Set(buf, p, m)
  BY Zenon DEF IInv, sys_write, Calls, Goto
<1>1. buf[p] = <<>>
  BY SMTT(40), <1>0 DEF ChanInv, Writing
<1>2. Open' = Open /\ Queue' = Queue
  BY Zenon, <1>0 DEF Open, Queue
<1>3. Chan!Write(p)
  BY ZenonT(40), <1>0, <1>1, <1>2 DEF Chan!Write, Open, Queue, Set
<1>4. \A q \in Proc : pc'[q] \notin Writing => pc[q] \notin Writing /\ buf'[q] = buf[q]
  BY SMTT(40), <1>0 DEF TypeOK, Set, Writing
<1>5. ChanInv'
  BY Zenon, <1>0, <1>4 DEF ChanInv
<1>6. ChanStep
  BY Zenon, <1>3 DEF ChanStep, Chan!Next
<1> QED BY ZenonT(40), <1>5, <1>6

\* piperead() takes bytes from the front, or finds none.
LEMMA ReceiveStep ==
  ASSUME FilesAssumption, IInv, ChanInv, NEW p \in Proc, piperead(p)
  PROVE  ChanInv' /\ ChanStep
<1>0. /\ TypeOK /\ TableInv /\ EndInv /\ UserInv /\ CountInv /\ buf' = buf /\ pc[p] = "read"
  BY Zenon DEF IInv, piperead
<1>1. using[p] \in Pipe /\ pipe[using[p]].readopen
  BY Zenon, <1>0, InUse DEF Reading
<1>2. PICK x \in Pipe : x = using[p]
  BY Zenon, <1>1
<1>3. pipe[x] \in PipeRec /\ Count(pipe[x]) <= PIPESIZE /\ pipe[x].live /\ x \in Open
  BY ZenonT(40), <1>0, <1>1, <1>2 DEF TypeOK, CountInv, EndInv, PipeEnds, Open
<1>4. \A q \in Proc : pc'[q] \notin Writing => buf'[q] = <<>>
  <2>1. Moves(p) /\ pc'[p] \in {"user", "read_sleeps"}
    BY Zenon, ReadFacts
  <2> QED BY SMTT(40), <1>0, <2>1 DEF ChanInv, Moves, Awoke, Writing
<1>5. CASE pipe' = pipe
  <2>1. Open' = Open /\ Queue' = Queue
    BY Zenon, <1>5 DEF Open, Queue
  <2> QED BY ZenonT(40), <1>0, <1>4, <1>5, <2>1 DEF ChanInv, ChanStep
<1>6. ASSUME pipe' # pipe PROVE ChanInv' /\ ChanStep
  <2> DEFINE k == Min({MaxRead, Count(pipe[x])})
             y == Taken(pipe[x], k)
  <2>1. pipe' = Set(pipe, x, y)
    BY ZenonT(40), <1>2, <1>6 DEF piperead
  <2>2. /\ y.live = pipe[x].live /\ k \in 0..Count(pipe[x])
    BY ZenonT(40), <1>3, TakenFacts
  <2>3. Ring(y) = SubSeq(Ring(pipe[x]), k + 1, Len(Ring(pipe[x])))
    BY ZenonT(40), <1>3, RingTaken
  <2>4. /\ Ring(pipe[x]) \in Seq(Nat) /\ Len(Ring(pipe[x])) = Count(pipe[x])
        /\ Count(pipe[x]) \in Nat
    BY ZenonT(40), <1>3, RingFacts
  <2> HIDE DEF k, y
  <2>5. pipe'[x] = y /\ \A z \in Pipe \ {x} : pipe'[z] = pipe[z]
    BY ZenonT(40), <1>0, <2>1, OnePipe
  <2>6. ChanInv'
    BY ZenonT(40), <1>3, <1>4, <2>2, <2>5 DEF ChanInv
  <2>7. CASE k = 0
    <3>1. /\ Ring(y) \in Seq(Nat) /\ Len(Ring(y)) = Len(Ring(pipe[x]))
          /\ \A i \in 1..Len(Ring(y)) : Ring(y)[i] = Ring(pipe[x])[i]
      BY SMTT(40), <2>3, <2>4, <2>7
    <3>2. Ring(y) = Ring(pipe[x])
      BY ZenonT(40), <2>4, <3>1, SeqSame
    <3>3. Open' = Open /\ Queue' = Queue
      BY ZenonT(40), <1>0, <1>3, <2>1, <2>2, <3>2, SamePipe
    <3> QED BY ZenonT(40), <1>0, <2>6, <3>3 DEF ChanStep
  <2>8. CASE k # 0
    <3>1. k \in 1..Len(Queue[x])
      BY SMTT(40), <2>2, <2>4, <2>8 DEF Queue
    <3>2. Queue' = [Queue EXCEPT ![x] = Chan!Drop(Queue[x], k)]
      <4>1. Queue' = [Queue EXCEPT ![x] = Ring(y)] /\ Queue[x] = Ring(pipe[x])
        BY ZenonT(40), <1>0, <2>1, OnePipe
      <4> QED BY SMTT(40), <2>3, <4>1 DEF Chan!Drop
    <3>3. Open' = Open
      <4>1. y.live
        BY ZenonT(40), <1>3, <2>2
      <4>2. Open' = Open \cup {x}
        BY ZenonT(40), <1>0, <2>1, <4>1, OnePipe
      <4> QED BY SMTT(40), <1>3, <4>2
    <3>4. Chan!Receive(x)
      BY ZenonT(40), <1>0, <1>3, <3>1, <3>2, <3>3 DEF Chan!Receive, Open, Queue
    <3> QED BY ZenonT(40), <2>6, <3>4, Acts
  <2> QED BY ZenonT(40), <2>7, <2>8
<1> QED BY Zenon, <1>5, <1>6

\* pipewrite() appends what fits; its process goes on later, or gives up.
LEMMA SendStep ==
  ASSUME FilesAssumption, IInv, ChanInv, NEW p \in Proc, pipewrite(p)
  PROVE  ChanInv' /\ ChanStep
<1>0. /\ TypeOK /\ TableInv /\ EndInv /\ UserInv /\ CountInv /\ pc[p] = "write"
  BY Zenon DEF IInv, pipewrite
<1>1. using[p] \in Pipe /\ pipe[using[p]].writeopen
  BY Zenon, <1>0, InUse DEF Writing
<1>2. PICK x \in Pipe : x = using[p]
  BY Zenon, <1>1
<1>3. /\ pipe[x] \in PipeRec /\ Count(pipe[x]) <= PIPESIZE /\ pipe[x].live /\ x \in Open
      /\ buf[p] \in Seq(Nat)
  BY ZenonT(40), <1>0, <1>1, <1>2 DEF TypeOK, CountInv, EndInv, PipeEnds, Open
<1> DEFINE m == buf[p]
           k == Min({Len(m), PIPESIZE - Count(pipe[x])})
           y == Put(pipe[x], m, k)
           rest == SubSeq(m, k + 1, Len(m))
<1>4. /\ pipe' = Set(pipe, x, y)
      /\ \/ pc'[p] = "user" /\ buf' = Set(buf, p, <<>>)
         \/ pc'[p] = "write_sleeps" /\ buf' = Set(buf, p, rest)
  <2>1. Woken(x, "nread") \in [Proc -> Places] /\ pc \in [Proc -> Places]
    BY Zenon, <1>0, WokenFacts DEF TypeOK
  <2> QED BY ZenonT(40), <1>2, <2>1 DEF pipewrite, Goto, Set
<1>5. /\ y.live = pipe[x].live /\ k \in 0..Len(m)
      /\ Count(y) = Count(pipe[x]) + k /\ Count(y) <= PIPESIZE
  BY Zenon, <1>3, PutFacts
<1>6. Ring(y) = Ring(pipe[x]) \o SubSeq(m, 1, k)
  BY Zenon, <1>3, RingPut
<1>7. Len(Ring(pipe[x])) = Count(pipe[x])
  BY Zenon, <1>3, RingFacts
<1> HIDE DEF k, y, rest
<1>8. /\ pipe'[x] = y /\ \A z \in Pipe \ {x} : pipe'[z] = pipe[z]
      /\ Queue' = [Queue EXCEPT ![x] = Ring(y)] /\ Queue[x] = Ring(pipe[x])
      /\ y.live => Open' = Open \cup {x}
  BY ZenonT(40), <1>0, <1>4, OnePipe
<1>9. ChanInv'
  <2>1. \A q \in Proc : pc'[q] \notin Writing => buf'[q] = <<>>
    <3>1. Moves(p)
      BY Zenon, WriteFacts
    <3>2. \A q \in Proc \ {p} : pc'[q] \notin Writing => pc[q] \notin Writing
      BY <3>1 DEF Moves, Awoke, Writing
    <3>3. \A q \in Proc \ {p} : buf'[q] = buf[q]
      BY ZenonT(40), <1>0, <1>4 DEF TypeOK, Set
    <3>4. pc'[p] \notin Writing => buf'[p] = <<>>
      BY SMTT(40), <1>0, <1>4 DEF TypeOK, Set, Writing
    <3> QED BY ZenonT(40), <3>2, <3>3, <3>4 DEF ChanInv
  <2> QED BY ZenonT(40), <1>3, <1>5, <1>8, <2>1 DEF ChanInv
<1>10. Chan!Send(x, p)
  <2>1. Open' = Open
    BY ZenonT(40), <1>3, <1>5, <1>8
  <2>2. k \in 0..Len(buf[p]) /\ Len(Queue[x]) + k <= PIPESIZE
    BY ZenonT(40), <1>5, <1>7, <1>8
  <2>3. Queue' = [Queue EXCEPT ![x] = Queue[x] \o SubSeq(buf[p], 1, k)]
    BY SMTT(40), <1>6, <1>8
  <2>4. buf' \in {[buf EXCEPT ![p] = Chan!Drop(buf[p], k)], [buf EXCEPT ![p] = <<>>]}
    BY Zenon, <1>4 DEF rest, Set, Chan!Drop
  <2> QED BY ZenonT(40), <1>3, <2>1, <2>2, <2>3, <2>4 DEF Chan!Send, Open, Queue
<1> QED BY ZenonT(40), <1>9, <1>10, Acts

\* A step of Files is a step of the channels.
LEMMA Simulates == ASSUME FilesAssumption, IInv, ChanInv, Next PROVE ChanInv' /\ ChanStep
<1>0. TypeOK
  BY Zenon DEF IInv
<1>1. CASE UNCHANGED <<pipe, buf>> /\ \A q \in Proc : pc[q] \in Writing => pc'[q] \in Writing
  <2>1. Open' = Open /\ Queue' = Queue
    BY Zenon, <1>1 DEF Open, Queue
  <2> QED BY Zenon, <1>1, <2>1 DEF ChanInv, ChanStep
<1>2. ASSUME NEW p \in Proc,
             \/ lastclose(p) \/ pipealloc(p) \/ piperead(p) \/ pipewrite(p)
             \/ \E fd \in FD, m \in Message : sys_write(p, fd, m)
      PROVE  ChanInv' /\ ChanStep
  BY ZenonT(40), <1>2, CloseStep, CreateStep, ReceiveStep, SendStep, MessageStep
<1> QED BY ZenonT(40), <1>0, <1>1, <1>2, Quiet

\* What is written into a pipe comes out once, in order and whole, whatever the
\* counters nread and nwrite have wrapped to: piperead() and pipewrite() make every
\* page a bounded FIFO channel while it is a pipe.
THEOREM PipesAreChannels == ASSUME FilesAssumption PROVE Spec => FIFO
<1>1. Init => ChanInv /\ Chan!Init
  <2> SUFFICES ASSUME Init PROVE ChanInv /\ Chan!Init
    OBVIOUS
  <2>1. /\ \A x \in Pipe : pipe[x] = NoPipe
        /\ buf = [p \in Proc |-> <<>>]
    BY Zenon DEF Init
  <2>2. ChanInv
    BY Zenon, <2>1 DEF ChanInv
  <2>3. \A x \in Pipe : ~pipe[x].live /\ Ring(pipe[x]) = <<>>
    BY ZenonT(40), <2>1, RingNew
  <2>4. Chan!Init
    BY SMTT(40), <2>1, <2>3 DEF Chan!Init
  <2> QED BY ZenonT(40), <2>2, <2>4
<1>2. IInv /\ ChanInv /\ [Next]_vars => ChanInv' /\ ChanStep
  <2>1. ASSUME UNCHANGED vars, ChanInv PROVE ChanInv' /\ ChanStep
    <3>1. pipe' = pipe /\ pc' = pc /\ buf' = buf
      BY Zenon, <2>1 DEF vars, ioVars
    <3>2. Open' = Open /\ Queue' = Queue
      BY ZenonT(40), <3>1 DEF Open, Queue
    <3> QED BY ZenonT(40), <2>1, <3>1, <3>2 DEF ChanInv, ChanStep
  <2> QED BY ZenonT(40), <2>1, Simulates
<1>3. ChanStep <=> [Chan!Next]_<<{x \in Pipe : pipe[x].live}, [x \in Pipe |-> Ring(pipe[x])], buf>>
  BY DEF ChanStep, Open, Queue
<1> QED BY <1>1, <1>2, <1>3, FilesInvariant, PTL DEF Spec, FIFO, Chan!Spec
=============================================================================
