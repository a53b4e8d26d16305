-------------------------- MODULE FilesCountProofs --------------------------
(***************************************************************************)
(* Proofs about the file table: the count of a file is the number of       *)
(* references to it, through fork(), dup(), pipe(), close() and exit(),    *)
(* and the count of an inode is the number of open files on it.  The last  *)
(* section is about the counters of a pipe: the bytes between nread and    *)
(* nwrite are a queue, although both wrap.                                 *)
(***************************************************************************)
EXTENDS FilesStateProofs

-----------------------------------------------------------------------------
(* References are counted *)

\* A step that leaves the counts and the references alone.
LEMMA RefSame ==
  ASSUME RefInv, UNCHANGED <<ofile, todo, hold>>, \A f \in File : file'[f].ref = file[f].ref
  PROVE  RefInv'
BY ZenonT(40) DEF RefInv, Refs, FdRefs, HoldRefs, TodoRefs

\* One place of three gets a reference, or it goes from one to another.
Counted(f) ==
  /\ Refs(f) = Cardinality(FdRefs(f)) + Cardinality(HoldRefs(f)) + Cardinality(TodoRefs(f))
  /\ Refs(f)' = Cardinality(FdRefs(f)') + Cardinality(HoldRefs(f)') + Cardinality(TodoRefs(f)')
  /\ Cardinality(FdRefs(f)) \in Nat /\ Cardinality(HoldRefs(f)) \in Nat
  /\ Cardinality(TodoRefs(f)) \in Nat

\* The three kinds of references to f are finitely many, before a step and after it.
LEMMA RefSum ==
  ASSUME FilesAssumption, NEW f
  PROVE  /\ Refs(f) = Cardinality(FdRefs(f)) + Cardinality(HoldRefs(f)) + Cardinality(TodoRefs(f))
         /\ Refs(f)' = Cardinality(FdRefs(f)') + Cardinality(HoldRefs(f)') + Cardinality(TodoRefs(f)')
         /\ IsFiniteSet(FdRefs(f)) /\ IsFiniteSet(HoldRefs(f)) /\ IsFiniteSet(TodoRefs(f))
         /\ Cardinality(FdRefs(f)) \in Nat /\ Cardinality(HoldRefs(f)) \in Nat
         /\ Cardinality(TodoRefs(f)) \in Nat /\ Refs(f) \in Nat
<1>1. IsFiniteSet(FdRefs(f)) /\ IsFiniteSet(HoldRefs(f)) /\ IsFiniteSet(TodoRefs(f))
  BY Zenon, FiniteRefs DEF FdRefs, HoldRefs, TodoRefs
<1> QED BY <1>1, FS_CardinalityType DEF Refs

\* ... in the form the steps cite.
LEMMA RefCounted == ASSUME FilesAssumption, NEW f PROVE Counted(f)
BY Zenon, RefSum DEF Counted

\* A descriptor becomes a file to close.
LEMMA FdToTodo ==
  ASSUME FilesAssumption, TypeOK, RefInv, NEW p \in Proc, NEW fd \in FD, ofile[p][fd] \in File,
         todo[p] = <<>>, ofile' = [ofile EXCEPT ![p][fd] = None],
         todo' = Set(todo, p, <<ofile[p][fd]>>), UNCHANGED <<file, hold>>
  PROVE  RefInv'
<1> SUFFICES ASSUME NEW g \in File PROVE Refs(g)' = Refs(g)
  BY Zenon DEF RefInv
<1> DEFINE f == ofile[p][fd]
<1>1. HoldRefs(g)' = HoldRefs(g)
  BY Zenon DEF HoldRefs
<1>2. FdRefs(g)' = IF g = f THEN FdRefs(g) \ {<<p, fd>>} ELSE FdRefs(g)
  BY SMTT(40) DEF FdRefs, TypeOK, FilesAssumption, File
<1>3. TodoRefs(g)' = IF g = f THEN TodoRefs(g) \cup {<<p, 1>>} ELSE TodoRefs(g)
  <2>1. \A q \in Proc : todo'[q] = IF q = p THEN <<f>> ELSE todo[q]
    BY Zenon DEF TypeOK, Set
  <2>2. Len(<<f>>) = 1 /\ <<f>>[1] = f /\ Len(todo[p]) = 0
    BY Zenon
  <2> HIDE DEF f
  <2> QED BY SMTT(40), <2>1, <2>2 DEF TodoRefs
<1>4. g = f => <<p, fd>> \in FdRefs(g) /\ <<p, 1>> \notin TodoRefs(g)
  BY SMTT(40) DEF FdRefs, TodoRefs
<1>5. CASE g = f
  <2>1. Cardinality(FdRefs(g) \ {<<p, fd>>}) = Cardinality(FdRefs(g)) - 1
    BY SMTT(40), <1>4, <1>5, RefSum, Shrink
  <2>2. Cardinality(TodoRefs(g) \cup {<<p, 1>>}) = Cardinality(TodoRefs(g)) + 1
    BY SMTT(40), <1>4, <1>5, RefSum, Grow
  <2>3. Counted(g)
    BY Zenon, RefCounted
  <2>4. /\ Cardinality(FdRefs(g)') = Cardinality(FdRefs(g)) - 1
        /\ Cardinality(TodoRefs(g)') = Cardinality(TodoRefs(g)) + 1
        /\ Cardinality(HoldRefs(g)') = Cardinality(HoldRefs(g))
    BY SMTT(40), <1>1, <1>2, <1>3, <1>5, <2>1, <2>2
  <2> QED BY SMTT(40), <2>3, <2>4 DEF Counted
<1>6. CASE g # f
  BY SMTT(40), <1>1, <1>2, <1>3, <1>6, RefSum
<1> QED BY Zenon, <1>5, <1>6

\* A free descriptor gets a reference, and the count goes up.
LEMMA NewFd ==
  ASSUME FilesAssumption, TypeOK, RefInv, NEW p \in Proc, NEW fd \in FD, ofile[p][fd] = None,
         NEW f \in File, ofile' = [ofile EXCEPT ![p][fd] = f], UNCHANGED <<todo, hold>>,
         file'[f].ref = file[f].ref + 1, \A g \in File \ {f} : file'[g].ref = file[g].ref
  PROVE  RefInv'
<1> SUFFICES ASSUME NEW g \in File PROVE file'[g].ref = Refs(g)'
  BY Zenon DEF RefInv
<1>1. HoldRefs(g)' = HoldRefs(g) /\ TodoRefs(g)' = TodoRefs(g)
  BY Zenon DEF HoldRefs, TodoRefs
<1>2. FdRefs(g)' = IF g = f THEN FdRefs(g) \cup {<<p, fd>>} ELSE FdRefs(g)
  BY SMTT(40) DEF FdRefs, TypeOK, FilesAssumption, File
<1>3. <<p, fd>> \notin FdRefs(g)
  BY Zenon DEF FdRefs, FilesAssumption, File
<1>4. CASE g = f
  <2>1. Cardinality(FdRefs(g) \cup {<<p, fd>>}) = Cardinality(FdRefs(g)) + 1
    BY Zenon, <1>3, RefSum, Grow
  <2>2. Counted(g) /\ file[g].ref = Refs(g)
    BY Zenon, RefCounted DEF RefInv
  <2>3. /\ Cardinality(FdRefs(g)') = Cardinality(FdRefs(g)) + 1
        /\ Cardinality(TodoRefs(g)') = Cardinality(TodoRefs(g))
        /\ Cardinality(HoldRefs(g)') = Cardinality(HoldRefs(g))
    BY SMTT(40), <1>1, <1>2, <1>4, <2>1
  <2>4. file'[g].ref = file[g].ref + 1
    BY Zenon, <1>4
  <2> QED BY SMTT(40), <2>2, <2>3, <2>4 DEF Counted
<1>5. CASE g # f
  BY SMTT(40), <1>1, <1>2, <1>5, RefSum DEF RefInv
<1> QED BY Zenon, <1>4, <1>5

\* Every step changes the count of a file with the references to it.
LEMMA RefStep == ASSUME FilesAssumption, IInv, Next PROVE RefInv'
<1> USE DEF fdVars, ioVars, procVars
<1>0. TypeOK /\ ControlInv /\ RefInv
  BY Zenon DEF IInv
<1>1. ASSUME NEW p \in Proc, fileclose(p) PROVE RefInv'
  <2> DEFINE f == Head(todo[p])
             n == Len(todo[p])
  <2>1. /\ f \in File /\ n \in 1..2 /\ todo[p] \in Seq(File) /\ f = todo[p][1]
        /\ todo' = Set(todo, p, Tail(todo[p])) /\ ofile' = ofile /\ hold' = hold
    <3>1. todo[p] # <<>> /\ todo' = Set(todo, p, Tail(todo[p])) /\ ofile' = ofile /\ hold' = hold
      BY Zenon, <1>1 DEF fileclose
    <3> QED BY ZenonT(40), <1>0, <3>1, TodoFirst
  <2>2. file[f].ref >= 1 /\ file[f].ref \in Nat
    BY SMTT(40), <1>0, <1>1, <2>1, CloseHas DEF fileclose, TypeOK, FileRec
  <2>3. \A g \in File : file'[g].ref = IF g = f THEN file[g].ref - 1 ELSE file[g].ref
    <3>1. CASE Dropped(f)
      BY SMTT(40), <1>0, <1>1, <2>1, <2>2, <3>1 DEF fileclose, Dropped, TypeOK, Set, NoFile
    <3>2. CASE ~Dropped(f)
      BY SMTT(40), <1>0, <1>1, <2>1, <2>2, <3>2 DEF fileclose, TypeOK, FileRec
    <3> QED BY Zenon, <3>1, <3>2
  <2>4. SUFFICES ASSUME NEW g \in File PROVE file'[g].ref = Refs(g)'
    BY Zenon DEF RefInv
  <2>5. HoldRefs(g)' = HoldRefs(g) /\ FdRefs(g)' = FdRefs(g)
    BY Zenon, <2>1 DEF HoldRefs, FdRefs
  <2>6. TodoRefs(g)' = IF g = f THEN TodoRefs(g) \ {<<p, n>>} ELSE TodoRefs(g)
    <3>1. /\ \A q \in Proc : todo'[q] = IF q = p THEN Tail(todo[p]) ELSE todo[q]
          /\ Len(Tail(todo[p])) = n - 1
          /\ \A k \in 1..(n - 1) : Tail(todo[p])[k] = todo[p][k + 1]
      BY <1>0, <2>1 DEF TypeOK, Set
    <3>2. \A k \in 1..2 : /\ k <= n - 1 <=> (k <= n /\ k # n)
                          /\ k <= n - 1 => Tail(todo[p])[n - 1 + 1 - k] = todo[p][n + 1 - k]
      <4>1. n = 1 \/ n = 2
        BY SMTT(40), <2>1
      <4>2. CASE n = 1
        BY SMTT(40), <4>2
      <4>3. CASE n = 2
        BY SMTT(40), <3>1, <4>3
      <4> QED BY ZenonT(40), <4>1, <4>2, <4>3
    <3>3. todo[p][n + 1 - n] = f
      <4>1. n + 1 - n = 1
        BY SMTT(40), <2>1
      <4> QED BY Zenon, <2>1, <4>1
    <3> HIDE DEF f
    <3>4. ASSUME NEW r \in Proc \X (1..2)
          PROVE  r \in TodoRefs(g)' <=> r \in (IF g = f THEN TodoRefs(g) \ {<<p, n>>} ELSE TodoRefs(g))
      <4>1. PICK q \in Proc, k \in 1..2 : r = <<q, k>>
        BY SMTT(40)
      <4>2. r \in TodoRefs(g) <=> k <= Len(todo[q]) /\ todo[q][Len(todo[q]) + 1 - k] = g
        BY Zenon, <4>1 DEF TodoRefs
      <4>3. r \in TodoRefs(g)' <=> k <= Len(todo'[q]) /\ todo'[q][Len(todo'[q]) + 1 - k] = g
        BY Zenon, <4>1 DEF TodoRefs
      <4>4. CASE q # p
        BY SMTT(40), <3>1, <4>1, <4>2, <4>3, <4>4
      <4>5. CASE q = p
        <5>1. r \in TodoRefs(g)' <=> k <= n - 1 /\ todo[p][n + 1 - k] = g
          BY ZenonT(40), <3>1, <3>2, <4>3, <4>5
        <5> QED BY SMTT(40), <3>2, <3>3, <4>1, <4>2, <4>5, <5>1
      <4> QED BY Zenon, <4>4, <4>5
    <3>5. TodoRefs(g)' \subseteq Proc \X (1..2) /\ TodoRefs(g) \subseteq Proc \X (1..2)
      BY Zenon DEF TodoRefs
    <3> QED BY ZenonT(40), <3>4, <3>5
  <2>7. g = f => <<p, n>> \in TodoRefs(g)
    BY Zenon, <1>0, <1>1, TodoFirst DEF fileclose
  <2>8. CASE g = f
    <3>1. Cardinality(TodoRefs(g) \ {<<p, n>>}) = Cardinality(TodoRefs(g)) - 1
      BY Zenon, <2>7, <2>8, RefSum, Shrink
    <3>2. Counted(g) /\ file[g].ref = Refs(g)
      BY Zenon, <1>0, RefCounted DEF RefInv
    <3> QED BY SMTT(40), <2>3, <2>5, <2>6, <2>8, <3>1, <3>2 DEF Counted
  <2>9. CASE g # f
    BY ZenonT(40), <1>0, <2>3, <2>5, <2>6, <2>9, RefSum DEF RefInv
  <2> QED BY Zenon, <2>8, <2>9
<1>2. ASSUME NEW p \in Proc, lastclose(p) PROVE RefInv'
  BY Zenon, <1>0, <1>2, RefSame DEF lastclose
<1>3. ASSUME NEW p \in Proc, NEW i \in Inode, sys_open(p, i) PROVE RefInv'
  <2>0. UNCHANGED <<todo, hold>>
    BY Zenon, <1>3 DEF sys_open
  <2>1. CASE UNCHANGED <<file, ofile, iref>>
    BY Zenon, <1>0, <2>0, <2>1, RefSame
  <2>2. CASE /\ FreeFiles # {} /\ FreeFds(p) # {}
             /\ file' = Set(file, filealloc, [ref |-> 1, type |-> "INODE", obj |-> i, writable |-> FALSE])
             /\ ofile' = [ofile EXCEPT ![p][fdalloc(p)] = filealloc]
    <3>1. /\ filealloc \in File /\ file[filealloc].ref = 0
          /\ fdalloc(p) \in FD /\ ofile[p][fdalloc(p)] = None
      BY Zenon, <2>2, Alloc
    <3>2. /\ file'[filealloc].ref = file[filealloc].ref + 1
          /\ \A g \in File \ {filealloc} : file'[g].ref = file[g].ref
      BY SMTT(40), <1>0, <2>2, <3>1 DEF TypeOK, Set
    <3> QED BY ZenonT(40), <1>0, <2>0, <2>2, <3>1, <3>2, NewFd
  <2> QED BY Zenon, <1>3, <2>1, <2>2 DEF sys_open
<1>4. ASSUME NEW p \in Proc, NEW fd \in FD, sys_dup(p, fd) PROVE RefInv'
  <2>1. /\ UNCHANGED <<todo, hold>>
        /\ ofile' = [ofile EXCEPT ![p][fdalloc(p)] = ofile[p][fd]]
        /\ file' = [file EXCEPT ![ofile[p][fd]].ref = @ + 1]
        /\ FreeFds(p) # {} /\ ofile[p][fd] \in File
    BY SMTT(40), <1>0, <1>4 DEF sys_dup, OpenFds, TypeOK
  <2>2. fdalloc(p) \in FD /\ ofile[p][fdalloc(p)] = None
    BY Zenon, <2>1, Alloc
  <2>3. /\ file'[ofile[p][fd]].ref = file[ofile[p][fd]].ref + 1
        /\ \A g \in File \ {ofile[p][fd]} : file'[g].ref = file[g].ref
    BY SMTT(40), <1>0, <2>1 DEF TypeOK, FileRec
  <2> QED BY ZenonT(40), <1>0, <2>1, <2>2, <2>3, NewFd
<1>5. ASSUME NEW p \in Proc, NEW fd \in FD, sys_close(p, fd) PROVE RefInv'
  <2>1. ofile[p][fd] \in File /\ todo[p] = <<>>
    BY <1>0, <1>5 DEF sys_close, OpenFds, TypeOK, Calls, Returning
  <2> QED BY ZenonT(40), <1>0, <1>5, <2>1, FdToTodo DEF sys_close
<1>6. ASSUME NEW p \in Proc, pipealloc(p) PROVE RefInv'
  <2>1. PICK x \in Pipe, rf \in File, wf \in File :
          Allocated(p, x, rf, wf)
    BY Zenon, <1>6, PipeAlloc
  <2>2. UNCHANGED <<ofile, todo>> /\ hold[p] = <<>>
    BY Zenon, <1>6 DEF pipealloc, Calls, Returning
  <2>4. \A g \in File : file'[g].ref = IF g \in {rf, wf} THEN file[g].ref + 1 ELSE file[g].ref
    BY SMTT(40), <1>0, <2>1 DEF TypeOK, PipeEnd, Allocated
  <2>5. SUFFICES ASSUME NEW g \in File PROVE file'[g].ref = Refs(g)'
    BY Zenon DEF RefInv
  <2>6. FdRefs(g)' = FdRefs(g) /\ TodoRefs(g)' = TodoRefs(g)
    BY Zenon, <2>2 DEF FdRefs, TodoRefs
  <2>7. /\ \A q \in Proc : hold'[q] = IF q = p THEN <<rf, wf>> ELSE hold[q]
        /\ Len(<<rf, wf>>) = 2 /\ <<rf, wf>>[1] = rf /\ <<rf, wf>>[2] = wf
        /\ Len(hold[p]) = 0
    BY SMTT(40), <1>0, <2>1, <2>2 DEF TypeOK, Set, Allocated
  <2>8. HoldRefs(g)' = IF g = rf THEN HoldRefs(g) \cup {<<p, 1>>}
                       ELSE IF g = wf THEN HoldRefs(g) \cup {<<p, 2>>} ELSE HoldRefs(g)
    BY SMTT(40), <2>1, <2>7 DEF HoldRefs, Allocated
  <2>9. <<p, 1>> \notin HoldRefs(g) /\ <<p, 2>> \notin HoldRefs(g)
    BY <2>7 DEF HoldRefs
  <2>10. /\ Cardinality(HoldRefs(g) \cup {<<p, 1>>}) = Cardinality(HoldRefs(g)) + 1
         /\ Cardinality(HoldRefs(g) \cup {<<p, 2>>}) = Cardinality(HoldRefs(g)) + 1
    BY ZenonT(40), <2>9, RefSum, Grow
  <2>11. Counted(g) /\ file[g].ref = Refs(g)
    BY Zenon, <1>0, RefCounted DEF RefInv
  <2>12. /\ Cardinality(HoldRefs(g)') = Cardinality(HoldRefs(g)) + (IF g \in {rf, wf} THEN 1 ELSE 0)
         /\ Cardinality(TodoRefs(g)') = Cardinality(TodoRefs(g))
         /\ Cardinality(FdRefs(g)') = Cardinality(FdRefs(g))
    <3>1. CASE g = rf
      BY SMTT(40), <2>6, <2>8, <2>10, <3>1
    <3>2. CASE g # rf /\ g = wf
      BY SMTT(40), <2>6, <2>8, <2>10, <3>2
    <3>3. CASE g # rf /\ g # wf
      BY SMTT(40), <2>6, <2>8, <2>11, <3>3 DEF Counted
    <3> QED BY SMTT(40), <3>1, <3>2, <3>3
  <2> QED BY SMTT(40), <2>4, <2>11, <2>12 DEF Counted
<1>7. ASSUME NEW p \in Proc, sys_pipe(p) PROVE RefInv'
  <2> DEFINE a == hold[p][1]
             b == hold[p][2]
  <2>1. /\ hold' = Set(hold, p, <<>>) /\ file' = file /\ pc[p] = "pipe"
        /\ hold[p] \in Seq(File) /\ Len(hold[p]) = 2 /\ a # b /\ a \in File /\ b \in File
        /\ todo[p] = <<>>
    <3>1. hold[p] \in Seq(File)
      BY Zenon, <1>0 DEF TypeOK
    <3>2. hold' = Set(hold, p, <<>>) /\ file' = file /\ pc[p] = "pipe"
      BY Zenon, <1>7 DEF sys_pipe
    <3>3. Len(hold[p]) = 2 /\ hold[p][1] # hold[p][2] /\ todo[p] = <<>>
      BY Zenon, <1>0, <3>2 DEF ControlInv, Control
    <3> QED BY SMTT(40), <3>1, <3>2, <3>3
  <2>2. SUFFICES ASSUME NEW g \in File PROVE Refs(g)' = Refs(g)
    BY Zenon, <1>0, <2>1 DEF RefInv
  <2>3. /\ \A q \in Proc : hold'[q] = IF q = p THEN <<>> ELSE hold[q]
        /\ Len(<<>>) = 0
    BY Zenon, <1>0, <2>1 DEF TypeOK, Set
  <2>4. HoldRefs(g)' = IF g = a THEN HoldRefs(g) \ {<<p, 1>>}
                       ELSE IF g = b THEN HoldRefs(g) \ {<<p, 2>>} ELSE HoldRefs(g)
    BY SMTT(40), <2>1, <2>3 DEF HoldRefs
  <2>5. (g = a => <<p, 1>> \in HoldRefs(g)) /\ (g = b => <<p, 2>> \in HoldRefs(g))
    BY SMTT(40), <2>1 DEF HoldRefs
  <2>6. /\ g = a => Cardinality(HoldRefs(g) \ {<<p, 1>>}) = Cardinality(HoldRefs(g)) - 1
        /\ g = b => Cardinality(HoldRefs(g) \ {<<p, 2>>}) = Cardinality(HoldRefs(g)) - 1
    BY Zenon, <2>5, RefSum, Shrink
  <2>0. Counted(g)
    BY Zenon, RefCounted
  <2>7. CASE Cardinality(FreeFds(p)) >= 2
    <3> DEFINE s == fdalloc(p)
               t == Min(FreeFds(p) \ {fdalloc(p)})
    <3>1. s \in FD /\ t \in FD /\ s # t /\ ofile[p][s] = None /\ ofile[p][t] = None
      BY Zenon, <2>7, FdsTwo
    <3>2. ofile' = [ofile EXCEPT ![p][s] = a, ![p][t] = b] /\ todo' = todo
      BY Zenon, <1>7, <2>7 DEF sys_pipe
    <3> HIDE DEF s, t, a, b
    <3>3. \A q \in Proc, d \in FD : ofile'[q][d] = IF q = p /\ d = s THEN a
                                                 ELSE IF q = p /\ d = t THEN b ELSE ofile[q][d]
      BY SMTT(40), <1>0, <3>1, <3>2 DEF TypeOK
    <3>4. None # g
      BY Zenon DEF FilesAssumption, File
    <3>5. FdRefs(g)' = IF g = a THEN FdRefs(g) \cup {<<p, s>>}
                       ELSE IF g = b THEN FdRefs(g) \cup {<<p, t>>} ELSE FdRefs(g)
      BY SMTT(40), <2>1, <3>1, <3>3, <3>4 DEF FdRefs
    <3>6. <<p, s>> \notin FdRefs(g) /\ <<p, t>> \notin FdRefs(g)
      BY Zenon, <3>1, <3>4 DEF FdRefs
    <3>7. /\ Cardinality(FdRefs(g) \cup {<<p, s>>}) = Cardinality(FdRefs(g)) + 1
          /\ Cardinality(FdRefs(g) \cup {<<p, t>>}) = Cardinality(FdRefs(g)) + 1
      BY ZenonT(40), <3>6, RefSum, Grow
    <3>8. TodoRefs(g)' = TodoRefs(g)
      BY ZenonT(40), <3>2 DEF TodoRefs
    <3> QED BY SMTT(40), <2>0, <2>1, <2>4, <2>6, <3>5, <3>7, <3>8 DEF Counted
  <2>8. CASE ~(Cardinality(FreeFds(p)) >= 2)
    <3>1. todo' = Set(todo, p, hold[p]) /\ ofile' = ofile
      BY Zenon, <1>7, <2>8 DEF sys_pipe
    <3>2. /\ \A q \in Proc : todo'[q] = IF q = p THEN hold[p] ELSE todo[q]
          /\ Len(todo[p]) = 0
      BY Zenon, <1>0, <2>1, <3>1 DEF TypeOK, Set
    <3>3. hold[p][2 + 1 - 1] = b /\ hold[p][2 + 1 - 2] = a
      OBVIOUS
    <3>4. TodoRefs(g)' = IF g = a THEN TodoRefs(g) \cup {<<p, 2>>}
                         ELSE IF g = b THEN TodoRefs(g) \cup {<<p, 1>>} ELSE TodoRefs(g)
      <4> HIDE DEF a, b
      <4>1. /\ todo'[p] = hold[p] /\ Len(todo'[p]) = 2
            /\ hold[p][1] = a /\ hold[p][2] = b
        BY Zenon, <2>1, <3>2 DEF a, b
      <4>2. \A k \in 1..2 : ~(k <= Len(todo[p]))
        BY <3>2
      <4>3. \A q \in Proc \ {p} : todo'[q] = todo[q]
        BY Zenon, <3>2
      <4>4. ASSUME NEW r \in Proc \X (1..2)
            PROVE  r \in TodoRefs(g)' <=> r \in (IF g = a THEN TodoRefs(g) \cup {<<p, 2>>}
                                               ELSE IF g = b THEN TodoRefs(g) \cup {<<p, 1>>}
                                               ELSE TodoRefs(g))
        <5>1. PICK q \in Proc, k \in 1..2 : r = <<q, k>>
          OBVIOUS
        <5>2. r \in TodoRefs(g) <=> k <= Len(todo[q]) /\ todo[q][Len(todo[q]) + 1 - k] = g
          BY Zenon, <5>1 DEF TodoRefs
        <5>3. r \in TodoRefs(g)' <=> k <= Len(todo'[q]) /\ todo'[q][Len(todo'[q]) + 1 - k] = g
          BY Zenon, <5>1 DEF TodoRefs
        <5>4. CASE q # p
          BY SMTT(40), <4>3, <5>1, <5>2, <5>3, <5>4
        <5>5. CASE q = p /\ k = 1
          <6>0. Len(todo'[q]) + 1 - k = 2 /\ k <= Len(todo'[q]) /\ todo'[q][2] = b
            BY SMTT(40), <4>1, <5>5
          <6>1. r \in TodoRefs(g)' <=> b = g
            BY Zenon, <5>3, <6>0
          <6>2. r \notin TodoRefs(g) /\ r = <<p, 1>> /\ r # <<p, 2>>
            BY SMTT(40), <4>2, <5>1, <5>2, <5>5
          <6>3. CASE g = a
            <7>1. b # g
              BY Zenon, <2>1, <6>3
            <7> QED BY SMTT(40), <6>1, <6>2, <6>3, <7>1
          <6>4. CASE g # a /\ g = b
            BY Zenon, <6>1, <6>2, <6>4
          <6>5. CASE g # a /\ g # b
            BY ZenonT(40), <6>1, <6>2, <6>5
          <6> QED BY SMTT(40), <6>3, <6>4, <6>5
        <5>6. CASE q = p /\ k = 2
          <6>0. Len(todo'[q]) + 1 - k = 1 /\ k <= Len(todo'[q]) /\ todo'[q][1] = a
            BY SMTT(40), <4>1, <5>6
          <6>1. r \in TodoRefs(g)' <=> a = g
            BY Zenon, <5>3, <6>0
          <6>2. r \notin TodoRefs(g) /\ r = <<p, 2>> /\ r # <<p, 1>>
            BY SMTT(40), <4>2, <5>1, <5>2, <5>6
          <6> QED BY SMTT(40), <2>1, <6>1, <6>2
        <5> QED BY SMTT(40), <5>4, <5>5, <5>6
      <4>5. /\ TodoRefs(g)' \subseteq Proc \X (1..2) /\ TodoRefs(g) \subseteq Proc \X (1..2)
            /\ <<p, 1>> \in Proc \X (1..2) /\ <<p, 2>> \in Proc \X (1..2)
        BY DEF TodoRefs
      <4> QED BY Zenon, <4>4, <4>5
    <3>5. <<p, 1>> \notin TodoRefs(g) /\ <<p, 2>> \notin TodoRefs(g)
      BY SMTT(40), <3>2 DEF TodoRefs
    <3>6. /\ Cardinality(TodoRefs(g) \cup {<<p, 1>>}) = Cardinality(TodoRefs(g)) + 1
          /\ Cardinality(TodoRefs(g) \cup {<<p, 2>>}) = Cardinality(TodoRefs(g)) + 1
      BY Zenon, <3>5, RefSum, Grow
    <3>7. FdRefs(g)' = FdRefs(g)
      BY Zenon, <3>1 DEF FdRefs
    <3> QED BY SMTT(40), <2>0, <2>1, <2>4, <2>6, <3>4, <3>6, <3>7 DEF Counted
  <2> QED BY Zenon, <2>7, <2>8
<1>8. ASSUME NEW p \in Proc, NEW c \in Proc, fork(p, c) PROVE RefInv'
  <2>1. /\ UNCHANGED <<todo, hold>> /\ ofile' = Set(ofile, c, ofile[p]) /\ ofile[c] = Nobody
        /\ file' = [f \in File |-> [file[f] EXCEPT !.ref = @ + Uses(p, f)]]
    BY Zenon, <1>0, <1>8 DEF fork, ControlInv, Control
  <2>2. SUFFICES ASSUME NEW g \in File PROVE file'[g].ref = Refs(g)'
    BY Zenon DEF RefInv
  <2> DEFINE S == {fd \in FD : ofile[p][fd] = g}
             T == {r \in Proc \X FD : r[1] = c /\ ofile[p][r[2]] = g}
  <2>3. HoldRefs(g)' = HoldRefs(g) /\ TodoRefs(g)' = TodoRefs(g)
    BY Zenon, <2>1 DEF HoldRefs, TodoRefs
  <2>4. FdRefs(g)' = FdRefs(g) \cup T /\ FdRefs(g) \cap T = {}
    <3>1. /\ \A q \in Proc : ofile'[q] = IF q = c THEN ofile[p] ELSE ofile[q]
          /\ \A fd \in FD : ofile[c][fd] # g
      BY Zenon, <1>0, <2>1 DEF TypeOK, Set, Nobody, FilesAssumption, File
    <3> QED BY <3>1 DEF FdRefs
  <2>5. IsFiniteSet(S) /\ IsFiniteSet(T) /\ Cardinality(T) = Cardinality(S)
    <3>1. IsFiniteSet(S) /\ IsFiniteSet(T)
      BY Zenon, FiniteRefs
    <3> DEFINE h == [fd \in S |-> <<c, fd>>]
    <3>2. h \in Bijection(S, T)
      <4>1. h \in [S -> T] /\ \A u, v \in S : h[u] = h[v] => u = v
        BY Zenon
      <4>2. \A r \in T : \E u \in S : h[u] = r
        <5> TAKE r \in T
        <5>1. r[2] \in S /\ h[r[2]] = r
          OBVIOUS
        <5> QED BY Zenon, <5>1
      <4> HIDE DEF h, S, T
      <4> QED BY Zenon, <4>1, <4>2 DEF Bijection, Injection, IsInjective, Surjection
    <3>3. ExistsBijection(S, T)
      BY Zenon, <3>2 DEF ExistsBijection
    <3> QED BY SMTT(40), <3>1, <3>3, FS_Bijection
  <2>6. Cardinality(FdRefs(g)') = Cardinality(FdRefs(g)) + Cardinality(S)
    <3>1. /\ Cardinality(FdRefs(g) \cup T)
               = Cardinality(FdRefs(g)) + Cardinality(T) - Cardinality(FdRefs(g) \cap T)
          /\ Cardinality(FdRefs(g) \cap T) = 0
          /\ Cardinality(FdRefs(g)) \in Nat /\ Cardinality(T) \in Nat
      BY ZenonT(40), <2>4, <2>5, RefSum, FS_Union, FS_EmptySet, FS_CardinalityType
    <3> QED BY SMTT(40), <2>4, <2>5, <3>1
  <2>7. file'[g].ref = file[g].ref + Cardinality(S) /\ Cardinality(S) \in Nat
    BY SMTT(40), <1>0, <2>1, <2>5, FS_CardinalityType DEF Uses, TypeOK, FileRec
  <2> HIDE DEF S
  <2> QED BY SMTT(40), <1>0, <2>3, <2>6, <2>7, RefSum DEF RefInv
<1>9. ASSUME NEW p \in Proc, exit(p) PROVE RefInv'
  <2>0. UNCHANGED <<file, hold>> /\ todo[p] = <<>>
    BY Zenon, <1>9 DEF exit, Returning
  <2>1. CASE OpenFds(p) = {}
    BY SMTT(40), <1>0, <1>9, <2>0, <2>1, RefSame DEF exit
  <2>2. CASE OpenFds(p) # {}
    <3>1. PICK fd \in OpenFds(p) : /\ todo' = Set(todo, p, <<ofile[p][fd]>>)
                                   /\ ofile' = [ofile EXCEPT ![p][fd] = None]
      BY ZenonT(40), <1>9, <2>2, FirstOpen DEF exit
    <3>2. fd \in FD /\ ofile[p][fd] \in File
      BY <1>0 DEF OpenFds, TypeOK
    <3> QED BY ZenonT(40), <1>0, <2>0, <3>1, <3>2, FdToTodo
  <2> QED BY Zenon, <2>1, <2>2
<1>10. ASSUME NEW p \in Proc, NEW fd \in FD, sys_read(p, fd) PROVE RefInv'
  BY ZenonT(40), <1>0, <1>10, RefSame DEF sys_read
<1>11. ASSUME NEW p \in Proc, NEW fd \in FD, NEW m \in Message, sys_write(p, fd, m) PROVE RefInv'
  BY ZenonT(40), <1>0, <1>11, RefSame DEF sys_write
<1>12. ASSUME NEW p \in Proc, piperead(p) \/ pipewrite(p) \/ sleep(p) \/ kill(p) PROVE RefInv'
  BY ZenonT(40), <1>0, <1>12, RefSame DEF piperead, pipewrite, sleep, kill
<1> QED
  BY SMTT(40), <1>1, <1>2, <1>3, <1>4, <1>5, <1>6, <1>7, <1>8, <1>9, <1>10, <1>11, <1>12
     DEF Next, Step, Call

-----------------------------------------------------------------------------
(* References to inodes *)

\* A step that changes no file but its count.
LEMMA InodeSame ==
  ASSUME InodeInv, UNCHANGED <<iref, ff>>,
         \A f \in File : file'[f].type = file[f].type /\ file'[f].obj = file[f].obj
  PROVE  InodeInv'
<1>1. \A i \in Inode : InodeFiles(i)' = InodeFiles(i) /\ InodeCloses(i)' = InodeCloses(i)
  BY Zenon DEF InodeFiles, InodeCloses
<1> QED BY ZenonT(40), <1>1 DEF InodeInv

\* A free file becomes an inode's, and the inode has one reference more.
LEMMA InodeOpen ==
  ASSUME FilesAssumption, TypeOK, InodeInv, NEW f \in File, file[f] = NoFile, NEW j \in Inode, NEW w,
         file' = Set(file, f, [ref |-> 1, type |-> "INODE", obj |-> j, writable |-> w]),
         iref' = [iref EXCEPT ![j] = @ + 1], UNCHANGED ff
  PROVE  InodeInv'
<1> SUFFICES ASSUME NEW i \in Inode
             PROVE  iref'[i] = Cardinality(InodeFiles(i)') + Cardinality(InodeCloses(i)')
  BY Zenon DEF InodeInv
<1>1. InodeCloses(i)' = InodeCloses(i)
  BY ZenonT(40) DEF InodeCloses
<1>2. /\ \A g \in File \ {f} : file'[g] = file[g]
      /\ file'[f].type = "INODE" /\ file'[f].obj = j /\ file[f].type = "NONE"
  BY DEF TypeOK, Set, NoFile
<1>3. InodeFiles(i)' = (IF i = j THEN InodeFiles(i) \cup {f} ELSE InodeFiles(i)) /\ f \notin InodeFiles(i)
  BY ZenonT(40), <1>2 DEF InodeFiles
<1>4. IsFiniteSet(InodeFiles(i)) /\ IsFiniteSet(InodeCloses(i))
  BY Zenon, FiniteRefs DEF InodeFiles, InodeCloses
<1>5. /\ Cardinality(InodeFiles(i) \cup {f}) = Cardinality(InodeFiles(i)) + 1
      /\ Cardinality(InodeFiles(i)) \in Nat /\ Cardinality(InodeCloses(i)) \in Nat
  BY SMTT(40), <1>3, <1>4, Grow, FS_CardinalityType
<1>6. iref[i] = Cardinality(InodeFiles(i)) + Cardinality(InodeCloses(i)) /\ iref \in [Inode -> Int]
  BY Zenon DEF InodeInv, TypeOK
<1>7. CASE i = j
  <2>1. Cardinality(InodeFiles(i)') = Cardinality(InodeFiles(i)) + 1
        /\ Cardinality(InodeCloses(i)') = Cardinality(InodeCloses(i)) /\ iref'[i] = iref[i] + 1
    BY ZenonT(40), <1>1, <1>3, <1>5, <1>6, <1>7
  <2> QED BY SMTT(40), <1>5, <1>6, <2>1
<1>8. CASE i # j
  BY SMTT(40), <1>1, <1>3, <1>6, <1>8
<1> QED BY Zenon, <1>7, <1>8

\* Every step changes the count of an inode with the files on it.
LEMMA InodeStep == ASSUME FilesAssumption, IInv, Next PROVE InodeInv'
<1> USE DEF fdVars, ioVars, procVars
<1>0. TypeOK /\ ControlInv /\ TableInv /\ InodeInv /\ RefInv
  BY Zenon DEF IInv
<1>1. ASSUME NEW p \in Proc, fileclose(p) PROVE InodeInv'
  <2> DEFINE f == Head(todo[p])
  <2>1. f \in File /\ ff[p] = NoFile /\ iref' = iref
    BY ZenonT(40), <1>0, <1>1, TodoFirst DEF fileclose
  <2>2. CASE ~Dropped(f)
    <3>1. file' = [file EXCEPT ![f].ref = @ - 1] /\ ff' = ff
      BY Zenon, <1>1, <2>2 DEF fileclose
    <3> HIDE DEF f
    <3>2. \A g \in File : file'[g].type = file[g].type /\ file'[g].obj = file[g].obj
      BY SMTT(40), <1>0, <2>1, <3>1 DEF TypeOK, FileRec
    <3> QED BY SMTT(40), <1>0, <2>1, <3>1, <3>2, InodeSame
  <2>3. CASE Dropped(f)
    <3>1. file' = Set(file, f, NoFile) /\ ff' = Set(ff, p, file[f])
      BY Zenon, <1>1, <2>3 DEF fileclose
    <3> HIDE DEF f
    <3>2. SUFFICES ASSUME NEW i \in Inode
                   PROVE  iref[i] = Cardinality(InodeFiles(i)') + Cardinality(InodeCloses(i)')
      BY Zenon, <2>1 DEF InodeInv
    <3> DEFINE is == file[f].type = "INODE" /\ file[f].obj = i
    <3>3. /\ \A g \in File \ {f} : file'[g] = file[g]
          /\ \A q \in Proc \ {p} : ff'[q] = ff[q]
          /\ file'[f].type = "NONE" /\ ff'[p] = file[f] /\ ff[p].type = "NONE"
      BY SMTT(40), <1>0, <2>1, <3>1 DEF TypeOK, Set, NoFile
    <3>4. CASE is
      <4>1. /\ InodeFiles(i)' = InodeFiles(i) \ {f} /\ f \in InodeFiles(i)
            /\ InodeCloses(i)' = InodeCloses(i) \cup {p} /\ p \notin InodeCloses(i)
        BY Zenon, <2>1, <3>3, <3>4 DEF InodeFiles, InodeCloses
      <4>2. IsFiniteSet(InodeFiles(i)) /\ IsFiniteSet(InodeCloses(i))
        BY Zenon, FiniteRefs DEF InodeFiles, InodeCloses
      <4>3. /\ Cardinality(InodeFiles(i)') = Cardinality(InodeFiles(i)) - 1
            /\ Cardinality(InodeFiles(i)) \in Nat
        BY Zenon, <4>1, <4>2, Shrink
      <4>4. /\ Cardinality(InodeCloses(i)') = Cardinality(InodeCloses(i)) + 1
            /\ Cardinality(InodeCloses(i)) \in Nat
        BY Zenon, <4>1, <4>2, Grow
      <4>5. iref[i] = Cardinality(InodeFiles(i)) + Cardinality(InodeCloses(i))
        BY Zenon, <1>0 DEF InodeInv
      <4> QED BY SMTT(40), <4>3, <4>4, <4>5
    <3>5. CASE ~is
      <4>1. InodeFiles(i)' = InodeFiles(i) /\ InodeCloses(i)' = InodeCloses(i)
        BY SMTT(40), <2>1, <3>3, <3>5 DEF InodeFiles, InodeCloses
      <4> QED BY Zenon, <1>0, <4>1 DEF InodeInv
    <3> QED BY Zenon, <3>4, <3>5
  <2> QED BY Zenon, <2>2, <2>3
<1>2. ASSUME NEW p \in Proc, lastclose(p) PROVE InodeInv'
  <2>1. file' = file /\ ff' = Set(ff, p, NoFile)
    BY Zenon, <1>2 DEF lastclose
  <2>2. SUFFICES ASSUME NEW i \in Inode
                 PROVE  iref'[i] = Cardinality(InodeFiles(i)') + Cardinality(InodeCloses(i)')
    BY Zenon DEF InodeInv
  <2>3. (\A q \in Proc \ {p} : ff'[q] = ff[q]) /\ ff'[p].type = "NONE"
    BY Zenon, <1>0, <2>1 DEF TypeOK, Set, NoFile
  <2>4. InodeFiles(i)' = InodeFiles(i)
    BY Zenon, <2>1 DEF InodeFiles
  <2>5. iref[i] = Cardinality(InodeFiles(i)) + Cardinality(InodeCloses(i)) /\ iref \in [Inode -> Int]
    BY Zenon, <1>0 DEF InodeInv, TypeOK
  <2>6. CASE ff[p].type = "INODE" /\ ff[p].obj = i
    <3>1. InodeCloses(i)' = InodeCloses(i) \ {p} /\ p \in InodeCloses(i)
      BY ZenonT(40), <2>3, <2>6 DEF InodeCloses
    <3>2. IsFiniteSet(InodeFiles(i)) /\ IsFiniteSet(InodeCloses(i))
      BY Zenon, FiniteRefs DEF InodeFiles, InodeCloses
    <3>3. /\ Cardinality(InodeCloses(i)') = Cardinality(InodeCloses(i)) - 1
          /\ Cardinality(InodeCloses(i)) \in Nat /\ Cardinality(InodeFiles(i)) \in Nat
      BY SMTT(40), <3>1, <3>2, Shrink, FS_CardinalityType
    <3>4. iref'[i] = iref[i] - 1
      BY ZenonT(40), <1>2, <2>5, <2>6 DEF lastclose
    <3> QED BY SMTT(40), <2>4, <2>5, <3>3, <3>4
  <2>7. CASE ~(ff[p].type = "INODE" /\ ff[p].obj = i)
    <3>1. InodeCloses(i)' = InodeCloses(i)
      BY ZenonT(40), <2>3, <2>7 DEF InodeCloses
    <3>2. iref'[i] = iref[i]
      BY SMTT(40), <1>0, <1>2, <2>5, <2>7 DEF lastclose
    <3> QED BY SMTT(40), <2>4, <2>5, <3>1, <3>2
  <2> QED BY Zenon, <2>6, <2>7
<1>3. ASSUME NEW p \in Proc, NEW i \in Inode, sys_open(p, i) PROVE InodeInv'
  <2>0. UNCHANGED ff
    BY Zenon, <1>3 DEF sys_open
  <2>1. CASE UNCHANGED <<file, ofile, iref>>
    BY SMTT(40), <1>0, <2>0, <2>1, InodeSame
  <2>2. CASE /\ FreeFiles # {} /\ FreeFds(p) # {}
             /\ file' = Set(file, filealloc, [ref |-> 1, type |-> "INODE", obj |-> i, writable |-> FALSE])
             /\ iref' = [iref EXCEPT ![i] = @ + 1]
    <3>1. filealloc \in File /\ file[filealloc] = NoFile
      BY ZenonT(40), <1>0, <2>2, Alloc DEF TableInv
    <3> QED BY ZenonT(40), <1>0, <2>0, <2>2, <3>1, InodeOpen
  <2> QED BY Zenon, <1>3, <2>1, <2>2 DEF sys_open
<1>4. ASSUME NEW p \in Proc, NEW fd \in FD, sys_dup(p, fd) PROVE InodeInv'
  <2>1. /\ file' = [file EXCEPT ![ofile[p][fd]].ref = @ + 1] /\ UNCHANGED <<iref, ff>>
        /\ ofile[p][fd] \in File
    BY SMTT(40), <1>0, <1>4 DEF sys_dup, OpenFds, TypeOK
  <2>2. \A g \in File : file'[g].type = file[g].type /\ file'[g].obj = file[g].obj
    BY SMTT(40), <1>0, <2>1 DEF TypeOK, FileRec
  <2> QED BY SMTT(40), <1>0, <2>1, <2>2, InodeSame
<1>5. ASSUME NEW p \in Proc, pipealloc(p) PROVE InodeInv'
  <2>1. PICK x \in Pipe, rf \in File, wf \in File : Allocated(p, x, rf, wf)
    BY Zenon, <1>5, PipeAlloc
  <2>2. UNCHANGED <<iref, ff>>
    BY Zenon, <1>5 DEF pipealloc
  <2>3. /\ \A g \in File \ {rf, wf} : file'[g] = file[g]
        /\ \A g \in {rf, wf} : file'[g].type = "PIPE" /\ file[g].type = "NONE"
    BY SMTT(40), <1>0, <2>1 DEF TypeOK, TableInv, Allocated, PipeEnd, NoFile
  <2>4. \A i \in Inode : InodeFiles(i)' = InodeFiles(i) /\ InodeCloses(i)' = InodeCloses(i)
    BY Zenon, <2>2, <2>3 DEF InodeFiles, InodeCloses
  <2> QED BY ZenonT(40), <1>0, <2>2, <2>4 DEF InodeInv
<1>6. ASSUME NEW p \in Proc, NEW c \in Proc, fork(p, c) PROVE InodeInv'
  <2>1. /\ file' = [f \in File |-> [file[f] EXCEPT !.ref = @ + Uses(p, f)]] /\ UNCHANGED <<iref, ff>>
    BY Zenon, <1>6 DEF fork
  <2>2. \A g \in File : file'[g].type = file[g].type /\ file'[g].obj = file[g].obj
    BY SMTT(40), <1>0, <2>1 DEF TypeOK, FileRec
  <2> QED BY Zenon, <1>0, <2>1, <2>2, InodeSame
<1>7. ASSUME UNCHANGED <<file, iref, ff>> PROVE InodeInv'
  BY ZenonT(40), <1>0, <1>7, InodeSame
<1>8. ASSUME NEW p \in Proc,
             \/ sys_pipe(p) \/ piperead(p) \/ pipewrite(p) \/ sleep(p) \/ exit(p) \/ kill(p)
             \/ \E fd \in FD : sys_close(p, fd) \/ sys_read(p, fd)
             \/ \E fd \in FD, m \in Message : sys_write(p, fd, m)
      PROVE  UNCHANGED <<file, iref, ff>>
  BY ZenonT(40), <1>8 DEF sys_pipe, piperead, pipewrite, sleep, exit, kill, sys_close, sys_read,
     sys_write
<1> QED
  BY SMTT(40), <1>1, <1>2, <1>3, <1>4, <1>5, <1>6, <1>7, <1>8 DEF Next, Step, Call

-----------------------------------------------------------------------------
(* The bytes of a pipe *)

\* Two numbers of one class are the same place.
LEMMA OnePlace ==
  ASSUME NEW P \in Nat \ {0}, NEW q \in Int, NEW r \in 0..(P - 1), NEW s \in Int,
         NEW t \in 0..(P - 1), P * q + r = P * s + t
  PROVE  r = t
<1>1. P * (q - s) = t - r
  OBVIOUS
<1>2. ASSUME NEW z \in Int, z >= 1 PROVE P * z >= P
  <2>1. P * (z - 1) >= 0
    BY <1>2
  <2> QED BY <2>1
<1>3. CASE q - s >= 1
  BY SMTT(40), <1>1, <1>2, <1>3
<1>4. CASE s - q >= 1
  <2>1. P * (s - q) >= P
    BY <1>2, <1>4
  <2> QED BY SMTT(40), <1>1, <2>1
<1>5. CASE q = s
  BY <1>5
<1> QED BY SMTT(40), <1>3, <1>4, <1>5

\* A number is its remainder and a multiple of P.
LEMMA Remainder ==
  ASSUME NEW P \in Nat \ {0}, NEW a \in Int
  PROVE  /\ a % P \in 0..(P - 1)
         /\ \E q \in Int : a = P * q + (a % P)
<1>1. a % P \in 0..(P - 1)
  OBVIOUS
<1>2. a \div P \in Int /\ a = P * (a \div P) + (a % P)
  OBVIOUS
<1> QED BY Zenon, <1>1, <1>2

\* The remainder is the only number below P that differs by a multiple of P.
LEMMA SamePlace ==
  ASSUME NEW P \in Nat \ {0}, NEW a \in Int, NEW q \in Int, NEW r \in 0..(P - 1), a = P * q + r
  PROVE  a % P = r
<1>1. PICK s \in Int : a = P * s + (a % P)
  BY Zenon, Remainder
<1>2. a % P \in 0..(P - 1)
  BY Remainder
<1> QED BY Zenon, <1>1, <1>2, OnePlace

\* W is a multiple of PIPESIZE, so a wrapped counter points to the same cell.
LEMMA Wraps == ASSUME FilesAssumption
               PROVE  \E v \in Int : W = PIPESIZE * v
<1>1. PIPESIZE \in Nat \ {0} /\ W \in Int /\ W % PIPESIZE = 0
  BY DEF FilesAssumption
<1>2. PICK v \in Int : W = PIPESIZE * v + (W % PIPESIZE)
  BY Zenon, <1>1, Remainder
<1> QED BY SMTT(40), <1>1, <1>2

\* The byte at place i of the ring is in cell Spot(r, i) ...
Spot(r, i) == (r + i - 1) % PIPESIZE

\* ... and pipewrite() counts the cells from nwrite on.
LEMMA WriteSpot ==
  ASSUME FilesAssumption, NEW r \in 0..(W - 1), NEW w \in 0..(W - 1), Dist(r, w) <= PIPESIZE,
         NEW i \in 1..PIPESIZE
  PROVE  /\ Spot(r, i) \in Cell
         /\ (Spot(r, i) + W - w) % PIPESIZE
              = IF i > Dist(r, w) THEN i - 1 - Dist(r, w) ELSE i - 1 - Dist(r, w) + PIPESIZE
<1> DEFINE c == Spot(r, i)
           n == Dist(r, w)
<1>1. PIPESIZE \in Nat \ {0} /\ W \in Nat /\ n \in 0..PIPESIZE /\ r + i - 1 \in Int
  BY Numbers DEF Dist
<1>2. PICK v \in Int : W = PIPESIZE * v
  BY Wraps
<1>3. c \in 0..(PIPESIZE - 1) /\ \E q \in Int : r + i - 1 = PIPESIZE * q + c
  BY Zenon, <1>1, Remainder DEF Spot
<1>4. PICK q \in Int : r + i - 1 = PIPESIZE * q + c
  BY <1>3
<1>5. PICK z \in Int : c + W - w = PIPESIZE * z + (i - 1 - n)
  <2>1. CASE w >= r
    <3>1. c + W - w = PIPESIZE * (v - q) + (i - 1 - n)
      BY SMTT(40), <1>1, <1>2, <1>3, <1>4, <2>1 DEF Dist
    <3> QED BY SMTT(40), <3>1
  <2>2. CASE ~(w >= r)
    <3>1. c + W - w = PIPESIZE * (v + v - q) + (i - 1 - n)
      BY SMTT(40), <1>1, <1>2, <1>3, <1>4, <2>2 DEF Dist
    <3> QED BY SMTT(40), <3>1
  <2> QED BY SMTT(40), <2>1, <2>2
<1>6. CASE i > n
  <2>1. i - 1 - n \in 0..(PIPESIZE - 1) /\ c + W - w \in Int
    BY SMTT(40), <1>1, <1>3, <1>6
  <2>2. (c + W - w) % PIPESIZE = i - 1 - n
    BY ZenonT(40), <1>1, <1>5, <2>1, SamePlace
  <2> QED BY SMTT(40), <1>3, <1>6, <2>2 DEF Cell
<1>7. CASE ~(i > n)
  <2>1. i - 1 - n + PIPESIZE \in 0..(PIPESIZE - 1) /\ c + W - w \in Int
    BY SMTT(40), <1>1, <1>3, <1>7
  <2>2. z - 1 \in Int /\ c + W - w = PIPESIZE * (z - 1) + (i - 1 - n + PIPESIZE)
    BY SMTT(40), <1>1, <1>5
  <2>3. (c + W - w) % PIPESIZE = i - 1 - n + PIPESIZE
    BY ZenonT(40), <1>1, <2>1, <2>2, SamePlace
  <2> QED BY SMTT(40), <1>3, <1>7, <2>3 DEF Cell
<1> QED BY SMTT(40), <1>6, <1>7

\* After k bytes have been read place i is the former place k + i, which piperead()
\* has not forgotten.
LEMMA ReadSpot ==
  ASSUME FilesAssumption, NEW r \in 0..(W - 1), NEW k \in 0..PIPESIZE, NEW i \in 1..PIPESIZE,
         k + i <= PIPESIZE
  PROVE  /\ Spot((r + k) % W, i) = Spot(r, k + i)
         /\ Spot(r, k + i) \in Cell
         /\ (Spot(r, k + i) + W - r) % PIPESIZE = k + i - 1
<1> DEFINE c == Spot(r, k + i)
<1>1. PIPESIZE \in Nat \ {0} /\ W \in Nat /\ k \in 0..W /\ r + (k + i) - 1 \in Int
  BY Numbers
<1>2. PICK v \in Int : W = PIPESIZE * v
  BY Wraps
<1>3. c \in 0..(PIPESIZE - 1) /\ \E q \in Int : r + (k + i) - 1 = PIPESIZE * q + c
  BY Zenon, <1>1, Remainder DEF Spot
<1>4. PICK q \in Int : r + (k + i) - 1 = PIPESIZE * q + c
  BY <1>3
<1>5. Spot((r + k) % W, i) = c
  <2> DEFINE t == (r + k) % W
  <2>1. t \in 0..(W - 1) /\ t = IF r + k < W THEN r + k ELSE r + k - W
    BY Zenon, <1>1, WrapAdd
  <2>2. PICK z \in Int : t + i - 1 = PIPESIZE * z + c
    <3>1. CASE r + k < W
      <4>1. t + i - 1 = PIPESIZE * q + c
        BY SMTT(40), <1>1, <1>4, <2>1, <3>1
      <4> QED BY Zenon, <4>1
    <3>2. CASE ~(r + k < W)
      <4>1. t + i - 1 = PIPESIZE * (q - v) + c
        BY SMTT(40), <1>1, <1>2, <1>3, <1>4, <2>1, <3>2
      <4>2. q - v \in Int
        OBVIOUS
      <4> QED BY Zenon, <4>1, <4>2
    <3> QED BY <3>1, <3>2
  <2>3. t + i - 1 \in Int
    BY SMTT(40), <1>1, <2>1
  <2> QED BY ZenonT(40), <1>1, <1>3, <2>2, <2>3, SamePlace DEF Spot
<1>6. (c + W - r) % PIPESIZE = k + i - 1
  <2>1. v - q \in Int /\ c + W - r = PIPESIZE * (v - q) + (k + i - 1)
    BY SMTT(40), <1>1, <1>2, <1>3, <1>4
  <2>2. c + W - r \in Int /\ k + i - 1 \in 0..(PIPESIZE - 1)
    BY SMTT(40), <1>1, <1>3
  <2> QED BY ZenonT(40), <1>1, <2>1, <2>2, SamePlace
<1> QED BY SMTT(40), <1>3, <1>5, <1>6 DEF Cell

\* Sequences with the same elements are the same.
LEMMA SeqSame ==
  ASSUME NEW S, NEW s \in Seq(S), NEW t \in Seq(S), Len(s) = Len(t),
         \A i \in 1..Len(s) : s[i] = t[i]
  PROVE  s = t
BY SMTT(40)

\* The first k elements of a sequence and the others.
LEMMA Split ==
  ASSUME NEW S, NEW s \in Seq(S), NEW k \in 0..Len(s)
  PROVE  /\ SubSeq(s, 1, k) \in Seq(S) /\ Len(SubSeq(s, 1, k)) = k
         /\ \A i \in 1..k : SubSeq(s, 1, k)[i] = s[i]
         /\ SubSeq(s, k + 1, Len(s)) \in Seq(S) /\ Len(SubSeq(s, k + 1, Len(s))) = Len(s) - k
         /\ \A i \in 1..(Len(s) - k) : SubSeq(s, k + 1, Len(s))[i] = s[k + i]
<1>1. ASSUME NEW m \in Int, NEW n \in Int, 1 <= m, n <= Len(s)
      PROVE  /\ SubSeq(s, m, n) \in Seq(S)
             /\ Len(SubSeq(s, m, n)) = IF m <= n THEN n - m + 1 ELSE 0
             /\ \A i \in 1..(n - m + 1) : SubSeq(s, m, n)[i] = s[m + i - 1]
  BY SMTT(40), <1>1
<1>2. Len(s) \in Int /\ k \in Int
  BY SMTT(40)
<1>3. /\ SubSeq(s, 1, k) \in Seq(S) /\ Len(SubSeq(s, 1, k)) = k
      /\ \A i \in 1..k : SubSeq(s, 1, k)[i] = s[i]
  BY SMTT(40), <1>1, <1>2
<1>4. /\ SubSeq(s, k + 1, Len(s)) \in Seq(S) /\ Len(SubSeq(s, k + 1, Len(s))) = Len(s) - k
      /\ \A i \in 1..(Len(s) - k) : SubSeq(s, k + 1, Len(s))[i] = s[k + i]
  BY SMTT(40), <1>1, <1>2
<1> QED BY Zenon, <1>3, <1>4

\* A sequence after another.
LEMMA Joined ==
  ASSUME NEW S, NEW s \in Seq(S), NEW t \in Seq(S)
  PROVE  /\ s \o t \in Seq(S) /\ Len(s \o t) = Len(s) + Len(t)
         /\ \A i \in 1..(Len(s) + Len(t)) :
              (s \o t)[i] = IF i <= Len(s) THEN s[i] ELSE t[i - Len(s)]
BY SMTT(40)

\* The bytes in a pipe.
LEMMA RingFacts ==
  ASSUME FilesAssumption, NEW y \in PipeRec, Count(y) <= PIPESIZE
  PROVE  /\ Count(y) \in Nat /\ Ring(y) \in Seq(Nat) /\ Len(Ring(y)) = Count(y)
         /\ \A i \in 1..Count(y) : Ring(y)[i] = y.data[Spot(y.nread, i)]
<1> DEFINE n == Count(y)
           e(i) == y.data[Spot(y.nread, i)]
<1>1. /\ y.nread \in 0..(W - 1) /\ y.nwrite \in 0..(W - 1) /\ y.data \in [Cell -> Nat]
  BY Zenon DEF PipeRec
<1>2. n \in Nat /\ n = Dist(y.nread, y.nwrite)
  BY SMTT(40), <1>1, Fill, Numbers
<1>3. \A i \in 1..n : e(i) \in Nat
  <2> TAKE i \in 1..n
  <2>1. i \in 1..PIPESIZE
    BY SMTT(40), <1>2, Numbers
  <2>2. Spot(y.nread, i) \in Cell
    BY ZenonT(40), <1>1, <1>2, <2>1, WriteSpot
  <2> QED BY Zenon, <1>1, <2>2
<1>4. Ring(y) = [i \in 1..n |-> e(i)]
  BY DEF Ring, Spot
<1> HIDE DEF n, e
<1>5. [i \in 1..n |-> e(i)] \in Seq(Nat) /\ Len([i \in 1..n |-> e(i)]) = n
  BY SMTT(40), <1>2, <1>3
<1>6. \A i \in 1..n : Ring(y)[i] = e(i)
  BY Zenon, <1>4
<1> QED BY SMTT(40), <1>2, <1>4, <1>5, <1>6 DEF n, e

\* piperead() takes the first bytes of the pipe.
LEMMA RingTaken ==
  ASSUME FilesAssumption, NEW y \in PipeRec, Count(y) <= PIPESIZE, NEW k,
         k = Min({MaxRead, Count(y)})
  PROVE  Ring(Taken(y, k)) = SubSeq(Ring(y), k + 1, Len(Ring(y)))
<1> DEFINE z == Taken(y, k)
           n == Count(y)
           s == SubSeq(Ring(y), k + 1, Len(Ring(y)))
<1>1. z \in PipeRec /\ Count(z) = n - k /\ Count(z) <= PIPESIZE /\ k \in 0..n
  BY Zenon, TakenFacts
<1>2. /\ n \in Nat /\ Ring(y) \in Seq(Nat) /\ Len(Ring(y)) = n
      /\ \A i \in 1..n : Ring(y)[i] = y.data[Spot(y.nread, i)]
  BY Zenon, RingFacts
<1>3. /\ Ring(z) \in Seq(Nat) /\ Len(Ring(z)) = n - k
      /\ \A i \in 1..(n - k) : Ring(z)[i] = z.data[Spot(z.nread, i)]
  <2>1. /\ Ring(z) \in Seq(Nat) /\ Len(Ring(z)) = Count(z)
        /\ \A i \in 1..Count(z) : Ring(z)[i] = z.data[Spot(z.nread, i)]
    BY Zenon, <1>1, RingFacts
  <2> QED BY Zenon, <1>1, <2>1
<1>4. /\ z.nread = (y.nread + k) % W /\ y.nread \in 0..(W - 1)
      /\ \A c \in Cell : z.data[c] = IF (c + W - y.nread) % PIPESIZE < k THEN 0 ELSE y.data[c]
  BY Zenon DEF Taken, PipeRec
<1> HIDE DEF z, n
<1>5. s \in Seq(Nat) /\ Len(s) = n - k /\ \A i \in 1..(n - k) : s[i] = Ring(y)[k + i]
  BY ZenonT(40), <1>1, <1>2, Split
<1>6. ASSUME NEW i \in 1..(n - k) PROVE Ring(z)[i] = s[i]
  <2>1. k \in 0..PIPESIZE /\ i \in 1..PIPESIZE /\ k + i <= PIPESIZE /\ k + i \in 1..n
    BY SMTT(40), <1>1, <1>2, Numbers DEF n
  <2>2. /\ Spot(z.nread, i) = Spot(y.nread, k + i) /\ Spot(y.nread, k + i) \in Cell
        /\ (Spot(y.nread, k + i) + W - y.nread) % PIPESIZE = k + i - 1
    BY ZenonT(40), <1>4, <2>1, ReadSpot
  <2>3. ~(k + i - 1 < k)
    BY <2>1
  <2>4. z.data[Spot(z.nread, i)] = y.data[Spot(y.nread, k + i)]
    BY Zenon, <1>4, <2>2, <2>3
  <2> QED BY Zenon, <1>2, <1>3, <1>5, <2>1, <2>4
<1>7. Ring(z) = s
  <2>1. \A i \in 1..Len(Ring(z)) : Ring(z)[i] = s[i]
    BY Zenon, <1>3, <1>6
  <2> QED BY Zenon, <1>3, <1>5, <2>1, SeqSame
<1> QED BY Zenon, <1>7 DEF z

\* pipewrite() appends what it puts into the pipe.
LEMMA RingPut ==
  ASSUME FilesAssumption, NEW y \in PipeRec, Count(y) <= PIPESIZE, NEW m \in Seq(Nat), NEW k,
         k = Min({Len(m), PIPESIZE - Count(y)})
  PROVE  Ring(Put(y, m, k)) = Ring(y) \o SubSeq(m, 1, k)
<1> DEFINE z == Put(y, m, k)
           n == Count(y)
           u == SubSeq(m, 1, k)
           s == Ring(y) \o u
<1>1. z \in PipeRec /\ Count(z) = n + k /\ Count(z) <= PIPESIZE /\ k \in 0..Len(m)
  BY Zenon, PutFacts
<1>2. /\ n \in Nat /\ Ring(y) \in Seq(Nat) /\ Len(Ring(y)) = n
      /\ \A i \in 1..n : Ring(y)[i] = y.data[Spot(y.nread, i)]
  BY Zenon, RingFacts
<1>3. /\ Ring(z) \in Seq(Nat) /\ Len(Ring(z)) = n + k
      /\ \A i \in 1..(n + k) : Ring(z)[i] = z.data[Spot(z.nread, i)]
  <2>1. /\ Ring(z) \in Seq(Nat) /\ Len(Ring(z)) = Count(z)
        /\ \A i \in 1..Count(z) : Ring(z)[i] = z.data[Spot(z.nread, i)]
    BY Zenon, <1>1, RingFacts
  <2> QED BY Zenon, <1>1, <2>1
<1>4. /\ z.nread = y.nread /\ y.nread \in 0..(W - 1) /\ y.nwrite \in 0..(W - 1)
      /\ \A c \in Cell : z.data[c] = IF (c + W - y.nwrite) % PIPESIZE < k
                                     THEN m[1 + ((c + W - y.nwrite) % PIPESIZE)] ELSE y.data[c]
  BY Zenon DEF Put, PipeRec
<1>5. n = Dist(y.nread, y.nwrite)
  BY Zenon, <1>4, Fill
<1> HIDE DEF z, n
<1>6. u \in Seq(Nat) /\ Len(u) = k /\ \A i \in 1..k : u[i] = m[i]
  BY ZenonT(40), <1>1, Split
<1> HIDE DEF u
<1>7. /\ s \in Seq(Nat) /\ Len(s) = n + k
      /\ \A i \in 1..(n + k) : s[i] = IF i <= n THEN Ring(y)[i] ELSE u[i - n]
  <2>1. /\ s \in Seq(Nat) /\ Len(s) = Len(Ring(y)) + Len(u)
        /\ \A i \in 1..(Len(Ring(y)) + Len(u)) :
             s[i] = IF i <= Len(Ring(y)) THEN Ring(y)[i] ELSE u[i - Len(Ring(y))]
    BY Zenon, <1>2, <1>6, Joined
  <2> QED BY Zenon, <1>2, <1>6, <2>1
<1>8. ASSUME NEW i \in 1..(n + k) PROVE Ring(z)[i] = s[i]
  <2> DEFINE c == Spot(y.nread, i)
             j == (c + W - y.nwrite) % PIPESIZE
  <2>1. n + k <= PIPESIZE /\ i \in 1..PIPESIZE /\ n <= PIPESIZE /\ n \in Nat /\ k \in Nat
    BY SMTT(40), <1>1, <1>2, Numbers
  <2>2. /\ c \in Cell
        /\ j = IF i > n THEN i - 1 - n ELSE i - 1 - n + PIPESIZE
    BY ZenonT(40), <1>4, <1>5, <2>1, WriteSpot
  <2>3. z.data[c] = IF j < k THEN m[1 + j] ELSE y.data[c]
    BY Zenon, <1>4, <2>2
  <2>4. Ring(z)[i] = z.data[c]
    BY Zenon, <1>3, <1>4
  <2> HIDE DEF c, j
  <2>5. CASE i > n
    <3>1. j < k /\ 1 + j = i - n /\ i - n \in 1..k /\ ~(i <= n)
      BY SMTT(40), <2>1, <2>2, <2>5
    <3> QED BY ZenonT(40), <1>6, <1>7, <2>3, <2>4, <3>1
  <2>6. CASE ~(i > n)
    <3>1. ~(j < k) /\ i \in 1..n /\ i <= n
      BY SMTT(40), <2>1, <2>2, <2>6, Numbers
    <3>2. Ring(y)[i] = y.data[c]
      BY Zenon, <1>2, <3>1 DEF c
    <3> QED BY ZenonT(40), <1>7, <2>3, <2>4, <3>1, <3>2
  <2> QED BY Zenon, <2>5, <2>6
<1>9. Ring(z) = s
  <2>1. \A i \in 1..Len(Ring(z)) : Ring(z)[i] = s[i]
    BY Zenon, <1>3, <1>8
  <2> QED BY ZenonT(40), <1>3, <1>7, <2>1, SeqSame
<1> QED BY Zenon, <1>9 DEF z, u
=============================================================================
