-------------------------- MODULE FilesStateProofs --------------------------
(***************************************************************************)
(* Proofs about the file table and the pipes, for any number of processes, *)
(* files, descriptors and pipes and any size of a pipe.  This module has   *)
(* the inductive invariant, what the operators of Files return, and the    *)
(* part of the invariant that says which states there are: the types, what *)
(* a process is doing, that whatever names a file names an open one, that  *)
(* a pipe is open at the ends that open files have, and that who is in a   *)
(* pipe has it open.                                                       *)
(***************************************************************************)
EXTENDS Files, FiniteSetTheorems, TLAPS

FileRec == [ref : Nat, type : {"NONE", "PIPE", "INODE"}, obj : Pipe \cup Inode \cup {None},
            writable : BOOLEAN]
PipeRec == [live : BOOLEAN, nread : 0..(W - 1), nwrite : 0..(W - 1), readopen : BOOLEAN,
            writeopen : BOOLEAN, data : [Cell -> Nat]]
Reading == {"read", "read_sleeps", "read_asleep"}
Writing == {"write", "write_sleeps", "write_asleep"}
Places == {"unused", "user", "pipe", "exit"} \cup Reading \cup Writing

\* The variables have their types; prog, missed and cut need none here.
TypeOK ==
  /\ file \in [File -> FileRec] /\ ff \in [Proc -> FileRec]
  /\ ofile \in [Proc -> [FD -> File \cup {None}]]
  /\ pipe \in [Pipe -> PipeRec] /\ iref \in [Inode -> Int]
  /\ pc \in [Proc -> Places]
  /\ todo \in [Proc -> Seq(File)] /\ hold \in [Proc -> Seq(File)]
  /\ using \in [Proc -> Pipe \cup {None}] /\ buf \in [Proc -> Seq(Nat)]
  /\ killed \in [Proc -> BOOLEAN] /\ kills \in Nat

\* What a process holds besides descriptors, by its place.
Control(p) ==
  /\ pc[p] \notin {"user", "exit"} => todo[p] = <<>> /\ ff[p] = NoFile
  /\ hold[p] # <<>> => pc[p] = "pipe"
  /\ pc[p] = "pipe" => Len(hold[p]) = 2 /\ hold[p][1] # hold[p][2]
  /\ pc[p] = "unused" => ofile[p] = Nobody
  /\ Len(todo[p]) <= 2
ControlInv == \A p \in Proc : Control(p)

\* A file without references is free, and a file that is not names its object.
Names(g) == /\ g.type = "INODE" => g.obj \in Inode
            /\ g.type = "PIPE" => g.obj \in Pipe
TableInv == /\ \A f \in File : (file[f].ref = 0 => file[f] = NoFile) /\ Names(file[f])
            /\ \A p \in Proc : Names(ff[p])

RefInv == \A f \in File : file[f].ref = Refs(f)

InodeFiles(i) == {f \in File : file[f].type = "INODE" /\ file[f].obj = i}
InodeCloses(i) == {p \in Proc : ff[p].type = "INODE" /\ ff[p].obj = i}
InodeInv == \A i \in Inode : iref[i] = Cardinality(InodeFiles(i)) + Cardinality(InodeCloses(i))

\* An end of a pipe is one file, or one fileclose() that has yet to tell the pipe.
OneEnd(x, w) ==
  /\ \A f, g \in File : End(file[f], x, w) /\ End(file[g], x, w) => f = g
  /\ \A p, q \in Proc : End(ff[p], x, w) /\ End(ff[q], x, w) => p = q
  /\ \A f \in File, p \in Proc : ~(End(file[f], x, w) /\ End(ff[p], x, w))
PipeEnds(x) ==
  /\ pipe[x].readopen <=> HasEnd(x, FALSE)
  /\ pipe[x].writeopen <=> HasEnd(x, TRUE)
  /\ pipe[x].live <=> pipe[x].readopen \/ pipe[x].writeopen
  /\ \A w \in BOOLEAN : OneEnd(x, w)
EndInv == \A x \in Pipe : PipeEnds(x)

\* No pipe holds more than PIPESIZE bytes.
CountInv == \A x \in Pipe : Count(pipe[x]) <= PIPESIZE

\* A process in piperead() or pipewrite() has a descriptor of the pipe's end.
HasOpen(p, w) == \E fd \in FD : ofile[p][fd] \in File /\ End(file[ofile[p][fd]], using[p], w)
UserInv == \A p \in Proc : /\ pc[p] \in Reading => HasOpen(p, FALSE)
                           /\ pc[p] \in Writing => HasOpen(p, TRUE)

\* What a process about to sleep, or asleep, has found.
ReadSleeps == {"read_sleeps", "read_asleep"}
WriteSleeps == {"write_sleeps", "write_asleep"}
Sleeps(p) ==
  /\ pc[p] \in ReadSleeps =>
       pipe[using[p]].writeopen /\ (Empty(pipe[using[p]]) \/ using[p] \in cut)
  /\ pc[p] \in WriteSleeps =>
       /\ pipe[using[p]].readopen /\ Full(pipe[using[p]])
       /\ \A q \in Proc : using[q] = using[p] => pc[q] \notin ReadSleeps
SleepInv == \A p \in Proc : Sleeps(p)

\* An end of pipe x as pipealloc() makes it.
PipeEnd(x, w) == [ref |-> 1, type |-> "PIPE", obj |-> x, writable |-> w]
NewPipe == [NoPipe EXCEPT !.live = TRUE, !.readopen = TRUE, !.writeopen = TRUE]

\* t is s after a wakeup(), as far as the processes of S go.
Awoke(S, s, t) == \A q \in S : \/ t[q] = s[q]
                               \/ s[q] = "read_asleep" /\ t[q] = "read"
                               \/ s[q] = "write_asleep" /\ t[q] = "write"

IInv == TypeOK /\ ControlInv /\ TableInv /\ RefInv /\ InodeInv /\ EndInv
        /\ CountInv /\ UserInv /\ SleepInv

-----------------------------------------------------------------------------
(* Facts about the operators *)

\* Min() of numbers is one of them, and none is smaller.
LEMMA MinIn == ASSUME NEW S, S \subseteq Nat, S # {}
               PROVE  Min(S) \in S /\ \A y \in S : Min(S) <= y
<1> DEFINE Less == {ss \in Nat \X Nat : ss[1] < ss[2]}
<1>1. IsWellFoundedOn(Less, Nat)
  BY Zenon, NatLessThanWellFounded DEF OpToRel
<1> HIDE DEF Less
<1>2. PICK m \in S : \A y \in S : ~ (<<y, m>> \in Less)
  BY ZenonT(40), <1>1, WFMin
<1>3. ASSUME NEW y \in S, ~(m <= y) PROVE FALSE
  <2>1. y \in Nat /\ m \in Nat /\ y < m
    BY <1>3
  <2>2. <<y, m>> \in Less
    BY Zenon, <2>1 DEF Less
  <2> QED BY Zenon, <1>2, <2>2
<1> QED BY ZenonT(40), <1>3 DEF Min

\* Places where a reference can be are finitely many.
LEMMA FiniteRefs == ASSUME FilesAssumption
                    PROVE  /\ \A S \in SUBSET (Proc \X FD) : IsFiniteSet(S)
                           /\ \A S \in SUBSET (Proc \X (1..2)) : IsFiniteSet(S)
                           /\ \A S \in SUBSET File : IsFiniteSet(S)
                           /\ \A S \in SUBSET FD : IsFiniteSet(S)
                           /\ \A S \in SUBSET Proc : IsFiniteSet(S)
<1>1. IsFiniteSet(FD) /\ IsFiniteSet(1..2) /\ IsFiniteSet(File) /\ IsFiniteSet(Proc)
  <2>1. 0 \in Int /\ 1 \in Int /\ 2 \in Int /\ NOFILE - 1 \in Int /\ NFILE \in Int
    BY DEF FilesAssumption
  <2>2. IsFiniteSet(FD)
    BY Zenon, <2>1, FS_Interval DEF FD
  <2>3. IsFiniteSet(File)
    BY Zenon, <2>1, FS_Interval DEF File
  <2>4. IsFiniteSet(1..2)
    BY ZenonT(40), <2>1, FS_Interval
  <2> QED BY Zenon, <2>2, <2>3, <2>4 DEF FilesAssumption
<1>2. IsFiniteSet(Proc \X FD) /\ IsFiniteSet(Proc \X (1..2))
  BY Zenon, <1>1, FS_Product
<1> QED BY Zenon, <1>1, <1>2, FS_Subset

\* One element more.
LEMMA Grow == ASSUME NEW S, IsFiniteSet(S), NEW x, x \notin S
              PROVE  Cardinality(S \cup {x}) = Cardinality(S) + 1 /\ Cardinality(S) \in Nat
BY Zenon, FS_AddElement, FS_CardinalityType

\* One element less.
LEMMA Shrink == ASSUME NEW S, IsFiniteSet(S), NEW x \in S
                PROVE  /\ Cardinality(S \ {x}) = Cardinality(S) - 1 /\ Cardinality(S) \in Nat
                       /\ Cardinality(S) >= 1
<1>1. Cardinality(S) # 0
  BY Zenon, FS_EmptySet
<1> QED BY <1>1, FS_RemoveElement, FS_CardinalityType

\* A set of two has a second element.
LEMMA TwoElements == ASSUME NEW S, IsFiniteSet(S), S \subseteq Nat, Cardinality(S) >= 2
                     PROVE  /\ Min(S) \in S /\ Min(S \ {Min(S)}) \in S
                            /\ Min(S) # Min(S \ {Min(S)})
<1>1. S # {}
  BY FS_EmptySet
<1>2. Min(S) \in S
  BY ZenonT(40), <1>1, MinIn
<1>3. S \ {Min(S)} # {}
  <2>1. IsFiniteSet(S \ {Min(S)}) /\ Cardinality(S \ {Min(S)}) = Cardinality(S) - 1
        /\ Cardinality(S) \in Nat
    BY Zenon, <1>2, FS_RemoveElement, FS_CardinalityType
  <2> QED BY <2>1, FS_EmptySet
<1>4. Min(S \ {Min(S)}) \in S \ {Min(S)}
  BY ZenonT(40), <1>3, MinIn
<1> QED BY Zenon, <1>2, <1>4

\* The sizes and the bounds as numbers.
LEMMA Numbers == ASSUME FilesAssumption
                 PROVE  /\ PIPESIZE \in Nat /\ PIPESIZE >= 1 /\ W \in Nat /\ W > PIPESIZE
                        /\ MaxRead \in Nat /\ MaxRead >= 1
BY DEF FilesAssumption

\* A counter wraps at most once in a sum or a difference of two.
LEMMA WrapAdd == ASSUME FilesAssumption, NEW r \in 0..(W - 1), NEW k \in 0..W
                 PROVE  /\ (r + k) % W = IF r + k < W THEN r + k ELSE r + k - W
                        /\ (r + k) % W \in 0..(W - 1)
BY Numbers

\* ... and in a difference.
LEMMA WrapSub == ASSUME FilesAssumption, NEW r \in 0..(W - 1), NEW w \in 0..(W - 1)
                 PROVE  (w + W - r) % W = IF w >= r THEN w - r ELSE w + W - r
BY Numbers

\* How far a counter is behind another.
Dist(r, w) == IF w >= r THEN w - r ELSE w + W - r

\* What reading and writing k bytes does to the distance of nread and nwrite.
LEMMA Advance ==
  ASSUME FilesAssumption, NEW r \in 0..(W - 1), NEW w \in 0..(W - 1), NEW k \in 0..PIPESIZE
  PROVE  /\ Dist(r, w) \in 0..(W - 1)
         /\ Dist(r, w) = 0 <=> r = w
         /\ k <= Dist(r, w) => Dist((r + k) % W, w) = Dist(r, w) - k
         /\ k + Dist(r, w) <= PIPESIZE => Dist(r, (w + k) % W) = Dist(r, w) + k
<1>0. k \in 0..W
  BY Numbers
<1>1. (r + k) % W = IF r + k < W THEN r + k ELSE r + k - W
  BY Zenon, <1>0, WrapAdd
<1>2. (w + k) % W = IF w + k < W THEN w + k ELSE w + k - W
  BY Zenon, <1>0, WrapAdd
<1>3. Dist(r, w) \in 0..(W - 1) /\ (Dist(r, w) = 0 <=> r = w)
  BY Numbers DEF Dist
<1>4. ASSUME k <= Dist(r, w) PROVE Dist((r + k) % W, w) = Dist(r, w) - k
  <2> DEFINE u == (r + k) % W
  <2>1. u = IF r + k < W THEN r + k ELSE r + k - W
    BY Zenon, <1>1
  <2> HIDE DEF u
  <2>2. Dist(u, w) = Dist(r, w) - k
    BY <1>4, <2>1, Numbers DEF Dist
  <2> QED BY Zenon, <2>2 DEF u
<1>5. ASSUME k + Dist(r, w) <= PIPESIZE PROVE Dist(r, (w + k) % W) = Dist(r, w) + k
  <2> DEFINE u == (w + k) % W
  <2>1. u = IF w + k < W THEN w + k ELSE w + k - W
    BY Zenon, <1>2
  <2> HIDE DEF u
  <2>2. Dist(r, u) = Dist(r, w) + k
    BY <1>5, <2>1, Numbers DEF Dist
  <2> QED BY Zenon, <2>2 DEF u
<1> QED BY Zenon, <1>3, <1>4, <1>5

\* The part of it that pipewrite() needs.
LEMMA AdvanceWrite ==
  ASSUME FilesAssumption, NEW r \in 0..(W - 1), NEW w \in 0..(W - 1), NEW k \in 0..PIPESIZE,
         k + Dist(r, w) <= PIPESIZE
  PROVE  Dist(r, (w + k) % W) = Dist(r, w) + k
BY Advance

\* How full a pipe is, whatever its counters have wrapped to.
LEMMA Fill == ASSUME FilesAssumption, NEW y, y.nread \in 0..(W - 1), y.nwrite \in 0..(W - 1)
              PROVE  /\ Count(y) = Dist(y.nread, y.nwrite)
                     /\ Count(y) \in 0..(W - 1)
                     /\ Full(y) <=> Count(y) = PIPESIZE
                     /\ Empty(y) <=> Count(y) = 0
<1>1. Count(y) = Dist(y.nread, y.nwrite)
  BY Zenon, WrapSub DEF Count, Dist
<1>2. PIPESIZE \in 0..W
  BY Numbers
<1>3. (y.nread + PIPESIZE) % W = IF y.nread + PIPESIZE < W THEN y.nread + PIPESIZE
                                 ELSE y.nread + PIPESIZE - W
  BY Zenon, <1>2, WrapAdd
<1>4. Count(y) \in 0..(W - 1)
  BY <1>1, Numbers DEF Dist
<1>5. Empty(y) <=> Count(y) = 0
  BY <1>1, Numbers DEF Empty, Dist
<1>6. Full(y) <=> Count(y) = PIPESIZE
  BY <1>1, <1>3, Numbers DEF Full, Dist
<1> QED BY Zenon, <1>1, <1>4, <1>5, <1>6

\* A file with another count is still that file.
LEMMA RefRec == ASSUME NEW g \in FileRec, NEW n \in Nat
                PROVE  /\ [g EXCEPT !.ref = n] \in FileRec /\ [g EXCEPT !.ref = n].ref = n
                       /\ [g EXCEPT !.ref = n].type = g.type /\ [g EXCEPT !.ref = n].obj = g.obj
                       /\ [g EXCEPT !.ref = n].writable = g.writable
                       /\ g.ref = n => [g EXCEPT !.ref = n] = g
BY Zenon DEF FileRec

\* The first of a sequence and the rest.
LEMMA HeadFacts ==
  ASSUME NEW S, NEW s \in Seq(S), s # <<>>
  PROVE  /\ Len(s) \in Nat \ {0} /\ Head(s) \in S /\ Head(s) = s[1]
         /\ Tail(s) \in Seq(S) /\ Len(Tail(s)) = Len(s) - 1
         /\ \A k \in 1..(Len(s) - 1) : Tail(s)[k] = s[k + 1]
OBVIOUS

\* Nothing is left of a sequence after its last element.
LEMMA NoRest == ASSUME NEW S, NEW s \in Seq(S), NEW k, k = Len(s)
                PROVE  SubSeq(s, k + 1, Len(s)) = <<>>
OBVIOUS

\* filealloc() and fdalloc() return a free entry.
LEMMA Alloc == ASSUME FilesAssumption, NEW p \in Proc
               PROVE  /\ FreeFiles # {} => filealloc \in File /\ file[filealloc].ref = 0
                      /\ FreeFds(p) # {} => fdalloc(p) \in FD /\ ofile[p][fdalloc(p)] = None
<1>1. FreeFiles \subseteq Nat /\ FreeFds(p) \subseteq Nat
  BY DEF FreeFiles, FreeFds, File, FD
<1>2. FreeFiles # {} => filealloc \in FreeFiles
  BY ZenonT(40), <1>1, MinIn DEF filealloc
<1>3. FreeFds(p) # {} => fdalloc(p) \in FreeFds(p)
  BY Zenon, <1>1, MinIn DEF fdalloc
<1> QED BY Zenon, <1>2, <1>3 DEF FreeFiles, FreeFds, OpenFds

\* The two files of pipealloc().
LEMMA AllocTwo ==
  ASSUME FilesAssumption, Cardinality(FreeFiles) >= 2
  PROVE  LET rf == Min(FreeFiles)
             wf == Min(FreeFiles \ {rf})
         IN  /\ rf \in File /\ wf \in File /\ rf # wf
             /\ file[rf].ref = 0 /\ file[wf].ref = 0
<1>1. FreeFiles \subseteq Nat /\ IsFiniteSet(FreeFiles)
  BY FiniteRefs DEF FreeFiles, File
<1>2. /\ Min(FreeFiles) \in FreeFiles /\ Min(FreeFiles \ {Min(FreeFiles)}) \in FreeFiles
      /\ Min(FreeFiles) # Min(FreeFiles \ {Min(FreeFiles)})
  BY ZenonT(40), <1>1, TwoElements
<1>3. \A g \in FreeFiles : g \in File /\ file[g].ref = 0
  BY Zenon DEF FreeFiles
<1> QED BY Zenon, <1>2, <1>3

\* The two descriptors of sys_pipe().
LEMMA FdsTwo ==
  ASSUME FilesAssumption, NEW p \in Proc, Cardinality(FreeFds(p)) >= 2
  PROVE  LET a == fdalloc(p)
             b == Min(FreeFds(p) \ {fdalloc(p)})
         IN  /\ a \in FD /\ b \in FD /\ a # b
             /\ ofile[p][a] = None /\ ofile[p][b] = None
<1>1. FreeFds(p) \subseteq Nat /\ IsFiniteSet(FreeFds(p))
  BY FiniteRefs DEF FreeFds, FD
<1> QED BY SMTT(40), <1>1, TwoElements DEF FreeFds, OpenFds, fdalloc

\* wakeup() leaves who is not asleep in the pipe alone, and makes no one sleep.
LEMMA WokenFacts ==
  ASSUME TypeOK, NEW x, NEW chan
  PROVE  /\ Woken(x, chan) \in [Proc -> Places]
         /\ Awoke(Proc, pc, Woken(x, chan))
         /\ \A q \in Proc : using[q] # x => Woken(x, chan)[q] = pc[q]
         /\ chan = "nread" => \A q \in Proc : using[q] = x => Woken(x, chan)[q] # "read_asleep"
         /\ chan = "nwrite" => \A q \in Proc : using[q] = x => Woken(x, chan)[q] # "write_asleep"
BY Zenon DEF Woken, TypeOK, Places, Reading, Writing, Awoke

\* The pipe that a process reads or writes exists, and the end it uses is open.
LEMMA InUse ==
  ASSUME TypeOK, TableInv, EndInv, UserInv, NEW p \in Proc
  PROVE  /\ pc[p] \in Reading => using[p] \in Pipe /\ pipe[using[p]].readopen
         /\ pc[p] \in Writing => using[p] \in Pipe /\ pipe[using[p]].writeopen
<1>1. ASSUME pc[p] \in Reading
      PROVE  using[p] \in Pipe /\ pipe[using[p]].readopen
  <2>1. PICK fd \in FD : ofile[p][fd] \in File /\ End(file[ofile[p][fd]], using[p], FALSE)
    BY ZenonT(40), <1>1 DEF UserInv, HasOpen
  <2>2. using[p] \in Pipe
    BY Zenon, <2>1 DEF TableInv, Names, End
  <2>3. HasEnd(using[p], FALSE)
    BY ZenonT(40), <2>1 DEF HasEnd
  <2> QED BY ZenonT(40), <2>2, <2>3 DEF EndInv, PipeEnds
<1>2. ASSUME pc[p] \in Writing
      PROVE  using[p] \in Pipe /\ pipe[using[p]].writeopen
  <2>1. PICK fd \in FD : ofile[p][fd] \in File /\ End(file[ofile[p][fd]], using[p], TRUE)
    BY ZenonT(40), <1>2 DEF UserInv, HasOpen
  <2>2. using[p] \in Pipe
    BY Zenon, <2>1 DEF TableInv, Names, End
  <2>3. HasEnd(using[p], TRUE)
    BY ZenonT(40), <2>1 DEF HasEnd
  <2> QED BY ZenonT(40), <2>2, <2>3 DEF EndInv, PipeEnds
<1> QED BY Zenon, <1>1, <1>2

\* What piperead() takes and what it leaves.
LEMMA TakenFacts ==
  ASSUME FilesAssumption, NEW y \in PipeRec, Count(y) <= PIPESIZE, NEW k,
         k = Min({MaxRead, Count(y)})
  PROVE  /\ Taken(y, k) \in PipeRec
         /\ k \in 0..Count(y) /\ (k = 0 => Empty(y))
         /\ Count(Taken(y, k)) = Count(y) - k /\ Count(Taken(y, k)) <= PIPESIZE
         /\ Taken(y, k).readopen = y.readopen /\ Taken(y, k).writeopen = y.writeopen
         /\ Taken(y, k).live = y.live
         /\ Empty(y) => Empty(Taken(y, k))
<1>1. Count(y) \in 0..(W - 1) /\ y.nread \in 0..(W - 1) /\ y.nwrite \in 0..(W - 1)
  BY Zenon, Fill DEF PipeRec
<1>2. k \in Nat /\ k <= Count(y) /\ k \in {MaxRead, Count(y)}
  <2>1. {MaxRead, Count(y)} \subseteq Nat
    BY <1>1 DEF FilesAssumption
  <2> QED BY Zenon, <2>1, MinIn
<1>3. (y.nread + k) % W = IF y.nread + k < W THEN y.nread + k ELSE y.nread + k - W
  <2>1. k \in 0..W
    BY <1>1, <1>2, Numbers
  <2> QED BY Zenon, <1>1, <2>1, WrapAdd
<1>4. Taken(y, k) = [y EXCEPT !.data = Taken(y, k).data, !.nread = (y.nread + k) % W]
  BY Zenon DEF Taken, PipeRec
<1>5. Taken(y, k).data \in [Cell -> Nat]
  BY Zenon DEF Taken, PipeRec
<1>6. Taken(y, k).nread = (y.nread + k) % W /\ Taken(y, k).nwrite = y.nwrite
  BY Zenon DEF Taken, PipeRec
<1>7. (y.nread + k) % W \in 0..(W - 1)
  BY SMTT(40), <1>1, <1>2, <1>3, Numbers
<1>8. Count(Taken(y, k)) = Count(y) - k
  <2>1. k \in 0..PIPESIZE /\ k <= Count(y)
    BY <1>1, <1>2, Numbers
  <2>2. Count(y) = Dist(y.nread, y.nwrite)
    BY Zenon, <1>1, Fill
  <2>3. Count(Taken(y, k)) = Dist((y.nread + k) % W, y.nwrite)
    BY Zenon, <1>1, <1>6, <1>7, Fill
  <2> QED BY SMTT(40), <1>1, <2>1, <2>2, <2>3, Advance
<1>9. Taken(y, k) \in PipeRec
  BY ZenonT(40), <1>4, <1>5, <1>7 DEF PipeRec
<1>10. Empty(y) => Empty(Taken(y, k))
  <2>1. Empty(y) <=> Count(y) = 0
    BY Zenon, <1>1, Fill
  <2>2. Empty(Taken(y, k)) <=> Count(Taken(y, k)) = 0
    BY Zenon, <1>1, <1>6, <1>7, Fill
  <2> QED BY SMTT(40), <1>1, <1>2, <1>8, <2>1, <2>2
<1>11. /\ Taken(y, k).readopen = y.readopen /\ Taken(y, k).writeopen = y.writeopen
       /\ Taken(y, k).live = y.live
  BY Zenon DEF Taken, PipeRec
<1>12. k \in 0..Count(y) /\ (k = 0 => Empty(y))
  <2>1. Empty(y) <=> Count(y) = 0
    BY Zenon, <1>1, Fill
  <2> QED BY SMTT(40), <1>1, <1>2, <2>1, Numbers
<1> QED BY SMTT(40), <1>1, <1>2, <1>8, <1>9, <1>10, <1>11, <1>12, Numbers

\* What pipewrite() adds: it stops short of the end only at a full pipe.
LEMMA PutFacts ==
  ASSUME FilesAssumption, NEW y \in PipeRec, Count(y) <= PIPESIZE, NEW m \in Seq(Nat), NEW k,
         k = Min({Len(m), PIPESIZE - Count(y)})
  PROVE  /\ k \in 0..Len(m)
         /\ Put(y, m, k) \in PipeRec
         /\ Count(Put(y, m, k)) = Count(y) + k /\ Count(Put(y, m, k)) <= PIPESIZE
         /\ Put(y, m, k).readopen = y.readopen /\ Put(y, m, k).writeopen = y.writeopen
         /\ Put(y, m, k).live = y.live
         /\ k < Len(m) => Full(Put(y, m, k))
         /\ Full(y) => Full(Put(y, m, k))
<1>1. Count(y) \in 0..(W - 1) /\ y.nread \in 0..(W - 1) /\ y.nwrite \in 0..(W - 1)
  BY Zenon, Fill DEF PipeRec
<1>2. /\ k \in 0..Len(m) /\ k <= PIPESIZE - Count(y)
      /\ k < Len(m) => k = PIPESIZE - Count(y)
  <2>1. {Len(m), PIPESIZE - Count(y)} \subseteq Nat
    BY <1>1 DEF FilesAssumption
  <2> QED BY <2>1, MinIn
<1>3. (y.nwrite + k) % W = IF y.nwrite + k < W THEN y.nwrite + k ELSE y.nwrite + k - W
  <2>1. k \in 0..W
    BY <1>1, <1>2, Numbers
  <2> QED BY ZenonT(40), <1>1, <2>1, WrapAdd
<1>4. Put(y, m, k) = [y EXCEPT !.data = Put(y, m, k).data, !.nwrite = (y.nwrite + k) % W]
  BY Zenon DEF Put, PipeRec
<1>5. Put(y, m, k).data \in [Cell -> Nat]
  <2>1. \A c \in Cell : (c + W - y.nwrite) % PIPESIZE \in Nat
    <3>1. \A c \in Cell : c + W - y.nwrite \in Nat
      BY SMTT(40), <1>1, Numbers DEF Cell
    <3> QED BY SMTT(40), <3>1, Numbers
  <2>2. \A j \in Nat : j < k => m[1 + j] \in Nat
    BY <1>2
  <2>3. y.data \in [Cell -> Nat]
    BY Zenon DEF PipeRec
  <2>4. Put(y, m, k).data = [c \in Cell |-> LET j == (c + W - y.nwrite) % PIPESIZE
                                           IN  IF j < k THEN m[1 + j] ELSE y.data[c]]
    BY Zenon DEF Put, PipeRec
  <2> QED BY ZenonT(40), <2>1, <2>2, <2>3, <2>4
<1>6. Put(y, m, k).nwrite = (y.nwrite + k) % W /\ Put(y, m, k).nread = y.nread
  BY Zenon DEF Put, PipeRec
<1>7. (y.nwrite + k) % W \in 0..(W - 1)
  <2>1. k \in 0..W
    BY <1>1, <1>2, Numbers
  <2> QED BY ZenonT(40), <1>1, <2>1, WrapAdd
<1>8. Count(Put(y, m, k)) = Count(y) + k
  <2>1. k \in 0..PIPESIZE /\ k + Count(y) <= PIPESIZE
    BY <1>1, <1>2, Numbers
  <2>2. Count(y) = Dist(y.nread, y.nwrite)
    BY Zenon, <1>1, Fill
  <2>3. Count(Put(y, m, k)) = Dist(y.nread, (y.nwrite + k) % W)
    BY Zenon, <1>1, <1>6, <1>7, Fill
  <2>4. /\ y.nread \in 0..(W - 1) /\ y.nwrite \in 0..(W - 1) /\ k \in 0..PIPESIZE
        /\ k + Dist(y.nread, y.nwrite) <= PIPESIZE
    BY Zenon, <1>1, <2>1, <2>2
  <2>6. Dist(y.nread, (y.nwrite + k) % W) = Dist(y.nread, y.nwrite) + k
    BY Zenon, <2>4, AdvanceWrite
  <2>7. Count(Put(y, m, k)) = Dist(y.nread, y.nwrite) + k
    BY Zenon, <2>3, <2>6
  <2> QED BY Zenon, <2>2, <2>7
<1>9. Put(y, m, k) \in PipeRec
  BY ZenonT(40), <1>4, <1>5, <1>7 DEF PipeRec
<1>10. /\ Full(y) <=> Count(y) = PIPESIZE
       /\ Full(Put(y, m, k)) <=> Count(Put(y, m, k)) = PIPESIZE
  BY Zenon, <1>1, <1>6, <1>7, Fill
<1>11. /\ Put(y, m, k).readopen = y.readopen /\ Put(y, m, k).writeopen = y.writeopen
       /\ Put(y, m, k).live = y.live
  BY Zenon DEF Put, PipeRec
<1> QED BY SMTT(40), <1>1, <1>2, <1>8, <1>9, <1>10, <1>11, Numbers

\* A free entry and a free page have the types of the others.
LEMMA NoFileRec == NoFile \in FileRec
BY Zenon DEF NoFile, FileRec

\* ... the page.
LEMMA NoPipeRec == ASSUME FilesAssumption PROVE NoPipe \in PipeRec
BY DEF NoPipe, PipeRec, FilesAssumption

\* The file somebody has yet to close is the last of those, counted from the end.
LEMMA TodoFirst ==
  ASSUME TypeOK, ControlInv, NEW p \in Proc, todo[p] # <<>>
  PROVE  LET f == Head(todo[p])
             n == Len(todo[p])
         IN  /\ todo[p] \in Seq(File) /\ n \in 1..2 /\ f \in File /\ f = todo[p][1]
             /\ <<p, n>> \in TodoRefs(f)
<1> DEFINE f == Head(todo[p])
           n == Len(todo[p])
<1>1. todo[p] \in Seq(File) /\ n <= 2
  BY Zenon DEF TypeOK, ControlInv, Control
<1>2. n \in Nat \ {0} /\ f \in File /\ f = todo[p][1]
  BY Zenon, <1>1, HeadFacts
<1> HIDE DEF f, n
<1>3. n \in 1..2 /\ n <= n /\ n + 1 - n = 1
  BY <1>1, <1>2
<1>4. todo[p][n + 1 - n] = f /\ <<p, n>> \in Proc \X (1..2)
  BY Zenon, <1>2, <1>3
<1>5. n <= Len(todo[p]) /\ todo[p][Len(todo[p]) + 1 - n] = f
  BY Zenon, <1>3, <1>4 DEF n
<1>6. <<p, n>> \in TodoRefs(f)
  BY Zenon, <1>4, <1>5 DEF TodoRefs
<1> QED BY Zenon, <1>1, <1>2, <1>3, <1>6 DEF f, n

\* A file somebody has yet to close has a reference; with a descriptor too, two.
LEMMA CloseHas ==
  ASSUME FilesAssumption, TypeOK, ControlInv, RefInv, NEW p \in Proc, todo[p] # <<>>
  PROVE  LET f == Head(todo[p])
         IN  /\ f \in File /\ file[f].ref >= 1
             /\ \A q \in Proc, fd \in FD : ofile[q][fd] = f => file[f].ref >= 2
<1> DEFINE f == Head(todo[p])
<1>1. f \in File
  BY ZenonT(40), TodoFirst
<1>2. \E r : r \in TodoRefs(f)
  BY ZenonT(40), TodoFirst
<1> HIDE DEF f
<1>3. IsFiniteSet(FdRefs(f)) /\ IsFiniteSet(HoldRefs(f)) /\ IsFiniteSet(TodoRefs(f))
  BY Zenon, FiniteRefs DEF FdRefs, HoldRefs, TodoRefs
<1>4. /\ Cardinality(FdRefs(f)) \in Nat /\ Cardinality(HoldRefs(f)) \in Nat
      /\ Cardinality(TodoRefs(f)) \in Nat /\ Cardinality(TodoRefs(f)) >= 1
  BY ZenonT(40), <1>2, <1>3, FS_CardinalityType, Shrink
<1>5. ASSUME NEW q \in Proc, NEW fd \in FD, ofile[q][fd] = f PROVE Cardinality(FdRefs(f)) >= 1
  <2>1. <<q, fd>> \in FdRefs(f)
    BY Zenon, <1>5 DEF FdRefs
  <2> QED BY ZenonT(40), <1>3, <2>1, Shrink
<1>6. file[f].ref = Cardinality(FdRefs(f)) + Cardinality(HoldRefs(f)) + Cardinality(TodoRefs(f))
  BY Zenon, <1>1 DEF RefInv, Refs
<1> QED BY SMTT(40), <1>1, <1>4, <1>5, <1>6 DEF f

\* A file that a descriptor names has a reference.
LEMMA OpenHas ==
  ASSUME FilesAssumption, TypeOK, RefInv, NEW q \in Proc, NEW fd \in FD, ofile[q][fd] \in File
  PROVE  file[ofile[q][fd]].ref >= 1
<1> DEFINE f == ofile[q][fd]
<1>1. <<q, fd>> \in FdRefs(f)
  BY Zenon DEF FdRefs
<1>2. IsFiniteSet(FdRefs(f)) /\ IsFiniteSet(HoldRefs(f)) /\ IsFiniteSet(TodoRefs(f))
  BY Zenon, FiniteRefs DEF FdRefs, HoldRefs, TodoRefs
<1>3. /\ Cardinality(FdRefs(f)) \in Nat /\ Cardinality(HoldRefs(f)) \in Nat
      /\ Cardinality(TodoRefs(f)) \in Nat /\ Cardinality(FdRefs(f)) >= 1
  BY ZenonT(40), <1>1, <1>2, FS_CardinalityType, Shrink
<1> QED BY <1>3 DEF RefInv, Refs

\* The descriptor exit() closes next is open.
LEMMA FirstOpen == ASSUME NEW p \in Proc, OpenFds(p) # {} PROVE Min(OpenFds(p)) \in OpenFds(p)
<1>1. OpenFds(p) \subseteq Nat
  BY DEF OpenFds, FD
<1> QED BY Zenon, <1>1, MinIn

\* No pipe gets or loses an end.
SameEnds == \A x \in Pipe : /\ pipe'[x].readopen = pipe[x].readopen
                            /\ pipe'[x].writeopen = pipe[x].writeopen
                            /\ pipe'[x].live = pipe[x].live

\* Only p moves, but for those it wakes, and in a call p uses the pipe it used.
Moves(p) == /\ pc' \in [Proc -> Places] /\ using' \in [Proc -> Pipe \cup {None}]
            /\ Awoke(Proc \ {p}, pc, pc')
            /\ \A q \in Proc \ {p} : using'[q] = using[q]
            /\ pc'[p] # "user" => using'[p] = using[p]

\* What piperead() leaves alone, and what becomes of the types.
LEMMA ReadFacts ==
  ASSUME FilesAssumption, IInv, NEW p \in Proc, piperead(p)
  PROVE  /\ UNCHANGED <<file, ofile, iref, todo, ff, hold, buf, cut, killed, kills>>
         /\ pipe' \in [Pipe -> PipeRec] /\ SameEnds /\ CountInv'
         /\ pc[p] = "read" /\ pc'[p] \in {"user", "read_sleeps"} /\ Moves(p)
<1>0. /\ TypeOK /\ CountInv /\ UNCHANGED <<file, ofile, iref, todo, ff, hold, buf, cut, killed, kills>>
      /\ pc[p] = "read" /\ "user" \in Places /\ "read_sleeps" \in Places
  BY Zenon DEF IInv, piperead, fdVars, procVars, Places, Reading
<1> DEFINE x == using[p]
           k == Min({MaxRead, Count(pipe[x])})
<1>1. x \in Pipe /\ pipe[x] \in PipeRec /\ Count(pipe[x]) <= PIPESIZE
  BY Zenon, <1>0, InUse DEF IInv, Reading, TypeOK, CountInv
<1>2. CASE Empty(pipe[x]) /\ pipe[x].writeopen
  <2>1. /\ \/ pc' = Set(pc, p, "user") /\ using' = Set(using, p, None)
           \/ pc' = Set(pc, p, "read_sleeps") /\ using' = using
        /\ pipe' = pipe
    BY Zenon, <1>2 DEF piperead, Goto
  <2>2. Moves(p) /\ pc'[p] \in {"user", "read_sleeps"}
    BY ZenonT(40), <1>0, <2>1 DEF TypeOK, Set, Moves, Awoke
  <2> QED BY Zenon, <1>0, <2>1, <2>2 DEF TypeOK, CountInv, SameEnds
<1>3. CASE ~(Empty(pipe[x]) /\ pipe[x].writeopen)
  <2>1. /\ pipe' = Set(pipe, x, Taken(pipe[x], k))
        /\ pc' = Set(Woken(x, "nwrite"), p, "user") /\ using' = Set(using, p, None)
    BY Zenon, <1>3 DEF piperead
  <2>2. /\ Taken(pipe[x], k) \in PipeRec /\ Count(Taken(pipe[x], k)) <= PIPESIZE
        /\ Taken(pipe[x], k).readopen = pipe[x].readopen
        /\ Taken(pipe[x], k).writeopen = pipe[x].writeopen
        /\ Taken(pipe[x], k).live = pipe[x].live
    BY Zenon, <1>1, TakenFacts
  <2>3. Woken(x, "nwrite") \in [Proc -> Places] /\ Awoke(Proc, pc, Woken(x, "nwrite"))
    BY Zenon, <1>0, WokenFacts
  <2> HIDE DEF x, k
  <2>4. Moves(p) /\ pc'[p] = "user"
    BY ZenonT(40), <1>0, <2>1, <2>3 DEF TypeOK, Set, Moves, Awoke
  <2>5. pipe' \in [Pipe -> PipeRec] /\ SameEnds /\ CountInv'
    BY SMTT(40), <1>0, <1>1, <2>1, <2>2 DEF TypeOK, Set, SameEnds, CountInv
  <2> QED BY Zenon, <1>0, <2>4, <2>5
<1> QED BY Zenon, <1>2, <1>3

\* The same of pipewrite().
LEMMA WriteFacts ==
  ASSUME FilesAssumption, IInv, NEW p \in Proc, pipewrite(p)
  PROVE  /\ UNCHANGED <<file, ofile, iref, todo, ff, hold, killed, kills>>
         /\ pipe' \in [Pipe -> PipeRec] /\ SameEnds /\ CountInv' /\ buf' \in [Proc -> Seq(Nat)]
         /\ pc[p] = "write" /\ pc'[p] \in {"user", "write_sleeps"} /\ Moves(p)
<1>0. /\ TypeOK /\ CountInv /\ UNCHANGED <<file, ofile, iref, todo, ff, hold, killed, kills>>
      /\ pc[p] = "write" /\ "user" \in Places /\ "write_sleeps" \in Places
  BY Zenon DEF IInv, pipewrite, fdVars, procVars, Places, Writing
<1> DEFINE x == using[p]
           k == Min({Len(buf[p]), PIPESIZE - Count(pipe[x])})
           y == Put(pipe[x], buf[p], k)
           rest == SubSeq(buf[p], k + 1, Len(buf[p]))
<1>1. x \in Pipe /\ pipe[x] \in PipeRec /\ Count(pipe[x]) <= PIPESIZE /\ buf[p] \in Seq(Nat)
  BY Zenon, <1>0, InUse DEF IInv, Writing, TypeOK, CountInv
<1>2. /\ k \in 0..Len(buf[p]) /\ y \in PipeRec /\ Count(y) <= PIPESIZE
      /\ y.readopen = pipe[x].readopen /\ y.writeopen = pipe[x].writeopen /\ y.live = pipe[x].live
  BY SMTT(40), <1>1, PutFacts
<1>3. rest \in Seq(Nat)
  <2> HIDE DEF k
  <2> QED BY <1>1, <1>2
<1>4. Woken(x, "nread") \in [Proc -> Places] /\ Awoke(Proc, pc, Woken(x, "nread"))
  BY Zenon, <1>0, WokenFacts
<1>5. /\ pipe' = Set(pipe, x, y)
      /\ \/ /\ pc' = Set(Woken(x, "nread"), p, "user") \/ pc' = Set(pc, p, "user")
            /\ buf' = Set(buf, p, <<>>) /\ using' = Set(using, p, None)
         \/ /\ pc' = Set(Woken(x, "nread"), p, "write_sleeps")
            /\ buf' = Set(buf, p, rest) /\ using' = using
  BY ZenonT(40) DEF pipewrite, Goto
<1> HIDE DEF x, k, y, rest
<1>6. Moves(p) /\ pc'[p] \in {"user", "write_sleeps"}
  <2>1. CASE pc' = Set(Woken(x, "nread"), p, "user") /\ using' = Set(using, p, None)
    BY Zenon, <1>0, <1>4, <2>1 DEF TypeOK, Set, Moves, Awoke
  <2>2. CASE pc' = Set(pc, p, "user") /\ using' = Set(using, p, None)
    BY Zenon, <1>0, <2>2 DEF TypeOK, Set, Moves, Awoke
  <2>3. CASE pc' = Set(Woken(x, "nread"), p, "write_sleeps") /\ using' = using
    BY Zenon, <1>0, <1>4, <2>3 DEF TypeOK, Set, Moves, Awoke
  <2> QED BY SMTT(40), <1>5, <2>1, <2>2, <2>3
<1>7. buf' \in [Proc -> Seq(Nat)]
  <2>1. <<>> \in Seq(Nat) /\ buf \in [Proc -> Seq(Nat)]
    BY <1>0 DEF TypeOK
  <2>2. \E s \in Seq(Nat) : buf' = Set(buf, p, s)
    BY ZenonT(40), <1>3, <1>5, <2>1
  <2> QED BY Zenon, <2>1, <2>2 DEF Set
<1>8. pipe' \in [Pipe -> PipeRec] /\ SameEnds /\ CountInv'
  BY Zenon, <1>0, <1>1, <1>2, <1>5 DEF TypeOK, Set, SameEnds, CountInv
<1> QED BY SMTT(40), <1>0, <1>6, <1>7, <1>8

\* What pipealloc() does when it succeeds, which is when the step is taken.
Allocated(p, x, rf, wf) ==
  /\ rf # wf /\ file[rf].ref = 0 /\ file[wf].ref = 0 /\ ~pipe[x].live
  /\ file' = [file EXCEPT ![rf] = PipeEnd(x, FALSE), ![wf] = PipeEnd(x, TRUE)]
  /\ pipe' = Set(pipe, x, NewPipe) /\ hold' = Set(hold, p, <<rf, wf>>)

\* A step of pipealloc() is that, for some page and two free entries.
LEMMA PipeAlloc ==
  ASSUME FilesAssumption, NEW p \in Proc, pipealloc(p)
  PROVE  \E x \in Pipe, rf \in File, wf \in File : Allocated(p, x, rf, wf)
<1> DEFINE rf == Min(FreeFiles)
           wf == Min(FreeFiles \ {rf})
<1>1. PICK x \in Pipe :
        /\ ~pipe[x].live /\ Cardinality(FreeFiles) >= 2
        /\ file' = [file EXCEPT ![rf] = PipeEnd(x, FALSE), ![wf] = PipeEnd(x, TRUE)]
        /\ pipe' = Set(pipe, x, NewPipe) /\ hold' = Set(hold, p, <<rf, wf>>)
  BY ZenonT(40) DEF pipealloc, PipeEnd, NewPipe
<1>2. rf \in File /\ wf \in File /\ rf # wf /\ file[rf].ref = 0 /\ file[wf].ref = 0
  BY Zenon, <1>1, AllocTwo
<1> HIDE DEF rf, wf
<1>3. Allocated(p, x, rf, wf)
  BY Zenon, <1>1, <1>2 DEF Allocated
<1> QED BY Zenon, <1>2, <1>3

-----------------------------------------------------------------------------
(* Types, control and the table *)

\* What the next lemma shows of a step.
ShapeInv == TypeOK /\ ControlInv /\ TableInv

\* Every step keeps the types, and what a process holds goes with its place.
LEMMA Shape == ASSUME FilesAssumption, IInv, Next
               PROVE  TypeOK' /\ ControlInv' /\ TableInv'
<1> USE DEF fdVars, ioVars, procVars
<1>0. TypeOK /\ ControlInv /\ TableInv
  BY Zenon DEF IInv
<1>1. ASSUME NEW p \in Proc, fileclose(p) PROVE ShapeInv'
  <2> SUFFICES TypeOK' /\ ControlInv' /\ TableInv'
    BY Zenon DEF ShapeInv
  <2> DEFINE f == Head(todo[p])
  <2>1. f \in File /\ Tail(todo[p]) \in Seq(File) /\ Len(Tail(todo[p])) = Len(todo[p]) - 1
        /\ Len(todo[p]) \in Nat
    BY <1>0, <1>1 DEF fileclose, TypeOK
  <2>2. file[f].ref >= 1
    BY Zenon, <1>1, <2>1, CloseHas DEF fileclose, IInv
  <2>3. pc[p] \in {"user", "exit"}
    BY Zenon, <1>0, <1>1 DEF fileclose, ControlInv, Control
  <2>4. CASE Dropped(f)
    <3>1. file' = Set(file, f, NoFile) /\ ff' = Set(ff, p, file[f])
          /\ todo' = Set(todo, p, Tail(todo[p]))
          /\ UNCHANGED <<ofile, pipe, iref, pc, hold, using, buf, killed, kills>>
      BY Zenon, <1>1, <2>4 DEF fileclose
    <3>2. TypeOK'
      BY SMTT(40), <1>0, <2>1, <3>1, NoFileRec DEF TypeOK, Set
    <3>3. ControlInv'
      BY SMTT(40), <1>0, <2>1, <2>3, <3>1 DEF ControlInv, Control, TypeOK, Set
    <3>4. TableInv'
      BY ZenonT(40), <1>0, <2>1, <3>1 DEF TableInv, Names, NoFile, TypeOK, Set
    <3> QED BY Zenon, <3>2, <3>3, <3>4
  <2>5. CASE ~Dropped(f)
    <3>1. file' = [file EXCEPT ![f].ref = @ - 1] /\ ff' = ff
          /\ todo' = Set(todo, p, Tail(todo[p]))
          /\ UNCHANGED <<ofile, pipe, iref, pc, hold, using, buf, killed, kills>>
      BY Zenon, <1>1, <2>5 DEF fileclose
    <3>2. file[f].ref \in Nat /\ file[f].ref > 1
      BY SMTT(40), <1>0, <2>1, <2>5 DEF TypeOK, FileRec, Dropped
    <3> HIDE DEF f
    <3>3. file' \in [File -> FileRec]
      <4>1. [file[f] EXCEPT !.ref = @ - 1] \in FileRec
        <5>1. file[f] \in FileRec /\ file[f].ref - 1 \in Nat
          BY SMTT(40), <1>0, <2>1, <3>2 DEF TypeOK
        <5> QED BY Zenon, <5>1, RefRec
      <4>2. file' = [file EXCEPT ![f] = [file[f] EXCEPT !.ref = @ - 1]]
        BY Zenon, <1>0, <2>1, <3>1 DEF TypeOK
      <4> QED BY Zenon, <1>0, <2>1, <4>1, <4>2 DEF TypeOK
    <3>4. TypeOK'
      BY ZenonT(40), <1>0, <2>1, <3>1, <3>3 DEF TypeOK, Set
    <3>5. ControlInv'
      BY SMTT(40), <1>0, <2>1, <2>3, <3>1 DEF ControlInv, Control, TypeOK, Set
    <3>6. TableInv'
      BY SMTT(40), <1>0, <2>1, <3>1, <3>2 DEF TableInv, Names, TypeOK, FileRec
    <3> QED BY Zenon, <3>4, <3>5, <3>6
  <2> QED BY Zenon, <2>4, <2>5
<1>2. ASSUME NEW p \in Proc, lastclose(p) PROVE ShapeInv'
  <2> SUFFICES TypeOK' /\ ControlInv' /\ TableInv'
    BY Zenon DEF ShapeInv
  <2>0. /\ ff' = Set(ff, p, NoFile)
        /\ UNCHANGED <<file, ofile, todo, hold, using, buf, killed, kills>>
    BY Zenon, <1>2 DEF lastclose
  <2>1. pc[p] \in {"user", "exit"}
    BY ZenonT(40), <1>0, <1>2 DEF lastclose, ControlInv, Control
  <2>2. pipe' \in [Pipe -> PipeRec] /\ iref' \in [Inode -> Int] /\ pc' \in [Proc -> Places]
        /\ Awoke(Proc, pc, pc')
    <3>1. CASE ff[p].type = "PIPE" /\ pipeclose(ff[p].obj, ff[p].writable) /\ UNCHANGED iref
      <4>1. ff[p].obj \in Pipe
        BY Zenon, <1>0, <3>1 DEF TableInv, Names
      <4>2. pipe' \in [Pipe -> PipeRec]
        BY ZenonT(40), <1>0, <3>1, <4>1, NoPipeRec DEF TypeOK, pipeclose, PipeRec, Set
      <4>3. PICK chan : pc' = Woken(ff[p].obj, chan)
        BY Zenon, <3>1 DEF pipeclose
      <4>4. pc' \in [Proc -> Places] /\ Awoke(Proc, pc, pc')
        BY Zenon, <1>0, <4>3, WokenFacts
      <4> QED BY SMTT(40), <1>0, <3>1, <4>2, <4>4 DEF TypeOK
    <3>2. CASE /\ ff[p].type = "INODE" /\ iref' = [iref EXCEPT ![ff[p].obj] = @ - 1]
               /\ UNCHANGED <<pipe, pc>>
      BY <1>0, <3>2 DEF TypeOK, TableInv, Names, Awoke
    <3>3. CASE ff[p].type = "NONE" /\ UNCHANGED <<pipe, iref, pc>>
      BY Zenon, <1>0, <3>3 DEF TypeOK, Awoke
    <3> QED BY SMTT(40), <1>2, <3>1, <3>2, <3>3 DEF lastclose
  <2>3. TypeOK'
    BY ZenonT(40), <1>0, <2>0, <2>2, NoFileRec DEF TypeOK, Set
  <2>4. ControlInv'
    BY ZenonT(40), <1>0, <2>0, <2>1, <2>2 DEF ControlInv, Control, TypeOK, Set, Awoke
  <2>5. TableInv'
    BY Zenon, <1>0, <2>0 DEF TableInv, Names, NoFile, TypeOK, Set
  <2> QED BY Zenon, <2>3, <2>4, <2>5
<1>3. ASSUME NEW p \in Proc, NEW i \in Inode, sys_open(p, i)
      PROVE  ShapeInv'
  <2> SUFFICES TypeOK' /\ ControlInv' /\ TableInv'
    BY Zenon DEF ShapeInv
  <2>0. UNCHANGED <<pipe, pc, todo, ff, hold, using, buf, killed, kills>>
        /\ pc[p] = "user"
    BY Zenon, <1>3 DEF sys_open, Calls
  <2>1. CASE UNCHANGED <<file, ofile, iref>>
    BY Zenon, <1>0, <2>0, <2>1 DEF TypeOK, ControlInv, Control, TableInv, Names
  <2>2. CASE /\ FreeFiles # {} /\ FreeFds(p) # {}
             /\ file' = Set(file, filealloc, [ref |-> 1, type |-> "INODE", obj |-> i, writable |-> FALSE])
             /\ ofile' = [ofile EXCEPT ![p][fdalloc(p)] = filealloc]
             /\ iref' = [iref EXCEPT ![i] = @ + 1]
    <3>1. filealloc \in File /\ fdalloc(p) \in FD
      BY Zenon, <2>2, Alloc
    <3>2. [ref |-> 1, type |-> "INODE", obj |-> i, writable |-> FALSE] \in FileRec
      BY Zenon DEF FileRec
    <3>3. TypeOK'
      BY SMTT(40), <1>0, <2>0, <2>2, <3>1, <3>2 DEF TypeOK, Set
    <3>4. ControlInv'
      BY SMTT(40), <1>0, <2>0, <2>2 DEF ControlInv, Control, TypeOK
    <3>5. TableInv'
      BY SMTT(40), <1>0, <2>0, <2>2, <3>1 DEF TableInv, Names, TypeOK, Set
    <3> QED BY Zenon, <3>3, <3>4, <3>5
  <2> QED BY Zenon, <1>3, <2>1, <2>2 DEF sys_open
<1>4. ASSUME NEW p \in Proc, NEW fd \in FD, sys_dup(p, fd)
      PROVE  ShapeInv'
  <2> SUFFICES TypeOK' /\ ControlInv' /\ TableInv'
    BY Zenon DEF ShapeInv
  <2>0. /\ UNCHANGED <<pipe, iref, pc, todo, ff, hold, using, buf, killed, kills>>
        /\ ofile' = [ofile EXCEPT ![p][fdalloc(p)] = ofile[p][fd]]
        /\ file' = [file EXCEPT ![ofile[p][fd]].ref = @ + 1]
        /\ pc[p] = "user" /\ FreeFds(p) # {}
    BY Zenon, <1>4 DEF sys_dup, Calls
  <2>1. ofile[p][fd] \in File /\ fdalloc(p) \in FD
    BY SMTT(40), <1>0, <1>4, <2>0, Alloc DEF sys_dup, OpenFds, TypeOK
  <2>2. file' \in [File -> FileRec]
    <3> DEFINE f == ofile[p][fd]
    <3>1. file[f] \in FileRec /\ file[f].ref + 1 \in Nat
      BY <1>0, <2>1 DEF TypeOK, FileRec
    <3>2. [file[f] EXCEPT !.ref = @ + 1] \in FileRec
      BY Zenon, <3>1, RefRec
    <3>3. file' = [file EXCEPT ![f] = [file[f] EXCEPT !.ref = @ + 1]]
      BY Zenon, <1>0, <2>0, <2>1 DEF TypeOK
    <3> QED BY ZenonT(40), <1>0, <2>1, <3>2, <3>3 DEF TypeOK
  <2>3. TypeOK'
    BY SMTT(40), <1>0, <2>0, <2>1, <2>2 DEF TypeOK
  <2>4. ControlInv'
    BY ZenonT(40), <1>0, <2>0 DEF ControlInv, Control, TypeOK
  <2>5. TableInv'
    BY SMTT(40), <1>0, <2>0, <2>1 DEF TableInv, Names, TypeOK, FileRec
  <2> QED BY Zenon, <2>3, <2>4, <2>5
<1>5. ASSUME NEW p \in Proc, NEW fd \in FD, sys_close(p, fd)
      PROVE  ShapeInv'
  <2> SUFFICES TypeOK' /\ ControlInv' /\ TableInv'
    BY Zenon DEF ShapeInv
  <2>0. /\ UNCHANGED <<file, pipe, iref, pc, ff, hold, using, buf, killed, kills>>
        /\ ofile' = [ofile EXCEPT ![p][fd] = None] /\ todo' = Set(todo, p, <<ofile[p][fd]>>)
        /\ pc[p] = "user"
    BY Zenon, <1>5 DEF sys_close, Calls
  <2>1. ofile[p][fd] \in File
    BY SMTT(40), <1>0, <1>5 DEF sys_close, OpenFds, TypeOK
  <2>2. TypeOK'
    BY SMTT(40), <1>0, <2>0, <2>1 DEF TypeOK, Set
  <2>3. ControlInv'
    BY SMTT(40), <1>0, <2>0, <2>1 DEF ControlInv, Control, TypeOK, Set
  <2>4. TableInv'
    BY Zenon, <1>0, <2>0 DEF TableInv, Names
  <2> QED BY Zenon, <2>2, <2>3, <2>4
<1>6. ASSUME NEW p \in Proc, pipealloc(p) PROVE ShapeInv'
  <2> SUFFICES TypeOK' /\ ControlInv' /\ TableInv'
    BY Zenon DEF ShapeInv
  <2>1. PICK x \in Pipe, rf \in File, wf \in File :
          Allocated(p, x, rf, wf)
    BY Zenon, <1>6, PipeAlloc
  <2>2. /\ UNCHANGED <<ofile, iref, todo, ff, using, buf, killed, kills>>
        /\ pc' = Set(pc, p, "pipe") /\ Returning(p) /\ pc[p] = "user"
    BY Zenon, <1>6 DEF pipealloc, Calls, Goto
  <2>3. /\ \A g \in File : file'[g] = IF g = wf THEN PipeEnd(x, TRUE)
                                     ELSE IF g = rf THEN PipeEnd(x, FALSE) ELSE file[g]
        /\ DOMAIN file' = File /\ file' = [g \in File |-> file'[g]]
    BY ZenonT(40), <1>0, <2>1 DEF TypeOK, Allocated
  <2>4. /\ PipeEnd(x, FALSE) \in FileRec /\ PipeEnd(x, TRUE) \in FileRec
        /\ Names(PipeEnd(x, FALSE)) /\ Names(PipeEnd(x, TRUE))
        /\ PipeEnd(x, FALSE).ref = 1 /\ PipeEnd(x, TRUE).ref = 1
    BY Zenon DEF PipeEnd, FileRec, Names
  <2>5. NewPipe \in PipeRec
    BY ZenonT(40), NoPipeRec DEF PipeRec, NewPipe
  <2>6. "pipe" \in Places /\ <<rf, wf>> \in Seq(File)
    BY DEF Places
  <2>7. TypeOK'
    <3>1. file' \in [File -> FileRec]
      BY ZenonT(40), <1>0, <2>3, <2>4 DEF TypeOK
    <3>2. pipe' \in [Pipe -> PipeRec] /\ hold' \in [Proc -> Seq(File)] /\ pc' \in [Proc -> Places]
      BY SMTT(40), <1>0, <2>1, <2>2, <2>5, <2>6 DEF TypeOK, Set, Allocated
    <3> QED BY SMTT(40), <1>0, <2>2, <3>1, <3>2 DEF TypeOK
  <2>8. ControlInv'
    <3>1. /\ \A q \in Proc \ {p} : pc'[q] = pc[q] /\ hold'[q] = hold[q]
          /\ pc'[p] = "pipe" /\ hold'[p] = <<rf, wf>> /\ todo[p] = <<>> /\ ff[p] = NoFile
          /\ rf # wf
      BY Zenon, <1>0, <2>1, <2>2 DEF TypeOK, Set, Returning, Allocated
    <3>2. ASSUME NEW q \in Proc PROVE Control(q)'
      <4>1. CASE q = p
        <5>1. /\ Len(hold'[p]) = 2 /\ hold'[p][1] = rf /\ hold'[p][2] = wf
              /\ todo'[p] = <<>> /\ ff'[p] = NoFile /\ Len(<<>>) = 0
          BY SMTT(40), <2>2, <3>1
        <5>2. pc'[p] = "pipe" /\ rf # wf
          BY ZenonT(40), <3>1
        <5> QED BY SMTT(40), <4>1, <5>1, <5>2 DEF Control
      <4>2. CASE q # p
        BY SMTT(40), <1>0, <2>2, <3>1, <4>2 DEF ControlInv, Control
      <4> QED BY Zenon, <4>1, <4>2
    <3> QED BY Zenon, <3>2 DEF ControlInv
  <2>9. TableInv'
    <3>1. ASSUME NEW g \in File PROVE (file'[g].ref = 0 => file'[g] = NoFile) /\ Names(file'[g])
      <4>1. CASE g = wf
        <5>1. file'[g] = PipeEnd(x, TRUE)
          BY ZenonT(40), <2>3, <4>1
        <5> QED BY <5>1 DEF PipeEnd, Names
      <4>2. CASE g # wf /\ g = rf
        <5>1. file'[g] = PipeEnd(x, FALSE)
          BY ZenonT(40), <2>3, <4>2
        <5> QED BY <5>1 DEF PipeEnd, Names
      <4>3. CASE g # wf /\ g # rf
        BY ZenonT(40), <1>0, <2>3, <4>3 DEF TableInv
      <4> QED BY ZenonT(40), <4>1, <4>2, <4>3
    <3>2. \A q \in Proc : Names(ff'[q])
      BY Zenon, <1>0, <2>2 DEF TableInv
    <3> QED BY Zenon, <3>1, <3>2 DEF TableInv, Names
  <2> QED BY Zenon, <2>7, <2>8, <2>9
<1>7. ASSUME NEW p \in Proc, sys_pipe(p) PROVE ShapeInv'
  <2> SUFFICES TypeOK' /\ ControlInv' /\ TableInv'
    BY Zenon DEF ShapeInv
  <2>0. /\ UNCHANGED <<file, pipe, iref, ff, using, buf, killed, kills>>
        /\ pc[p] = "pipe" /\ pc' = Set(pc, p, "user") /\ hold' = Set(hold, p, <<>>)
    BY Zenon, <1>7 DEF sys_pipe, Goto
  <2>1. /\ hold[p] \in Seq(File) /\ Len(hold[p]) = 2 /\ hold[p][1] \in File /\ hold[p][2] \in File
        /\ todo[p] = <<>>
    <3>1. hold[p] \in Seq(File)
      BY Zenon, <1>0 DEF TypeOK
    <3>2. Len(hold[p]) = 2 /\ todo[p] = <<>>
      BY ZenonT(40), <1>0, <2>0 DEF ControlInv, Control
    <3> QED BY SMTT(40), <3>1, <3>2
  <2>2. "user" \in Places
    BY Zenon DEF Places
  <2>3. TableInv'
    BY ZenonT(40), <1>0, <2>0 DEF TableInv, Names
  <2>4. CASE Cardinality(FreeFds(p)) >= 2
    <3> DEFINE a == fdalloc(p)
               b == Min(FreeFds(p) \ {fdalloc(p)})
    <3>1. a \in FD /\ b \in FD
      BY Zenon, <2>4, FdsTwo
    <3>2. ofile' = [ofile EXCEPT ![p][a] = hold[p][1], ![p][b] = hold[p][2]] /\ todo' = todo
      BY Zenon, <1>7, <2>4 DEF sys_pipe
    <3> HIDE DEF a, b
    <3>3. ofile' \in [Proc -> [FD -> File \cup {None}]]
      BY ZenonT(40), <1>0, <2>1, <3>1, <3>2 DEF TypeOK
    <3>4. TypeOK'
      <4>1. hold' \in [Proc -> Seq(File)] /\ pc' \in [Proc -> Places]
        BY SMTT(40), <1>0, <2>0, <2>2 DEF TypeOK, Set
      <4> QED BY ZenonT(40), <1>0, <2>0, <3>2, <3>3, <4>1 DEF TypeOK
    <3>5. \A q \in Proc \ {p} : ofile'[q] = ofile[q]
      BY ZenonT(40), <1>0, <3>2 DEF TypeOK
    <3>6. ControlInv'
      BY SMTT(40), <1>0, <2>0, <3>2, <3>5 DEF ControlInv, Control, TypeOK, Set
    <3> QED BY Zenon, <2>3, <3>4, <3>6
  <2>5. CASE ~(Cardinality(FreeFds(p)) >= 2)
    <3>1. todo' = Set(todo, p, hold[p]) /\ ofile' = ofile
      BY Zenon, <1>7, <2>5 DEF sys_pipe
    <3>2. TypeOK'
      BY SMTT(40), <1>0, <2>0, <2>1, <2>2, <3>1 DEF TypeOK, Set
    <3>3. ControlInv'
      <4>1. /\ \A q \in Proc \ {p} : pc'[q] = pc[q] /\ hold'[q] = hold[q] /\ todo'[q] = todo[q]
            /\ pc'[p] = "user" /\ hold'[p] = <<>> /\ todo'[p] = hold[p]
        BY Zenon, <1>0, <2>0, <3>1 DEF TypeOK, Set
      <4>2. ASSUME NEW q \in Proc PROVE Control(q)'
        <5>1. CASE q = p
          <6>1. Len(todo'[p]) = 2 /\ hold'[p] = <<>> /\ pc'[p] = "user"
            BY ZenonT(40), <2>1, <4>1
          <6> QED BY SMTT(40), <5>1, <6>1 DEF Control
        <5>2. CASE q # p
          BY SMTT(40), <1>0, <2>0, <3>1, <4>1, <5>2 DEF ControlInv, Control
        <5> QED BY Zenon, <5>1, <5>2
      <4> QED BY Zenon, <4>2 DEF ControlInv
    <3> QED BY Zenon, <2>3, <3>2, <3>3
  <2> QED BY Zenon, <2>4, <2>5
<1>8. ASSUME NEW p \in Proc, NEW c \in Proc, fork(p, c)
      PROVE  ShapeInv'
  <2> SUFFICES TypeOK' /\ ControlInv' /\ TableInv'
    BY Zenon DEF ShapeInv
  <2>0. /\ UNCHANGED <<pipe, iref, todo, ff, hold, using, buf, killed, kills>>
        /\ ofile' = Set(ofile, c, ofile[p]) /\ pc' = Set(pc, c, "user")
        /\ file' = [f \in File |-> [file[f] EXCEPT !.ref = @ + Uses(p, f)]]
        /\ pc[c] = "unused"
    BY Zenon, <1>8 DEF fork, Calls, Goto
  <2>1. \A f \in File : Uses(p, f) \in Nat
    BY Zenon, FiniteRefs, FS_CardinalityType DEF Uses
  <2>2. file' \in [File -> FileRec]
    <3>1. ASSUME NEW f \in File PROVE [file[f] EXCEPT !.ref = @ + Uses(p, f)] \in FileRec
      <4>1. file[f] \in FileRec /\ file[f].ref + Uses(p, f) \in Nat
        BY SMTT(40), <1>0, <2>1 DEF TypeOK, FileRec
      <4> QED BY Zenon, <4>1, RefRec
    <3> QED BY Zenon, <2>0, <3>1
  <2>3. TypeOK'
    BY ZenonT(40), <1>0, <2>0, <2>2 DEF TypeOK, Set, Places
  <2>4. ControlInv'
    BY SMTT(40), <1>0, <2>0 DEF ControlInv, Control, TypeOK, Set
  <2>5. \A f \in File : file[f].ref = 0 => Uses(p, f) = 0
    <3> SUFFICES ASSUME NEW f \in File, file[f].ref = 0 PROVE Uses(p, f) = 0
      BY ZenonT(40)
    <3>1. \A fd \in FD : ofile[p][fd] # f
      BY SMTT(40), <1>0, OpenHas DEF IInv
    <3>2. {fd \in FD : ofile[p][fd] = f} = {}
      BY Zenon, <3>1
    <3> QED BY Zenon, <3>2, FS_EmptySet DEF Uses
  <2>6. TableInv'
    <3>1. ASSUME NEW f \in File PROVE (file'[f].ref = 0 => file'[f] = NoFile) /\ Names(file'[f])
      <4>1. file'[f] = [file[f] EXCEPT !.ref = file[f].ref + Uses(p, f)]
            /\ file[f].ref \in Nat /\ Uses(p, f) \in Nat /\ file[f] \in FileRec
        BY Zenon, <1>0, <2>0, <2>1 DEF TypeOK, FileRec
      <4>2. Names(file'[f])
        BY Zenon, <1>0, <4>1 DEF Names, TableInv, FileRec
      <4>3. file'[f].ref = file[f].ref + Uses(p, f)
        BY Zenon, <4>1 DEF FileRec
      <4>4. ASSUME file'[f].ref = 0 PROVE file'[f] = NoFile
        <5>1. file[f].ref = 0 /\ Uses(p, f) = 0
          BY SMTT(40), <4>1, <4>3, <4>4
        <5>2. file[f] = NoFile
          BY Zenon, <1>0, <5>1 DEF TableInv
        <5>3. [NoFile EXCEPT !.ref = 0] = NoFile
          <6>1. NoFile.ref = 0 /\ 0 \in Nat
            BY Zenon DEF NoFile
          <6> QED BY ZenonT(40), <6>1, NoFileRec, RefRec
        <5>4. file[f].ref + Uses(p, f) = 0
          BY <5>1
        <5> QED BY SMTT(40), <4>1, <5>2, <5>3, <5>4
      <4> QED BY Zenon, <4>2, <4>4
    <3> QED BY Zenon, <1>0, <2>0, <3>1 DEF TableInv
  <2> QED BY Zenon, <2>3, <2>4, <2>6
<1>9. ASSUME NEW p \in Proc, exit(p) PROVE ShapeInv'
  <2> SUFFICES TypeOK' /\ ControlInv' /\ TableInv'
    BY Zenon DEF ShapeInv
  <2>0. UNCHANGED <<file, pipe, iref, ff, hold, using, buf, kills>>
        /\ Returning(p) /\ pc[p] \in {"user", "exit"}
    BY Zenon, <1>9 DEF exit
  <2>1. TableInv'
    BY SMTT(40), <1>0, <2>0 DEF TableInv, Names
  <2>2. CASE OpenFds(p) = {}
    <3>1. /\ pc' = Set(pc, p, "unused") /\ killed' = Set(killed, p, FALSE)
          /\ ofile' = ofile /\ todo' = todo
      BY Zenon, <1>9, <2>2 DEF exit, Goto
    <3>2. TypeOK'
      BY Zenon, <1>0, <2>0, <3>1 DEF TypeOK, Set, Places
    <3>3. ofile[p] = Nobody
      BY ZenonT(40), <1>0, <2>2 DEF OpenFds, Nobody, TypeOK
    <3>4. ControlInv'
      BY SMTT(40), <1>0, <2>0, <3>1, <3>3 DEF ControlInv, Control, TypeOK, Set, Returning
    <3> QED BY Zenon, <2>1, <3>2, <3>4
  <2>3. CASE OpenFds(p) # {}
    <3>1. PICK fd \in OpenFds(p) :
            /\ pc' = Set(pc, p, "exit") /\ todo' = Set(todo, p, <<ofile[p][fd]>>)
            /\ ofile' = [ofile EXCEPT ![p][fd] = None] /\ killed' = killed
      BY ZenonT(40), <1>9, <2>3, FirstOpen DEF exit, Goto
    <3>2. fd \in FD /\ ofile[p][fd] \in File
      BY SMTT(40), <1>0 DEF OpenFds, TypeOK
    <3>3. TypeOK'
      BY SMTT(40), <1>0, <2>0, <3>1, <3>2 DEF TypeOK, Set, Places
    <3>4. ControlInv'
      BY SMTT(40), <1>0, <2>0, <3>1, <3>2 DEF ControlInv, Control, TypeOK, Set, Returning
    <3> QED BY Zenon, <2>1, <3>3, <3>4
  <2> QED BY Zenon, <2>2, <2>3
<1>10. ASSUME NEW p \in Proc, NEW fd \in FD, sys_read(p, fd)
       PROVE  ShapeInv'
  <2> SUFFICES TypeOK' /\ ControlInv' /\ TableInv'
    BY Zenon DEF ShapeInv
  <2>0. /\ UNCHANGED <<file, ofile, pipe, iref, todo, ff, hold, buf, killed, kills>>
        /\ using' = Set(using, p, file[ofile[p][fd]].obj) /\ pc' = Set(pc, p, "read")
        /\ Returning(p) /\ pc[p] = "user"
    BY Zenon, <1>10 DEF sys_read, Goto, Calls
  <2>1. file[ofile[p][fd]].obj \in Pipe
    <3>1. fd \in OpenFds(p) /\ file[ofile[p][fd]].type = "PIPE"
      BY Zenon, <1>10 DEF sys_read
    <3>2. ofile[p][fd] \in File
      BY <1>0, <3>1 DEF OpenFds, TypeOK
    <3> QED BY Zenon, <1>0, <3>1, <3>2 DEF TableInv, Names
  <2>2. TypeOK'
    BY ZenonT(40), <1>0, <2>0, <2>1 DEF TypeOK, Set, Places, Reading
  <2>3. ControlInv'
    BY SMTT(40), <1>0, <2>0 DEF ControlInv, Control, TypeOK, Set, Returning
  <2> QED BY ZenonT(40), <1>0, <2>0, <2>2, <2>3 DEF TableInv, Names
<1>11. ASSUME NEW p \in Proc, NEW fd \in FD, NEW m \in Message, sys_write(p, fd, m)
       PROVE  ShapeInv'
  <2> SUFFICES TypeOK' /\ ControlInv' /\ TableInv'
    BY Zenon DEF ShapeInv
  <2>0. /\ UNCHANGED <<file, ofile, pipe, iref, todo, ff, hold, killed, kills>>
        /\ using' = Set(using, p, file[ofile[p][fd]].obj) /\ pc' = Set(pc, p, "write")
        /\ buf' = Set(buf, p, m) /\ Returning(p) /\ pc[p] = "user"
    BY ZenonT(40), <1>11 DEF sys_write, Goto, Calls
  <2>1. file[ofile[p][fd]].obj \in Pipe /\ m \in Seq(Nat)
    BY SMTT(40), <1>0, <1>11 DEF sys_write, OpenFds, TypeOK, TableInv, Names, FilesAssumption
  <2>2. TypeOK'
    BY Zenon, <1>0, <2>0, <2>1 DEF TypeOK, Set, Places, Writing
  <2>3. ControlInv'
    BY Zenon, <1>0, <2>0 DEF ControlInv, Control, TypeOK, Set, Returning
  <2> QED BY ZenonT(40), <1>0, <2>0, <2>2, <2>3 DEF TableInv, Names
<1>12. ASSUME NEW p \in Proc, piperead(p) PROVE ShapeInv'
  <2> SUFFICES TypeOK' /\ ControlInv' /\ TableInv'
    BY Zenon DEF ShapeInv
  <2>1. TypeOK'
    BY ZenonT(40), <1>0, <1>12, ReadFacts DEF TypeOK, Moves
  <2>2. ControlInv'
    <3>1. /\ UNCHANGED <<ofile, todo, ff, hold>> /\ Awoke(Proc \ {p}, pc, pc')
          /\ pc[p] = "read" /\ pc'[p] \in {"user", "read_sleeps"}
      BY ZenonT(40), <1>12, ReadFacts DEF Moves
    <3> QED BY SMTT(40), <1>0, <3>1 DEF ControlInv, Control, Awoke
  <2> QED BY ZenonT(40), <1>0, <1>12, <2>1, <2>2, ReadFacts DEF TableInv, Names
<1>13. ASSUME NEW p \in Proc, pipewrite(p) PROVE ShapeInv'
  <2> SUFFICES TypeOK' /\ ControlInv' /\ TableInv'
    BY Zenon DEF ShapeInv
  <2>1. TypeOK'
    BY ZenonT(40), <1>0, <1>13, WriteFacts DEF TypeOK, Moves
  <2>2. ControlInv'
    <3>1. /\ UNCHANGED <<ofile, todo, ff, hold>> /\ Awoke(Proc \ {p}, pc, pc')
          /\ pc[p] = "write" /\ pc'[p] \in {"user", "write_sleeps"}
      BY ZenonT(40), <1>13, WriteFacts DEF Moves
    <3> QED BY <1>0, <3>1 DEF ControlInv, Control, Awoke
  <2> QED BY ZenonT(40), <1>0, <1>13, <2>1, <2>2, WriteFacts DEF TableInv, Names
<1>14. ASSUME NEW p \in Proc, sleep(p) PROVE ShapeInv'
  <2> SUFFICES TypeOK' /\ ControlInv' /\ TableInv'
    BY Zenon DEF ShapeInv
  <2>1. /\ UNCHANGED <<file, ofile, pipe, iref, todo, ff, hold, using, buf, killed, kills>>
        /\ \/ pc[p] = "read_sleeps" /\ pc' = Set(pc, p, "read_asleep")
           \/ pc[p] = "write_sleeps" /\ pc' = Set(pc, p, "write_asleep")
    BY Zenon, <1>14 DEF sleep, Goto
  <2>2. TypeOK'
    BY ZenonT(40), <1>0, <2>1 DEF TypeOK, Set, Places, Reading, Writing
  <2>3. ControlInv'
    BY <1>0, <2>1 DEF ControlInv, Control, TypeOK, Set
  <2> QED BY SMTT(40), <1>0, <2>1, <2>2, <2>3 DEF TableInv, Names
<1>15. ASSUME NEW p \in Proc, kill(p) PROVE ShapeInv'
  <2> SUFFICES TypeOK' /\ ControlInv' /\ TableInv'
    BY Zenon DEF ShapeInv
  <2>1. /\ UNCHANGED <<file, ofile, pipe, iref, todo, ff, hold, using, buf>>
        /\ killed' = Set(killed, p, TRUE) /\ kills' = kills + 1
        /\ pc' = Set(pc, p, IF pc[p] = "read_asleep" THEN "read"
                            ELSE IF pc[p] = "write_asleep" THEN "write" ELSE pc[p])
    BY ZenonT(40), <1>15 DEF kill, Goto
  <2>2. TypeOK'
    BY SMTT(40), <1>0, <2>1 DEF TypeOK, Set, Places, Reading, Writing
  <2>3. ControlInv'
    BY Zenon, <1>0, <2>1 DEF ControlInv, Control, TypeOK, Set
  <2> QED BY ZenonT(40), <1>0, <2>1, <2>2, <2>3 DEF TableInv, Names
<1> QED
  BY SMTT(40), <1>1, <1>2, <1>3, <1>4, <1>5, <1>6, <1>7, <1>8, <1>9, <1>10, <1>11, <1>12, <1>13, <1>14,
     <1>15 DEF ShapeInv, Next, Step, Call

-----------------------------------------------------------------------------
(* The ends of pipes *)

\* The count apart, file f is what it was.
SameFile(f) == /\ file'[f].type = file[f].type /\ file'[f].obj = file[f].obj
               /\ file'[f].writable = file[f].writable

\* A step that moves no end of a pipe.
LEMMA EndSame ==
  ASSUME EndInv, UNCHANGED ff, SameEnds, \A f \in File : SameFile(f)
  PROVE  EndInv'
<1>1. \A f \in File : \A x, w : End(file'[f], x, w) <=> End(file[f], x, w)
  BY Zenon DEF SameFile, End
<1> SUFFICES ASSUME NEW x \in Pipe PROVE PipeEnds(x)'
  BY Zenon DEF EndInv
<1>2. \A w \in BOOLEAN : (HasEnd(x, w)' <=> HasEnd(x, w)) /\ (OneEnd(x, w)' <=> OneEnd(x, w))
  BY ZenonT(40), <1>1 DEF HasEnd, OneEnd
<1>3. PipeEnds(x) /\ TRUE \in BOOLEAN /\ FALSE \in BOOLEAN
  BY Zenon DEF EndInv
<1> QED BY ZenonT(40), <1>2, <1>3 DEF PipeEnds, SameEnds

\* fork(), dup() and a fileclose() that is not the last change counts only.
LEMMA CountOnly ==
  ASSUME TypeOK, NEW f \in File, NEW n, file' = [file EXCEPT ![f].ref = n]
  PROVE  \A g \in File : SameFile(g)
BY DEF TypeOK, FileRec, SameFile

\* ... of fork().
LEMMA ForkFiles ==
  ASSUME TypeOK, NEW p, file' = [f \in File |-> [file[f] EXCEPT !.ref = @ + Uses(p, f)]]
  PROVE  \A g \in File : SameFile(g)
BY SMTT(40) DEF TypeOK, FileRec, SameFile

\* Every step keeps an end open exactly while somebody has it.
LEMMA EndStep == ASSUME FilesAssumption, IInv, Next PROVE EndInv'
<1> USE DEF fdVars, ioVars, procVars
<1>0. TypeOK /\ ControlInv /\ TableInv /\ RefInv /\ EndInv
  BY Zenon DEF IInv
<1>1. ASSUME NEW p \in Proc, fileclose(p) PROVE EndInv'
  <2> DEFINE f == Head(todo[p])
  <2>1. f \in File /\ ff[p] = NoFile /\ pipe' = pipe
    BY ZenonT(40), <1>0, <1>1, TodoFirst DEF fileclose
  <2>2. CASE ~Dropped(f)
    <3>1. file' = [file EXCEPT ![f].ref = @ - 1] /\ ff' = ff
      BY Zenon, <1>1, <2>2 DEF fileclose
    <3>2. file' = [file EXCEPT ![f].ref = file[f].ref - 1]
      BY Zenon, <3>1
    <3> HIDE DEF f
    <3>3. \A g \in File : SameFile(g)
      BY ZenonT(40), <1>0, <2>1, <3>2, CountOnly
    <3> QED BY SMTT(40), <1>0, <2>1, <3>1, <3>3, EndSame DEF SameEnds
  <2>3. CASE Dropped(f)
    <3>1. file' = Set(file, f, NoFile) /\ ff' = Set(ff, p, file[f])
      BY Zenon, <1>1, <2>3 DEF fileclose
    <3> HIDE DEF f
    <3>2. SUFFICES ASSUME NEW x \in Pipe PROVE PipeEnds(x)'
      BY Zenon DEF EndInv
    <3>3. /\ \A g \in File \ {f} : file'[g] = file[g]
          /\ \A q \in Proc \ {p} : ff'[q] = ff[q]
          /\ file'[f] = NoFile /\ ff'[p] = file[f] /\ ff[p] = NoFile
      BY SMTT(40), <1>0, <2>1, <3>1 DEF TypeOK, Set
    <3>4. \A w \in BOOLEAN : ~End(NoFile, x, w)
      BY Zenon DEF End, NoFile
    <3>5. PipeEnds(x)
      BY Zenon, <1>0 DEF EndInv
    <3>6. ASSUME NEW w \in BOOLEAN PROVE HasEnd(x, w)' <=> HasEnd(x, w)
      BY SMTT(40), <2>1, <3>3, <3>4 DEF HasEnd
    <3>7. ASSUME NEW w \in BOOLEAN PROVE OneEnd(x, w)'
      <4>1. OneEnd(x, w)
        BY Zenon, <3>5 DEF PipeEnds
      <4> QED BY SMTT(40), <2>1, <3>3, <3>4, <4>1 DEF OneEnd
    <3>8. TRUE \in BOOLEAN /\ FALSE \in BOOLEAN
      BY Zenon
    <3> QED BY ZenonT(40), <2>1, <3>5, <3>6, <3>7, <3>8 DEF PipeEnds
  <2> QED BY Zenon, <2>2, <2>3
<1>2. ASSUME NEW p \in Proc, lastclose(p) PROVE EndInv'
  <2>1. file' = file /\ ff' = Set(ff, p, NoFile) /\ ff[p] \in FileRec
    BY Zenon, <1>0, <1>2 DEF lastclose, TypeOK
  <2>2. SUFFICES ASSUME NEW x \in Pipe PROVE PipeEnds(x)'
    BY Zenon DEF EndInv
  <2>3. (\A q \in Proc \ {p} : ff'[q] = ff[q]) /\ ff'[p] = NoFile
    BY Zenon, <1>0, <2>1 DEF TypeOK, Set
  <2>4. \A w \in BOOLEAN : ~End(NoFile, x, w)
    BY Zenon DEF End, NoFile
  <2>5. PipeEnds(x) /\ TRUE \in BOOLEAN /\ FALSE \in BOOLEAN
    BY ZenonT(40), <1>0 DEF EndInv
  <2>6. ASSUME NEW w \in BOOLEAN PROVE OneEnd(x, w)'
    <3>1. OneEnd(x, w)
      BY ZenonT(40), <2>5 DEF PipeEnds
    <3> QED BY SMTT(40), <2>1, <2>3, <2>4, <3>1 DEF OneEnd
  <2>7. ASSUME NEW w \in BOOLEAN, End(ff[p], x, w) PROVE ~HasEnd(x, w)'
    <3>1. OneEnd(x, w)
      BY Zenon, <2>5 DEF PipeEnds
    <3> QED BY SMTT(40), <2>1, <2>3, <2>4, <2>7, <3>1 DEF OneEnd, HasEnd
  <2>8. ASSUME NEW w \in BOOLEAN, ~End(ff[p], x, w) PROVE HasEnd(x, w)' <=> HasEnd(x, w)
    BY SMTT(40), <2>1, <2>3, <2>4, <2>8 DEF HasEnd
  <2>9. CASE ff[p].type = "PIPE" /\ ff[p].obj = x
    <3> DEFINE y == IF ff[p].writable THEN [pipe[x] EXCEPT !.writeopen = FALSE]
                    ELSE [pipe[x] EXCEPT !.readopen = FALSE]
    <3>1. pipe'[x] = IF y.readopen \/ y.writeopen THEN y ELSE NoPipe
      BY SMTT(40), <1>0, <1>2, <2>9 DEF lastclose, pipeclose, TypeOK, Set
    <3>2. pipe[x] \in PipeRec /\ ff[p].writable \in BOOLEAN
      BY Zenon, <1>0, <2>1 DEF TypeOK, FileRec
    <3>3. CASE ff[p].writable
      <4>1. End(ff[p], x, TRUE) /\ ~End(ff[p], x, FALSE)
        BY SMTT(40), <2>9, <3>2, <3>3 DEF End
      <4>2. /\ pipe'[x].readopen <=> pipe[x].readopen
            /\ ~pipe'[x].writeopen
            /\ pipe'[x].live <=> pipe[x].readopen
        BY SMTT(40), <2>5, <3>1, <3>2, <3>3 DEF PipeRec, NoPipe, PipeEnds
      <4>3. (HasEnd(x, FALSE)' <=> HasEnd(x, FALSE)) /\ ~HasEnd(x, TRUE)'
        BY ZenonT(40), <2>5, <2>7, <2>8, <4>1
      <4> QED BY ZenonT(40), <2>5, <2>6, <4>2, <4>3 DEF PipeEnds
    <3>4. CASE ~ff[p].writable
      <4>1. End(ff[p], x, FALSE) /\ ~End(ff[p], x, TRUE)
        BY SMTT(40), <2>9, <3>2, <3>4 DEF End
      <4>2. /\ pipe'[x].writeopen <=> pipe[x].writeopen
            /\ ~pipe'[x].readopen
            /\ pipe'[x].live <=> pipe[x].writeopen
        BY SMTT(40), <2>5, <3>1, <3>2, <3>4 DEF PipeRec, NoPipe, PipeEnds
      <4>3. (HasEnd(x, TRUE)' <=> HasEnd(x, TRUE)) /\ ~HasEnd(x, FALSE)'
        BY ZenonT(40), <2>5, <2>7, <2>8, <4>1
      <4> QED BY ZenonT(40), <2>5, <2>6, <4>2, <4>3 DEF PipeEnds
    <3> QED BY Zenon, <3>3, <3>4
  <2>10. CASE ~(ff[p].type = "PIPE" /\ ff[p].obj = x)
    <3>1. pipe'[x] = pipe[x]
      BY SMTT(40), <1>0, <1>2, <2>10 DEF lastclose, pipeclose, TypeOK, Set
    <3>2. \A w \in BOOLEAN : ~End(ff[p], x, w)
      BY Zenon, <2>10 DEF End
    <3> QED BY ZenonT(40), <2>5, <2>6, <2>8, <3>1, <3>2 DEF PipeEnds
  <2> QED BY Zenon, <2>9, <2>10
<1>3. ASSUME NEW p \in Proc, NEW i \in Inode, sys_open(p, i) PROVE EndInv'
  <2>0. UNCHANGED <<ff, pipe>>
    BY Zenon, <1>3 DEF sys_open
  <2>1. CASE UNCHANGED <<file, ofile, iref>>
    BY SMTT(40), <1>0, <2>0, <2>1, EndSame DEF SameEnds, SameFile
  <2>2. CASE /\ FreeFiles # {} /\ FreeFds(p) # {}
             /\ file' = Set(file, filealloc, [ref |-> 1, type |-> "INODE", obj |-> i, writable |-> FALSE])
    <3>1. filealloc \in File /\ file[filealloc] = NoFile
      BY ZenonT(40), <1>0, <2>2, Alloc DEF TableInv
    <3>2. /\ \A g \in File \ {filealloc} : file'[g] = file[g]
          /\ file'[filealloc].type = "INODE" /\ file[filealloc].type = "NONE"
      BY SMTT(40), <1>0, <2>2, <3>1 DEF TypeOK, Set, NoFile
    <3>3. \A f \in File : \A x, w : End(file'[f], x, w) <=> End(file[f], x, w)
      BY Zenon, <3>2 DEF End
    <3>4. ASSUME NEW x \in Pipe PROVE PipeEnds(x)'
      <4>1. \A w \in BOOLEAN : (HasEnd(x, w)' <=> HasEnd(x, w)) /\ (OneEnd(x, w)' <=> OneEnd(x, w))
        BY ZenonT(40), <2>0, <3>3 DEF HasEnd, OneEnd
      <4>2. PipeEnds(x) /\ TRUE \in BOOLEAN /\ FALSE \in BOOLEAN
        BY Zenon, <1>0 DEF EndInv
      <4> QED BY ZenonT(40), <2>0, <4>1, <4>2 DEF PipeEnds
    <3> QED BY Zenon, <3>4 DEF EndInv
  <2> QED BY SMTT(40), <1>3, <2>1, <2>2 DEF sys_open
<1>4. ASSUME NEW p \in Proc, NEW fd \in FD, sys_dup(p, fd) PROVE EndInv'
  <2>1. /\ file' = [file EXCEPT ![ofile[p][fd]].ref = file[ofile[p][fd]].ref + 1]
        /\ UNCHANGED <<ff, pipe>> /\ ofile[p][fd] \in File
    BY SMTT(40), <1>0, <1>4 DEF sys_dup, OpenFds, TypeOK
  <2>2. \A g \in File : SameFile(g)
    BY ZenonT(40), <1>0, <2>1, CountOnly
  <2> QED BY SMTT(40), <1>0, <2>1, <2>2, EndSame DEF SameEnds
<1>5. ASSUME NEW p \in Proc, pipealloc(p) PROVE EndInv'
  <2>1. PICK x \in Pipe, rf \in File, wf \in File : Allocated(p, x, rf, wf)
    BY Zenon, <1>5, PipeAlloc
  <2>2. UNCHANGED ff
    BY Zenon, <1>5 DEF pipealloc
  <2>3. /\ \A g \in File \ {rf, wf} : file'[g] = file[g]
        /\ file'[rf] = PipeEnd(x, FALSE) /\ file'[wf] = PipeEnd(x, TRUE) /\ rf # wf
        /\ file[rf] = NoFile /\ file[wf] = NoFile
        /\ pipe'[x] = NewPipe /\ \A z \in Pipe \ {x} : pipe'[z] = pipe[z]
    BY ZenonT(40), <1>0, <2>1 DEF TypeOK, TableInv, Allocated, Set
  <2>4. SUFFICES ASSUME NEW z \in Pipe PROVE PipeEnds(z)'
    BY Zenon DEF EndInv
  <2>5. PipeEnds(z) /\ TRUE \in BOOLEAN /\ FALSE \in BOOLEAN
    BY Zenon, <1>0 DEF EndInv
  <2>6. \A w \in BOOLEAN : ~End(NoFile, z, w)
    BY Zenon DEF End, NoFile
  <2>7. CASE z # x
    <3>1. \A w \in BOOLEAN, v \in BOOLEAN : ~End(PipeEnd(x, v), z, w)
      BY Zenon, <2>7 DEF End, PipeEnd
    <3>2. ASSUME NEW w \in BOOLEAN, NEW g \in File PROVE End(file'[g], z, w) <=> End(file[g], z, w)
      <4>1. CASE g \in {rf, wf}
        BY ZenonT(40), <2>3, <2>5, <2>6, <3>1, <4>1
      <4>2. CASE g \notin {rf, wf}
        BY Zenon, <2>3, <4>2
      <4> QED BY Zenon, <4>1, <4>2
    <3>3. \A w \in BOOLEAN : (HasEnd(z, w)' <=> HasEnd(z, w)) /\ (OneEnd(z, w)' <=> OneEnd(z, w))
      BY ZenonT(40), <2>2, <3>2 DEF HasEnd, OneEnd
    <3> QED BY ZenonT(40), <2>3, <2>5, <2>7, <3>3 DEF PipeEnds
  <2>8. CASE z = x
    <3>1. ~HasEnd(x, TRUE) /\ ~HasEnd(x, FALSE)
      BY ZenonT(40), <2>1, <2>5, <2>8 DEF PipeEnds, Allocated
    <3>2. /\ \A w \in BOOLEAN, g \in File : ~End(file[g], x, w)
          /\ \A w \in BOOLEAN, q \in Proc : ~End(ff[q], x, w)
      BY ZenonT(40), <3>1 DEF HasEnd
    <3>3. /\ End(file'[rf], x, FALSE) /\ ~End(file'[rf], x, TRUE)
          /\ End(file'[wf], x, TRUE) /\ ~End(file'[wf], x, FALSE)
      BY <2>3 DEF End, PipeEnd
    <3>4. HasEnd(x, FALSE)' /\ HasEnd(x, TRUE)'
      BY ZenonT(40), <3>3 DEF HasEnd
    <3>5. pipe'[x].readopen /\ pipe'[x].writeopen /\ pipe'[x].live
      BY Zenon, <2>3 DEF NewPipe, NoPipe
    <3>6. \A w \in BOOLEAN, g \in File :
            End(file'[g], x, w) => (g = rf /\ w = FALSE) \/ (g = wf /\ w = TRUE)
      BY ZenonT(40), <2>3, <3>2, <3>3
    <3>7. \A w \in BOOLEAN : OneEnd(x, w)'
      BY Zenon, <2>2, <3>2, <3>6 DEF OneEnd
    <3> QED BY ZenonT(40), <2>8, <3>4, <3>5, <3>7 DEF PipeEnds
  <2> QED BY ZenonT(40), <2>7, <2>8
<1>6. ASSUME NEW p \in Proc, NEW c \in Proc, fork(p, c) PROVE EndInv'
  <2>1. /\ file' = [f \in File |-> [file[f] EXCEPT !.ref = @ + Uses(p, f)]]
        /\ UNCHANGED <<ff, pipe>>
    BY Zenon, <1>6 DEF fork
  <2> QED BY ZenonT(40), <1>0, <2>1, ForkFiles, EndSame DEF SameEnds
<1>7. ASSUME NEW p \in Proc, piperead(p) \/ pipewrite(p) PROVE EndInv'
  <2>1. UNCHANGED <<file, ff>> /\ SameEnds
    BY ZenonT(40), <1>7, ReadFacts, WriteFacts
  <2> QED BY Zenon, <1>0, <2>1, EndSame DEF SameFile
<1>8. ASSUME UNCHANGED <<file, pipe, ff>> PROVE EndInv'
  BY SMTT(40), <1>0, <1>8, EndSame DEF SameEnds, SameFile
<1>9. ASSUME NEW p \in Proc,
             \/ sys_pipe(p) \/ sleep(p) \/ exit(p) \/ kill(p)
             \/ \E fd \in FD : sys_close(p, fd) \/ sys_read(p, fd)
             \/ \E fd \in FD, m \in Message : sys_write(p, fd, m)
      PROVE  UNCHANGED <<file, pipe, ff>>
  BY ZenonT(40), <1>9 DEF sys_pipe, sleep, exit, kill, sys_close, sys_read, sys_write
<1> QED
  BY SMTT(40), <1>1, <1>2, <1>3, <1>4, <1>5, <1>6, <1>7, <1>8, <1>9 DEF Next, Step, Call

-----------------------------------------------------------------------------
(* Processes in a pipe have it open *)

\* In the next state q is in no pipe, or in the one it was in and with its descriptors.
Stays(q) == \/ pc'[q] \notin Reading \cup Writing
            \/ /\ pc'[q] \in Reading => pc[q] \in Reading
               /\ pc'[q] \in Writing => pc[q] \in Writing
               /\ using'[q] = using[q] /\ ofile'[q] = ofile[q]

\* Files with a descriptor remain what they are.
OpenKept == \A q \in Proc, fd \in FD : ofile[q][fd] \in File => SameFile(ofile[q][fd])

\* A process that stays where it is keeps the descriptor it uses.
LEMMA UserSame ==
  ASSUME UserInv, NEW q \in Proc, Stays(q), OpenKept
  PROVE  /\ pc'[q] \in Reading => HasOpen(q, FALSE)'
         /\ pc'[q] \in Writing => HasOpen(q, TRUE)'
<1>1. ASSUME NEW w \in BOOLEAN, HasOpen(q, w), using'[q] = using[q], ofile'[q] = ofile[q]
      PROVE  HasOpen(q, w)'
  <2>1. PICK fd \in FD : ofile[q][fd] \in File /\ End(file[ofile[q][fd]], using[q], w)
    BY Zenon, <1>1 DEF HasOpen
  <2>2. End(file'[ofile[q][fd]], using[q], w)
    BY Zenon, <2>1 DEF OpenKept, SameFile, End
  <2> QED BY Zenon, <1>1, <2>1, <2>2 DEF HasOpen
<1>2. TRUE \in BOOLEAN /\ FALSE \in BOOLEAN
  BY Zenon
<1> QED BY ZenonT(40), <1>1, <1>2 DEF Stays, UserInv

\* Every step leaves who reads or writes a pipe its descriptor.
LEMMA UserStep == ASSUME FilesAssumption, IInv, Next PROVE UserInv'
<1> USE DEF fdVars, ioVars, procVars
<1>0. TypeOK /\ ControlInv /\ TableInv /\ RefInv /\ EndInv /\ UserInv
  BY Zenon DEF IInv
<1>u. {"user", "pipe", "unused", "exit"} \cap (Reading \cup Writing) = {}
  BY Zenon DEF Reading, Writing
<1>s. ASSUME OpenKept, \A q \in Proc : Stays(q) PROVE UserInv'
  BY ZenonT(40), <1>0, <1>s, UserSame DEF UserInv
<1>k. (\A f \in File : SameFile(f)) => OpenKept
  BY Zenon DEF OpenKept
<1>1. ASSUME NEW p \in Proc, fileclose(p) PROVE UserInv'
  <2> DEFINE f == Head(todo[p])
  <2>1. /\ f \in File /\ \A q \in Proc, fd \in FD : ofile[q][fd] = f => file[f].ref >= 2
        /\ UNCHANGED <<pc, using, ofile>> /\ file[f].ref \in Nat
    BY Zenon, <1>0, <1>1, CloseHas DEF fileclose, TypeOK, FileRec
  <2>2. CASE ~Dropped(f)
    <3>1. file' = [file EXCEPT ![f].ref = file[f].ref - 1]
      BY Zenon, <1>1, <2>2 DEF fileclose
    <3> HIDE DEF f
    <3>2. OpenKept
      BY ZenonT(40), <1>0, <1>k, <2>1, <3>1, CountOnly
    <3> QED BY Zenon, <1>s, <2>1, <3>2 DEF Stays
  <2>3. CASE Dropped(f)
    <3>1. file' = Set(file, f, NoFile) /\ \A q \in Proc, fd \in FD : ofile[q][fd] # f
      BY SMTT(40), <1>1, <2>1, <2>3 DEF fileclose, Dropped
    <3> HIDE DEF f
    <3>2. OpenKept
      BY SMTT(40), <1>0, <2>1, <3>1 DEF OpenKept, SameFile, Set, TypeOK
    <3> QED BY Zenon, <1>s, <2>1, <3>2 DEF Stays
  <2> QED BY Zenon, <2>2, <2>3
<1>2. ASSUME NEW p \in Proc, lastclose(p) PROVE UserInv'
  <2>1. UNCHANGED <<file, ofile, using>> /\ Awoke(Proc, pc, pc')
    BY SMTT(40), <1>0, <1>2, WokenFacts DEF lastclose, pipeclose, Awoke
  <2>2. OpenKept
    BY Zenon, <2>1 DEF OpenKept, SameFile
  <2>3. \A q \in Proc : Stays(q)
    BY Zenon, <2>1 DEF Stays, Awoke, Reading, Writing
  <2> QED BY SMTT(40), <1>s, <2>2, <2>3
<1>3. ASSUME NEW p \in Proc, NEW i \in Inode, sys_open(p, i) PROVE UserInv'
  <2>0. pc' = pc /\ using' = using /\ pc[p] = "user"
    BY ZenonT(40), <1>3 DEF sys_open, Calls
  <2>1. CASE UNCHANGED <<file, ofile, iref>>
    BY SMTT(40), <1>s, <1>k, <2>0, <2>1 DEF Stays, SameFile
  <2>2. CASE /\ FreeFiles # {} /\ FreeFds(p) # {}
             /\ file' = Set(file, filealloc, [ref |-> 1, type |-> "INODE", obj |-> i, writable |-> FALSE])
             /\ ofile' = [ofile EXCEPT ![p][fdalloc(p)] = filealloc]
    <3>1. filealloc \in File /\ file[filealloc].ref = 0
      BY ZenonT(40), <1>3, <2>2, Alloc
    <3>2. \A q \in Proc, fd \in FD : ofile[q][fd] \in File => ofile[q][fd] # filealloc
      BY SMTT(40), <1>0, <3>1, OpenHas
    <3>3. OpenKept
      BY ZenonT(40), <1>0, <2>2, <3>2 DEF OpenKept, SameFile, Set, TypeOK
    <3>4. \A q \in Proc \ {p} : ofile'[q] = ofile[q]
      BY Zenon, <1>0, <2>2 DEF TypeOK
    <3>5. \A q \in Proc : Stays(q)
      BY Zenon, <1>u, <2>0, <3>4 DEF Stays
    <3> QED BY Zenon, <1>s, <3>3, <3>5
  <2> QED BY Zenon, <1>3, <2>1, <2>2 DEF sys_open
<1>4. ASSUME NEW p \in Proc, NEW fd \in FD, sys_dup(p, fd) PROVE UserInv'
  <2>1. /\ file' = [file EXCEPT ![ofile[p][fd]].ref = file[ofile[p][fd]].ref + 1]
        /\ UNCHANGED <<pc, using>> /\ ofile[p][fd] \in File /\ pc[p] = "user"
        /\ \A q \in Proc \ {p} : ofile'[q] = ofile[q]
    BY SMTT(40), <1>0, <1>4 DEF sys_dup, OpenFds, TypeOK, Calls
  <2>2. OpenKept
    BY ZenonT(40), <1>0, <1>k, <2>1, CountOnly
  <2>3. \A q \in Proc : Stays(q)
    BY Zenon, <1>u, <2>1 DEF Stays
  <2> QED BY ZenonT(40), <1>s, <2>2, <2>3
<1>5. ASSUME NEW p \in Proc, pipealloc(p) PROVE UserInv'
  <2>1. PICK x \in Pipe, rf \in File, wf \in File : Allocated(p, x, rf, wf)
    BY Zenon, <1>5, PipeAlloc
  <2>2. /\ UNCHANGED <<using, ofile>> /\ pc'[p] = "pipe"
        /\ \A q \in Proc \ {p} : pc'[q] = pc[q]
    BY Zenon, <1>0, <1>5 DEF pipealloc, Goto, Set, TypeOK
  <2>3. \A q \in Proc, fd \in FD : ofile[q][fd] \in File => ofile[q][fd] \notin {rf, wf}
    <3>1. file[rf].ref = 0 /\ file[wf].ref = 0
      BY Zenon, <2>1 DEF Allocated
    <3> QED BY SMTT(40), <1>0, <3>1, OpenHas
  <2>4. OpenKept
    BY ZenonT(40), <1>0, <2>1, <2>3 DEF OpenKept, SameFile, TypeOK, Allocated
  <2>5. \A q \in Proc : Stays(q)
    BY Zenon, <1>u, <2>2 DEF Stays
  <2> QED BY SMTT(40), <1>s, <2>4, <2>5
<1>6. ASSUME NEW p \in Proc, NEW c \in Proc, fork(p, c) PROVE UserInv'
  <2>1. /\ file' = [f \in File |-> [file[f] EXCEPT !.ref = @ + Uses(p, f)]]
        /\ UNCHANGED using /\ pc'[c] = "user"
        /\ \A q \in Proc \ {c} : ofile'[q] = ofile[q] /\ pc'[q] = pc[q]
    BY Zenon, <1>0, <1>6 DEF fork, Goto, Set, TypeOK
  <2>2. OpenKept
    BY ZenonT(40), <1>0, <1>k, <2>1, ForkFiles
  <2>3. \A q \in Proc : Stays(q)
    BY SMTT(40), <1>u, <2>1 DEF Stays
  <2> QED BY SMTT(40), <1>s, <2>2, <2>3
<1>7. ASSUME NEW p \in Proc, piperead(p) \/ pipewrite(p) PROVE UserInv'
  <2>1. /\ UNCHANGED <<file, ofile>> /\ Moves(p)
        /\ \/ pc'[p] = "user"
           \/ pc[p] = "read" /\ pc'[p] = "read_sleeps"
           \/ pc[p] = "write" /\ pc'[p] = "write_sleeps"
    BY Zenon, <1>7, ReadFacts, WriteFacts
  <2>2. OpenKept
    BY Zenon, <2>1 DEF OpenKept, SameFile
  <2>3. \A q \in Proc : Stays(q)
    BY SMTT(40), <2>1 DEF Stays, Moves, Awoke, Reading, Writing
  <2> QED BY Zenon, <1>s, <2>2, <2>3
<1>8. ASSUME NEW p \in Proc, sys_pipe(p) \/ exit(p) \/ \E fd \in FD : sys_close(p, fd) PROVE UserInv'
  <2>1. /\ UNCHANGED <<file, using>> /\ pc'[p] \in {"user", "exit", "unused"}
        /\ \A q \in Proc \ {p} : ofile'[q] = ofile[q] /\ pc'[q] = pc[q]
    <3>1. CASE sys_pipe(p)
      BY ZenonT(40), <1>0, <3>1 DEF sys_pipe, Goto, Set, TypeOK
    <3>2. CASE exit(p)
      BY SMTT(40), <1>0, <3>2 DEF exit, Goto, Set, TypeOK
    <3>3. CASE \E fd \in FD : sys_close(p, fd)
      BY Zenon, <1>0, <3>3 DEF sys_close, Calls, TypeOK
    <3> QED BY SMTT(40), <1>8, <3>1, <3>2, <3>3
  <2>2. OpenKept
    BY ZenonT(40), <2>1 DEF OpenKept, SameFile
  <2>3. \A q \in Proc : Stays(q)
    BY SMTT(40), <1>u, <2>1 DEF Stays
  <2> QED BY Zenon, <1>s, <2>2, <2>3
<1>9. ASSUME NEW p \in Proc, sleep(p) \/ kill(p) PROVE UserInv'
  <2>1. UNCHANGED <<file, using, ofile>> /\ \A q \in Proc \ {p} : pc'[q] = pc[q]
    BY Zenon, <1>0, <1>9 DEF sleep, kill, Goto, Set, TypeOK
  <2>2. \/ pc'[p] = pc[p]
        \/ pc[p] = "read_sleeps" /\ pc'[p] = "read_asleep"
        \/ pc[p] = "write_sleeps" /\ pc'[p] = "write_asleep"
        \/ pc[p] = "read_asleep" /\ pc'[p] = "read"
        \/ pc[p] = "write_asleep" /\ pc'[p] = "write"
    BY Zenon, <1>0, <1>9 DEF sleep, kill, Goto, Set, TypeOK
  <2>3. OpenKept
    BY Zenon, <2>1 DEF OpenKept, SameFile
  <2>4. \A q \in Proc : Stays(q)
    BY Zenon, <2>1, <2>2 DEF Stays, Reading, Writing
  <2> QED BY Zenon, <1>s, <2>3, <2>4
<1>10. ASSUME NEW p \in Proc, NEW fd \in FD,
              sys_read(p, fd) \/ \E m \in Message : sys_write(p, fd, m)
       PROVE  UserInv'
  <2>1. /\ UNCHANGED <<file, ofile>> /\ ofile[p][fd] \in File
        /\ \A q \in Proc \ {p} : pc'[q] = pc[q] /\ using'[q] = using[q]
        /\ using'[p] = file[ofile[p][fd]].obj /\ file[ofile[p][fd]].type = "PIPE"
        /\ \/ pc'[p] = "read" /\ ~file[ofile[p][fd]].writable
           \/ pc'[p] = "write" /\ file[ofile[p][fd]].writable
    <3>1. CASE sys_read(p, fd)
      BY SMTT(40), <1>0, <3>1 DEF sys_read, Goto, Set, TypeOK, OpenFds
    <3>2. CASE \E m \in Message : sys_write(p, fd, m)
      BY SMTT(40), <1>0, <3>2 DEF sys_write, Goto, Set, TypeOK, OpenFds
    <3> QED BY ZenonT(40), <1>10, <3>1, <3>2
  <2>2. OpenKept
    BY Zenon, <2>1 DEF OpenKept, SameFile
  <2>3. \A q \in Proc \ {p} : Stays(q)
    BY Zenon, <2>1 DEF Stays
  <2>4. file[ofile[p][fd]].writable \in BOOLEAN
    BY Zenon, <1>0, <2>1 DEF TypeOK, FileRec
  <2>5. /\ pc'[p] \in Reading => HasOpen(p, FALSE)'
        /\ pc'[p] \in Writing => HasOpen(p, TRUE)'
    <3>1. CASE pc'[p] = "read" /\ ~file[ofile[p][fd]].writable
      BY ZenonT(40), <2>1, <2>4, <3>1 DEF HasOpen, End, Writing
    <3>2. CASE pc'[p] = "write" /\ file[ofile[p][fd]].writable
      BY SMTT(40), <2>1, <2>4, <3>2 DEF HasOpen, End, Reading
    <3> QED BY ZenonT(40), <2>1, <3>1, <3>2
  <2> QED BY ZenonT(40), <1>0, <2>2, <2>3, <2>5, UserSame DEF UserInv
<1> QED
  BY SMTT(40), <1>1, <1>2, <1>3, <1>4, <1>5, <1>6, <1>7, <1>8, <1>9, <1>10 DEF Next, Step, Call

=============================================================================
