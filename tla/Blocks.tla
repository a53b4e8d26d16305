-------------------------------- MODULE Blocks ------------------------------
(***************************************************************************)
(* The content of inodes: balloc(), bfree(), bmap(), itrunc(), readi() and   *)
(* writei() on a disk of small blocks, under the open files of fileread()    *)
(* and filewrite(), which writes a few blocks per transaction.               *)
(* A call of writei() or readi() is one step, under the inode's lock.        *)
(***************************************************************************)
EXTENDS Integers, Sequences, FiniteSets, FiniteSetsExt

CONSTANTS
  Inum, Fd,
  Opens,          \* who opens what: sets of pairs of an open file and an inode
  Data,           \* Data[f]: the byte f writes
  BSIZE, NDIRECT, NINDIRECT, \* at most BSIZE block numbers fit a block
  NBLOCKS,        \* data blocks of the disk, enough for every inode
  MAXOPBLOCKS,
  UINT,           \* one more than the largest uint
  Reads, Writes,  \* the n of read() and write()
  MaxTrunc        \* bound: how often an inode is truncated

Block == 1..NBLOCKS
Zeros == [i \in 0..(BSIZE - 1) |-> 0]
MAXFILE == NDIRECT + NINDIRECT
BITMAP == 0       \* the bitmap's block and the inode's, in a transaction
INODE == -1

VARIABLES
  used,           \* the bitmap: the blocks marked in use
  disk,           \* the contents of the blocks
  addrs, size,    \* of each inode
  may,            \* the pairs of this behaviour
  of,             \* of[f]: f->ip
  off,            \* off[f]: f->off, -1 when f is closed
  todo,           \* todo[f]: bytes left to filewrite()
  bytes,          \* history: what was written to each inode
  truncs          \* how often itrunc() ran

bvars == <<used, disk, addrs, size, may, of, off, todo, bytes, truncs>>

BInit == /\ used = {} /\ disk = [b \in Block |-> Zeros]
         /\ addrs = [i \in Inum |-> [k \in 0..NDIRECT |-> 0]] /\ size = [i \in Inum |-> 0]
         /\ may \in Opens /\ of = [f \in Fd |-> 0] /\ off = [f \in Fd |-> -1] /\ todo = [f \in Fd |-> 0]
         /\ bytes = [i \in Inum |-> <<>>] /\ truncs = 0

-----------------------------------------------------------------------------
(* blocks: functions of s, the bitmap, the blocks, the addresses of the inode, *)
(* and the blocks logged so far                                                *)

\* balloc() takes the lowest free block and zeroes it.
bug_Taken(s, b) == [s EXCEPT !.used = @ \cup {b}, !.logged = @ \cup {BITMAP, b}]
Taken(s, b) == [s EXCEPT !.used = @ \cup {b}, !.disk[b] = Zeros, !.logged = @ \cup {BITMAP, b}]
Lowest(s) == Min(Block \ s.used)

\* bmap() as it leaves s, and the address it returns.
bmap(s, bn) ==
  LET Got(t, b) == [s |-> t, addr |-> b]
      ind == IF s.addrs[NDIRECT] # 0 THEN s
             ELSE [Taken(s, Lowest(s)) EXCEPT !.addrs[NDIRECT] = Lowest(s)]
      a == ind.addrs[NDIRECT]
      k == bn - NDIRECT
  IN  IF bn < NDIRECT
      THEN IF s.addrs[bn] # 0 THEN Got(s, s.addrs[bn])
           ELSE Got([Taken(s, Lowest(s)) EXCEPT !.addrs[bn] = Lowest(s)], Lowest(s))
      ELSE IF ind.disk[a][k] # 0 THEN Got(ind, ind.disk[a][k])
           ELSE Got([Taken(ind, Lowest(ind)) EXCEPT !.disk[a][k] = Lowest(ind),
                                                    !.logged = @ \cup {a}], Lowest(ind))

Within(o, n) == Min({n, BSIZE - (o % BSIZE)})

\* The loop of writei(): n bytes v at o.
RECURSIVE write(_, _, _, _)
write(s, o, n, v) ==
  IF n = 0 THEN s
  ELSE LET g == bmap(s, o \div BSIZE)
           m == Within(o, n)
           put == [i \in 0..(BSIZE - 1) |-> IF i >= o % BSIZE /\ i < (o % BSIZE) + m THEN v
                                            ELSE g.s.disk[g.addr][i]]
       IN  write([g.s EXCEPT !.disk[g.addr] = put, !.logged = @ \cup {g.addr}], o + m, n - m, v)

State(i) == [used |-> used, disk |-> disk, addrs |-> addrs[i], logged |-> {}]

\* The loop of readi(), which finds every block there.
RECURSIVE read(_, _, _)
read(i, o, n) ==
  IF n = 0 THEN <<>>
  ELSE LET m == Within(o, n)
           a == bmap(State(i), o \div BSIZE).addr
       IN  [k \in 1..m |-> disk[a][(o % BSIZE) + k - 1]] \o read(i, o + m, n - m)

-----------------------------------------------------------------------------
(* open files *)

open(f, i) == /\ <<f, i>> \in may /\ off[f] = -1
              /\ of' = [of EXCEPT ![f] = i] /\ off' = [off EXCEPT ![f] = 0]
              /\ UNCHANGED <<used, disk, addrs, size, may, todo, bytes, truncs>>
close(f) == /\ off[f] # -1 /\ todo[f] = 0
            /\ of' = [of EXCEPT ![f] = 0] /\ off' = [off EXCEPT ![f] = -1]
            /\ UNCHANGED <<used, disk, addrs, size, may, todo, bytes, truncs>>

\* readi() and writei() refuse an offset past the end and a count that wraps around.
Refused(i, o, n) == o > size[i] \/ (o + n) % UINT < o
readable(i, o, n) == IF o + n > size[i] THEN size[i] - o ELSE n

fileread(f, n) ==
  /\ off[f] # -1 /\ todo[f] = 0 /\ ~Refused(of[f], off[f], n)
  /\ off' = [off EXCEPT ![f] = @ + Len(read(of[f], @, readable(of[f], @, n)))]
  /\ UNCHANGED <<used, disk, addrs, size, may, of, todo, bytes, truncs>>

filewrite(f, n) == /\ off[f] # -1 /\ todo[f] = 0 /\ todo' = [todo EXCEPT ![f] = n]
                   /\ UNCHANGED <<used, disk, addrs, size, may, of, off, bytes, truncs>>

\* How much filewrite() writes in one transaction.
bug_max == MAXOPBLOCKS * BSIZE
max == ((MAXOPBLOCKS - 1 - 1 - 2) \div 2) * BSIZE
Chunk(f) == Min({todo[f], max})
TooLong(o, n) == o + n > MAXFILE * BSIZE
Written(f) == write(State(of[f]), off[f], Chunk(f), Data[f])

bug_grown(i, o) == size
grown(i, o) == [size EXCEPT ![i] = Max({@, o})]

\* One turn of filewrite()'s loop; a refused writei() ends it.
writei(f) ==
  LET i == of[f]
      n == Chunk(f)
      s == Written(f)
  IN  /\ todo[f] > 0
      /\ IF Refused(i, off[f], n) \/ TooLong(off[f], n)
         THEN todo' = [todo EXCEPT ![f] = 0] /\ UNCHANGED <<used, disk, addrs, size, may, of, off, bytes, truncs>>
         ELSE /\ used' = s.used /\ disk' = s.disk /\ addrs' = [addrs EXCEPT ![i] = s.addrs]
              /\ size' = grown(i, off[f] + n)
              /\ off' = [off EXCEPT ![f] = @ + n] /\ todo' = [todo EXCEPT ![f] = @ - n]
              /\ bytes' = [bytes EXCEPT ![i] = [k \in 1..Max({Len(@), off[f] + n}) |->
                                                  IF k > off[f] /\ k <= off[f] + n THEN Data[f] ELSE @[k]]]
              /\ UNCHANGED <<may, of, truncs>>

\* The blocks of inode i: its addresses and those of its indirect block.
Direct(i) == {addrs[i][k] : k \in 0..NDIRECT} \ {0}
Indirect(i) == IF addrs[i][NDIRECT] = 0 THEN {}
               ELSE {disk[addrs[i][NDIRECT]][k] : k \in 0..(NINDIRECT - 1)} \ {0}

\* itrunc(), of an inode that nobody has open.
itrunc(i) ==
  /\ truncs < MaxTrunc /\ truncs' = truncs + 1
  /\ size[i] > 0 /\ \A f \in Fd : of[f] # i
  /\ used' = used \ (Direct(i) \cup Indirect(i))
  /\ addrs' = [addrs EXCEPT ![i] = [k \in 0..NDIRECT |-> 0]]
  /\ size' = [size EXCEPT ![i] = 0] /\ bytes' = [bytes EXCEPT ![i] = <<>>]
  /\ UNCHANGED <<disk, may, of, off, todo>>

BNext == \/ \E f \in Fd, i \in Inum : open(f, i)
         \/ \E f \in Fd : close(f) \/ writei(f)
         \/ \E f \in Fd : (\E n \in Reads : fileread(f, n)) \/ (\E n \in Writes : filewrite(f, n))
         \/ \E i \in Inum : itrunc(i)

BSpec == BInit /\ [][BNext]_bvars

-----------------------------------------------------------------------------
\* What was written is what is read: readi() of any part of a file yields the bytes that
\* writei() put there, whatever blocks bmap() chose, reused or reached through the
\* indirect block.
Content == \A i \in Inum : size[i] = Len(bytes[i]) /\ read(i, 0, size[i]) = bytes[i]

\* The bitmap is exact: the blocks marked in use are those of the inodes, and no block
\* belongs to two places, so that bfree() never frees a free block and none leaks.
BitmapExact ==
  LET Places == {<<i, k>> : i \in Inum, k \in 0..(NDIRECT + NINDIRECT)}
      At(p) == IF p[2] <= NDIRECT THEN addrs[p[1]][p[2]]
               ELSE IF addrs[p[1]][NDIRECT] = 0 THEN 0
               ELSE disk[addrs[p[1]][NDIRECT]][p[2] - NDIRECT - 1]
  IN  /\ used = {At(p) : p \in Places} \ {0}
      /\ \A p, q \in Places : p # q /\ At(p) # 0 => At(p) # At(q)

\* A turn of filewrite() writes fewer blocks than begin_op() reserved, the inode, the
\* indirect block, the bitmap and unaligned ends included: what LogProofs asks of a call.
OpFits == \A f \in Fd : (todo[f] > 0 /\ ~TooLong(off[f], Chunk(f))) =>
            Cardinality(Written(f).logged \cup {INODE}) < MAXOPBLOCKS
=============================================================================
