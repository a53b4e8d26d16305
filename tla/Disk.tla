-------------------------------- MODULE Disk --------------------------------
(***************************************************************************)
(* The buffer cache of bio.c, the IDE driver of ide.c below it and the      *)
(* sleep locks of sleeplock.c on the buffers.  A section under bcache.lock, *)
(* idelock or a sleep lock's lk is one step; a process that sleeps there    *)
(* stays asleep until a wakeup() on what it sleeps on (module Proc).  A     *)
(* process uses one block at a time.                                        *)
(***************************************************************************)
EXTENDS Naturals, Sequences, FiniteSets, SequencesExt

CONSTANTS Proc, Block, Val,
          Written,                    \* blocks that are stored to
          NBUF,                       \* at least Cardinality(Proc) + MaxPinned
          NoProc, NoBlock, NoBuf, NoReq,
          MaxPinned                   \* blocks log_write() may have pinned at once

Buf == 1..NBUF

VARIABLES
  lru,                   \* the list from bcache.head.next on
  blockno, refcnt, data,
  valid, dirty,          \* buffers with B_VALID, B_DIRTY
  lock,                  \* b->lock: who has it
  idequeue,
  dev,                   \* the command the disk is executing
  disk,
  pc, want, b,           \* of each process: where it is, bread()'s block, its buffer
  panicked,
  latest                 \* history: the value last put into each block

cacheVars == <<lru, blockno, refcnt>>
ideVars == <<idequeue, dev, disk>>
vars == <<cacheVars, data, valid, dirty, lock, ideVars, pc, want, b, panicked, latest>>

Req == [block : Block, write : BOOLEAN, data : Val]

\* binit(), with the disk all zero.
Init == /\ lru = [i \in Buf |-> NBUF + 1 - i]
        /\ blockno = [c \in Buf |-> NoBlock] /\ refcnt = [c \in Buf |-> 0]
        /\ data = [c \in Buf |-> 0] /\ valid = {} /\ dirty = {}
        /\ lock = [c \in Buf |-> NoProc] /\ idequeue = <<>> /\ dev = NoReq
        /\ disk = [n \in Block |-> 0] /\ latest = disk
        /\ pc = [p \in Proc |-> "idle"] /\ want = [p \in Proc |-> NoBlock]
        /\ b = [p \in Proc |-> NoBuf] /\ panicked = FALSE

Goto(p, l) == pc' = [pc EXCEPT ![p] = l]

-----------------------------------------------------------------------------
(* bget() and the sleep lock *)

Cached(n) == {c \in Buf : blockno[c] = n}

Unused(c) == refcnt[c] = 0 /\ c \notin dirty

\* The block is in the cache.
hit(p, n) == \E c \in Cached(n) :
  /\ refcnt' = [refcnt EXCEPT ![c] = @ + 1] /\ b' = [b EXCEPT ![p] = c]
  /\ Goto(p, "lock") /\ UNCHANGED <<lru, blockno, valid, panicked>>

\* b->flags = 0 of a recycled buffer.
bug_Cleared(c) == valid                           \* its flags stay
Cleared(c) == valid \ {c}

\* It is not: recycle the least recently used buffer, or panic.
miss(p, n) ==
  /\ Cached(n) = {}
  /\ LET free == SelectSeq(lru, Unused) IN
     IF free = <<>>
     THEN panicked' = TRUE /\ UNCHANGED <<cacheVars, valid, b, pc>>
     ELSE LET c == Last(free) IN
          /\ blockno' = [blockno EXCEPT ![c] = n] /\ refcnt' = [refcnt EXCEPT ![c] = 1]
          /\ valid' = Cleared(c) /\ b' = [b EXCEPT ![p] = c]
          /\ Goto(p, "lock") /\ UNCHANGED <<lru, panicked>>

bget(p, n) == /\ ~panicked /\ pc[p] = "idle" /\ want' = [want EXCEPT ![p] = n]
              /\ hit(p, n) \/ miss(p, n)
              /\ UNCHANGED <<data, dirty, lock, ideVars, latest>>

\* One turn of acquiresleep()'s loop.
acquiresleep(p) == /\ pc[p] = "lock"
                   /\ IF lock[b[p]] = NoProc
                      THEN lock' = [lock EXCEPT ![b[p]] = p] /\ Goto(p, "locked")
                      ELSE Goto(p, "asleep") /\ UNCHANGED lock
                   /\ UNCHANGED <<cacheVars, data, valid, dirty, ideVars, want, b, panicked, latest>>

-----------------------------------------------------------------------------
(* the driver *)

\* The command idestart() gives the disk for buffer c, which holds value v.
idestart(c, write, v) == [block |-> blockno[c], write |-> write, data |-> v]

\* iderw() up to its sleep: append c to the queue, start it if it is alone.
iderw(p, c, write, v) ==
  /\ idequeue' = Append(idequeue, c)
  /\ dev' = IF idequeue = <<>> THEN idestart(c, write, v) ELSE dev
  /\ Goto(p, "io") /\ UNCHANGED disk

\* bread() once it has the lock.
bread(p) == /\ pc[p] = "locked"
            /\ IF b[p] \in valid
               THEN Goto(p, "use") /\ UNCHANGED ideVars
               ELSE iderw(p, b[p], FALSE, data[b[p]])
            /\ UNCHANGED <<cacheVars, data, valid, dirty, lock, want, b, panicked, latest>>

\* ideintr()'s choice of the next command.
bug_restart(q) == NoReq                              \* the next one is not started
restart(q) == IF q = <<>> THEN NoReq
              ELSE idestart(Head(q), Head(q) \in dirty, data[Head(q)])

\* The command is done and ideintr() runs.
ideintr ==
  /\ dev # NoReq /\ idequeue # <<>>
  /\ LET c == Head(idequeue) IN
     /\ idequeue' = Tail(idequeue)
     /\ disk' = IF dev.write THEN [disk EXCEPT ![dev.block] = dev.data] ELSE disk
     /\ data' = IF c \in dirty THEN data ELSE [data EXCEPT ![c] = disk[dev.block]]
     /\ valid' = valid \cup {c} /\ dirty' = dirty \ {c}
     /\ pc' = [p \in Proc |-> IF pc[p] = "io" /\ b[p] = c THEN "io_test" ELSE pc[p]]
     /\ dev' = restart(Tail(idequeue))
  /\ UNCHANGED <<cacheVars, lock, want, b, panicked, latest>>

\* A woken process tests its flags in iderw()'s loop.
io_test(p) == /\ pc[p] = "io_test"
              /\ Goto(p, IF b[p] \in valid \ dirty THEN "use" ELSE "io")
              /\ UNCHANGED <<cacheVars, data, valid, dirty, lock, ideVars, want, b, panicked, latest>>

-----------------------------------------------------------------------------
(* what the holder of a buffer does with it *)

\* Store v in the buffer and bwrite() it.
bwrite(p, v) == /\ pc[p] = "use" /\ want[p] \in Written
                /\ data' = [data EXCEPT ![b[p]] = v] /\ latest' = [latest EXCEPT ![want[p]] = v]
                /\ dirty' = dirty \cup {b[p]}
                /\ iderw(p, b[p], TRUE, v)
                /\ UNCHANGED <<cacheVars, valid, lock, want, b, panicked>>

\* Store v in it and log_write() it, which pins it until a bwrite().
log_write(p, v) == /\ pc[p] = "use" /\ want[p] \in Written /\ Cardinality(dirty \cup {b[p]}) <= MaxPinned
                   /\ data' = [data EXCEPT ![b[p]] = v] /\ latest' = [latest EXCEPT ![want[p]] = v]
                   /\ dirty' = dirty \cup {b[p]}
                   /\ UNCHANGED <<cacheVars, valid, lock, ideVars, pc, want, b, panicked>>

\* brelse(): releasesleep() with its wakeup() ...
wakeup(c) == [q \in Proc |-> IF pc[q] = "asleep" /\ b[q] = c THEN "lock" ELSE pc[q]]
releasesleep(p) == /\ pc[p] = "use"
                   /\ lock' = [lock EXCEPT ![b[p]] = NoProc]
                   /\ pc' = [wakeup(b[p]) EXCEPT ![p] = "put"]
                   /\ UNCHANGED <<cacheVars, data, valid, dirty, ideVars, want, b, panicked, latest>>

\* ... then the reference, and the place in the list.
brelse(p) == /\ pc[p] = "put"
             /\ refcnt' = [refcnt EXCEPT ![b[p]] = @ - 1]
             /\ lru' = IF refcnt[b[p]] = 1 THEN <<b[p]>> \o SelectSeq(lru, LAMBDA c : c # b[p]) ELSE lru
             /\ Goto(p, "idle") /\ b' = [b EXCEPT ![p] = NoBuf] /\ want' = [want EXCEPT ![p] = NoBlock]
             /\ UNCHANGED <<blockno, data, valid, dirty, lock, ideVars, panicked, latest>>

Next == \/ \E p \in Proc : \/ \E n \in Block : bget(p, n)
                           \/ acquiresleep(p) \/ bread(p) \/ io_test(p)
                           \/ \E v \in Val : bwrite(p, v) \/ log_write(p, v)
                           \/ releasesleep(p) \/ brelse(p)
        \/ ideintr
Spec == Init /\ [][Next]_vars
-----------------------------------------------------------------------------
\* What a process finds in the buffer that bread() returned is the block it asked
\* for, with the value last stored in it, whether that reached the disk or not; and a
\* block is in one buffer only, so that the buffer's lock is the block's lock, although
\* bget() may be in progress in several processes.
SeesLatest ==
  /\ \A p \in Proc : pc[p] = "use" =>
       /\ blockno[b[p]] = want[p] /\ lock[b[p]] = p
       /\ b[p] \in valid /\ data[b[p]] = latest[want[p]]
  /\ \A c, d \in Buf : blockno[c] = blockno[d] /\ blockno[c] # NoBlock => c = d

\* While requests wait, the disk executes the first of them, with the data its buffer
\* holds: the completion ideintr() gives to the first buffer is its own.
OwnRequest == idequeue # <<>> =>
  LET c == Head(idequeue) IN
  dev # NoReq /\ dev = idestart(c, c \in dirty, IF c \in dirty THEN data[c] ELSE dev.data)

\* Nobody sleeps in acquiresleep() on a free lock, or in iderw() without a request in
\* the queue that the disk gets to, one after the other; and bget() always finds a buffer.
NoLostSleeper == /\ \A p \in Proc : /\ pc[p] = "asleep" => lock[b[p]] # NoProc
                                    /\ pc[p] = "io" => Contains(idequeue, b[p])
                 /\ OwnRequest /\ ~panicked
=============================================================================
