-------------------------------- MODULE Log ---------------------------------
(***************************************************************************)
(* The redo log of log.c: reservation of log space by begin_op(), group    *)
(* commit by the last end_op(), and recovery, with a crash possible        *)
(* between any two block writes, during recovery too.                      *)
(*                                                                         *)
(* A section under log.lock is one step.  The blocks of the buffer cache   *)
(* are cache[b]; a system call changes one with its buffer locked and then *)
(* calls log_write(), whose first two tests run without log.lock.          *)
(***************************************************************************)
EXTENDS Naturals, Sequences, FiniteSets

CONSTANTS Proc,         \* processes that make file system calls
          Block, Val,   \* data blocks and their contents
          NoBlock,      \* no block number
          MAXOPBLOCKS,  \* what begin_op() reserves
          LOGSIZE,      \* size of lh.block[]
          OpMax,        \* the distinct blocks a call really writes, at most
          Nesters,      \* processes in move_file(), which nests begin_op()
          MaxDepth,     \* bound: how deep begin_op() is nested
          MaxCrash      \* bound: crashes in one behaviour

ASSUME LogAssumption ==
  /\ IsFiniteSet(Proc) /\ Val # {} /\ MAXOPBLOCKS \in Nat \ {0} /\ OpMax \in Nat \ {0}
  /\ LOGSIZE \in Nat /\ LOGSIZE > MAXOPBLOCKS
  /\ MaxDepth \in Nat \ {0} /\ MaxCrash \in Nat

\* log.size: mkfs gives the log nlog = LOGSIZE blocks, its header included.
logsize == LOGSIZE

VARIABLES
  home,        \* data blocks on disk
  logblk,      \* log blocks on disk, by position
  hdr,         \* header block on disk: the block numbers
  lh,          \* log.lh in memory
  outstanding, committing,
  cache,       \* data blocks in the buffer cache
  dirty,       \* blocks whose buffer has B_DIRTY
  pc,          \* where each process is
  blk,         \* log_write()'s b->blockno
  depth,       \* begin_op() calls of a process not yet ended
  wrote,       \* per open begin_op(): distinct blocks written under it
  stage, tail, \* where commit() or recover_from_log() is
  recovering,  \* forkret() has not finished initlog()
  panicked, crashes

diskVars == <<home, logblk, hdr>>
opVars == <<pc, blk, depth, wrote>>
ctlVars == <<stage, tail, recovering>>
vars == <<diskVars, lh, outstanding, committing, cache, dirty, opVars, ctlVars,
          panicked, crashes>>

Op == Proc \X (1..MaxDepth)
Stages == {"idle", "read_head", "write_log", "head", "install", "erase", "finish"}
Logged == {lh[i] : i \in 1..Len(lh)}

\* No process is in a file system call.
Idle == [p \in Proc |-> "idle"]
NoBlocks == [p \in Proc |-> NoBlock]
NoDepth == [p \in Proc |-> 0]
NoWrites == [o \in Op |-> {}]

\* The machine boots on a disk with an empty log.
Init == /\ home \in [Block -> Val] /\ cache = home
        /\ logblk = [i \in 1..LOGSIZE |-> CHOOSE v \in Val : TRUE]
        /\ hdr = <<>> /\ lh = <<>> /\ dirty = {}
        /\ outstanding = 0 /\ committing = FALSE
        /\ pc = Idle /\ blk = NoBlocks /\ depth = NoDepth /\ wrote = NoWrites
        /\ stage = "read_head" /\ tail = 0 /\ recovering = TRUE
        /\ panicked = FALSE /\ crashes = 0

Up == ~panicked /\ ~recovering
bug_Woken == pc                             \* wakeup() of another channel
Woken == [q \in Proc |-> IF pc[q] = "asleep" THEN "begin" ELSE pc[q]]
Goto(p, l) == pc' = [pc EXCEPT ![p] = l]

-----------------------------------------------------------------------------
(* begin_op(), log_write(), end_op() *)

\* begin_op()'s second test: this op might exhaust log space.
NoRoom == Len(lh) + (outstanding + 1) * MAXOPBLOCKS > LOGSIZE

\* A call starts, a woken process tests again, or move_file() calls filewrite()
\* or fileclose() inside its own transaction.
BeginsOp(p) == \/ pc[p] \in {"idle", "begin"}
               \/ pc[p] = "op" /\ p \in Nesters /\ depth[p] < MaxDepth

\* The call is counted and goes on.
admit(p) == /\ outstanding' = outstanding + 1
            /\ depth' = [depth EXCEPT ![p] = @ + 1]
            /\ Goto(p, "op")

begin_op(p) ==
  /\ Up /\ BeginsOp(p)
  /\ IF committing \/ NoRoom
     THEN Goto(p, "asleep") /\ UNCHANGED <<outstanding, depth>>
     ELSE admit(p)
  /\ UNCHANGED <<diskVars, lh, committing, cache, dirty, blk, wrote, ctlVars, panicked, crashes>>

\* A call changes a block under the buffer's lock and enters log_write(b):
\* the two tests, without log.lock.
modify(p, b, v) ==
  /\ Up /\ pc[p] = "op"
  /\ \A q \in Proc : pc[q] = "log" => blk[q] # b
  /\ b \in wrote[<<p, depth[p]>>] \/ Cardinality(wrote[<<p, depth[p]>>]) < OpMax
  /\ cache' = [cache EXCEPT ![b] = v]
  /\ blk' = [blk EXCEPT ![p] = b]
  /\ panicked' = (Len(lh) >= LOGSIZE \/ Len(lh) >= logsize - 1 \/ outstanding < 1)
  /\ wrote' = [wrote EXCEPT ![<<p, depth[p]>>] = @ \cup {b}]
  /\ Goto(p, "log")
  /\ UNCHANGED <<diskVars, lh, outstanding, committing, dirty, depth, ctlVars, crashes>>

\* log_write(): record the block number, unless it is already there.
bug_absorb(b) == Append(lh, b)              \* no absorption
absorb(b) == IF b \in Logged THEN lh ELSE Append(lh, b)
bug_log_write(p) ==                         \* B_DIRTY is not set
  /\ Up /\ pc[p] = "log" /\ lh' = absorb(blk[p])
  /\ Goto(p, "op") /\ blk' = [blk EXCEPT ![p] = NoBlock]
  /\ UNCHANGED <<diskVars, outstanding, committing, cache, dirty, depth, wrote, ctlVars, panicked, crashes>>
log_write(p) ==
  /\ Up /\ pc[p] = "log"
  /\ lh' = absorb(blk[p])
  /\ dirty' = dirty \cup {blk[p]}
  /\ Goto(p, "op") /\ blk' = [blk EXCEPT ![p] = NoBlock]
  /\ UNCHANGED <<diskVars, outstanding, committing, cache, depth, wrote, ctlVars, panicked, crashes>>

\* end_op(): the last one commits, another makes room for those asleep.
leave(p) == pc' = [Woken EXCEPT ![p] = IF depth[p] > 1 THEN "op" ELSE "idle"]
end_op(p) ==
  /\ Up /\ pc[p] = "op"
  /\ outstanding' = outstanding - 1
  /\ panicked' = committing
  /\ wrote' = [wrote EXCEPT ![<<p, depth[p]>>] = {}]
  /\ depth' = [depth EXCEPT ![p] = @ - 1]
  /\ IF outstanding = 1
     THEN /\ committing' = TRUE
          /\ stage' = "write_log" /\ tail' = 0
          /\ Goto(p, "commit")
     ELSE /\ leave(p)
          /\ UNCHANGED <<committing, stage, tail>>
  /\ UNCHANGED <<diskVars, lh, cache, dirty, blk, recovering, crashes>>

-----------------------------------------------------------------------------
(* commit() and recover_from_log(), one block write at a time *)

\* One stage is over and the next one starts.
Step(from, to) == stage = from /\ stage' = to /\ tail' = 0
Quiet == UNCHANGED <<outstanding, committing, opVars, panicked, crashes>>

\* write_log(): one block from the cache to the log.
write_log ==
  /\ ~panicked /\ stage = "write_log" /\ tail < Len(lh)
  /\ logblk' = [logblk EXCEPT ![tail + 1] = cache[lh[tail + 1]]]
  /\ tail' = tail + 1
  /\ UNCHANGED <<home, hdr, lh, cache, dirty, stage, recovering>> /\ Quiet

\* commit() does nothing for an empty transaction.
AfterLog == IF Len(lh) > 0 THEN "head" ELSE "finish"
write_log_done ==
  /\ ~panicked /\ tail = Len(lh)
  /\ Step("write_log", AfterLog)
  /\ UNCHANGED <<diskVars, lh, cache, dirty, recovering>> /\ Quiet

\* write_head(): the header reaches the disk: the real commit.
bug_write_head ==                           \* the blocks are installed before the header is written
  /\ ~panicked /\ Step("head", "install")
  /\ UNCHANGED <<diskVars, lh, cache, dirty, recovering>> /\ Quiet
write_head ==
  /\ ~panicked /\ Step("head", "install")
  /\ hdr' = lh
  /\ UNCHANGED <<home, logblk, lh, cache, dirty, recovering>> /\ Quiet

\* install_trans(): one block from the log to its home; bwrite() cleans it.
install_trans ==
  /\ ~panicked /\ stage = "install" /\ tail < Len(lh)
  /\ LET b == lh[tail + 1]  v == logblk[tail + 1] IN
       /\ home' = [home EXCEPT ![b] = v]
       /\ cache' = [cache EXCEPT ![b] = v]
       /\ dirty' = dirty \ {b}
  /\ tail' = tail + 1
  /\ UNCHANGED <<logblk, hdr, lh, stage, recovering>> /\ Quiet

install_done ==
  /\ ~panicked /\ tail = Len(lh)
  /\ Step("install", "erase")
  /\ UNCHANGED <<diskVars, lh, cache, dirty, recovering>> /\ Quiet

\* log.lh.n = 0; write_head().
erase ==
  /\ ~panicked /\ Step("erase", IF recovering THEN "idle" ELSE "finish")
  /\ lh' = <<>> /\ hdr' = <<>>
  /\ recovering' = FALSE
  /\ UNCHANGED <<home, logblk, cache, dirty>> /\ Quiet

\* end_op() after commit(): let everybody in again.
end_commit(p) ==
  /\ ~panicked /\ pc[p] = "commit" /\ Step("finish", "idle")
  /\ committing' = FALSE
  /\ pc' = [Woken EXCEPT ![p] = "idle"]
  /\ UNCHANGED <<diskVars, lh, outstanding, cache, dirty, blk, depth, wrote, recovering,
                 panicked, crashes>>

\* recover_from_log(): read_head(), then install_trans() and erase as above.
read_head ==
  /\ Step("read_head", "install")
  /\ lh' = hdr
  /\ UNCHANGED <<diskVars, cache, dirty, recovering>> /\ Quiet

\* Power fails and the machine boots: memory is lost, the disk is as it is.
crash ==
  /\ crashes < MaxCrash
  /\ crashes' = crashes + 1
  /\ lh' = <<>> /\ outstanding' = 0 /\ committing' = FALSE
  /\ cache' = home /\ dirty' = {}
  /\ pc' = Idle /\ blk' = NoBlocks /\ depth' = NoDepth /\ wrote' = NoWrites
  /\ stage' = "read_head" /\ tail' = 0 /\ recovering' = TRUE /\ panicked' = FALSE
  /\ UNCHANGED diskVars

commit == write_log \/ write_log_done \/ write_head \/ install_trans \/ install_done \/ erase
            \/ read_head \/ \E p \in Proc : end_commit(p)

transact(p) == begin_op(p) \/ log_write(p) \/ end_op(p)
             \/ \E b \in Block, v \in Val : modify(p, b, v)

Next == commit \/ crash \/ \E p \in Proc : transact(p)

Spec == Init /\ [][Next]_vars

(***************************************************************************)
(* Fairness: commit() and recovery proceed, a system call that is running  *)
(* gets to its end_op() (it writes finitely often), a woken process gets   *)
(* log.lock to test again.  Nothing makes a process start a call.          *)
(***************************************************************************)
Runs(p) == log_write(p) \/ (pc[p] = "begin" /\ begin_op(p))
FairSpec == /\ Spec /\ WF_vars(commit)
            /\ \A p \in Proc : WF_vars(Runs(p)) /\ SF_vars(end_op(p))

-----------------------------------------------------------------------------
(* Properties *)

\* Every variable has its type.
TypeOK ==
  /\ home \in [Block -> Val] /\ cache \in [Block -> Val] /\ dirty \subseteq Block
  /\ logblk \in [1..LOGSIZE -> Val]
  /\ hdr \in Seq(Block) /\ lh \in Seq(Block)
  /\ outstanding \in Nat /\ committing \in BOOLEAN
  /\ pc \in [Proc -> {"idle", "begin", "asleep", "op", "log", "commit"}]
  /\ blk \in [Proc -> Block \cup {NoBlock}] /\ depth \in [Proc -> 0..MaxDepth]
  /\ wrote \in [Op -> SUBSET Block]
  /\ stage \in Stages /\ tail \in 0..LOGSIZE
  /\ recovering \in BOOLEAN /\ panicked \in BOOLEAN /\ crashes \in Nat

\* What begin_op() reserves is enough for the blocks the calls really write:
\* no panic of log_write() or end_op() is reached, although log_write() tests
\* the room without log.lock, and write_log() never writes past the log area
\* into the blocks that follow it.
LogFits == ~panicked /\ Len(lh) <= logsize - 1

\* The disk a crash now would leave after recovery.
Recovered == [b \in Block |->
  IF \E i \in 1..Len(hdr) : hdr[i] = b
  THEN logblk[CHOOSE i \in 1..Len(hdr) : hdr[i] = b] ELSE home[b]]

AD == INSTANCE AtomicDisk WITH
        mem <- IF recovering THEN Recovered ELSE cache,
        dur <- Recovered,
        active <- {p \in Proc : depth[p] > 0}

\* "A log transaction contains the updates of multiple FS system calls": after
\* a crash at any point, inside commit() and recovery too, recovery leaves the
\* blocks as they were at some moment when no system call was active, with all
\* or none of the updates made since the commit before.
AtomicCommit == AD!Spec

\* bget() may recycle any buffer without B_DIRTY that nobody holds: what such a
\* buffer holds is on disk at its home, also between the steps of commit().  And when
\* the last end_op() has returned, everything the calls wrote survives a crash.
NothingLost ==
  /\ Up => \A b \in Block \ dirty :
       cache[b] = home[b] \/ \E p \in Proc : pc[p] = "log" /\ blk[p] = b
  /\ Up /\ outstanding = 0 /\ ~committing => Recovered = cache

\* A process asleep in begin_op() is woken: by an end_op() that frees reserved
\* space or by the end of the commit it waits for.
WaitersWoken == \A p \in Proc : []<>(pc[p] # "asleep")
=============================================================================
