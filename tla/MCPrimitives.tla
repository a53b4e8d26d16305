---------------------------- MODULE MCPrimitives ----------------------------
(* Instances of the components that stand alone: spin locks, reentrant locks, the  *)
(* buffer cache with its sleep locks and the disk driver, the list of               *)
(* _SJF_scheduler() and the console.  A behaviour is one of one of them.            *)
EXTENDS Spinlock, Integers, TLC

CONSTANTS
  Proc, Block, Val, Written, NBUF, NoProc, NoBlock, NoBuf, NoReq, MaxPinned,  \* Disk
  NPROC, INF, Bursts,                                                         \* Sjf
  INPUT_BUF, N_HISTORY, Keyboards, ReadSizes,                                 \* Console
  Index                                                                       \* Reentrant

\* Burst times around the first pass (0) and below the sentinel INF = 4.
SmallBursts == {-1, 0, 1, 3}

\* What is typed, and how long a line: editing with history, with ^U, in the middle of a
\* line, and expressions with something around them, negative values and quotients.
Boards == {[set |-> {"a", "b", "enter"}, line |-> 1],
           [set |-> {"a", "enter", "kill"}, line |-> 1],
           [set |-> {"a", "b"}, line |-> 4],
           [set |-> {"0", "+", "=", "?"}, line |-> 6],
           [set |-> {"2", "-", "=", "?"}, line |-> 5],
           [set |-> {"2", "/", "=", "?"}, line |-> 5]}

ProcSymmetry == Permutations(Proc)

VARIABLES
  part,      \* the component of this behaviour
  lru, blockno, refcnt, data, dvalid, dirty, dlock, idequeue, dev, platter, dpc, want, db, panicked, latest,
  jobs, burst_time, confidence, min_val, p_idx, si, spc, result,
  input, arrow, history, current, last, keys,
  sleeplock, rlocked, pid, recursion, fibs, rvalid, stack, answer

D == INSTANCE Disk WITH valid <- dvalid, lock <- dlock, disk <- platter, pc <- dpc, b <- db
S == INSTANCE Sjf WITH i <- si, pc <- spc
C == INSTANCE Console
R == INSTANCE Reentrant WITH locked <- rlocked, valid <- rvalid

disk == <<lru, blockno, refcnt, data, dvalid, dirty, dlock, idequeue, dev, platter, dpc, want,
          db, panicked, latest>>
sjf == <<jobs, burst_time, confidence, min_val, p_idx, si, spc, result>>
console == <<input, arrow, history, current, last, keys>>
reentrant == <<sleeplock, rlocked, pid, recursion, fibs, rvalid, stack, answer>>

\* The components that are not chosen stand still.
NoD == /\ lru = 0 /\ blockno = 0 /\ refcnt = 0 /\ data = 0 /\ dvalid = 0 /\ dirty = 0
       /\ dlock = 0 /\ idequeue = 0 /\ dev = 0 /\ platter = 0 /\ dpc = 0 /\ want = 0 /\ db = 0
       /\ panicked = 0 /\ latest = 0
NoS == /\ jobs = 0 /\ burst_time = 0 /\ confidence = 0 /\ min_val = 0 /\ p_idx = 0 /\ si = 0
       /\ spc = 0 /\ result = 0
NoC == C!CInit /\ keys = CHOOSE k \in Keyboards : k.line = 4
NoR == /\ sleeplock = 0 /\ rlocked = 0 /\ pid = 0 /\ recursion = 0 /\ fibs = 0 /\ rvalid = 0
       /\ stack = 0 /\ answer = 0

MInit == \/ part = "spinlock" /\ Init /\ NoD /\ NoS /\ NoC /\ NoR
         \/ part = "disk" /\ D!Init /\ Init /\ NoS /\ NoC /\ NoR
         \/ part = "sjf" /\ S!Init /\ Init /\ NoD /\ NoC /\ NoR
         \/ part = "console" /\ C!CInit /\ Init /\ NoD /\ NoS /\ NoR
         \/ part = "reentrant" /\ R!RInit /\ Init /\ NoD /\ NoS /\ NoC

MNext ==
  \/ part = "spinlock" /\ Next /\ UNCHANGED <<part, disk, sjf, console, reentrant>>
  \/ part = "disk" /\ D!Next /\ UNCHANGED <<part, vars, sjf, console, reentrant>>
  \/ part = "sjf" /\ S!Next /\ UNCHANGED <<part, vars, disk, console, reentrant>>
  \/ part = "console" /\ C!CNext /\ UNCHANGED <<part, vars, disk, sjf, reentrant>>
  \/ part = "reentrant" /\ R!RNext /\ UNCHANGED <<part, vars, disk, sjf, console>>

MSpec == MInit /\ [][MNext]_<<part, vars, disk, sjf, console, reentrant>>

-----------------------------------------------------------------------------
(* The properties of the components, see there. *)

\* A process that holds a buffer sees the last data written to its block, which no other
\* buffer holds.
SeesLatest == part = "disk" => D!SeesLatest
\* No process sleeps for a buffer that is free or a request that is done, and the disk works
\* on the request at the head of idequeue.
NoLostSleeper == part = "disk" => D!NoLostSleeper
\* _SJF_scheduler() returns a job, and passes over no shorter one it was sure to accept.
PicksWell == part = "sjf" => S!PicksWell
\* The Fibonacci table under the reentrant lock has one user at a time and right numbers.
FibRight == part = "reentrant" => R!FibRight
\* The console's buffer, indices and history ring are a line editor's.
EditsLines == C!EditsLines
=============================================================================
