-------------------------------- MODULE Mlfq --------------------------------
(***************************************************************************)
(* The multi-level scheduler of proc.c and trap.c: queue 0 is round robin,  *)
(* queue 1 shortest job first with a confidence draw (module Sjf models the *)
(* list it draws from), queue 2 first come first served.  Each CPU gives    *)
(* the queues weighted time slices, and the clock interrupt of CPU 0 moves  *)
(* processes that waited too long one queue up.                             *)
(*                                                                          *)
(* An action is one critical section of ptable.lock.  The lock is a         *)
(* variable because the scheduler keeps it from the sched() of one process  *)
(* to the swtch to the next.  ticks and arrival matter by their order only, *)
(* so they are kept as ranks; wait_time and consecutive_runs are kept up to *)
(* the threshold they are compared with.                                    *)
(***************************************************************************)
EXTENDS Naturals, FiniteSets, FiniteSetsExt

CONSTANTS CPU, Boot,       \* cpuid() of Boot is 0: it keeps the clock
          NoCPU,
          NPROC,
          time_slice, rr_timeq, MAX_WAIT_TIME,
          StartQueues,     \* queues the sleeping processes are in at the start
          QueueArgs,       \* second arguments of set_queue() calls
          MaxCalls         \* bound: set_queue() and fork() calls

ASSUME MlfqAssumption ==
  /\ Boot \in CPU /\ NoCPU \notin CPU
  /\ NPROC \in Nat \ {0} /\ time_slice \in Nat \ {0} /\ rr_timeq \in Nat \ {0}
  /\ MAX_WAIT_TIME \in Nat \ {0} /\ QueueArgs \subseteq Nat
  /\ StartQueues \subseteq 0..2
  /\ MaxCalls \in Nat

Slot == 1..NPROC
None == 0
NQUEUE == 3
\* set_queue() refuses queues above 3.
Queue == 0..3
queue_weights(q) == 3 - q
Slice(q) == time_slice * queue_weights(q)
\* What the read of queue_weights[3], past the array, may make of the slice.
Slices(q) == IF q < NQUEUE THEN {Slice(q)} ELSE {0, Slice(0) + 1}

VARIABLES
  state, queue, wait_time, consecutive_runs, arrival,  \* struct proc
  ticks,
  proc, current_queue, runs_queue,                     \* struct cpu
  index,       \* _RR_scheduler()'s static index
  plock,       \* holder of ptable.lock between critical sections
  due,         \* Boot is in trap(), between _aging() and yield()
  panicked, calls

procVars == <<state, queue, wait_time, consecutive_runs, arrival>>
cpuVars == <<proc, current_queue, runs_queue, index, plock>>
vars == <<procVars, ticks, cpuVars, due, panicked, calls>>

Init ==
  /\ state = [s \in Slot |-> IF s = 1 THEN "RUNNABLE" ELSE "SLEEPING"]
  /\ queue \in {q \in [Slot -> Queue] : q[1] = 0 /\ \A s \in Slot \ {1} : q[s] \in StartQueues}
  /\ wait_time = [s \in Slot |-> 0] /\ consecutive_runs = [s \in Slot |-> 0]
  /\ arrival = [s \in Slot |-> 0] /\ ticks = 0
  /\ proc = [c \in CPU |-> None]
  /\ current_queue = [c \in CPU |-> 0] /\ runs_queue = [c \in CPU |-> 0]
  /\ index = 1 /\ plock = NoCPU /\ due = FALSE /\ panicked = FALSE /\ calls = 0

Free == ~panicked /\ plock = NoCPU
\* c runs a process that is not in the clock interrupt.
InProc(c) == proc[c] # None /\ (c = Boot => ~due)
UpTo(n, bound) == IF n < bound THEN n ELSE bound
\* The rank of time t among the arrival times a.
Rank(a, t) == Cardinality({a[s] : s \in Slot} \cap 0..(t - 1))

-----------------------------------------------------------------------------
(* scheduler() *)

Ready(q) == {s \in Slot : state[s] = "RUNNABLE" /\ queue[s] = q}

\* Steps from index to slot s, going round the table; NPROC back to index itself.
Ahead(s) == IF s > index THEN s - index ELSE s + NPROC - index
bug_RR_scheduler == Ready(0)                 \* the scan does not start at index + 1
RR_scheduler == {s \in Ready(0) : \A t \in Ready(0) : Ahead(s) <= Ahead(t)}
\* The draws may accept any process on the list.
SJF_scheduler == Ready(1)
FCFS_scheduler ==
  {s \in Ready(2) : \A t \in Ready(2) :
     arrival[s] < arrival[t] \/ (arrival[s] = arrival[t] /\ s <= t)}
Pick(q) == CASE q = 0 -> RR_scheduler [] q = 1 -> SJF_scheduler [] q = 2 -> FCFS_scheduler

\* The queue scheduler() tries first: the next one when the slice is used up.
First(c) == IF runs_queue[c] = 0 THEN (current_queue[c] + 1) % NQUEUE ELSE current_queue[c]
\* The queues it tries until it breaks out of the loop, and of these the ones
\* with a process to run.
Found(c) == {q \in First(c)..(NQUEUE - 1) : Ready(q) # {}}

\* scheduler() from the acquire, or from the return of swtch, to the next swtch.
bug_run_left(c, q) == runs_queue[c]          \* an empty queue's slice is inherited
run_left(c, q) == IF q = First(c) THEN runs_queue[c] ELSE 0
dispatch(c) ==
  /\ ~panicked /\ plock \in {NoCPU, c} /\ proc[c] = None
  /\ LET q == Min(Found(c)) IN
     /\ Found(c) # {}
     /\ current_queue' = [current_queue EXCEPT ![c] = q]
     /\ runs_queue' = [runs_queue EXCEPT ![c] = run_left(c, q)]
     /\ \E s \in Pick(q) :
          /\ index' = IF q = 0 THEN s ELSE index
          /\ wait_time' = [wait_time EXCEPT ![s] = 0]
          /\ proc' = [proc EXCEPT ![c] = s]
          /\ state' = [state EXCEPT ![s] = "RUNNING"]
  /\ plock' = NoCPU
  /\ UNCHANGED <<queue, consecutive_runs, arrival, ticks, due, panicked, calls>>

\* scheduler() finds the last queue empty, breaks and releases the lock.
idle(c) ==
  /\ ~panicked /\ plock \in {NoCPU, c} /\ proc[c] = None /\ Found(c) = {}
  /\ current_queue' = [current_queue EXCEPT ![c] = NQUEUE - 1]
  /\ runs_queue' = [runs_queue EXCEPT ![c] = 0]
  /\ plock' = NoCPU
  /\ UNCHANGED <<procVars, ticks, proc, index, due, panicked, calls>>

-----------------------------------------------------------------------------
(* The clock interrupt *)

\* sched(): back in scheduler(), which keeps the lock unless its loop ends.
sched(c, rq) ==
  /\ proc' = [proc EXCEPT ![c] = None]
  /\ plock' = IF rq # 0 \/ current_queue[c] # NQUEUE - 1 THEN c ELSE NoCPU

\* _aging(): the processes it moves one queue up.
Waited(s) == UpTo(wait_time[s] + 1, MAX_WAIT_TIME)
bug_Aged == {s \in Slot : state[s] = "RUNNABLE" /\ Waited(s) >= MAX_WAIT_TIME /\ queue[s] = 1}
Aged == {s \in Slot : state[s] = "RUNNABLE" /\ Waited(s) >= MAX_WAIT_TIME /\ queue[s] # 0}

\* trap() on CPU 0: ticks++, _aging().
clock ==
  /\ Free /\ ~due
  /\ LET now == ticks + 1
         arr == [s \in Slot |-> IF s \in Aged THEN now ELSE arrival[s]]
     IN /\ queue' = [s \in Slot |-> IF s \in Aged THEN queue[s] - 1 ELSE queue[s]]
        /\ wait_time' = [s \in Slot |-> IF s \in Aged THEN 0
                           ELSE IF state[s] = "RUNNABLE" THEN Waited(s) ELSE wait_time[s]]
        /\ arrival' = [s \in Slot |-> Rank(arr, arr[s])]
        /\ ticks' = Rank(arr, now)
  /\ due' = (proc[Boot] # None)
  /\ UNCHANGED <<state, consecutive_runs, cpuVars, panicked, calls>>

\* yield() of the process on c, and _should_yield() in it.
quantum(p, n) == queue[p] \notin {1, 2} /\ (queue[p] = 0 => n >= rr_timeq)
yield(c) ==
  /\ Free /\ proc[c] # None /\ (c = Boot => due)
  /\ due' = (due /\ c # Boot)
  /\ LET p == proc[c]
         cr == UpTo(consecutive_runs[p] + 1, rr_timeq)
     IN \E slice \in Slices(queue[p]) :
          LET used == runs_queue[c] + 1 >= slice
              rq == IF used THEN 0 ELSE runs_queue[c] + 1
              yields == used \/ quantum(p, cr)
          IN /\ runs_queue' = [runs_queue EXCEPT ![c] = rq]
             /\ consecutive_runs' = [consecutive_runs EXCEPT ![p] = IF yields THEN 0 ELSE cr]
             /\ IF yields
                THEN state' = [state EXCEPT ![p] = "RUNNABLE"] /\ sched(c, rq)
                ELSE UNCHANGED <<state, proc, plock>>
  /\ UNCHANGED <<queue, wait_time, arrival, ticks, current_queue, index, panicked, calls>>

-----------------------------------------------------------------------------
(* What processes do *)

\* sleep() or exit() of the process on c.  A killed process exits in trap() before
\* it comes to yield().  (The slot is UNUSED once the parent's wait() is done.)
leave(c, to) ==
  /\ Free /\ proc[c] # None
  /\ InProc(c) \/ to = "UNUSED"
  /\ due' = (due /\ c # Boot)
  /\ state' = [state EXCEPT ![proc[c]] = to]
  /\ sched(c, runs_queue[c])
  /\ UNCHANGED <<queue, wait_time, consecutive_runs, arrival, ticks, current_queue,
                 runs_queue, index, panicked, calls>>

\* wakeup1() or kill() of a sleeper.
wakeup(s) ==
  /\ Free /\ state[s] = "SLEEPING"
  /\ state' = [state EXCEPT ![s] = "RUNNABLE"]
  /\ UNCHANGED <<queue, wait_time, consecutive_runs, arrival, ticks, cpuVars, due,
                 panicked, calls>>

\* fork() of the process on c: allocproc() takes the first UNUSED slot ...
allocproc(c) ==
  /\ Free /\ InProc(c) /\ calls < MaxCalls
  /\ \E s \in Slot :
       /\ state[s] = "UNUSED" /\ \A t \in 1..(s - 1) : state[t] # "UNUSED"
       /\ state' = [state EXCEPT ![s] = "EMBRYO"]
       /\ queue' = [queue EXCEPT ![s] = 0]
       /\ wait_time' = [wait_time EXCEPT ![s] = 0]
       /\ consecutive_runs' = [consecutive_runs EXCEPT ![s] = 0]
       /\ arrival' = [arrival EXCEPT ![s] = ticks]
  /\ calls' = calls + 1
  /\ UNCHANGED <<ticks, cpuVars, due, panicked>>

\* ... and the child of anyone but init and the first shell starts in queue 2.
fork(s) ==
  /\ Free /\ state[s] = "EMBRYO"
  /\ state' = [state EXCEPT ![s] = "RUNNABLE"]
  /\ \E q \in {queue[s], 2} : queue' = [queue EXCEPT ![s] = q]
  /\ UNCHANGED <<wait_time, consecutive_runs, arrival, ticks, cpuVars, due, panicked, calls>>

\* set_queue(), called by the process on c.
set_queue(c, s, q) ==
  /\ Free /\ InProc(c) /\ calls < MaxCalls
  /\ q \in Queue /\ state[s] # "UNUSED" /\ queue[s] # q
  /\ queue' = [queue EXCEPT ![s] = q]
  /\ arrival' = [arrival EXCEPT ![s] = ticks]
  /\ calls' = calls + 1
  /\ UNCHANGED <<state, wait_time, consecutive_runs, ticks, cpuVars, due, panicked>>

\* set_sjf_info() with a pid outside 1..NPROC-1: it returns -1 and keeps the lock.
set_sjf_info(c) ==
  /\ Free /\ InProc(c)
  /\ plock' = c
  /\ UNCHANGED <<procVars, ticks, proc, current_queue, runs_queue, index, due, panicked, calls>>

\* A timer interrupt on the CPU that was left holding ptable.lock: acquire()
\* in _aging() or yield() panics.
panic(c) ==
  /\ ~panicked /\ plock = c /\ proc[c] # None
  /\ panicked' = TRUE
  /\ UNCHANGED <<procVars, ticks, cpuVars, due, calls>>

-----------------------------------------------------------------------------
\* Interrupts, schedulers and processes that compute, sleep, wake up and exit ...
Run == \/ clock
       \/ \E c \in CPU : \/ dispatch(c) \/ idle(c) \/ yield(c)
                         \/ leave(c, "SLEEPING") \/ leave(c, "UNUSED")
       \/ \E s \in Slot : wakeup(s)
\* ... and the calls that create processes and move them between queues.
Call == \/ \E c \in CPU : \/ allocproc(c)
                          \/ \E s \in Slot, q \in QueueArgs : set_queue(c, s, q)
        \/ \E s \in Slot : fork(s)
Next == Run \/ Call

Spec == Init /\ [][Next]_vars

\* Timer interrupts keep coming and spinlocks are eventually acquired.
Fairness == /\ SF_vars(clock)
            /\ \A c \in CPU : WF_vars(dispatch(c)) /\ WF_vars(idle(c)) /\ SF_vars(yield(c))
\* The scheduler of a fixed set of processes.
FairSpec == Init /\ [][Run]_vars /\ Fairness

\* The same with calls of set_sjf_info() that name no process.
BadPidSpec == Init /\ [][Run \/ \E c \in CPU : set_sjf_info(c) \/ panic(c)]_vars /\ Fairness

-----------------------------------------------------------------------------
\* No process outside queue 0 is left waiting for MAX_WAIT_TIME ticks: _aging()
\* has moved it up by then, unless set_queue() moved it there in this very tick.
AgingKeepsUp ==
  \A s \in Slot : state[s] = "RUNNABLE" /\ queue[s] # 0 =>
                    wait_time[s] < MAX_WAIT_TIME \/ arrival[s] = ticks

\* Every process that is ready to run is run: round robin does not pass over a
\* process, and aging brings those of the other queues into queue 0 in time.
NoStarvation == \A s \in Slot : state[s] = "RUNNABLE" ~> state[s] # "RUNNABLE"
=============================================================================
