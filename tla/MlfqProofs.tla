----------------------------- MODULE MlfqProofs -----------------------------
(***************************************************************************)
(* Proofs about the scheduler, for any number of CPUs and slots and any    *)
(* lengths of slices and waits: _aging() is in time, the weights of the    *)
(* queues are kept, and queue 0 is a round robin across the CPUs.          *)
(***************************************************************************)
EXTENDS MCMlfqRR, FiniteSetTheorems, TLAPS

\* Every variable has its type.
TypeOK ==
  /\ state \in [Slot -> {"UNUSED", "EMBRYO", "SLEEPING", "RUNNABLE", "RUNNING"}]
  /\ queue \in [Slot -> Queue] /\ wait_time \in [Slot -> Nat]
  /\ arrival \in [Slot -> Nat] /\ ticks \in Nat
  /\ proc \in [CPU -> Slot \cup {None}] /\ index \in Slot
  /\ current_queue \in [CPU -> 0..(NQUEUE - 1)] /\ runs_queue \in [CPU -> Nat]

\* The process on a CPU is RUNNING, and on no other CPU.
CpuInv ==
  /\ \A c \in CPU : proc[c] # None => state[proc[c]] = "RUNNING"
  /\ \A c, d \in CPU : proc[c] = proc[d] /\ proc[c] # None => c = d

\* Only a process that is ready to run waits.
AgeInv == /\ \A s \in Slot : state[s] # "RUNNABLE" => wait_time[s] = 0
          /\ AgingKeepsUp

IInv == TypeOK /\ CpuInv /\ AgeInv

\* A slice is not overspent, between two processes too, and it is spent on the
\* queue it belongs to.
SliceInv == \A c \in CPU \ spoiled :
  /\ runs_queue[c] = 0 \/ runs_queue[c] < Slice(current_queue[c])
  /\ proc[c] # None => queue[proc[c]] = current_queue[c]

\* Who was run while s was ready comes after s in the scan from index.
TurnInv == \A s \in Ready(0) : \A r \in passed[s] : r \in Slot /\ Ahead(r) > Ahead(s)

-----------------------------------------------------------------------------
(* Facts about the operators *)

\* The null process is no slot.
LEMMA SlotFacts == None \notin Slot /\ Slot \subseteq Nat /\ 1 \in Slot
BY MlfqAssumption DEF None, Slot

\* Every queue has a slice.
LEMMA SlicePositive == \A q \in 0..(NQUEUE - 1) : Slice(q) \in Nat /\ Slice(q) > 0
<1>1. 0..(NQUEUE - 1) = {0, 1, 2}
  BY DEF NQUEUE
<1>2. time_slice \in Nat /\ time_slice > 0
  BY MlfqAssumption
<1>3. Slice(0) = time_slice * 3 /\ Slice(1) = time_slice * 2 /\ Slice(2) = time_slice * 1
  BY DEF Slice, queue_weights
<1> QED BY <1>1, <1>2, <1>3

\* A rank is a number.
LEMMA RankType == ASSUME NEW a, NEW t \in Nat PROVE Rank(a, t) \in Nat
<1>1. IsFiniteSet(0..(t - 1))
  BY FS_Interval
<1>2. IsFiniteSet({a[s] : s \in Slot} \cap 0..(t - 1))
  BY <1>1, FS_Subset
<1> QED BY <1>2, FS_CardinalityType DEF Rank

\* The queue scheduler() stops at has a process to run.
LEMMA FoundMin == ASSUME TypeOK, NEW c \in CPU, Found(c) # {}
                  PROVE  /\ Min(Found(c)) \in 0..(NQUEUE - 1)
                         /\ Min(Found(c)) \in Found(c)
<1>1. Found(c) \subseteq {0, 1, 2}
  BY DEF Found, First, TypeOK, NQUEUE
<1>2. \E x \in Found(c) : \A y \in Found(c) : x <= y
  BY <1>1
<1>3. Min(Found(c)) \in Found(c)
  BY <1>2 DEF Min
<1> QED BY <1>1, <1>3 DEF NQUEUE

\* A process that is picked was ready in the queue it is picked from.
LEMMA PickReady == ASSUME NEW q \in 0..(NQUEUE - 1) PROVE Pick(q) \subseteq Ready(q)
<1>1. q \in {0, 1, 2}
  BY DEF NQUEUE
<1> QED BY <1>1 DEF Pick, RR_scheduler, SJF_scheduler, FCFS_scheduler

\* What dispatch() does, in terms of the queue and the process it picks.
Dispatches(c, q, s) ==
  /\ proc[c] = None /\ q \in 0..(NQUEUE - 1) /\ q \in Found(c) /\ s \in Pick(q)
  /\ s \in Slot /\ state[s] = "RUNNABLE" /\ queue[s] = q
  /\ current_queue' = [current_queue EXCEPT ![c] = q]
  /\ runs_queue' = [runs_queue EXCEPT ![c] = run_left(c, q)]
  /\ index' = (IF q = 0 THEN s ELSE index)
  /\ wait_time' = [wait_time EXCEPT ![s] = 0]
  /\ proc' = [proc EXCEPT ![c] = s]
  /\ state' = [state EXCEPT ![s] = "RUNNING"]
  /\ UNCHANGED <<queue, arrival, ticks>>

LEMMA DispatchStep == ASSUME TypeOK, NEW c \in CPU, dispatch(c)
                      PROVE  \E q, s : Dispatches(c, q, s)
<1> DEFINE q == Min(Found(c))
<1>1. /\ Found(c) # {} /\ proc[c] = None
      /\ current_queue' = [current_queue EXCEPT ![c] = q]
      /\ runs_queue' = [runs_queue EXCEPT ![c] = run_left(c, q)]
      /\ UNCHANGED <<queue, arrival, ticks>>
  BY Zenon DEF dispatch
<1>2. PICK s \in Pick(q) : /\ index' = IF q = 0 THEN s ELSE index
                           /\ wait_time' = [wait_time EXCEPT ![s] = 0]
                           /\ proc' = [proc EXCEPT ![c] = s]
                           /\ state' = [state EXCEPT ![s] = "RUNNING"]
  BY Zenon DEF dispatch
<1>3. q \in 0..(NQUEUE - 1) /\ q \in Found(c)
  BY <1>1, FoundMin
<1>4. s \in Slot /\ state[s] = "RUNNABLE" /\ queue[s] = q
  BY <1>2, <1>3, PickReady DEF Ready
<1> QED BY ZenonT(30), <1>1, <1>2, <1>3, <1>4 DEF Dispatches

-----------------------------------------------------------------------------
(* One process per CPU, and aging *)

\* Steps of the scheduler keep the invariant.
LEMMA dispatch_inv == ASSUME IInv, NEW c \in CPU, dispatch(c) PROVE IInv'
<1>1. PICK q, s : Dispatches(c, q, s)
  BY DispatchStep DEF IInv
<1>2. TypeOK'
  <2>1. run_left(c, q) \in Nat
    BY DEF run_left, IInv, TypeOK
  <2> QED BY <1>1, <2>1 DEF IInv, TypeOK, Dispatches
<1>3. CpuInv'
  BY <1>1, SlotFacts DEF IInv, TypeOK, CpuInv, Dispatches
<1>4. AgeInv'
  BY <1>1 DEF IInv, TypeOK, AgeInv, AgingKeepsUp, Dispatches
<1> QED BY <1>2, <1>3, <1>4 DEF IInv

LEMMA idle_inv == ASSUME IInv, NEW c \in CPU, idle(c) PROVE IInv'
<1>1. /\ UNCHANGED <<state, queue, wait_time, arrival, ticks, proc, index>>
      /\ current_queue' = [current_queue EXCEPT ![c] = NQUEUE - 1]
      /\ runs_queue' = [runs_queue EXCEPT ![c] = 0]
  BY DEF idle, procVars
<1>2. TypeOK'
  BY <1>1 DEF IInv, TypeOK, NQUEUE
<1> QED BY <1>1, <1>2 DEF IInv, CpuInv, AgeInv, AgingKeepsUp

\* The clock interrupt: afterwards nobody outside queue 0 has waited too long.
LEMMA clock_inv == ASSUME IInv, clock PROVE IInv'
<1> DEFINE arr == [s \in Slot |-> IF s \in Aged THEN ticks + 1 ELSE arrival[s]]
<1>1. /\ UNCHANGED <<state, proc, current_queue, runs_queue, index>>
      /\ queue' = [s \in Slot |-> IF s \in Aged THEN queue[s] - 1 ELSE queue[s]]
      /\ wait_time' = [s \in Slot |-> IF s \in Aged THEN 0
                         ELSE IF state[s] = "RUNNABLE" THEN Waited(s) ELSE wait_time[s]]
      /\ arrival' = [s \in Slot |-> Rank(arr, arr[s])] /\ ticks' = Rank(arr, ticks + 1)
  BY Zenon DEF clock, cpuVars
<1>2. \A s \in Slot : Waited(s) \in Nat /\ Waited(s) <= MAX_WAIT_TIME
  BY MlfqAssumption DEF Waited, UpTo, IInv, TypeOK
<1>3. TypeOK'
  <2>1. \A s \in Slot : arr[s] \in Nat
    BY DEF IInv, TypeOK
  <2>2. arrival' \in [Slot -> Nat] /\ ticks' \in Nat
    BY <1>1, <2>1, RankType DEF IInv, TypeOK
  <2>3. queue' \in [Slot -> Queue]
    BY <1>1 DEF IInv, TypeOK, Aged, Queue
  <2>4. wait_time' \in [Slot -> Nat]
    BY <1>1, <1>2 DEF IInv, TypeOK
  <2> QED BY <1>1, <2>2, <2>3, <2>4 DEF IInv, TypeOK
<1>4. CpuInv'
  BY <1>1 DEF IInv, CpuInv
<1>5. AgeInv'
  <2>1. \A s \in Slot : state'[s] # "RUNNABLE" => wait_time'[s] = 0
    BY <1>1 DEF IInv, AgeInv, Aged
  <2>2. ASSUME NEW s \in Slot, state'[s] = "RUNNABLE", queue'[s] # 0
        PROVE  wait_time'[s] < MAX_WAIT_TIME
    <3>1. CASE s \in Aged
      BY <1>1, <3>1, MlfqAssumption
    <3>2. CASE s \notin Aged
      BY <1>1, <1>2, <2>2, <3>2, MlfqAssumption DEF Aged
    <3> QED BY <3>1, <3>2
  <2> QED BY <2>1, <2>2 DEF AgeInv, AgingKeepsUp
<1> QED BY <1>3, <1>4, <1>5 DEF IInv

\* yield() leaves the process on the CPU or gives it back with nothing waited.
LEMMA YieldStep ==
  ASSUME TypeOK, NEW c \in CPU, yield(c)
  PROVE  /\ proc[c] # None /\ UNCHANGED <<queue, wait_time, arrival, ticks, current_queue, index>>
         /\ \E slice \in Slices(queue[proc[c]]) : runs_queue' = [runs_queue EXCEPT ![c] =
              IF runs_queue[c] + 1 >= slice THEN 0 ELSE runs_queue[c] + 1]
         /\ \/ UNCHANGED <<state, proc>>
            \/ /\ state' = [state EXCEPT ![proc[c]] = "RUNNABLE"]
               /\ proc' = [proc EXCEPT ![c] = None]
BY Zenon DEF yield, sched

LEMMA yield_inv == ASSUME IInv, NEW c \in CPU, yield(c) PROVE IInv'
<1>1. TypeOK /\ proc[c] \in Slot
  BY YieldStep DEF IInv, TypeOK
<1>2. TypeOK'
  <2>1. runs_queue' \in [CPU -> Nat]
    BY <1>1, YieldStep DEF TypeOK
  <2>2. state' \in [Slot -> {"UNUSED", "EMBRYO", "SLEEPING", "RUNNABLE", "RUNNING"}]
    BY <1>1, YieldStep DEF TypeOK
  <2>3. proc' \in [CPU -> Slot \cup {None}]
    BY <1>1, YieldStep DEF TypeOK
  <2> QED BY <1>1, <2>1, <2>2, <2>3, YieldStep DEF TypeOK
<1>3. CpuInv'
  <2>1. CASE UNCHANGED <<state, proc>>
    BY <2>1 DEF IInv, CpuInv
  <2>2. CASE /\ state' = [state EXCEPT ![proc[c]] = "RUNNABLE"]
             /\ proc' = [proc EXCEPT ![c] = None]
    BY <1>1, <2>2, SlotFacts DEF IInv, TypeOK, CpuInv
  <2> QED BY <1>1, <2>1, <2>2, YieldStep
<1>4. AgeInv'
  <2>1. wait_time[proc[c]] = 0
    BY <1>1, YieldStep DEF IInv, CpuInv, AgeInv
  <2> QED BY SMTT(30), <1>1, <2>1, YieldStep, MlfqAssumption DEF IInv, TypeOK, AgeInv,
     AgingKeepsUp
<1> QED BY <1>2, <1>3, <1>4 DEF IInv

\* sleep() and exit().
LEMMA leave_inv == ASSUME IInv, NEW c \in CPU, NEW to \in {"SLEEPING", "UNUSED"}, leave(c, to)
                   PROVE  IInv'
<1>1. /\ proc[c] # None /\ state' = [state EXCEPT ![proc[c]] = to]
      /\ proc' = [proc EXCEPT ![c] = None]
      /\ UNCHANGED <<queue, wait_time, arrival, ticks, current_queue, runs_queue, index>>
  BY DEF leave, sched
<1>2. proc[c] \in Slot
  BY <1>1 DEF IInv, TypeOK
<1>3. TypeOK'
  BY <1>1, <1>2 DEF IInv, TypeOK
<1>4. CpuInv'
  BY <1>1, <1>2, SlotFacts DEF IInv, TypeOK, CpuInv
<1>5. AgeInv'
  BY <1>1, <1>2 DEF IInv, TypeOK, CpuInv, AgeInv, AgingKeepsUp
<1> QED BY SMTT(30), <1>3, <1>4, <1>5 DEF IInv

\* wakeup() and the end of fork(): a process becomes ready with nothing waited.
LEMMA wakeup_inv == ASSUME IInv, NEW s \in Slot, wakeup(s) PROVE IInv'
<1>1. /\ state[s] = "SLEEPING" /\ state' = [state EXCEPT ![s] = "RUNNABLE"]
      /\ UNCHANGED <<queue, wait_time, arrival, ticks, proc, current_queue, runs_queue, index>>
  BY DEF wakeup, cpuVars
<1>2. TypeOK'
  BY <1>1 DEF IInv, TypeOK
<1>3. CpuInv'
  BY <1>1 DEF IInv, TypeOK, CpuInv
<1>4. AgeInv'
  BY <1>1, MlfqAssumption DEF IInv, TypeOK, AgeInv, AgingKeepsUp
<1> QED BY <1>2, <1>3, <1>4 DEF IInv

LEMMA fork_inv == ASSUME IInv, NEW s \in Slot, fork(s) PROVE IInv'
<1>1. /\ state[s] = "EMBRYO" /\ state' = [state EXCEPT ![s] = "RUNNABLE"]
      /\ UNCHANGED <<wait_time, arrival, ticks, proc, current_queue, runs_queue, index>>
      /\ \E q \in {queue[s], 2} : queue' = [queue EXCEPT ![s] = q]
  BY ZenonT(30) DEF fork, cpuVars
<1>2. TypeOK'
  BY <1>1 DEF IInv, TypeOK, Queue
<1>3. CpuInv'
  BY <1>1 DEF IInv, TypeOK, CpuInv
<1>4. AgeInv'
  BY <1>1, MlfqAssumption DEF IInv, TypeOK, AgeInv, AgingKeepsUp
<1> QED BY <1>2, <1>3, <1>4 DEF IInv

\* allocproc() and set_queue().
LEMMA allocproc_inv == ASSUME IInv, NEW c \in CPU, allocproc(c) PROVE IInv'
<1>1. PICK s \in Slot : /\ state[s] = "UNUSED" /\ state' = [state EXCEPT ![s] = "EMBRYO"]
                        /\ queue' = [queue EXCEPT ![s] = 0]
                        /\ wait_time' = [wait_time EXCEPT ![s] = 0]
                        /\ arrival' = [arrival EXCEPT ![s] = ticks]
  BY Zenon DEF allocproc
<1>2. UNCHANGED <<ticks, proc, current_queue, runs_queue, index>>
  BY DEF allocproc, cpuVars
<1>3. TypeOK'
  BY <1>1, <1>2 DEF IInv, TypeOK, Queue
<1>4. CpuInv'
  BY <1>1, <1>2 DEF IInv, TypeOK, CpuInv
<1>5. AgeInv'
  BY <1>1, <1>2 DEF IInv, TypeOK, AgeInv, AgingKeepsUp
<1> QED BY <1>3, <1>4, <1>5 DEF IInv

LEMMA set_queue_inv == ASSUME IInv, NEW c \in CPU, NEW s \in Slot, NEW q, set_queue(c, s, q)
                       PROVE  IInv'
<1>1. /\ q \in Queue /\ queue' = [queue EXCEPT ![s] = q]
      /\ arrival' = [arrival EXCEPT ![s] = ticks]
      /\ UNCHANGED <<state, wait_time, ticks, proc, current_queue, runs_queue, index>>
  BY DEF set_queue, cpuVars
<1>2. TypeOK' /\ CpuInv'
  BY <1>1 DEF IInv, TypeOK, CpuInv
<1>3. AgeInv'
  BY <1>1 DEF IInv, TypeOK, AgeInv, AgingKeepsUp
<1> QED BY <1>2, <1>3 DEF IInv

\* The boot state, and every step.
LEMMA InitInv == ASSUME Init PROVE IInv
<1>1. TypeOK
  BY SlotFacts DEF Init, TypeOK, NQUEUE
<1>2. CpuInv
  BY DEF Init, CpuInv
<1>3. AgeInv
  BY MlfqAssumption DEF Init, AgeInv, AgingKeepsUp
<1> QED BY <1>1, <1>2, <1>3 DEF IInv

LEMMA NextInv == ASSUME IInv, [Next]_vars PROVE IInv'
<1>1. CASE UNCHANGED vars
  <2>1. UNCHANGED <<state, queue, wait_time, arrival, ticks, proc, current_queue, runs_queue, index>>
    BY <1>1, Zenon DEF vars, procVars, cpuVars
  <2> QED BY <2>1 DEF IInv, TypeOK, CpuInv, AgeInv, AgingKeepsUp
<1>2. CASE Run
  BY <1>2, Zenon, clock_inv, dispatch_inv, idle_inv, yield_inv, leave_inv, wakeup_inv DEF Run
<1>3. CASE Call
  BY <1>3, Zenon, allocproc_inv, set_queue_inv, fork_inv DEF Call
<1> QED BY <1>1, <1>2, <1>3 DEF Next

LEMMA Invariance == Spec => []IInv
BY InitInv, NextInv, PTL DEF Spec

\* _aging() keeps up: at no moment has a process outside queue 0 been ready for
\* MAX_WAIT_TIME ticks, but for one that set_queue() has moved there in this tick.
THEOREM AgingInTime == Spec => []AgingKeepsUp
<1>1. IInv => AgingKeepsUp
  BY DEF IInv, AgeInv
<1> QED BY <1>1, Invariance, PTL

-----------------------------------------------------------------------------
(* The history variables of MCMlfqRR *)

hvars == <<vars, passed, spoiled>>
Ran == {s \in Ready(0) : state'[s] = "RUNNING"}
Moved == {c \in CPU : proc[c] # None /\ queue'[proc[c]] # queue[proc[c]]}
\* What a step adds to them.
Records ==
  /\ passed' = [s \in Slot |-> IF s \in Ready(0) \cap Ready(0)' THEN passed[s] \cup Ran ELSE {}]
  /\ spoiled' = {c \in spoiled \cup Moved : proc'[c] # None \/ runs_queue'[c] # 0}

\* A step of the system with history is a step of the system.
LEMMA HistorySteps == ASSUME HNext PROVE Next /\ Records
<1>1. Records
  BY Zenon DEF HNext, With, Records, Ran, Moved
<1>2. Next
  BY Zenon DEF HNext, With, Next, Run, Call
<1> QED BY <1>1, <1>2

\* An idle step leaves everything alone.
LEMMA HistoryStutters == ASSUME UNCHANGED hvars
                         PROVE  UNCHANGED <<vars, passed, spoiled, state, queue, wait_time,
                                            arrival, ticks, proc, current_queue, runs_queue, index>>
BY Zenon DEF hvars, vars, procVars, cpuVars

LEMMA HInvariance == HSpec => []IInv
<1>1. HInit => Init
  BY DEF HInit
<1>2. [HNext]_hvars => [Next]_vars
  BY SMTT(30), HistorySteps, HistoryStutters
<1> QED BY <1>1, <1>2, InitInv, NextInv, PTL DEF HSpec, hvars

-----------------------------------------------------------------------------
(* The slices *)

SliceOf(c) == /\ runs_queue[c] = 0 \/ runs_queue[c] < Slice(current_queue[c])
              /\ proc[c] # None => queue[proc[c]] = current_queue[c]

\* A CPU that is not spoiled after a step was not before, or starts a new slice.
LEMMA NotSpoiled == ASSUME Records, SliceInv, NEW c \in CPU \ spoiled'
                    PROVE  \/ proc'[c] = None /\ runs_queue'[c] = 0
                           \/ /\ SliceOf(c)
                              /\ proc[c] # None => queue'[proc[c]] = current_queue[c]
BY DEF Records, Moved, SliceInv, SliceOf

\* A CPU goes on with its process, or leaves it, in the same slice.
LEMMA SliceFrame ==
  ASSUME Records, SliceInv, NEW c \in CPU \ spoiled', proc'[c] = proc[c] \/ proc'[c] = None,
         current_queue'[c] = current_queue[c], runs_queue'[c] = runs_queue[c]
  PROVE  SliceOf(c)'
<1>1. CASE proc'[c] = None /\ runs_queue'[c] = 0
  BY <1>1 DEF SliceOf
<1>2. CASE /\ SliceOf(c)
           /\ proc[c] # None => queue'[proc[c]] = current_queue[c]
  BY <1>2 DEF SliceOf
<1> QED BY <1>1, <1>2, NotSpoiled

\* scheduler() starts a slice or goes on with the one it has.
LEMMA dispatch_slice == ASSUME IInv, Records, SliceInv, NEW c \in CPU, dispatch(c), c \notin spoiled'
                        PROVE  SliceOf(c)'
<1>1. PICK q, s : Dispatches(c, q, s)
  BY DispatchStep DEF IInv
<1>2. proc'[c] = s /\ s # None /\ queue'[s] = q /\ current_queue'[c] = q
  BY <1>1, SlotFacts DEF Dispatches, IInv, TypeOK
<1>3. runs_queue'[c] = run_left(c, q) /\ q \in 0..(NQUEUE - 1)
  BY <1>1 DEF Dispatches, IInv, TypeOK
<1>4. SliceOf(c)
  BY <1>2, NotSpoiled
<1>5. runs_queue'[c] = 0 \/ (runs_queue'[c] = runs_queue[c] /\ q = current_queue[c])
  BY <1>3 DEF run_left, First
<1> QED BY <1>2, <1>4, <1>5 DEF SliceOf

\* yield() counts a tick and ends the slice in time.
LEMMA yield_slice == ASSUME IInv, Records, SliceInv, NEW c \in CPU, yield(c), c \notin spoiled'
                     PROVE  SliceOf(c)'
<1>1. TypeOK
  BY DEF IInv
<1>2. PICK slice \in Slices(queue[proc[c]]) : runs_queue' = [runs_queue EXCEPT ![c] =
             IF runs_queue[c] + 1 >= slice THEN 0 ELSE runs_queue[c] + 1]
  BY <1>1, YieldStep
<1>3. /\ proc[c] # None /\ queue' = queue /\ current_queue' = current_queue
      /\ proc'[c] = proc[c] \/ proc'[c] = None
  BY <1>1, YieldStep DEF TypeOK
<1>4. CASE proc'[c] = None /\ runs_queue'[c] = 0
  BY SMTT(30), <1>4 DEF SliceOf
<1>5. CASE /\ SliceOf(c)
           /\ proc[c] # None => queue'[proc[c]] = current_queue[c]
  <2>1. queue[proc[c]] = current_queue[c] /\ current_queue[c] \in 0..(NQUEUE - 1)
    BY <1>1, <1>3, <1>5 DEF TypeOK
  <2>2. slice = Slice(current_queue[c]) /\ slice \in Nat
    BY <1>2, <2>1, SlicePositive DEF Slices, NQUEUE
  <2>3. runs_queue'[c] = 0 \/ runs_queue'[c] < slice
    BY <1>1, <1>2, <2>2 DEF TypeOK
  <2> QED BY <1>3, <2>1, <2>2, <2>3 DEF SliceOf
<1> QED BY <1>4, <1>5, NotSpoiled

LEMMA SliceStep == ASSUME IInv, SliceInv, Next, Records PROVE SliceInv'
<1> SUFFICES ASSUME NEW c \in CPU \ spoiled' PROVE SliceOf(c)'
  BY DEF SliceInv, SliceOf
<1> DEFINE Same == /\ proc'[c] = proc[c] \/ proc'[c] = None
                   /\ current_queue'[c] = current_queue[c] /\ runs_queue'[c] = runs_queue[c]
<1>0. Same => SliceOf(c)'
  BY SliceFrame
<1>1. ASSUME NEW d \in CPU, dispatch(d) PROVE SliceOf(c)'
  <2>1. PICK q, s : Dispatches(d, q, s)
    BY <1>1, DispatchStep DEF IInv
  <2>2. c # d => Same
    BY SMTT(30), <2>1 DEF Dispatches, IInv, TypeOK
  <2> QED BY <1>0, <1>1, <2>2, dispatch_slice
<1>2. ASSUME NEW d \in CPU, yield(d) PROVE SliceOf(c)'
  <2>1. c # d => Same
    BY <1>2, YieldStep DEF IInv, TypeOK
  <2> QED BY <1>0, <1>2, <2>1, yield_slice
<1>3. ASSUME NEW d \in CPU, idle(d) PROVE SliceOf(c)'
  <2>1. /\ proc[d] = None /\ proc' = proc
        /\ current_queue' = [current_queue EXCEPT ![d] = NQUEUE - 1]
        /\ runs_queue' = [runs_queue EXCEPT ![d] = 0]
    BY <1>3 DEF idle
  <2>2. CASE c = d
    BY <2>1, <2>2 DEF SliceOf, IInv, TypeOK
  <2>3. CASE c # d
    BY SMTT(30), <1>0, <2>1, <2>3 DEF IInv, TypeOK
  <2> QED BY <2>2, <2>3
<1>4. ASSUME NEW d \in CPU, leave(d, "SLEEPING") \/ leave(d, "UNUSED") PROVE SliceOf(c)'
  BY SMTT(30), <1>0, <1>4 DEF leave, sched, IInv, TypeOK
<1>5. ASSUME clock \/ \E s \in Slot : wakeup(s) PROVE SliceOf(c)'
  BY SMTT(40), <1>0, <1>5 DEF clock, wakeup, cpuVars
<1>6. ASSUME Call PROVE SliceOf(c)'
  BY <1>0, <1>6 DEF Call, allocproc, set_queue, fork, cpuVars
<1> QED BY <1>1, <1>2, <1>3, <1>4, <1>5, <1>6, ZenonT(30) DEF Next, Run

\* The weights of the queues are kept on every CPU: it runs a process of the queue
\* whose slice it is spending and does not overspend the slice, unless the process
\* was moved to another queue during the slice.
THEOREM WeightsAreKept == HSpec => []SliceKept
<1>1. HInit => SliceInv
  BY DEF HInit, Init, SliceInv
<1>2. ASSUME IInv, SliceInv, [HNext]_hvars PROVE SliceInv'
  <2>1. CASE HNext
    BY SMTT(30), <1>2, <2>1, HistorySteps, SliceStep
  <2>2. CASE UNCHANGED hvars
    BY <1>2, <2>2, HistoryStutters DEF SliceInv
  <2> QED BY <1>2, <2>1, <2>2
<1>3. ASSUME IInv, SliceInv PROVE SliceKept
  BY <1>3, SlicePositive DEF SliceKept, SliceInv, IInv, TypeOK
<1> QED BY <1>1, <1>2, <1>3, HInvariance, PTL DEF HSpec, hvars

\* The exception is no larger than it says: no step but set_queue() moves a process
\* that is on a CPU; _aging() and fork() do not.
OnlySetQueueSpoils ==
  [][\/ spoiled' \subseteq spoiled
     \/ \E c \in CPU, s \in Slot, q \in QueueArgs : set_queue(c, s, q)]_hvars

\* Of all the steps of the scheduler and of processes, set_queue() alone ends the
\* guarantee for the slice of a CPU.
THEOREM OnlySetQueueMoves == HSpec => OnlySetQueueSpoils
<1> DEFINE Sets == \E c \in CPU, s \in Slot, q \in QueueArgs : set_queue(c, s, q)
<1>1. ASSUME IInv, HNext, ~Sets PROVE spoiled' \subseteq spoiled
  <2>1. \A c \in CPU : proc[c] # None => proc[c] \in Slot /\ state[proc[c]] = "RUNNING"
    BY <1>1 DEF IInv, TypeOK, CpuInv
  <2>2. Next /\ Records
    BY <1>1, HistorySteps
  <2>3. \A s \in Slot : state[s] = "RUNNING" => queue'[s] = queue[s]
    <3>1. CASE Run
      <4>1. clock => \A s \in Slot : state[s] = "RUNNING" => queue'[s] = queue[s]
        BY Zenon DEF clock, Aged
      <4>2. \A c \in CPU : dispatch(c) \/ idle(c) \/ yield(c) \/ leave(c, "SLEEPING")
                             \/ leave(c, "UNUSED") => queue' = queue
        BY Zenon DEF dispatch, idle, yield, leave, procVars
      <4>3. \A s \in Slot : wakeup(s) => queue' = queue
        BY DEF wakeup
      <4> QED BY <3>1, <4>1, <4>2, <4>3, Zenon DEF Run
    <3>2. CASE \E c \in CPU : allocproc(c)
      BY <1>1, <3>2 DEF allocproc, IInv, TypeOK
    <3>3. CASE \E s \in Slot : fork(s)
      BY <1>1, <3>3 DEF fork, IInv, TypeOK
    <3> QED BY <1>1, <2>2, <3>1, <3>2, <3>3, Zenon DEF Next, Call
  <2>4. Moved = {}
    BY <2>1, <2>3 DEF Moved
  <2> QED BY <2>2, <2>4 DEF Records
<1>2. UNCHANGED hvars => spoiled' \subseteq spoiled
  BY DEF hvars
<1>3. IInv /\ [HNext]_hvars => [spoiled' \subseteq spoiled \/ Sets]_hvars
  BY <1>1, <1>2
<1> QED BY <1>3, HInvariance, PTL DEF HSpec, hvars, OnlySetQueueSpoils

-----------------------------------------------------------------------------
(* Round robin *)

\* The scan that starts after slot t instead of index meets s before r if it did
\* so before, and t itself last.
LEMMA ScanFrom ==
  ASSUME TypeOK, NEW s \in Slot, NEW t \in Slot, s # t, Ahead(t) <= Ahead(s), index' = t
  PROVE  /\ Ahead(t)' > Ahead(s)'
         /\ \A r \in Slot : Ahead(r) > Ahead(s) => Ahead(r)' > Ahead(s)'
BY MlfqAssumption DEF Ahead, TypeOK, Slot

\* A step that runs nobody from queue 0 changes no turns.
LEMMA TurnFrame == ASSUME TurnInv, Records, Ran = {}, index' = index PROVE TurnInv'
<1>1. \A s \in Slot : Ahead(s)' = Ahead(s)
  BY DEF Ahead
<1>2. ASSUME NEW s \in Slot, s \in Ready(0)', NEW r \in passed'[s]
      PROVE  r \in Slot /\ Ahead(r)' > Ahead(s)'
  <2>1. s \in Ready(0) /\ r \in passed[s]
    BY <1>2 DEF Records
  <2> QED BY <1>1, <2>1 DEF TurnInv
<1> QED BY <1>2 DEF TurnInv, Ready

\* Only scheduler() makes a process RUNNING.
LEMMA NoneRan == ASSUME IInv, Next, \A c \in CPU : ~dispatch(c) PROVE Ran = {} /\ index' = index
<1> DEFINE Stays == \A s \in Slot : state'[s] = "RUNNING" => state[s] = "RUNNING"
<1>1. clock \/ (\E c \in CPU : idle(c)) => Stays /\ index' = index
  BY DEF clock, idle, procVars, cpuVars
<1>2. ASSUME NEW c \in CPU, yield(c) PROVE Stays /\ index' = index
  BY <1>2, YieldStep DEF IInv, TypeOK
<1>3. ASSUME NEW c \in CPU, leave(c, "SLEEPING") \/ leave(c, "UNUSED")
      PROVE  Stays /\ index' = index
  BY <1>3 DEF leave, IInv, TypeOK
<1>4. ASSUME NEW s \in Slot, wakeup(s) \/ fork(s) PROVE Stays /\ index' = index
  BY <1>4 DEF wakeup, fork, cpuVars, IInv, TypeOK
<1>5. ASSUME NEW c \in CPU, allocproc(c) PROVE Stays /\ index' = index
  BY <1>5 DEF allocproc, cpuVars, IInv, TypeOK
<1>6. ASSUME NEW c \in CPU, NEW s \in Slot, NEW q, set_queue(c, s, q)
      PROVE  Stays /\ index' = index
  BY <1>6 DEF set_queue, cpuVars
<1>7. Stays /\ index' = index
  BY <1>1, <1>2, <1>3, <1>4, <1>5, <1>6, Zenon DEF Next, Run, Call
<1> QED BY SMTT(30), <1>7 DEF Ran, Ready

\* scheduler() takes the ready process that comes first in the scan.
LEMMA dispatch_turn == ASSUME IInv, TurnInv, Records, NEW c \in CPU, dispatch(c) PROVE TurnInv'
<1>1. PICK q, t : Dispatches(c, q, t)
  BY SMTT(30), DispatchStep DEF IInv
<1>2. t \in Slot /\ queue[t] = q /\ queue' = queue /\ state' = [state EXCEPT ![t] = "RUNNING"]
  BY <1>1 DEF Dispatches
<1>3. Ran \subseteq {t}
  BY <1>2 DEF Ran, Ready, IInv, TypeOK
<1>4. CASE q # 0
  <2>1. Ran = {} /\ index' = index
    BY SMTT(30), <1>1, <1>2, <1>3, <1>4 DEF Ran, Ready, Dispatches
  <2> QED BY SMTT(30), <2>1, TurnFrame
<1>5. CASE q = 0
  <2>1. index' = t /\ t \in RR_scheduler
    BY <1>1, <1>5 DEF Dispatches, Pick
  <2>2. ASSUME NEW s \in Slot, s \in Ready(0)', NEW r \in passed'[s]
        PROVE  r \in Slot /\ Ahead(r)' > Ahead(s)'
    <3>1. s \in Ready(0) /\ (r \in passed[s] \/ r = t)
      BY SMTT(30), <1>3, <2>2 DEF Records
    <3>2. s # t
      BY <1>2, <2>2 DEF Ready, IInv, TypeOK
    <3>3. Ahead(t) <= Ahead(s)
      BY <2>1, <3>1 DEF RR_scheduler
    <3>4. r \in Slot /\ (r = t \/ Ahead(r) > Ahead(s))
      BY <1>2, <3>1 DEF TurnInv
    <3> QED BY SMTT(30), <1>2, <2>1, <3>2, <3>3, <3>4, ScanFrom DEF IInv
  <2> QED BY <2>2 DEF TurnInv, Ready
<1> QED BY <1>4, <1>5

\* Queue 0 is a round robin whose turns the CPUs share: while a process is ready in
\* queue 0, no other process is run twice from it.
THEOREM TurnsAreTaken == HSpec => RoundRobin
<1> DEFINE Fair == \A r, s \in Slot : r \in passed[s] /\ s \in Ready(0) \cap Ready(0)' =>
                                         ~(r \in Ready(0) /\ state'[r] = "RUNNING")
<1>1. HInit => TurnInv
  BY DEF HInit, TurnInv, Ready
<1>2. ASSUME IInv, TurnInv, HNext PROVE TurnInv'
  BY SMTT(30), <1>2, HistorySteps, NoneRan, TurnFrame, dispatch_turn
<1>3. ASSUME UNCHANGED hvars, TurnInv PROVE TurnInv'
  BY <1>3, HistoryStutters DEF TurnInv, Ready, Ahead
<1>4. ASSUME IInv, TurnInv, HNext PROVE Fair
  <2>1. SUFFICES ASSUME NEW r \in Slot, NEW s \in Slot, r \in passed[s], s \in Ready(0),
                        r \in Ready(0), state'[r] = "RUNNING"
                 PROVE  FALSE
    OBVIOUS
  <2>2. Next /\ Ahead(r) > Ahead(s) /\ r \in Ran
    BY <1>4, <2>1, HistorySteps DEF TurnInv, Ran
  <2>3. PICK c \in CPU : dispatch(c)
    BY <1>4, <2>2, NoneRan
  <2>4. PICK q, t : Dispatches(c, q, t)
    BY <1>4, <2>3, DispatchStep DEF IInv
  <2>5. r = t /\ q = 0 /\ r \in RR_scheduler
    BY <1>4, <2>1, <2>4 DEF Dispatches, Ready, Pick, IInv, TypeOK
  <2>6. Ahead(r) <= Ahead(s)
    BY <2>1, <2>5 DEF RR_scheduler
  <2>7. Ahead(r) \in Int /\ Ahead(s) \in Int
    BY <1>4, MlfqAssumption DEF Ahead, IInv, TypeOK, Slot
  <2> QED BY <2>2, <2>6, <2>7
<1>5. IInv /\ TurnInv /\ [HNext]_hvars => TurnInv' /\ [Fair]_hvars
  BY <1>2, <1>3, <1>4
<1> QED BY <1>1, <1>5, HInvariance, PTL DEF HSpec, hvars, RoundRobin
=============================================================================
