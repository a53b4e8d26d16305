-------------------------------- MODULE Proc --------------------------------
(***************************************************************************)
(* The process table of proc.c: allocation of slots, fork, exit, wait,     *)
(* kill, sleep and wakeup, and the hand-over of ptable.lock across swtch    *)
(* between a process and the scheduler of the CPU it runs on.               *)
(*                                                                          *)
(* Which RUNNABLE process the scheduler picks is left open here (module     *)
(* Mlfq models the choice).  A critical section of ptable.lock that does   *)
(* not reach sched() is one step: the fields it touches are touched by     *)
(* nobody without the lock.  The unlocked writes of allocproc and fork,    *)
(* and everything between taking the lock and swtch, are separate steps.   *)
(***************************************************************************)
EXTENDS Naturals

CONSTANTS CPU,       \* the CPUs that run scheduler()
          NoCPU,     \* "no CPU holds this spinlock"
          NPROC,     \* slots of the process table
          MaxPid,    \* bound: pids handed out in one behaviour
          KillPids   \* arguments user programs pass to kill()

ASSUME ProcAssumption == /\ NoCPU \notin CPU
                         /\ NPROC \in Nat \ {0}
                         /\ MaxPid \in Nat \ {0}
                         /\ KillPids \subseteq Nat

Slot == 1..NPROC
None == 0                \* the null struct proc pointer, the null channel
initproc == 1            \* userinit() takes the first slot
CondChan == NPROC + 1    \* channel of the condition guarded by lk

VARIABLES
  state, pid, parent, chan, killed,   \* fields of struct proc
  kstack,     \* the slot owns a kernel stack
  nextpid,
  plock,      \* the CPU holding ptable.lock
  ctx,        \* whose kernel stack a CPU executes on; None: scheduler's
  intena,     \* cpu->intena
  saved,      \* sched()'s local copy of intena, on the process's stack
  pc,         \* where the process's kernel thread is
  back,       \* where yield() returns to: the code the timer interrupted
  child,      \* fork()'s local np
  lk, cond    \* a spinlock other than ptable.lock and what it guards

tableVars == <<state, pid, parent, chan, killed, kstack, nextpid>>
cpuVars == <<plock, ctx, intena, saved>>
threadVars == <<pc, back, child>>
condVars == <<lk, cond>>
vars == <<tableVars, cpuVars, threadVars, condVars>>

\* Places where a thread is about to call sched(), and where swtch left it.
SchedPoints == {"yield_sched", "sleep_sched", "wait_sched", "exit_sched"}
Resumes == {"forkret", "in_yield", "in_sleep", "in_wait"}
\* Kernel places with no spinlock held, where a timer interrupt may arrive.
Preemptible == {"user", "fork1", "fork2", "fork3", "relock"}
Places == SchedPoints \cup Resumes \cup Preemptible
            \cup {"none", "dead", "scan", "test", "sleep1", "sleep2", "signal"}

Init ==
  /\ state = [s \in Slot |-> IF s = initproc THEN "RUNNABLE" ELSE "UNUSED"]
  /\ pid = [s \in Slot |-> IF s = initproc THEN 1 ELSE 0]
  /\ parent = [s \in Slot |-> None]
  /\ chan = [s \in Slot |-> None]
  /\ killed = [s \in Slot |-> FALSE]
  /\ kstack = [s \in Slot |-> s = initproc]
  /\ nextpid = 2
  /\ plock = NoCPU
  /\ ctx = [c \in CPU |-> None]
  /\ intena = [c \in CPU |-> TRUE]
  /\ saved = [s \in Slot |-> TRUE]
  /\ pc = [s \in Slot |-> IF s = initproc THEN "forkret" ELSE "none"]
  /\ back = [s \in Slot |-> "user"]
  /\ child = [s \in Slot |-> None]
  /\ lk = NoCPU
  /\ cond = FALSE

-----------------------------------------------------------------------------
\* p executes on CPU c and is at place l.
At(c, p, l) == ctx[c] = p /\ pc[p] = l
\* p executes user code and traps; trap() sends a killed process to exit().
Trap(c, p) == At(c, p, "user") /\ ~killed[p]
Goto(p, l) == pc' = [pc EXCEPT ![p] = l]

\* acquire(&ptable.lock), with interrupts on (iflag) or off before.
acquire(c, iflag) == /\ plock = NoCPU
                   /\ plock' = c
                   /\ intena' = [intena EXCEPT ![c] = iflag]
release(c) == plock = c /\ plock' = NoCPU

\* The processes that wakeup1(ch) makes RUNNABLE.
Sleepers(ch) == {q \in Slot : state[q] = "SLEEPING" /\ chan[q] = ch}
wakeup1(ch) == [q \in Slot |-> IF q \in Sleepers(ch) THEN "RUNNABLE" ELSE state[q]]

-----------------------------------------------------------------------------
(* fork() and allocproc() *)

\* allocproc(), the locked part: take the first UNUSED slot and a new pid.
allocproc(c, p) ==
  /\ Trap(c, p) /\ plock = NoCPU /\ nextpid <= MaxPid
  /\ \E s \in Slot :
       /\ state[s] = "UNUSED" /\ \A t \in 1..(s - 1) : state[t] # "UNUSED"
       /\ state' = [state EXCEPT ![s] = "EMBRYO"]
       /\ pid' = [pid EXCEPT ![s] = nextpid]
       /\ child' = [child EXCEPT ![p] = s]
  /\ nextpid' = nextpid + 1
  /\ Goto(p, "fork1")
  /\ UNCHANGED <<parent, chan, killed, kstack, cpuVars, back, condVars>>

\* allocproc(), unlocked: the kernel stack and the context at forkret.
allocproc_kstack(c, p) ==
  /\ At(c, p, "fork1")
  /\ kstack' = [kstack EXCEPT ![child[p]] = TRUE]
  /\ pc' = [pc EXCEPT ![p] = "fork2", ![child[p]] = "forkret"]
  /\ UNCHANGED <<state, pid, parent, chan, killed, nextpid, cpuVars, back, child, condVars>>

\* allocproc(): kalloc() failed, the slot is given back without the lock.
allocproc_fail(c, p) ==
  /\ At(c, p, "fork1")
  /\ state' = [state EXCEPT ![child[p]] = "UNUSED"]
  /\ child' = [child EXCEPT ![p] = None]
  /\ Goto(p, "user")
  /\ UNCHANGED <<pid, parent, chan, killed, kstack, nextpid, cpuVars, back, condVars>>

\* fork(): copyuvm() succeeded; parent is set without the lock.
fork_copy(c, p) ==
  /\ At(c, p, "fork2")
  /\ parent' = [parent EXCEPT ![child[p]] = p]
  /\ Goto(p, "fork3")
  /\ UNCHANGED <<state, pid, chan, killed, kstack, nextpid, cpuVars, back, child, condVars>>

\* fork(): copyuvm() failed; stack and slot are given back without the lock.
fork_fail(c, p) ==
  /\ At(c, p, "fork2")
  /\ kstack' = [kstack EXCEPT ![child[p]] = FALSE]
  /\ state' = [state EXCEPT ![child[p]] = "UNUSED"]
  /\ pc' = [pc EXCEPT ![p] = "user", ![child[p]] = "none"]
  /\ child' = [child EXCEPT ![p] = None]
  /\ UNCHANGED <<pid, parent, chan, killed, nextpid, cpuVars, back, condVars>>

\* fork(): the child becomes RUNNABLE under the lock.
fork_run(c, p) ==
  /\ At(c, p, "fork3") /\ plock = NoCPU
  /\ state' = [state EXCEPT ![child[p]] = "RUNNABLE"]
  /\ child' = [child EXCEPT ![p] = None]
  /\ Goto(p, "user")
  /\ UNCHANGED <<pid, parent, chan, killed, kstack, nextpid, cpuVars, back, condVars>>

fork(c, p) == \/ allocproc(c, p) \/ allocproc_kstack(c, p) \/ allocproc_fail(c, p)
              \/ fork_copy(c, p) \/ fork_fail(c, p) \/ fork_run(c, p)

-----------------------------------------------------------------------------
(* exit(), wait(), kill() *)

\* The sleepers exit() wakes: those on the parent and, when it passes a dead
\* child on to init, those on init.
bug_exit_wakes(p) ==                        \* the parent is not woken
  {q \in Sleepers(initproc) : \E z \in Slot : parent[z] = p /\ state[z] = "ZOMBIE"}
exit_wakes(p) ==
  Sleepers(parent[p])
    \cup {q \in Sleepers(initproc) : \E z \in Slot : parent[z] = p /\ state[z] = "ZOMBIE"}

\* "Pass abandoned children to init."
bug_reparent(p) ==                          \* only the dead ones are passed on
  [q \in Slot |-> IF parent[q] = p /\ state[q] = "ZOMBIE" THEN initproc ELSE parent[q]]
reparent(p) == [q \in Slot |-> IF parent[q] = p THEN initproc ELSE parent[q]]

\* exit(), called by the program or by trap() for a killed process: wake the
\* parent, hand the children to init, become a ZOMBIE, and call sched().
exit(c, p) ==
  /\ At(c, p, "user") /\ p # initproc
  /\ \E iflag \in BOOLEAN : acquire(c, iflag)   \* system call or timer interrupt
  /\ state' = [q \in Slot |-> IF q = p THEN "ZOMBIE"
                               ELSE IF q \in exit_wakes(p) THEN "RUNNABLE" ELSE state[q]]
  /\ parent' = reparent(p)
  /\ Goto(p, "exit_sched")
  /\ UNCHANGED <<pid, chan, killed, kstack, nextpid, ctx, saved, back, child, condVars>>

\* wait(): acquire(&ptable.lock), then the scan loop.
wait_enter(c, p) ==
  /\ Trap(c, p)
  /\ acquire(c, TRUE)
  /\ Goto(p, "scan")
  /\ UNCHANGED <<tableVars, ctx, saved, back, child, condVars>>

Children(p) == {q \in Slot : parent[q] = p}
bug_Zombies(p) == Children(p)               \* p->state is not tested
Zombies(p) == {q \in Children(p) : state[q] = "ZOMBIE"}

\* wait(): free the first exited child and return.
wait_reap(c, p) ==
  /\ At(c, p, "scan")
  /\ \E q \in Zombies(p) :
       /\ \A r \in Zombies(p) : q <= r
       /\ kstack' = [kstack EXCEPT ![q] = FALSE]
       /\ pid' = [pid EXCEPT ![q] = 0]
       /\ parent' = [parent EXCEPT ![q] = None]
       /\ killed' = [killed EXCEPT ![q] = FALSE]
       /\ state' = [state EXCEPT ![q] = "UNUSED"]
       /\ pc' = [pc EXCEPT ![p] = "user", ![q] = "none"]
  /\ release(c)
  /\ UNCHANGED <<chan, nextpid, ctx, intena, saved, back, child, condVars>>

\* wait(): no children, or killed: return -1.
wait_fail(c, p) ==
  /\ At(c, p, "scan") /\ Zombies(p) = {}
  /\ Children(p) = {} \/ killed[p]
  /\ release(c)
  /\ Goto(p, "user")
  /\ UNCHANGED <<tableVars, ctx, intena, saved, back, child, condVars>>

\* wait(): sleep(curproc, &ptable.lock) up to its call of sched().
wait_sleep(c, p) ==
  /\ At(c, p, "scan") /\ Zombies(p) = {}
  /\ Children(p) # {} /\ ~killed[p]
  /\ chan' = [chan EXCEPT ![p] = p]
  /\ state' = [state EXCEPT ![p] = "SLEEPING"]
  /\ Goto(p, "wait_sched")
  /\ UNCHANGED <<pid, parent, killed, kstack, nextpid, cpuVars, back, child, condVars>>

\* sleep() returns to wait() with ptable.lock still held.
wait_resume(c, p) ==
  /\ At(c, p, "in_wait")
  /\ chan' = [chan EXCEPT ![p] = None]
  /\ Goto(p, "scan")
  /\ UNCHANGED <<state, pid, parent, killed, kstack, nextpid, cpuVars, back, child, condVars>>

wait(c, p) == \/ wait_enter(c, p) \/ wait_reap(c, p) \/ wait_fail(c, p)
              \/ wait_sleep(c, p) \/ wait_resume(c, p)

\* kill(k): mark the first slot with pid k, wake it if it sleeps.
bug_kill(c, p, k) ==                        \* p->state is not tested
  /\ Trap(c, p) /\ plock = NoCPU
  /\ \E q \in Slot : /\ pid[q] = k
                     /\ killed' = [killed EXCEPT ![q] = TRUE]
                     /\ state' = [state EXCEPT ![q] = "RUNNABLE"]
  /\ UNCHANGED <<pid, parent, chan, kstack, nextpid, cpuVars, threadVars, condVars>>
bug_kill_asleep(c, p, k) ==                 \* a sleeping process is not woken
  /\ Trap(c, p) /\ plock = NoCPU
  /\ \E q \in Slot : pid[q] = k /\ killed' = [killed EXCEPT ![q] = TRUE]
  /\ UNCHANGED <<state, pid, parent, chan, kstack, nextpid, cpuVars, threadVars, condVars>>
kill(c, p, k) ==
  /\ Trap(c, p) /\ plock = NoCPU
  /\ \E q \in Slot :
       /\ pid[q] = k /\ \A r \in 1..(q - 1) : pid[r] # k
       /\ killed' = [killed EXCEPT ![q] = TRUE]
       /\ state' = IF state[q] = "SLEEPING"
                   THEN [state EXCEPT ![q] = "RUNNABLE"] ELSE state
  /\ UNCHANGED <<pid, parent, chan, kstack, nextpid, cpuVars, threadVars, condVars>>

-----------------------------------------------------------------------------
(* sched(), scheduler(), yield(), forkret() *)

\* sched(): save intena and swtch to the scheduler, which clears c->proc.
AfterSwtch(l) == CASE l = "yield_sched" -> "in_yield"
                   [] l = "sleep_sched" -> "in_sleep"
                   [] l = "wait_sched" -> "in_wait"
                   [] OTHER -> "dead"
sched(c, p) ==
  /\ ctx[c] = p /\ pc[p] \in SchedPoints
  /\ saved' = [saved EXCEPT ![p] = intena[c]]
  /\ ctx' = [ctx EXCEPT ![c] = None]
  /\ Goto(p, AfterSwtch(pc[p]))
  /\ UNCHANGED <<tableVars, plock, intena, back, child, condVars>>

\* scheduler(): sti(); acquire(&ptable.lock).
scheduler_acquire(c) ==
  /\ ctx[c] = None
  /\ acquire(c, TRUE)
  /\ UNCHANGED <<tableVars, ctx, saved, threadVars, condVars>>

\* scheduler(): run a RUNNABLE process; after swtch, sched() restores intena
\* (a new process starts at forkret and has none to restore).
bug_scheduler_mark(c, p) ==                 \* p->state stays RUNNABLE
  /\ ctx[c] = None /\ plock = c /\ state[p] = "RUNNABLE"
  /\ ctx' = [ctx EXCEPT ![c] = p]
  /\ UNCHANGED <<tableVars, plock, intena, saved, threadVars, condVars>>
bug_scheduler_run(c, p) ==                  \* intena is not restored
  /\ ctx[c] = None /\ plock = c /\ state[p] = "RUNNABLE"
  /\ state' = [state EXCEPT ![p] = "RUNNING"]
  /\ ctx' = [ctx EXCEPT ![c] = p]
  /\ UNCHANGED <<pid, parent, chan, killed, kstack, nextpid, plock, intena, saved,
                 threadVars, condVars>>
scheduler_run(c, p) ==
  /\ ctx[c] = None /\ plock = c /\ state[p] = "RUNNABLE"
  /\ state' = [state EXCEPT ![p] = "RUNNING"]
  /\ ctx' = [ctx EXCEPT ![c] = p]
  /\ intena' = IF pc[p] = "forkret" THEN intena
               ELSE [intena EXCEPT ![c] = saved[p]]
  /\ saved' = [saved EXCEPT ![p] = TRUE]      \* out of scope again
  /\ UNCHANGED <<pid, parent, chan, killed, kstack, nextpid, plock, threadVars, condVars>>

\* scheduler(): leave the loop and release(&ptable.lock).
scheduler_release(c) ==
  /\ ctx[c] = None
  /\ release(c)
  /\ UNCHANGED <<tableVars, ctx, intena, saved, threadVars, condVars>>

\* forkret(): release(&ptable.lock) and return to user space.
forkret(c, p) ==
  /\ At(c, p, "forkret")
  /\ release(c)
  /\ Goto(p, "user")
  /\ UNCHANGED <<tableVars, ctx, intena, saved, back, child, condVars>>

\* yield(), called by trap() on a timer interrupt when _should_yield(): the
\* interrupt gate has turned interrupts off, so pushcli records FALSE.
yield(c, p) ==
  /\ ctx[c] = p /\ pc[p] \in Preemptible
  /\ pc[p] = "user" => ~killed[p]
  /\ acquire(c, FALSE)
  /\ state' = [state EXCEPT ![p] = "RUNNABLE"]
  /\ back' = [back EXCEPT ![p] = pc[p]]
  /\ Goto(p, "yield_sched")
  /\ UNCHANGED <<pid, parent, chan, killed, kstack, nextpid, ctx, saved, child, condVars>>

\* yield() after sched(): release(&ptable.lock), return from the interrupt.
yield_return(c, p) ==
  /\ At(c, p, "in_yield")
  /\ release(c)
  /\ Goto(p, back[p])
  /\ back' = [back EXCEPT ![p] = "user"]      \* out of scope again
  /\ UNCHANGED <<tableVars, ctx, intena, saved, child, condVars>>

-----------------------------------------------------------------------------
(* sleep() and wakeup() with a lock of the caller's own: the loop            *)
(*   acquire(lk); while(!cond) { if(killed) return; sleep(chan, lk); } ...   *)
(* of sys_sleep, piperead, pipewrite and consoleread, and the other side     *)
(*   acquire(lk); cond = 1; wakeup(chan); release(lk).                       *)

cond_enter(c, p) ==
  /\ Trap(c, p) /\ lk = NoCPU
  /\ lk' = c
  /\ intena' = [intena EXCEPT ![c] = TRUE]
  /\ Goto(p, "test")
  /\ UNCHANGED <<tableVars, plock, ctx, saved, back, child, cond>>

cond_done(c, p) ==
  /\ At(c, p, "test") /\ (cond \/ killed[p])
  /\ cond' = FALSE
  /\ lk' = NoCPU
  /\ Goto(p, "user")
  /\ UNCHANGED <<tableVars, cpuVars, back, child>>

\* sleep(): acquire(&ptable.lock) while still holding lk ...
bug_sleep_acquire(c, p) ==                  \* lk is released before ptable.lock is held
  /\ At(c, p, "test") /\ ~cond /\ ~killed[p]
  /\ lk' = NoCPU
  /\ Goto(p, "sleep2")
  /\ UNCHANGED <<tableVars, cpuVars, back, child, cond>>
sleep_acquire(c, p) ==
  /\ At(c, p, "test") /\ ~cond /\ ~killed[p] /\ plock = NoCPU
  /\ plock' = c          \* ncli is already 1: pushcli leaves intena alone
  /\ Goto(p, "sleep1")
  /\ UNCHANGED <<tableVars, ctx, intena, saved, back, child, condVars>>

\* ... then release(lk) ...
bug_sleep_release(c, p) ==                  \* lk is not released
  At(c, p, "sleep1") /\ Goto(p, "sleep2") /\ UNCHANGED <<tableVars, cpuVars, back, child, condVars>>
sleep_release(c, p) ==
  /\ At(c, p, "sleep1")
  /\ lk' = NoCPU
  /\ Goto(p, "sleep2")
  /\ UNCHANGED <<tableVars, cpuVars, back, child, cond>>

\* ... and go to sleep.
sleep_mark(c, p) ==
  /\ At(c, p, "sleep2")
  /\ chan' = [chan EXCEPT ![p] = CondChan]
  /\ state' = [state EXCEPT ![p] = "SLEEPING"]
  /\ Goto(p, "sleep_sched")
  /\ UNCHANGED <<pid, parent, killed, kstack, nextpid, cpuVars, back, child, condVars>>

\* sleep() after sched(): tidy up, release(&ptable.lock) ...
sleep_resume(c, p) ==
  /\ At(c, p, "in_sleep")
  /\ chan' = [chan EXCEPT ![p] = None]
  /\ release(c)
  /\ Goto(p, "relock")
  /\ UNCHANGED <<state, pid, parent, killed, kstack, nextpid, ctx, intena, saved,
                 back, child, condVars>>

\* ... and acquire(lk), back to the caller's loop.
sleep_relock(c, p) ==
  /\ At(c, p, "relock") /\ lk = NoCPU
  /\ lk' = c
  /\ intena' = [intena EXCEPT ![c] = TRUE]
  /\ Goto(p, "test")
  /\ UNCHANGED <<tableVars, plock, ctx, saved, back, child, cond>>

sleep(c, p) == \/ sleep_acquire(c, p) \/ sleep_release(c, p) \/ sleep_mark(c, p)
               \/ sleep_resume(c, p) \/ sleep_relock(c, p)

signal(c, p) ==
  /\ Trap(c, p) /\ lk = NoCPU
  /\ lk' = c
  /\ intena' = [intena EXCEPT ![c] = TRUE]
  /\ cond' = TRUE
  /\ Goto(p, "signal")
  /\ UNCHANGED <<tableVars, plock, ctx, saved, back, child>>

\* wakeup(chan) under ptable.lock, then release(lk).
wakeup(c, p) ==
  /\ At(c, p, "signal") /\ plock = NoCPU
  /\ state' = wakeup1(CondChan)
  /\ lk' = NoCPU
  /\ Goto(p, "user")
  /\ UNCHANGED <<pid, parent, chan, killed, kstack, nextpid, cpuVars, back, child, cond>>

-----------------------------------------------------------------------------
process(c, p) ==
  \/ fork(c, p) \/ exit(c, p) \/ wait(c, p) \/ \E k \in KillPids : kill(c, p, k)
  \/ sched(c, p) \/ forkret(c, p) \/ yield(c, p) \/ yield_return(c, p)
  \/ cond_enter(c, p) \/ cond_done(c, p) \/ sleep(c, p)
  \/ signal(c, p) \/ wakeup(c, p)

scheduler(c) == scheduler_acquire(c) \/ scheduler_release(c)
                  \/ \E p \in Slot : scheduler_run(c, p)

Next == \E c \in CPU : scheduler(c) \/ \E p \in Slot : process(c, p)

Spec == Init /\ [][Next]_vars

\* What p does in the kernel with ptable.lock or lk held, interrupts off ...
locked(c, p) == \/ wait_reap(c, p) \/ wait_fail(c, p) \/ wait_sleep(c, p) \/ wait_resume(c, p)
                \/ sched(c, p) \/ forkret(c, p) \/ yield_return(c, p)
                \/ cond_done(c, p) \/ sleep_release(c, p) \/ sleep_mark(c, p) \/ sleep_resume(c, p)
\* ... and what it does in the kernel preemptibly, or spinning on a lock.
unlocked(c, p) == /\ pc[p] # "user"
                  /\ \/ fork(c, p) \/ sleep_acquire(c, p) \/ sleep_relock(c, p) \/ wakeup(c, p)

(***************************************************************************)
(* Fairness.  A CPU proceeds with the code it is in and is not kept off a   *)
(* lock for ever.  Preemptible kernel code proceeds in the end: the timer   *)
(* does not hit the same instruction each time.  The timer interrupts the   *)
(* user code of every CPU again and again, and every process that is        *)
(* RUNNABLE is dispatched (module Mlfq).  init calls wait() in a loop       *)
(* (init.c); nothing is assumed of what other user programs do.             *)
(***************************************************************************)
Fairness ==
  /\ \A c \in CPU :
       /\ WF_vars(\E p \in Slot : locked(c, p))
       /\ WF_vars(scheduler_acquire(c)) /\ WF_vars(scheduler_release(c))
       /\ SF_vars(\E p \in Slot : pc[p] = "user" /\ yield(c, p))
  /\ \A p \in Slot :
       /\ SF_vars(\E c \in CPU : unlocked(c, p))
       /\ SF_vars(\E c \in CPU : scheduler_run(c, p))
       /\ WF_vars(\E c \in CPU : killed[p] /\ exit(c, p))
  /\ SF_vars(\E c \in CPU : wait_enter(c, initproc))

FairSpec == Spec /\ Fairness

-----------------------------------------------------------------------------
(* Properties *)

\* Every variable has its type.
TypeOK ==
  /\ state \in [Slot -> {"UNUSED", "EMBRYO", "SLEEPING", "RUNNABLE", "RUNNING", "ZOMBIE"}]
  /\ pid \in [Slot -> Nat] /\ nextpid \in Nat
  /\ parent \in [Slot -> Slot \cup {None}] /\ child \in [Slot -> Slot \cup {None}]
  /\ chan \in [Slot -> 0..CondChan]
  /\ killed \in [Slot -> BOOLEAN] /\ kstack \in [Slot -> BOOLEAN]
  /\ plock \in CPU \cup {NoCPU} /\ lk \in CPU \cup {NoCPU}
  /\ ctx \in [CPU -> Slot \cup {None}]
  /\ intena \in [CPU -> BOOLEAN] /\ saved \in [Slot -> BOOLEAN]
  /\ pc \in [Slot -> Places] /\ back \in [Slot -> Preemptible]
  /\ cond \in BOOLEAN

\* A kernel stack is never used by two CPUs: while yield(), sleep() or exit()
\* still run on it after changing p->state, ptable.lock keeps every scheduler
\* from dispatching the process.
StackExclusive == \A c, d \in CPU : ctx[c] = ctx[d] /\ ctx[c] # None => c = d

\* No CPU executes on a kernel stack that wait() or a failed fork() has freed,
\* and no RUNNABLE process lacks one (switchuvm() would panic).
StackAlive == /\ \A c \in CPU : ctx[c] # None => kstack[ctx[c]]
              /\ \A p \in Slot : state[p] = "RUNNABLE" => kstack[p]

\* None of the panics of sched() fires: its caller holds ptable.lock, holds no
\* other spinlock on this CPU, and has left state RUNNING.
NoSchedPanic == \A c \in CPU : \A p \in Slot :
  ctx[c] = p /\ pc[p] \in SchedPoints => plock = c /\ lk # c /\ state[p] # "RUNNING"

\* Interrupts come back as the thread had them: intena on the CPU that resumes
\* a thread is what the thread's own acquire() recorded, whichever threads ran
\* in between (off inside the timer interrupt, on in a system call).
IntenaIsThreads == \A c \in CPU : \A p \in Slot : ctx[c] = p =>
  /\ pc[p] = "in_yield" => ~intena[c]
  /\ pc[p] \in {"in_sleep", "in_wait", "scan"} => intena[c]

\* sleep() misses no wakeup: a process sleeps on the condition's channel while
\* the condition holds only if the signaller is about to call wakeup(), and one
\* asleep in wait() has no ZOMBIE child.
NoLostWakeup == \A p \in Slot : state[p] = "SLEEPING" =>
  /\ chan[p] = CondChan /\ cond => \E c \in CPU, q \in Slot : At(c, q, "signal")
  /\ chan[p] = p => Zombies(p) = {}

\* Every process but init has a parent that can still wait() for it: exit()
\* hands children to init before the slot can be reused.
ParentAlive == \A p \in Slot :
  state[p] \notin {"UNUSED", "EMBRYO"} /\ p # initproc
    => parent[p] # None /\ state[parent[p]] \notin {"UNUSED", "EMBRYO", "ZOMBIE"}

\* "Kill the process with the given pid": a slot that holds no process carries
\* no pending kill, which allocproc() would pass on to the slot's next process.
KillHitsProcess == \A p \in Slot : state[p] = "UNUSED" => ~killed[p]

\* A slot's life follows the protocol: it is reused only after wait() or a
\* failed fork() freed it, only a running process becomes a ZOMBIE, and only
\* RUNNABLE processes start to run.
LifeStep == \A p \in Slot :
  \/ state'[p] = state[p]
  \/ state[p] = "UNUSED" /\ state'[p] = "EMBRYO"
  \/ state[p] = "EMBRYO" /\ state'[p] \in {"UNUSED", "RUNNABLE"}
  \/ state[p] = "RUNNABLE" /\ state'[p] = "RUNNING"
  \/ state[p] = "RUNNING" /\ state'[p] \in {"RUNNABLE", "SLEEPING", "ZOMBIE"}
  \/ state[p] = "SLEEPING" /\ state'[p] = "RUNNABLE"
  \/ state[p] = "ZOMBIE" /\ state'[p] = "UNUSED"
LifeCycle == [][LifeStep]_vars

\* A zombie whose parent is init is freed: init is woken for it and finds it,
\* also when the parent exits after the child, or both exit at once (as long
\* as init is not blocked for ever on a condition of its own).
OrphansReaped == \A p \in Slot \ {initproc} :
  []<>(pc[initproc] \in {"user", "in_wait"}) =>
    ((state[p] = "ZOMBIE" /\ parent[p] = initproc) ~> (state[p] = "UNUSED"))

\* A killed process exits, wherever in the kernel kill() finds it: running,
\* preempted, asleep in wait() or in a sleep loop that tests p->killed.
KilledExits == \A p \in Slot \ {initproc} :
  (killed[p] /\ state[p] \in {"SLEEPING", "RUNNABLE", "RUNNING"})
    ~> (state[p] \in {"ZOMBIE", "UNUSED"})
=============================================================================
