-------------------------- MODULE ProcSleepProofs ---------------------------
(***************************************************************************)
(* The proofs, for any number of CPUs and slots, that every process has a  *)
(* parent that can wait() for it, that a thread sched() resumes finds its  *)
(* interrupt flag again, and that neither wait() nor sleep() misses who    *)
(* wakes it.                                                               *)
(***************************************************************************)
EXTENDS ProcProofs

(* Parents, and who sleeps in wait() *)

\* A process asleep in wait() has no ZOMBIE child, and nobody is its own child.
WaitInv ==
  /\ \A p, q \in Slot : state[p] = "SLEEPING" /\ chan[p] = p /\ parent[q] = p => state[q] # "ZOMBIE"
  /\ \A p \in Slot : p # initproc => parent[p] # p

\* Parents are alive, init for ever, and fork() has named itself the parent of its child
\* before the child can run.
Alive(p) == state[p] \notin {"UNUSED", "EMBRYO", "ZOMBIE"}
FamilyInv ==
  /\ Alive(initproc)
  /\ \A p \in Slot : state[p] \notin {"UNUSED", "EMBRYO"} /\ p # initproc =>
       parent[p] \in Slot /\ Alive(parent[p])
  /\ \A p \in Slot : Loc(p) = "fork3" => parent[child[p]] = p

\* A step that starts no process, kills none and names no new parent.
FamilyKept ==
  /\ \A q \in Slot : state'[q] \notin {"UNUSED", "EMBRYO"} =>
       state[q] \notin {"UNUSED", "EMBRYO"} /\ parent'[q] = parent[q]
  /\ \A q \in Slot : Alive(q) => Alive(q)'
  /\ \A q \in Slot : Loc(q)' = "fork3" =>
       Loc(q) = "fork3" /\ child'[q] = child[q] /\ parent'[child[q]] = parent[child[q]]

\* Such a step keeps FamilyInv.
LEMMA FamilyFrame ==
  ASSUME FamilyInv, FamilyKept PROVE FamilyInv'
<1>1. initproc \in Slot
  BY ProcAssumption DEF initproc, Slot
<1> QED BY <1>1 DEF FamilyInv, FamilyKept

\* The child of a fork() that has not returned is an EMBRYO, so it is in Slot.
LEMMA Fork3Child ==
  ASSUME IInv, NEW q \in Slot, Loc(q) = "fork3"
  PROVE  child[q] \in Slot /\ state[child[q]] = "EMBRYO"
BY DEF IInv, TypeOK, ChildOwned, Forking

\* fork() names itself the parent while the child is an EMBRYO.
LEMMA FamilyCopy ==
  ASSUME IInv, FamilyInv, NEW c \in CPU, NEW p \in Slot, fork_copy(c, p) PROVE FamilyInv'
<1>0. /\ state' = state /\ child' = child /\ back' = back
      /\ parent' = [parent EXCEPT ![child[p]] = p] /\ pc' = [pc EXCEPT ![p] = "fork3"]
      /\ ctx[c] = p /\ pc[p] = "fork2"
  BY DEF fork_copy, At, Goto
<1>1. /\ child[p] \in Slot /\ state[child[p]] = "EMBRYO"
      /\ \A q \in Slot : child[q] = child[p] => q = p
  BY <1>0, ForkChild DEF Forking
<1>2. \A q \in Slot : parent'[q] = IF q = child[p] THEN p ELSE parent[q]
  BY <1>0 DEF IInv, TypeOK
<1>3. Alive(initproc)' /\ \A q \in Slot : state'[q] \notin {"UNUSED", "EMBRYO"} /\ q # initproc =>
        parent'[q] \in Slot /\ Alive(parent[q])' /\ parent'[q] = parent[q]
  BY <1>0, <1>1, <1>2 DEF FamilyInv, Alive
<1>4. ASSUME NEW q \in Slot, Loc(q)' = "fork3" PROVE parent'[child'[q]] = q
  <2>1. CASE q = p
    BY <1>0, <1>1, <1>2, <2>1
  <2>2. CASE q # p
    <3>1. Loc(q) = "fork3"
      BY <1>0, <1>4, <2>2 DEF Loc, IInv, TypeOK
    <3>2. child[q] \in Slot /\ child[q] # child[p]
      BY <1>1, <2>2, <3>1, Fork3Child
    <3> QED BY <1>0, <1>2, <3>1, <3>2 DEF FamilyInv
  <2> QED BY <2>1, <2>2
<1> QED BY <1>3, <1>4 DEF FamilyInv, Alive

\* The child fork() makes RUNNABLE has a running parent.
LEMMA FamilyRun ==
  ASSUME IInv, FamilyInv, NEW c \in CPU, NEW p \in Slot, fork_run(c, p) PROVE FamilyInv'
<1>0. /\ parent' = parent /\ back' = back /\ ctx[c] = p /\ pc[p] = "fork3"
      /\ state' = [state EXCEPT ![child[p]] = "RUNNABLE"]
      /\ child' = [child EXCEPT ![p] = None] /\ pc' = [pc EXCEPT ![p] = "user"]
  BY DEF fork_run, At, Goto
<1>1. child[p] \in Slot /\ state[child[p]] = "EMBRYO"
  BY <1>0, ForkChild DEF Forking
<1>2. parent[child[p]] = p
  BY <1>0 DEF FamilyInv, Loc
<1>3. state[p] = "RUNNING"
  BY <1>0 DEF IInv, OnCpu, SchedPoints
<1>4. \A q \in Slot : state'[q] = IF q = child[p] THEN "RUNNABLE" ELSE state[q]
  BY <1>0 DEF IInv, TypeOK
<1>5. initproc \in Slot
  BY ProcAssumption DEF initproc, Slot
<1>6. \A q \in Slot : Alive(q) => Alive(q)'
  BY <1>4 DEF Alive
<1>7. \A q \in Slot : state'[q] \notin {"UNUSED", "EMBRYO"} /\ q # initproc =>
        parent'[q] \in Slot /\ Alive(parent[q])
  BY <1>0, <1>2, <1>3, <1>4 DEF FamilyInv, Alive
<1>8. ASSUME NEW q \in Slot, Loc(q)' = "fork3" PROVE parent'[child'[q]] = q
  <2>1. q # p /\ Loc(q) = "fork3"
    BY <1>0, <1>8 DEF Loc, IInv, TypeOK
  <2> QED BY <1>0, <2>1 DEF FamilyInv, IInv, TypeOK
<1> QED BY <1>0, <1>5, <1>6, <1>7, <1>8 DEF FamilyInv

\* exit() leaves its children to init, which is alive.
LEMMA FamilyExit ==
  ASSUME IInv, FamilyInv, NEW c \in CPU, NEW p \in Slot, exit(c, p) PROVE FamilyInv'
<1>0. /\ p # initproc /\ child' = child /\ back' = back /\ ctx[c] = p /\ pc[p] = "user"
      /\ pc' = [pc EXCEPT ![p] = "exit_sched"]
      /\ \A q \in Slot : parent'[q] = IF parent[q] = p THEN initproc ELSE parent[q]
      /\ \A q \in Slot : state'[q] = IF q = p THEN "ZOMBIE"
                                     ELSE IF q \in exit_wakes(p) THEN "RUNNABLE" ELSE state[q]
  BY DEF exit, reparent, At, Goto
<1>1. initproc \in Slot
  BY ProcAssumption DEF initproc, Slot
<1>2. \A q \in exit_wakes(p) : state[q] = "SLEEPING"
  BY DEF exit_wakes, Sleepers
<1>3. \A q \in Slot : q # p /\ Alive(q) => Alive(q)'
  BY <1>0 DEF Alive
<1>4. state[p] = "RUNNING"
  BY <1>0 DEF IInv, OnCpu, SchedPoints
<1>5. \A q \in Slot : state'[q] \notin {"UNUSED", "EMBRYO"} => state[q] \notin {"UNUSED", "EMBRYO"}
  BY <1>0, <1>2, <1>4
<1>6. ASSUME NEW q \in Slot, state'[q] \notin {"UNUSED", "EMBRYO"}, q # initproc
      PROVE  parent'[q] \in Slot /\ Alive(parent[q])'
  <2>1. CASE parent[q] = p
    BY <1>0, <1>1, <1>3, <2>1 DEF FamilyInv
  <2>2. CASE parent[q] # p
    BY <1>0, <1>3, <1>5, <1>6, <2>2 DEF FamilyInv
  <2> QED BY <2>1, <2>2
<1>7. ASSUME NEW q \in Slot, Loc(q)' = "fork3" PROVE parent'[child'[q]] = q
  <2>1. q # p /\ Loc(q) = "fork3"
    BY <1>0, <1>7 DEF Loc, IInv, TypeOK
  <2> QED BY <1>0, <2>1, Fork3Child DEF FamilyInv
<1>8. Alive(initproc)'
  BY <1>0, <1>1, <1>3 DEF FamilyInv
<1> QED BY <1>6, <1>7, <1>8 DEF FamilyInv

\* Every step keeps FamilyInv.
LEMMA FamilyStep == IInv /\ FamilyInv /\ [Next]_vars => FamilyInv'
<1> SUFFICES ASSUME IInv, FamilyInv, [Next]_vars PROVE FamilyInv'
  OBVIOUS
<1> USE DEF At, Trap, Goto, acquire, release, tableVars, cpuVars, threadVars, condVars
<1>1. CASE UNCHANGED vars
  BY <1>1, Zenon DEF vars, FamilyInv, Alive, Loc
<1>2. ASSUME NEW c \in CPU, scheduler(c) PROVE FamilyInv'
  <2>1. CASE scheduler_acquire(c)
    BY <2>1, Zenon DEF scheduler_acquire, FamilyInv, Alive, Loc
  <2>2. CASE scheduler_release(c)
    BY <2>2, Zenon DEF scheduler_release, FamilyInv, Alive, Loc
  <2>3. ASSUME NEW p \in Slot, scheduler_run(c, p) PROVE FamilyKept
    BY <2>3 DEF scheduler_run, FamilyKept, Alive, Loc, IInv, TypeOK
  <2> QED BY <1>2, <2>1, <2>2, <2>3, FamilyFrame DEF scheduler
<1>3. ASSUME NEW c \in CPU, NEW p \in Slot, process(c, p) PROVE FamilyInv'
  <2>1. ASSUME allocproc(c, p) PROVE FamilyKept
    BY SMTT(60), <2>1 DEF allocproc, FamilyKept, Alive, Loc, IInv, TypeOK
  <2>2. ASSUME allocproc_kstack(c, p) PROVE FamilyKept
    BY SMTT(90), <2>2, ForkChild DEF allocproc_kstack, Forking, FamilyKept, Alive, Loc, IInv,
       TypeOK
  <2>3. ASSUME allocproc_fail(c, p) PROVE FamilyKept
    BY SMTT(90), <2>3, ForkChild DEF allocproc_fail, Forking, FamilyKept, Alive, Loc, IInv,
       TypeOK
  <2>4. ASSUME fork_fail(c, p) PROVE FamilyKept
    BY SMTT(90), ZenonT(90), <2>4, ForkChild DEF fork_fail, Forking, FamilyKept, Alive, Loc,
       IInv, TypeOK
  <2>5. ASSUME sched(c, p) PROVE FamilyKept
    BY <2>5 DEF sched, AfterSwtch, SchedPoints, FamilyKept, Alive, Loc, IInv, TypeOK
  <2>6. ASSUME forkret(c, p) PROVE FamilyKept
    BY <2>6 DEF forkret, FamilyKept, Alive, Loc, IInv, TypeOK
  <2>7. ASSUME yield(c, p) PROVE FamilyKept
    BY SMTT(90), <2>7 DEF yield, FamilyKept, Alive, Loc, IInv, TypeOK, OnCpu, SchedPoints,
       Preemptible
  <2>8. ASSUME yield_return(c, p) PROVE FamilyKept
    BY <2>8 DEF yield_return, FamilyKept, Alive, Loc, IInv, TypeOK, Preemptible
  <2>9. ASSUME wait_enter(c, p) PROVE FamilyKept
    BY SMTT(90), <2>9 DEF wait_enter, FamilyKept, Alive, Loc, IInv, TypeOK
  <2>10. ASSUME wait_reap(c, p) PROVE FamilyKept
    BY SMTT(90), ZenonT(90), <2>10, Fork3Child DEF wait_reap, Zombies, Children, FamilyKept,
       Alive, Loc, IInv, TypeOK
  <2>11. ASSUME wait_fail(c, p) PROVE FamilyKept
    BY <2>11 DEF wait_fail, FamilyKept, Alive, Loc, IInv, TypeOK
  <2>12. ASSUME wait_sleep(c, p) PROVE FamilyKept
    BY <2>12 DEF wait_sleep, FamilyKept, Alive, Loc, IInv, TypeOK, OnCpu, SchedPoints
  <2>13. ASSUME wait_resume(c, p) PROVE FamilyKept
    BY <2>13 DEF wait_resume, FamilyKept, Alive, Loc, IInv, TypeOK
  <2>14. ASSUME NEW k \in KillPids, kill(c, p, k) PROVE FamilyKept
    BY <2>14 DEF kill, FamilyKept, Alive, Loc, IInv, TypeOK
  <2>15. ASSUME sleep_acquire(c, p) PROVE FamilyKept
    BY <2>15 DEF sleep_acquire, FamilyKept, Alive, Loc, IInv, TypeOK
  <2>16. ASSUME sleep_release(c, p) PROVE FamilyKept
    BY SMTT(90), <2>16 DEF sleep_release, FamilyKept, Alive, Loc, IInv, TypeOK
  <2>17. ASSUME sleep_mark(c, p) PROVE FamilyKept
    BY SMTT(40), <2>17 DEF sleep_mark, FamilyKept, Alive, Loc, IInv, TypeOK, OnCpu, SchedPoints
  <2>18. ASSUME sleep_resume(c, p) PROVE FamilyKept
    BY <2>18 DEF sleep_resume, FamilyKept, Alive, Loc, IInv, TypeOK
  <2>19. ASSUME sleep_relock(c, p) PROVE FamilyKept
    BY <2>19 DEF sleep_relock, FamilyKept, Alive, Loc, IInv, TypeOK
  <2>20. ASSUME cond_enter(c, p) PROVE FamilyKept
    BY <2>20 DEF cond_enter, FamilyKept, Alive, Loc, IInv, TypeOK
  <2>21. ASSUME cond_done(c, p) PROVE FamilyKept
    BY <2>21 DEF cond_done, FamilyKept, Alive, Loc, IInv, TypeOK
  <2>22. ASSUME signal(c, p) PROVE FamilyKept
    BY SMTT(40), <2>22 DEF signal, FamilyKept, Alive, Loc, IInv, TypeOK
  <2>23. ASSUME wakeup(c, p) PROVE FamilyKept
    BY <2>23 DEF wakeup, wakeup1, Sleepers, FamilyKept, Alive, Loc, IInv, TypeOK
  <2> QED BY SMTT(90), <1>3, <2>1, <2>2, <2>3, <2>4, <2>5, <2>6, <2>7, <2>8, <2>9, <2>10, <2>11,
     <2>12, <2>13, <2>14, <2>15, <2>16, <2>17, <2>18, <2>19, <2>20, <2>21, <2>22, <2>23,
     FamilyFrame, FamilyCopy, FamilyRun, FamilyExit DEF process, fork, wait, sleep
<1> QED BY <1>1, <1>2, <1>3 DEF Next

\* Every process but init has, for ever, a parent that is alive and can wait() for it: init
\* never exits, and exit() leaves no process behind with a dead parent.
THEOREM ParentsStayAlive == Spec => []ParentAlive
<1>1. Init => FamilyInv
  BY ProcAssumption DEF Init, FamilyInv, Alive, Loc, Slot, initproc
<1>2. FamilyInv => ParentAlive
  BY DEF FamilyInv, ParentAlive, Alive, Slot, None
<1> QED BY <1>1, <1>2, FamilyStep, Invariance, PTL DEF Spec

\* A step that makes no ZOMBIE, moves no ZOMBIE to another parent and lets nobody with a
\* ZOMBIE fall asleep in wait().
WaitKept ==
  /\ \A q \in Slot : state'[q] = "ZOMBIE" => state[q] = "ZOMBIE" /\ parent'[q] = parent[q]
  /\ \A q \in Slot : state'[q] = "SLEEPING" /\ chan'[q] = q =>
       (state[q] = "SLEEPING" /\ chan[q] = q) \/ Zombies(q) = {}
  /\ \A q \in Slot : q # initproc /\ parent'[q] = q => parent[q] = q

\* Such a step keeps WaitInv.
LEMMA WaitFrame ==
  ASSUME WaitInv, WaitKept PROVE WaitInv'
BY DEF WaitInv, WaitKept, Zombies, Children

\* exit() keeps WaitInv: it wakes its parent, and init when init inherits a ZOMBIE.
LEMMA WaitExit ==
  ASSUME IInv, WaitInv, NEW c \in CPU, NEW p \in Slot, exit(c, p) PROVE WaitInv'
<1>0. /\ p # initproc /\ chan' = chan /\ parent[p] # p
      /\ \A q \in Slot : parent'[q] = IF parent[q] = p THEN initproc ELSE parent[q]
      /\ \A q \in Slot : state'[q] = IF q = p THEN "ZOMBIE"
                                     ELSE IF q \in exit_wakes(p) THEN "RUNNABLE" ELSE state[q]
  BY DEF exit, reparent, WaitInv
<1>1. ASSUME NEW s \in Slot, NEW q \in Slot, state'[s] = "SLEEPING", chan'[s] = s, parent'[q] = s,
             state'[q] = "ZOMBIE"
      PROVE  FALSE
  <2>1. s # p /\ state[s] = "SLEEPING" /\ chan[s] = s /\ s \notin exit_wakes(p)
    BY <1>0, <1>1
  <2>2. CASE q = p
    BY <1>0, <1>1, <2>1, <2>2 DEF exit_wakes, Sleepers
  <2>3. CASE q # p
    <3>1. state[q] = "ZOMBIE"
      BY <1>0, <1>1, <2>3
    <3>2. CASE parent[q] = p
      BY <1>0, <1>1, <2>1, <3>1, <3>2 DEF exit_wakes, Sleepers
    <3>3. CASE parent[q] # p
      BY <1>0, <1>1, <2>1, <3>1, <3>3 DEF WaitInv
    <3> QED BY <3>2, <3>3
  <2> QED BY <2>2, <2>3
<1>2. \A q \in Slot : q # initproc => parent'[q] # q
  BY <1>0 DEF WaitInv
<1> QED BY SMTT(40), <1>1, <1>2 DEF WaitInv

\* Every step keeps WaitInv.
LEMMA WaitStep == IInv /\ WaitInv /\ [Next]_vars => WaitInv'
<1> SUFFICES ASSUME IInv, WaitInv, [Next]_vars PROVE WaitInv'
  OBVIOUS
<1> USE DEF At, Trap, Goto, acquire, release, tableVars, cpuVars, threadVars, condVars
<1>0. ASSUME UNCHANGED <<state, parent, chan>> PROVE WaitInv'
  BY <1>0, Zenon DEF WaitInv
<1>1. CASE UNCHANGED vars
  BY <1>0, <1>1 DEF vars
<1>2. ASSUME NEW c \in CPU, scheduler(c) PROVE WaitInv'
  <2>1. CASE scheduler_acquire(c) \/ scheduler_release(c)
    BY <1>0, <2>1 DEF scheduler_acquire, scheduler_release
  <2>2. ASSUME NEW p \in Slot, scheduler_run(c, p) PROVE WaitKept
    BY <2>2 DEF scheduler_run, WaitKept, IInv, TypeOK
  <2> QED BY <1>2, <2>1, <2>2, WaitFrame DEF scheduler
<1>3. ASSUME NEW c \in CPU, NEW p \in Slot, process(c, p) PROVE WaitInv'
  <2>1. ASSUME allocproc(c, p) PROVE WaitKept
    BY SMTT(60), <2>1 DEF allocproc, WaitKept, IInv, TypeOK
  <2>2. ASSUME allocproc_fail(c, p) PROVE WaitKept
    BY SMTT(60), <2>2 DEF allocproc_fail, WaitKept, IInv, TypeOK
  <2>3. ASSUME fork_copy(c, p) PROVE WaitKept
    BY SMTT(90), ZenonT(90), <2>3, ForkChild DEF fork_copy, Forking, WaitKept, IInv, TypeOK
  <2>4. ASSUME fork_fail(c, p) PROVE WaitKept
    BY SMTT(90), <2>4 DEF fork_fail, WaitKept, IInv, TypeOK
  <2>5. ASSUME fork_run(c, p) PROVE WaitKept
    BY <2>5 DEF fork_run, WaitKept, IInv, TypeOK
  <2>6. ASSUME yield(c, p) PROVE WaitKept
    BY SMTT(90), <2>6 DEF yield, WaitKept, IInv, TypeOK
  <2>7. ASSUME wait_reap(c, p) PROVE WaitKept
    BY SMTT(90), ZenonT(90), <2>7, Channels DEF wait_reap, WaitKept, Zombies, Children, IInv,
       TypeOK
  <2>8. ASSUME wait_sleep(c, p) PROVE WaitKept
    BY <2>8 DEF wait_sleep, WaitKept, IInv, TypeOK
  <2>9. ASSUME wait_resume(c, p) PROVE WaitKept
    BY SMTT(90), <2>9, Channels DEF wait_resume, WaitKept, IInv, TypeOK
  <2>10. ASSUME NEW k \in KillPids, kill(c, p, k) PROVE WaitKept
    BY <2>10 DEF kill, WaitKept, IInv, TypeOK
  <2>11. ASSUME sleep_mark(c, p) PROVE WaitKept
    BY SMTT(90), <2>11, Channels DEF sleep_mark, WaitKept, IInv, TypeOK
  <2>12. ASSUME sleep_resume(c, p) PROVE WaitKept
    BY SMTT(90), <2>12, Channels DEF sleep_resume, WaitKept, IInv, TypeOK
  <2>13. ASSUME wakeup(c, p) PROVE WaitKept
    BY SMTT(90), <2>13 DEF wakeup, wakeup1, Sleepers, WaitKept, IInv, TypeOK
  <2>14. ASSUME allocproc_kstack(c, p) PROVE WaitInv'
    BY <1>0, <2>14 DEF allocproc_kstack
  <2>15. ASSUME sched(c, p) PROVE WaitInv'
    BY <1>0, <2>15 DEF sched
  <2>16. ASSUME forkret(c, p) PROVE WaitInv'
    BY <1>0, <2>16 DEF forkret
  <2>17. ASSUME yield_return(c, p) PROVE WaitInv'
    BY <1>0, <2>17 DEF yield_return
  <2>18. ASSUME wait_enter(c, p) PROVE WaitInv'
    BY <1>0, <2>18 DEF wait_enter
  <2>19. ASSUME wait_fail(c, p) PROVE WaitInv'
    BY <1>0, <2>19 DEF wait_fail
  <2>20. ASSUME sleep_acquire(c, p) PROVE WaitInv'
    BY <1>0, <2>20 DEF sleep_acquire
  <2>21. ASSUME sleep_release(c, p) PROVE WaitInv'
    BY <1>0, <2>21 DEF sleep_release
  <2>22. ASSUME sleep_relock(c, p) PROVE WaitInv'
    BY <1>0, <2>22 DEF sleep_relock
  <2>23. ASSUME cond_enter(c, p) PROVE WaitInv'
    BY <1>0, <2>23 DEF cond_enter
  <2>24. ASSUME cond_done(c, p) PROVE WaitInv'
    BY <1>0, <2>24 DEF cond_done
  <2>25. ASSUME signal(c, p) PROVE WaitInv'
    BY <1>0, <2>25 DEF signal
  <2>26. CASE fork(c, p) \/ wait(c, p)
    BY SMTT(90), <2>26, <2>1, <2>2, <2>3, <2>4, <2>5, <2>7, <2>8, <2>9, <2>14, <2>18, <2>19,
       WaitFrame DEF fork, wait
  <2>27. CASE sleep(c, p)
    BY SMTT(90), <2>27, <2>11, <2>12, <2>20, <2>21, <2>22, WaitFrame DEF sleep
  <2> QED BY SMTT(90), <1>3, <2>6, <2>10, <2>13, <2>15, <2>16, <2>17, <2>23, <2>24, <2>25,
     <2>26, <2>27, WaitFrame, WaitExit DEF process
<1> QED BY <1>1, <1>2, <1>3 DEF Next

\* No process sleeps in wait() while it has a ZOMBIE child.
LEMMA WaitInvariance == Spec => []WaitInv
<1>1. Init => WaitInv
  BY SMTT(40), ProcAssumption DEF Init, WaitInv, Slot, None
<1> QED BY <1>1, WaitStep, Invariance, PTL DEF Spec

-----------------------------------------------------------------------------
(* The interrupt flag *)

\* Places at which a thread holds a lock it took with interrupts on, in a system call ...
SysPlaces == {"scan", "wait_sched", "in_wait",
              "test", "sleep1", "sleep2", "sleep_sched", "in_sleep"}
\* ... and with interrupts off, in the timer interrupt.
TrapPlaces == {"yield_sched", "in_yield"}

\* What sched() keeps of intena on the stack is what the thread's acquire() recorded.
IntenaInv ==
  /\ \A c \in CPU : \A p \in Slot : ctx[c] = p =>
       /\ pc[p] \in TrapPlaces => ~intena[c]
       /\ pc[p] \in SysPlaces => intena[c]
  /\ \A p \in Slot : (\A c \in CPU : ctx[c] # p) =>
       /\ pc[p] \in TrapPlaces => ~saved[p]
       /\ pc[p] \in SysPlaces => saved[p]

\* A running thread p moves on its CPU c, and what it leaves in intena suits its new place.
IntenaMoves(c, p) ==
  /\ ctx[c] = p /\ ctx' = ctx /\ saved' = saved
  /\ \A d \in CPU \ {c} : intena'[d] = intena[d]
  /\ \A q \in Slot \ {p} : pc'[q] = pc[q] \/ pc'[q] \in {"forkret", "none"}
  /\ pc'[p] \in TrapPlaces => ~intena'[c]
  /\ pc'[p] \in SysPlaces => intena'[c]

\* Such a step keeps IntenaInv: no other CPU runs p.
LEMMA IntenaMove ==
  ASSUME IInv, IntenaInv, NEW c \in CPU, NEW p \in Slot, IntenaMoves(c, p)
  PROVE  IntenaInv'
<1> USE DEF IntenaMoves
<1>1. ASSUME NEW d \in CPU, NEW q \in Slot, ctx'[d] = q
      PROVE  (pc'[q] \in TrapPlaces => ~intena'[d]) /\ (pc'[q] \in SysPlaces => intena'[d])
  <2>1. CASE d = c
    BY <1>1, <2>1
  <2>2. CASE d # c
    <3>1. q # p
      BY SMTT(40), <1>1, <2>2 DEF IInv, StackExclusive, Slot, None
    <3>2. ctx[d] = q /\ intena'[d] = intena[d] /\ (pc'[q] = pc[q] \/ pc'[q] \in {"forkret", "none"})
      BY SMTT(40), <1>1, <2>2, <3>1
    <3> QED BY SMTT(40), <3>2 DEF IntenaInv, TrapPlaces, SysPlaces
  <2> QED BY <2>1, <2>2
<1>2. ASSUME NEW q \in Slot, \A d \in CPU : ctx'[d] # q
      PROVE  (pc'[q] \in TrapPlaces => ~saved'[q]) /\ (pc'[q] \in SysPlaces => saved'[q])
  <2>1. q # p /\ \A d \in CPU : ctx[d] # q
    BY <1>2
  <2> QED BY <2>1 DEF IntenaInv, TrapPlaces, SysPlaces
<1> QED BY SMTT(40), <1>1, <1>2 DEF IntenaInv

\* Every step keeps IntenaInv.
LEMMA IntenaStep == IInv /\ IntenaInv /\ [Next]_vars => IntenaInv'
<1> SUFFICES ASSUME IInv, IntenaInv, [Next]_vars PROVE IntenaInv'
  OBVIOUS
<1> USE DEF At, Trap, Goto, acquire, release, tableVars, cpuVars, threadVars, condVars
<1>1. CASE UNCHANGED vars
  BY <1>1, Zenon DEF vars, IntenaInv
<1>2. ASSUME NEW c \in CPU, scheduler(c) PROVE IntenaInv'
  <2>1. CASE scheduler_acquire(c)
    <3>1. \A d \in CPU, q \in Slot : ctx[d] = q => intena'[d] = intena[d]
      <4>1. intena' = [intena EXCEPT ![c] = TRUE] /\ ctx[c] = None
        BY <2>1 DEF scheduler_acquire
      <4>2. \A d \in CPU : d # c => intena'[d] = intena[d]
        BY <4>1 DEF IInv, TypeOK
      <4>3. None \notin Slot
        BY DEF Slot, None
      <4> QED BY ZenonT(60), <4>1, <4>2, <4>3
    <3>2. ctx' = ctx /\ pc' = pc /\ saved' = saved
      BY <2>1 DEF scheduler_acquire
    <3> QED BY <3>1, <3>2, Zenon DEF IntenaInv
  <2>2. CASE scheduler_release(c)
    BY <2>2, Zenon DEF scheduler_release, IntenaInv
  <2>3. ASSUME NEW p \in Slot, scheduler_run(c, p) PROVE IntenaInv'
    <3>0. /\ pc' = pc /\ p # None /\ ctx[c] = None /\ plock = c
          /\ \A d \in CPU : ctx'[d] = IF d = c THEN p ELSE ctx[d]
          /\ \A d \in CPU : d # c => intena'[d] = intena[d]
          /\ \A q \in Slot : q # p => saved'[q] = saved[q]
          /\ pc[p] # "forkret" => intena'[c] = saved[p]
      BY <2>3, Channels DEF scheduler_run, IInv, TypeOK
    <3>1. \A d \in CPU : ctx[d] # p
      <4> SUFFICES ASSUME NEW d \in CPU, ctx[d] = p PROVE FALSE
        BY Zenon
      <4>1. state[p] = "RUNNABLE"
        BY Zenon, <2>3 DEF scheduler_run
      <4>2. pc[p] = "yield_sched"
        BY <4>1 DEF IInv, OnCpu, SchedPoints
      <4>3. d = c
        BY <3>0, <4>2 DEF IInv, LockByPlace, HoldsPtable, SchedPoints
      <4> QED BY <3>0, <4>3
    <3>2. ASSUME NEW d \in CPU, NEW q \in Slot, ctx'[d] = q
          PROVE  (pc'[q] \in TrapPlaces => ~intena'[d]) /\ (pc'[q] \in SysPlaces => intena'[d])
      <4>1. CASE d = c
        BY <3>0, <3>1, <3>2, <4>1 DEF IntenaInv, TrapPlaces, SysPlaces
      <4>2. CASE d # c
        BY <3>0, <3>2, <4>2 DEF IntenaInv
      <4> QED BY <4>1, <4>2
    <3>3. ASSUME NEW q \in Slot, \A d \in CPU : ctx'[d] # q
          PROVE  (pc'[q] \in TrapPlaces => ~saved'[q]) /\ (pc'[q] \in SysPlaces => saved'[q])
      <4>1. q # p /\ \A d \in CPU : ctx[d] # q
        BY <3>0, <3>3 DEF Slot, None
      <4> QED BY <3>0, <4>1 DEF IntenaInv
    <3> QED BY SMTT(40), <3>2, <3>3 DEF IntenaInv
  <2> QED BY <1>2, <2>1, <2>2, <2>3 DEF scheduler
<1>3. ASSUME NEW c \in CPU, NEW p \in Slot, process(c, p) PROVE IntenaInv'
  <2>1. ASSUME fork(c, p) PROVE IntenaMoves(c, p)
    <3>1. CASE allocproc(c, p)
      BY SMTT(40), <3>1 DEF allocproc, IntenaMoves, IInv, TypeOK, TrapPlaces, SysPlaces
    <3>2. CASE allocproc_kstack(c, p)
      BY SMTT(40), <3>2, ForkChild DEF allocproc_kstack, Forking, IntenaMoves, IInv, TypeOK, TrapPlaces,
         SysPlaces
    <3>3. CASE allocproc_fail(c, p)
      BY SMTT(40), <3>3 DEF allocproc_fail, IntenaMoves, IInv, TypeOK, TrapPlaces, SysPlaces
    <3>4. CASE fork_copy(c, p)
      BY SMTT(40), <3>4 DEF fork_copy, IntenaMoves, IInv, TypeOK, TrapPlaces, SysPlaces
    <3>5. CASE fork_fail(c, p)
      BY SMTT(40), <3>5, ForkChild DEF fork_fail, Forking, IntenaMoves, IInv, TypeOK, TrapPlaces, SysPlaces
    <3>6. CASE fork_run(c, p)
      BY <3>6 DEF fork_run, IntenaMoves, IInv, TypeOK, TrapPlaces, SysPlaces
    <3> QED BY SMTT(40), <2>1, <3>1, <3>2, <3>3, <3>4, <3>5, <3>6 DEF fork
  <2>2. ASSUME exit(c, p) \/ forkret(c, p) \/ yield(c, p) \/ yield_return(c, p)
        PROVE  IntenaMoves(c, p)
    <3>1. CASE exit(c, p)
      BY SMTT(40), <3>1 DEF exit, IntenaMoves, IInv, TypeOK, TrapPlaces, SysPlaces
    <3>2. CASE forkret(c, p)
      BY SMTT(40), <3>2 DEF forkret, IntenaMoves, IInv, TypeOK, TrapPlaces, SysPlaces
    <3>3. CASE yield(c, p)
      BY SMTT(40), <3>3 DEF yield, IntenaMoves, IInv, TypeOK, TrapPlaces, SysPlaces
    <3>4. CASE yield_return(c, p)
      BY <3>4 DEF yield_return, IntenaMoves, IInv, TypeOK, TrapPlaces, SysPlaces, Preemptible
    <3> QED BY SMTT(40), <2>2, <3>1, <3>2, <3>3, <3>4
  <2>3. ASSUME wait(c, p) PROVE IntenaMoves(c, p)
    <3>1. CASE wait_enter(c, p)
      BY SMTT(40), <3>1 DEF wait_enter, IntenaMoves, IInv, TypeOK, TrapPlaces, SysPlaces
    <3>2. CASE wait_reap(c, p)
      <4>1. PICK q \in Slot : pc' = [pc EXCEPT ![p] = "user", ![q] = "none"]
        BY ZenonT(60), <3>2 DEF wait_reap, Zombies, Children
      <4> QED BY SMTT(40), <3>2, <4>1 DEF wait_reap, IntenaMoves, IInv, TypeOK, TrapPlaces, SysPlaces
    <3>3. CASE wait_fail(c, p)
      BY <3>3 DEF wait_fail, IntenaMoves, IInv, TypeOK, TrapPlaces, SysPlaces
    <3>4. CASE wait_sleep(c, p)
      BY <3>4 DEF wait_sleep, IntenaMoves, IntenaInv, IInv, TypeOK, TrapPlaces, SysPlaces
    <3>5. CASE wait_resume(c, p)
      BY <3>5 DEF wait_resume, IntenaMoves, IntenaInv, IInv, TypeOK, TrapPlaces, SysPlaces
    <3> QED BY SMTT(40), <2>3, <3>1, <3>2, <3>3, <3>4, <3>5 DEF wait
  <2>4. ASSUME NEW k \in KillPids, kill(c, p, k) PROVE IntenaMoves(c, p)
    BY <2>4 DEF kill, IntenaMoves, TrapPlaces, SysPlaces
  <2>5. ASSUME sleep(c, p) PROVE IntenaMoves(c, p)
    <3>1. CASE sleep_acquire(c, p)
      BY <3>1 DEF sleep_acquire, IntenaMoves, IntenaInv, IInv, TypeOK, TrapPlaces, SysPlaces
    <3>2. CASE sleep_release(c, p)
      BY <3>2 DEF sleep_release, IntenaMoves, IntenaInv, IInv, TypeOK, TrapPlaces, SysPlaces
    <3>3. CASE sleep_mark(c, p)
      BY <3>3 DEF sleep_mark, IntenaMoves, IntenaInv, IInv, TypeOK, TrapPlaces, SysPlaces
    <3>4. CASE sleep_resume(c, p)
      BY <3>4 DEF sleep_resume, IntenaMoves, IInv, TypeOK, TrapPlaces, SysPlaces
    <3>5. CASE sleep_relock(c, p)
      BY SMTT(60), <3>5 DEF sleep_relock, IntenaMoves, IInv, TypeOK, TrapPlaces, SysPlaces
    <3> QED BY <2>5, <3>1, <3>2, <3>3, <3>4, <3>5 DEF sleep
  <2>6. ASSUME cond_enter(c, p) \/ cond_done(c, p) \/ signal(c, p) \/ wakeup(c, p)
        PROVE  IntenaMoves(c, p)
    <3>1. CASE cond_enter(c, p)
      BY <3>1 DEF cond_enter, IntenaMoves, IInv, TypeOK, TrapPlaces, SysPlaces
    <3>2. CASE cond_done(c, p)
      BY <3>2 DEF cond_done, IntenaMoves, IInv, TypeOK, TrapPlaces, SysPlaces
    <3>3. CASE signal(c, p)
      BY <3>3 DEF signal, IntenaMoves, IInv, TypeOK, TrapPlaces, SysPlaces
    <3>4. CASE wakeup(c, p)
      BY <3>4 DEF wakeup, IntenaMoves, IInv, TypeOK, TrapPlaces, SysPlaces
    <3> QED BY <2>6, <3>1, <3>2, <3>3, <3>4
  <2>7. ASSUME sched(c, p) PROVE IntenaInv'
    <3>0. /\ ctx[c] = p /\ p # None /\ intena' = intena
          /\ \A d \in CPU : ctx'[d] = IF d = c THEN None ELSE ctx[d]
          /\ \A q \in Slot : q # p => saved'[q] = saved[q] /\ pc'[q] = pc[q]
          /\ saved'[p] = intena[c]
          /\ pc'[p] = AfterSwtch(pc[p])
      BY <2>7 DEF sched, IInv, TypeOK, Slot, None
    <3>1. /\ pc'[p] \in TrapPlaces => pc[p] \in TrapPlaces
          /\ pc'[p] \in SysPlaces => pc[p] \in SysPlaces
      BY <3>0 DEF AfterSwtch, TrapPlaces, SysPlaces
    <3>2. \A d \in CPU \ {c} : ctx[d] # p
      BY <3>0 DEF IInv, StackExclusive
    <3>3. ASSUME NEW d \in CPU, NEW q \in Slot, ctx'[d] = q
          PROVE  (pc'[q] \in TrapPlaces => ~intena'[d]) /\ (pc'[q] \in SysPlaces => intena'[d])
      <4>1. d # c /\ ctx[d] = q /\ q # p
        BY <3>0, <3>2, <3>3 DEF Slot, None
      <4> QED BY <3>0, <4>1 DEF IntenaInv
    <3>4. ASSUME NEW q \in Slot, \A d \in CPU : ctx'[d] # q
          PROVE  (pc'[q] \in TrapPlaces => ~saved'[q]) /\ (pc'[q] \in SysPlaces => saved'[q])
      <4>1. CASE q = p
        BY <3>0, <3>1, <4>1 DEF IntenaInv
      <4>2. CASE q # p
        <5>1. \A d \in CPU : ctx[d] # q
          BY SMTT(40), <3>0, <3>4, <4>2
        <5> QED BY SMTT(40), <3>0, <4>2, <5>1 DEF IntenaInv
      <4> QED BY <4>1, <4>2
    <3> QED BY <3>3, <3>4 DEF IntenaInv
  <2> QED BY <1>3, <2>1, <2>2, <2>3, <2>4, <2>5, <2>6, <2>7, IntenaMove DEF process
<1> QED BY <1>1, <1>2, <1>3 DEF Next

\* The thread that sched() resumes finds intena as its own acquire() recorded it,
\* whichever CPU it comes back on and whichever threads ran there.
THEOREM IntenaFollowsThread == Spec => []IntenaIsThreads
<1>1. Init => IntenaInv
  BY SMTT(40), ProcAssumption DEF Init, IntenaInv, TrapPlaces, SysPlaces, Slot, None
<1>2. IntenaInv => IntenaIsThreads
  BY SMTT(40) DEF IntenaInv, IntenaIsThreads, TrapPlaces, SysPlaces
<1> QED BY <1>1, <1>2, IntenaStep, Invariance, PTL DEF Spec

-----------------------------------------------------------------------------
(* sleep() and wakeup() *)

\* A process that has found the condition false sleeps before anybody makes it true and
\* calls wakeup(): it holds lk, and then ptable.lock, until it sleeps.
Pending == \E d \in CPU, q \in Slot : At(d, q, "signal")
CondInv ==
  /\ \A c \in CPU : \A p \in Slot : ctx[c] = p /\ pc[p] \in HoldsLk => lk = c
  /\ \A p \in Slot : pc[p] = "sleep1" => ~cond
  /\ \A p \in Slot : (pc[p] = "sleep2" \/ (state[p] = "SLEEPING" /\ chan[p] = CondChan)) /\ cond
       => Pending

\* A process in the middle of sleep(), or anywhere else but a place where swtch leaves a
\* thread, is on a CPU.
LEMMA Running ==
  ASSUME IInv, NEW q \in Slot, pc[q] \in {"sleep1", "sleep2"}
  PROVE  \E d \in CPU : ctx[d] = q
BY SMTT(60) DEF IInv, OffCpu, TypeOK, Resumes

\* A running thread p moves on its CPU c and calls no wakeup(): it takes lk only when nobody
\* has it, makes the condition true only by becoming the signaller, and nobody else starts to
\* sleep on the condition.
CondMoves(c, p) ==
  /\ ctx[c] = p /\ ctx' = ctx /\ pc[p] # "signal"
  /\ \A q \in Slot \ {p} :
       pc'[q] = pc[q] \/ (pc'[q] \in {"forkret", "none"} /\ \A d \in CPU : ctx[d] # q)
  /\ pc'[p] \in HoldsLk => lk' = c
  /\ lk' # lk => lk \in {c, NoCPU}
  /\ pc'[p] = "sleep1" => ~cond'
  /\ pc'[p] = "sleep2" => pc[p] = "sleep1"
  /\ \A q \in Slot : state'[q] = "SLEEPING" /\ chan'[q] = CondChan =>
       (state[q] = "SLEEPING" /\ chan[q] = CondChan) \/ pc[q] = "sleep2"
  /\ cond' => cond \/ (pc'[p] = "signal" /\ lk = NoCPU)

\* Such a step keeps CondInv.
LEMMA CondMove ==
  ASSUME IInv, CondInv, NEW c \in CPU, NEW p \in Slot, CondMoves(c, p)
  PROVE  CondInv'
<1> USE DEF CondMoves
<1>1. ASSUME NEW d \in CPU, NEW q \in Slot, ctx'[d] = q, pc'[q] \in HoldsLk PROVE lk' = d
  <2>1. CASE d = c
    BY SMTT(40), <1>1, <2>1
  <2>2. CASE d # c
    <3>1. ctx[d] = q /\ q # p
      BY SMTT(40), <1>1, <2>2 DEF IInv, StackExclusive, Slot, None
    <3>2. pc[q] \in HoldsLk
      BY SMTT(40), <1>1, <3>1 DEF HoldsLk
    <3>3. lk = d
      BY SMTT(40), <3>1, <3>2 DEF CondInv
    <3> QED BY SMTT(40), <2>2, <3>3, ProcAssumption
  <2> QED BY SMTT(40), <2>1, <2>2
<1>2. ASSUME NEW q \in Slot, pc'[q] = "sleep1" PROVE ~cond'
  <2>1. CASE q = p
    BY <1>2, <2>1
  <2>2. CASE q # p
    <3>1. pc[q] = "sleep1"
      BY SMTT(40), <1>2, <2>2
    <3>2. ~cond /\ lk # NoCPU
      BY SMTT(40), <3>1, Running, ProcAssumption DEF CondInv, HoldsLk
    <3> QED BY <3>2
  <2> QED BY SMTT(40), <2>1, <2>2
<1>3. Pending => Pending'
  BY SMTT(40) DEF Pending, At
<1>4. ASSUME NEW q \in Slot, cond',
             pc'[q] = "sleep2" \/ (state'[q] = "SLEEPING" /\ chan'[q] = CondChan)
      PROVE  Pending'
  <2>1. CASE pc'[p] = "signal"
    BY SMTT(60), <2>1 DEF Pending, At
  <2>2. CASE pc'[p] # "signal"
    <3>1. cond
      BY <1>4, <2>2
    <3>2. pc[q] = "sleep2" \/ (state[q] = "SLEEPING" /\ chan[q] = CondChan)
      <4>1. ASSUME pc'[q] = "sleep2", q = p PROVE FALSE
        BY SMTT(40), <3>1, <4>1 DEF CondInv
      <4> QED BY SMTT(40), <1>4, <4>1
    <3> QED BY <1>3, <3>1, <3>2 DEF CondInv
  <2> QED BY SMTT(40), <2>1, <2>2
<1> HIDE DEF CondMoves
<1>5. \A d \in CPU : \A q \in Slot : ctx'[d] = q /\ pc'[q] \in HoldsLk => lk' = d
  BY Zenon, <1>1
<1>6. \A q \in Slot : pc'[q] = "sleep1" => ~cond'
  BY Zenon, <1>2
<1>7. \A q \in Slot : (pc'[q] = "sleep2" \/ (state'[q] = "SLEEPING" /\ chan'[q] = CondChan)) /\ cond'
        => Pending'
  BY Zenon, <1>4
<1> QED BY Zenon, <1>5, <1>6, <1>7 DEF CondInv, HoldsLk

\* wakeup() keeps CondInv: whoever is in sleep() and has released lk holds ptable.lock until it
\* sleeps, and wakeup() wakes every sleeper.
LEMMA CondWakeup ==
  ASSUME IInv, CondInv, NEW c \in CPU, NEW p \in Slot, wakeup(c, p)
  PROVE  CondInv'
<1>0. /\ ctx[c] = p /\ pc[p] = "signal" /\ plock = NoCPU /\ ctx' = ctx /\ chan' = chan
      /\ lk' = NoCPU /\ cond' = cond /\ pc' = [pc EXCEPT ![p] = "user"]
      /\ \A q \in Slot : state'[q] = "SLEEPING" => state[q] = "SLEEPING" /\ chan[q] # CondChan
  BY SMTT(40) DEF wakeup, wakeup1, Sleepers, At, Goto, cpuVars
<1>1. \A q \in Slot : pc'[q] = IF q = p THEN "user" ELSE pc[q]
  BY SMTT(40), <1>0 DEF IInv, TypeOK
<1>2. lk = c
  BY SMTT(40), <1>0 DEF CondInv, HoldsLk
<1>3. ASSUME NEW d \in CPU, NEW q \in Slot, ctx'[d] = q, pc'[q] \in HoldsLk PROVE FALSE
  <2>1. ctx[d] = q /\ q # p /\ pc[q] \in HoldsLk
    BY SMTT(40), <1>0, <1>1, <1>3 DEF HoldsLk
  <2> QED BY SMTT(40), <1>0, <1>2, <2>1 DEF CondInv
<1>4. \A q \in Slot : pc'[q] # "sleep2"
  <2> SUFFICES ASSUME NEW q \in Slot, pc[q] = "sleep2" PROVE FALSE
    BY <1>1
  <2>1. PICK d \in CPU : ctx[d] = q
    BY SMTT(40), Running
  <2> QED BY <1>0, <2>1, FreeLock DEF HoldsPtable
<1>5. \A q \in Slot : pc'[q] = "sleep1" => ~cond'
  BY SMTT(90), <1>0, <1>1 DEF CondInv
<1> QED BY SMTT(40), <1>0, <1>3, <1>4, <1>5 DEF CondInv

\* sched() keeps CondInv: its caller is neither the signaller nor still falling asleep.
LEMMA CondSched ==
  ASSUME IInv, CondInv, NEW c \in CPU, NEW p \in Slot, sched(c, p)
  PROVE  CondInv'
<1>0. /\ ctx[c] = p /\ pc[p] \in SchedPoints
      /\ \A d \in CPU : ctx'[d] = IF d = c THEN None ELSE ctx[d]
      /\ \A q \in Slot : q # p => pc'[q] = pc[q]
      /\ pc'[p] \in {"in_yield", "in_sleep", "in_wait", "dead"}
      /\ UNCHANGED <<state, chan, lk, cond>>
  BY SMTT(60) DEF sched, AfterSwtch, Goto, tableVars, condVars, IInv, TypeOK
<1>1. Pending => Pending'
  <2> SUFFICES ASSUME NEW d \in CPU, NEW q \in Slot, At(d, q, "signal") PROVE At(d, q, "signal")'
    BY SMTT(60) DEF Pending
  <2> QED BY <1>0 DEF At, SchedPoints
<1>2. \A d \in CPU : \A q \in Slot : ctx'[d] = q /\ pc'[q] \in HoldsLk => lk' = d
  BY SMTT(90), ZenonT(90), <1>0, Channels DEF CondInv, HoldsLk
<1>3. \A q \in Slot : pc'[q] \in {"sleep1", "sleep2"} => pc[q] = pc'[q]
  BY <1>0
<1> QED BY <1>0, <1>1, <1>2, <1>3 DEF CondInv

\* Every step keeps CondInv.
LEMMA CondStep == IInv /\ CondInv /\ [Next]_vars => CondInv'
<1> SUFFICES ASSUME IInv, CondInv, [Next]_vars PROVE CondInv'
  OBVIOUS
<1> USE DEF At, Trap, Goto, acquire, release, tableVars, cpuVars, threadVars, condVars
<1>1. CASE UNCHANGED vars
  BY <1>1, Zenon DEF vars, CondInv, Pending
<1>2. ASSUME NEW c \in CPU, scheduler(c) PROVE CondInv'
  <2>1. CASE scheduler_acquire(c)
    BY <2>1, Zenon DEF scheduler_acquire, CondInv, Pending
  <2>2. CASE scheduler_release(c)
    BY <2>2, Zenon DEF scheduler_release, CondInv, Pending
  <2>3. ASSUME NEW p \in Slot, scheduler_run(c, p) PROVE CondInv'
    <3>0. /\ ctx[c] = None /\ plock = c /\ state[p] = "RUNNABLE" /\ p # None
          /\ \A d \in CPU : ctx'[d] = IF d = c THEN p ELSE ctx[d]
          /\ \A q \in Slot : state'[q] = "SLEEPING" => state[q] = "SLEEPING"
          /\ UNCHANGED <<pc, chan, lk, cond>>
      BY SMTT(90), <2>3, Channels DEF scheduler_run, IInv, TypeOK
    <3>1. pc[p] \notin HoldsLk
      <4>1. CASE \E d \in CPU : ctx[d] = p
        BY <3>0, <4>1 DEF IInv, OnCpu, SchedPoints, HoldsLk
      <4>2. CASE \A d \in CPU : ctx[d] # p
        BY SMTT(40), <3>0, <4>2 DEF IInv, OffCpu, Resumes, HoldsLk
      <4> QED BY SMTT(60), <4>1, <4>2
    <3>2. Pending => Pending'
      <4> SUFFICES ASSUME NEW d \in CPU, NEW q \in Slot, At(d, q, "signal")
                   PROVE  At(d, q, "signal")'
        BY SMTT(40) DEF Pending
      <4> QED BY <3>0 DEF Slot, None
    <3>3. \A d \in CPU : \A q \in Slot : ctx'[d] = q /\ pc'[q] \in HoldsLk => lk' = d
      BY SMTT(60), <3>0, <3>1 DEF CondInv
    <3> QED BY SMTT(60), <3>0, <3>2, <3>3 DEF CondInv
  <2> QED BY <1>2, <2>1, <2>2, <2>3 DEF scheduler
<1>3. ASSUME NEW c \in CPU, NEW p \in Slot, process(c, p) PROVE CondInv'
  <2>1. ASSUME allocproc(c, p) PROVE CondMoves(c, p)
    BY SMTT(90), ZenonT(90), <2>1 DEF allocproc, CondMoves, HoldsLk, IInv, TypeOK
  <2>2. ASSUME allocproc_kstack(c, p) PROVE CondMoves(c, p)
    BY SMTT(90), ZenonT(90), <2>2, ForkChild DEF allocproc_kstack, Forking, CondMoves, HoldsLk,
       IInv, TypeOK
  <2>3. ASSUME allocproc_fail(c, p) PROVE CondMoves(c, p)
    BY SMTT(90), ZenonT(90), <2>3, ForkChild DEF allocproc_fail, Forking, CondMoves, HoldsLk,
       IInv, TypeOK
  <2>4. ASSUME fork_copy(c, p) PROVE CondMoves(c, p)
    BY SMTT(60), <2>4 DEF fork_copy, CondMoves, HoldsLk, IInv, TypeOK
  <2>5. ASSUME fork_fail(c, p) PROVE CondMoves(c, p)
    BY SMTT(90), ZenonT(90), <2>5, ForkChild DEF fork_fail, Forking, CondMoves, HoldsLk, IInv,
       TypeOK
  <2>6. ASSUME fork_run(c, p) PROVE CondMoves(c, p)
    BY SMTT(90), ZenonT(90), <2>6, ForkChild DEF fork_run, Forking, CondMoves, HoldsLk, IInv,
       TypeOK
  <2>7. ASSUME exit(c, p) PROVE CondMoves(c, p)
    BY SMTT(60), <2>7 DEF exit, exit_wakes, Sleepers, CondMoves, HoldsLk, IInv, TypeOK
  <2>8. ASSUME forkret(c, p) PROVE CondMoves(c, p)
    BY SMTT(60), <2>8 DEF forkret, CondMoves, HoldsLk, IInv, TypeOK
  <2>9. ASSUME yield(c, p) PROVE CondMoves(c, p)
    BY SMTT(60), <2>9 DEF yield, CondMoves, HoldsLk, IInv, TypeOK, Preemptible
  <2>10. ASSUME yield_return(c, p) PROVE CondMoves(c, p)
    BY SMTT(60), <2>10 DEF yield_return, CondMoves, HoldsLk, IInv, TypeOK, Preemptible
  <2>11. ASSUME wait_enter(c, p) PROVE CondMoves(c, p)
    BY SMTT(60), <2>11 DEF wait_enter, CondMoves, HoldsLk, IInv, TypeOK
  <2>12. ASSUME wait_reap(c, p) PROVE CondMoves(c, p)
    <3>1. PICK q \in Slot : /\ state[q] = "ZOMBIE" /\ state' = [state EXCEPT ![q] = "UNUSED"]
                            /\ pc' = [pc EXCEPT ![p] = "user", ![q] = "none"]
      BY ZenonT(90), <2>12 DEF wait_reap, Zombies, Children
    <3>2. /\ ctx[c] = p /\ pc[p] = "scan" /\ plock = c
          /\ UNCHANGED <<ctx, chan, lk, cond>>
      BY <2>12 DEF wait_reap
    <3>3. \A d \in CPU : ctx[d] # q
      <4> SUFFICES ASSUME NEW d \in CPU, ctx[d] = q PROVE FALSE
        OBVIOUS
      <4>1. pc[q] = "exit_sched"
        BY <3>1 DEF IInv, OnCpu, SchedPoints
      <4>2. d = c
        BY SMTT(60), <3>2, <4>1 DEF IInv, LockByPlace, HoldsPtable, SchedPoints
      <4> QED BY <3>2, <4>1, <4>2
    <3> QED BY <3>1, <3>2, <3>3 DEF CondMoves, HoldsLk, IInv, TypeOK
  <2>13. ASSUME wait_fail(c, p) PROVE CondMoves(c, p)
    BY SMTT(60), <2>13 DEF wait_fail, CondMoves, HoldsLk, IInv, TypeOK
  <2>14. ASSUME wait_sleep(c, p) PROVE CondMoves(c, p)
    BY SMTT(90), ZenonT(90), <2>14, Channels DEF wait_sleep, CondMoves, HoldsLk, IInv, TypeOK
  <2>15. ASSUME wait_resume(c, p) PROVE CondMoves(c, p)
    BY SMTT(90), <2>15, Channels DEF wait_resume, CondMoves, HoldsLk, IInv, TypeOK
  <2>16. ASSUME NEW k \in KillPids, kill(c, p, k) PROVE CondMoves(c, p)
    BY SMTT(60), <2>16 DEF kill, CondMoves, HoldsLk, IInv, TypeOK
  <2>17. ASSUME sleep_acquire(c, p) PROVE CondMoves(c, p)
    BY SMTT(60), <2>17 DEF sleep_acquire, CondMoves, HoldsLk, IInv, TypeOK, CondInv
  <2>18. ASSUME sleep_release(c, p) PROVE CondMoves(c, p)
    BY SMTT(60), <2>18 DEF sleep_release, CondMoves, HoldsLk, IInv, TypeOK, CondInv
  <2>19. ASSUME sleep_mark(c, p) PROVE CondMoves(c, p)
    BY SMTT(60), <2>19 DEF sleep_mark, CondMoves, HoldsLk, IInv, TypeOK, CondInv
  <2>20. ASSUME sleep_resume(c, p) PROVE CondMoves(c, p)
    BY SMTT(90), ZenonT(90), <2>20, Channels DEF sleep_resume, CondMoves, HoldsLk, IInv, TypeOK
  <2>21. ASSUME sleep_relock(c, p) PROVE CondMoves(c, p)
    BY SMTT(60), <2>21 DEF sleep_relock, CondMoves, HoldsLk, IInv, TypeOK
  <2>22. ASSUME cond_enter(c, p) PROVE CondMoves(c, p)
    BY SMTT(60), <2>22 DEF cond_enter, CondMoves, HoldsLk, IInv, TypeOK
  <2>23. ASSUME cond_done(c, p) PROVE CondMoves(c, p)
    BY SMTT(60), <2>23 DEF cond_done, CondMoves, HoldsLk, IInv, TypeOK, CondInv
  <2>24. ASSUME signal(c, p) PROVE CondMoves(c, p)
    BY <2>24 DEF signal, CondMoves, HoldsLk, IInv, TypeOK
  <2> QED BY SMTT(90), <1>3, <2>1, <2>2, <2>3, <2>4, <2>5, <2>6, <2>7, <2>8, <2>9, <2>10, <2>11,
     <2>12, <2>13, <2>14, <2>15, <2>16, <2>17, <2>18, <2>19, <2>20, <2>21, <2>22, <2>23, <2>24,
     CondMove, CondSched, CondWakeup DEF process, fork, wait, sleep
<1> QED BY <1>1, <1>2, <1>3 DEF Next

\* No wakeup is lost: a process sleeps on a condition that holds only until the signaller, which
\* still has lk, calls wakeup(); and no process sleeps in wait() while it has a ZOMBIE child.
THEOREM NoWakeupLost == Spec => []NoLostWakeup
<1>1. Init => CondInv
  BY SMTT(40) DEF Init, CondInv, Slot, None
<1>2. CondInv /\ WaitInv => NoLostWakeup
  BY DEF CondInv, WaitInv, NoLostWakeup, Pending, Zombies, Children
<1> QED BY <1>1, <1>2, CondStep, WaitInvariance, Invariance, PTL DEF Spec
=============================================================================
