----------------------------- MODULE ProcProofs -----------------------------
(***************************************************************************)
(* Proofs, for any number of CPUs and slots, that a kernel stack is used by*)
(* one CPU at a time and only while it is allocated, and that sched() is   *)
(* called under the conditions it panics on otherwise.                     *)
(***************************************************************************)
EXTENDS Proc, TLAPS

\* Places of a running thread at which its CPU holds ptable.lock, and lk.
HoldsPtable == SchedPoints \cup Resumes \cup {"scan", "sleep1", "sleep2"}
HoldsLk == {"test", "sleep1", "signal"}
Forking == {"fork1", "fork2", "fork3"}

\* Where p is in its own code, seen through a preemption by yield().
Loc(p) == IF pc[p] \in {"yield_sched", "in_yield"} THEN back[p] ELSE pc[p]

\* A thread that holds ptable.lock by its place really holds it.
LockByPlace == \A c \in CPU : \A p \in Slot :
  ctx[c] = p /\ pc[p] \in HoldsPtable => plock = c
LkByPlace == \A c \in CPU : lk = c => ctx[c] \in Slot /\ pc[ctx[c]] \in HoldsLk

\* The state of a process on a CPU is RUNNING, until it is about to call sched().
OnCpu == \A c \in CPU : \A p \in Slot : ctx[c] = p =>
  /\ pc[p] \notin SchedPoints => state[p] = "RUNNING"
  /\ pc[p] = "yield_sched" => state[p] = "RUNNABLE"
  /\ pc[p] \in {"sleep_sched", "wait_sched"} => state[p] = "SLEEPING"
  /\ pc[p] = "exit_sched" => state[p] = "ZOMBIE"
  /\ pc[p] \notin {"none", "dead"}

\* A process on no CPU has a context swtch can resume, if it has any.
OffCpu == \A p \in Slot : (\A c \in CPU : ctx[c] # p) =>
  /\ state[p] # "RUNNING"
  /\ state[p] = "RUNNABLE" => pc[p] \in Resumes
  /\ state[p] = "SLEEPING" => pc[p] \in {"in_sleep", "in_wait"}
  /\ state[p] = "ZOMBIE" => pc[p] = "dead"
  /\ state[p] = "UNUSED" => pc[p] = "none"
  /\ state[p] = "EMBRYO" => pc[p] \in {"none", "forkret"}

\* fork() works on an EMBRYO that no other fork() works on.
ChildOwned ==
  /\ \A p \in Slot : Loc(p) \in Forking => child[p] # None
  /\ \A p \in Slot : child[p] # None =>
       /\ state[child[p]] = "EMBRYO"
       /\ Loc(p) = "fork1" => pc[child[p]] = "none"
       /\ Loc(p) \in {"fork2", "fork3"} => pc[child[p]] = "forkret" /\ kstack[child[p]]
  /\ \A p, q \in Slot : child[p] = child[q] /\ child[p] # None => p = q

StackOwned == \A p \in Slot : state[p] \notin {"UNUSED", "EMBRYO"} => kstack[p]

IInv == /\ TypeOK
        /\ StackExclusive
        /\ LockByPlace
        /\ LkByPlace
        /\ OnCpu
        /\ OffCpu
        /\ ChildOwned
        /\ StackOwned

\* A slot without a process, or with an EMBRYO, is on no CPU.
LEMMA NotOnCpu ==
  ASSUME IInv, NEW s \in Slot, state[s] \in {"UNUSED", "EMBRYO"}, NEW d \in CPU
  PROVE  ctx[d] # s
BY DEF IInv, OnCpu, SchedPoints

\* While ptable.lock is free nobody is at a place that holds it.
LEMMA FreeLock ==
  ASSUME IInv, plock = NoCPU, NEW d \in CPU, NEW q \in Slot, ctx[d] = q
  PROVE  pc[q] \notin HoldsPtable
BY ProcAssumption DEF IInv, LockByPlace

\* The slot a running fork() works on.
LEMMA ForkChild ==
  ASSUME IInv, NEW c \in CPU, NEW p \in Slot, ctx[c] = p, pc[p] \in Forking
  PROVE  /\ child[p] \in Slot /\ state[child[p]] = "EMBRYO" /\ child[p] # p
         /\ \A d \in CPU : ctx[d] # child[p]
         /\ \A q \in Slot : child[q] = child[p] => q = p
         /\ pc[p] = "fork1" => pc[child[p]] = "none"
         /\ pc[p] # "fork1" => pc[child[p]] = "forkret" /\ kstack[child[p]]
<1>1. Loc(p) = pc[p]
  BY DEF Forking, Loc
<1>2. child[p] # None
  BY <1>1 DEF IInv, ChildOwned
<1>3. /\ child[p] \in Slot /\ state[child[p]] = "EMBRYO"
      /\ pc[p] = "fork1" => pc[child[p]] = "none"
      /\ pc[p] # "fork1" => pc[child[p]] = "forkret" /\ kstack[child[p]]
  BY <1>1, <1>2 DEF IInv, TypeOK, ChildOwned, Forking
<1>4. \A q \in Slot : child[q] = child[p] => q = p
  BY <1>2 DEF IInv, ChildOwned
<1>5. \A d \in CPU : ctx[d] # child[p]
  BY <1>3, NotOnCpu
<1> QED BY <1>3, <1>4, <1>5

\* A step that neither moves a fork() along nor touches an EMBRYO leaves
\* ChildOwned true.
LEMMA ChildFrame ==
  ASSUME IInv, UNCHANGED child,
         \A q \in Slot : Loc(q)' \in Forking =>
            Loc(q) \in Forking /\ (Loc(q)' = "fork1" <=> Loc(q) = "fork1"),
         \A s \in Slot : state[s] = "EMBRYO" =>
            state'[s] = "EMBRYO" /\ pc'[s] = pc[s] /\ kstack'[s] = kstack[s]
  PROVE  ChildOwned'
BY DEF IInv, TypeOK, ChildOwned, Forking

\* The types of channels.
LEMMA ChanTypes == None \in 0..CondChan /\ CondChan \in 0..CondChan /\ Slot \subseteq 0..CondChan
BY ProcAssumption DEF None, CondChan, Slot

\* The channels of wait(), the channel of the condition and the null channel differ.
LEMMA Channels == None # CondChan /\ \A q \in Slot : q # None /\ q # CondChan
BY ProcAssumption DEF None, CondChan, Slot

\* A running thread has the locks its place says.
LEMMA LocksOf ==
  ASSUME IInv, NEW c \in CPU, NEW p \in Slot, ctx[c] = p
  PROVE  /\ pc[p] \in HoldsPtable => plock = c
         /\ lk = c => pc[p] \in HoldsLk
BY DEF IInv, LockByPlace, LkByPlace

\* The running thread p moves to the place l, taking or releasing ptable.lock
\* or lk as l says, and leaves the states, the kernel stacks and the contexts
\* alone.
Moves(c, p, l) ==
  /\ ctx[c] = p /\ pc' = [pc EXCEPT ![p] = l]
  /\ \A q \in Slot \ {p} : back'[q] = back[q]
  /\ state' = state /\ ctx' = ctx /\ kstack' = kstack /\ child' = child
  /\ pc[p] \notin SchedPoints
  /\ l \notin SchedPoints \cup {"none", "dead", "in_yield"}
  /\ l \in Forking => Loc(p) \in Forking /\ (l = "fork1" <=> Loc(p) = "fork1")
  /\ l \in HoldsPtable => plock' = c
  /\ plock' # plock => plock \in {c, NoCPU}
  /\ lk' = c => l \in HoldsLk
  /\ lk' # lk => lk' \in {c, NoCPU}

\* A running thread p that moves from one place to another, taking or
\* releasing ptable.lock or lk, and leaves the state of every process, the
\* kernel stacks and the contexts of the CPUs alone, keeps the invariant.
LEMMA Move ==
  ASSUME IInv, TypeOK', NEW c \in CPU, NEW p \in Slot, NEW l, Moves(c, p, l)
  PROVE  IInv'
<1> USE DEF Moves
<1>1. StackExclusive' /\ StackOwned'
  BY DEF IInv, StackExclusive, StackOwned
<1>2. \A q \in Slot : q # p => pc'[q] = pc[q]
  BY DEF IInv, TypeOK
<1>3. pc'[p] = l
  BY DEF IInv, TypeOK
<1>4. \A d \in CPU : d # c => ctx[d] # p
  BY DEF IInv, StackExclusive, Slot, None
<1>5. LockByPlace'
  BY <1>2, <1>3, <1>4, ProcAssumption DEF IInv, LockByPlace
<1>6. LkByPlace'
  BY <1>2, <1>3, <1>4, ProcAssumption DEF IInv, LkByPlace
<1>7. OnCpu'
  BY <1>2, <1>3, <1>4 DEF IInv, OnCpu, SchedPoints
<1>8. OffCpu'
  BY <1>2 DEF IInv, OffCpu
<1>9. ChildOwned'
  <2>1. \A q \in Slot : q # p => Loc(q)' = Loc(q)
    BY <1>2 DEF Loc
  <2>2. Loc(p)' = l
    BY <1>3 DEF Loc, SchedPoints
  <2>3. \A s \in Slot : state[s] = "EMBRYO" =>
           state'[s] = "EMBRYO" /\ pc'[s] = pc[s] /\ kstack'[s] = kstack[s]
    BY <1>2, NotOnCpu
  <2> QED BY <2>1, <2>2, <2>3, ChildFrame
<1> QED BY <1>1, <1>5, <1>6, <1>7, <1>8, <1>9 DEF IInv

\* fork_copy() keeps the inductive invariant: it moves p to "fork3".
LEMMA fork_copy_inv ==
  ASSUME NEW c \in CPU, NEW p \in Slot, IInv, fork_copy(c, p)
  PROVE  IInv'
<1>1. child[p] \in Slot /\ Loc(p) = "fork2"
  BY ForkChild DEF Forking, Loc, fork_copy, At
<1>2. TypeOK'
  BY <1>1, Zenon DEF IInv, TypeOK, Places, Preemptible, fork_copy, Goto, cpuVars, condVars
<1>3. Moves(c, p, "fork3")
  BY <1>1, LocksOf, ProcAssumption DEF Moves, SchedPoints, Resumes, Forking, HoldsPtable,
     HoldsLk, fork_copy, At, Trap, Goto, acquire, release, tableVars, cpuVars, condVars
<1> QED BY <1>2, <1>3, Move

\* wait_enter() keeps the inductive invariant: it moves p to "scan".
LEMMA wait_enter_inv ==
  ASSUME NEW c \in CPU, NEW p \in Slot, IInv, wait_enter(c, p)
  PROVE  IInv'
<1>2. TypeOK'
  BY ChanTypes, Zenon DEF IInv, TypeOK, Places, Preemptible, wait_enter, At, Trap, Goto,
     acquire, release, tableVars, cpuVars, condVars
<1>3. Moves(c, p, "scan")
  BY LocksOf, ProcAssumption DEF Moves, SchedPoints, Resumes, Forking, HoldsPtable, HoldsLk,
     wait_enter, At, Trap, Goto, acquire, release, tableVars, cpuVars, condVars
<1> QED BY <1>2, <1>3, Move

\* wait_fail() keeps the inductive invariant: it moves p to "user".
LEMMA wait_fail_inv ==
  ASSUME NEW c \in CPU, NEW p \in Slot, IInv, wait_fail(c, p)
  PROVE  IInv'
<1>2. TypeOK'
  BY ChanTypes, Zenon DEF IInv, TypeOK, Places, Preemptible, wait_fail, At, Trap, Goto, acquire,
     release, tableVars, cpuVars, condVars
<1>3. Moves(c, p, "user")
  BY LocksOf, ProcAssumption DEF Moves, SchedPoints, Resumes, Forking, HoldsPtable, HoldsLk,
     wait_fail, At, Trap, Goto, acquire, release, tableVars, cpuVars, condVars
<1> QED BY <1>2, <1>3, Move

\* wait_resume() keeps the inductive invariant: it moves p to "scan".
LEMMA wait_resume_inv ==
  ASSUME NEW c \in CPU, NEW p \in Slot, IInv, wait_resume(c, p)
  PROVE  IInv'
<1>2. TypeOK'
  BY ChanTypes, Zenon DEF IInv, TypeOK, Places, Preemptible, wait_resume, At, Trap, Goto,
     acquire, release, tableVars, cpuVars, condVars
<1>3. Moves(c, p, "scan")
  BY LocksOf, ProcAssumption DEF Moves, SchedPoints, Resumes, Forking, HoldsPtable, HoldsLk,
     wait_resume, At, Trap, Goto, acquire, release, tableVars, cpuVars, condVars
<1> QED BY <1>2, <1>3, Move

\* forkret() keeps the inductive invariant: it moves p to "user".
LEMMA forkret_inv ==
  ASSUME NEW c \in CPU, NEW p \in Slot, IInv, forkret(c, p)
  PROVE  IInv'
<1>2. TypeOK'
  BY ChanTypes, Zenon DEF IInv, TypeOK, Places, Preemptible, forkret, At, Trap, Goto, acquire,
     release, tableVars, cpuVars, condVars
<1>3. Moves(c, p, "user")
  BY LocksOf, ProcAssumption DEF Moves, SchedPoints, Resumes, Forking, HoldsPtable, HoldsLk,
     forkret, At, Trap, Goto, acquire, release, tableVars, cpuVars, condVars
<1> QED BY <1>2, <1>3, Move

\* cond_enter() keeps the inductive invariant: it moves p to "test".
LEMMA cond_enter_inv ==
  ASSUME NEW c \in CPU, NEW p \in Slot, IInv, cond_enter(c, p)
  PROVE  IInv'
<1>2. TypeOK'
  BY ChanTypes, Zenon DEF IInv, TypeOK, Places, Preemptible, cond_enter, At, Trap, Goto,
     acquire, release, tableVars, cpuVars, condVars
<1>3. Moves(c, p, "test")
  BY LocksOf, ProcAssumption DEF Moves, SchedPoints, Resumes, Forking, HoldsPtable, HoldsLk,
     cond_enter, At, Trap, Goto, acquire, release, tableVars, cpuVars, condVars
<1> QED BY <1>2, <1>3, Move

\* cond_done() keeps the inductive invariant: it moves p to "user".
LEMMA cond_done_inv ==
  ASSUME NEW c \in CPU, NEW p \in Slot, IInv, cond_done(c, p)
  PROVE  IInv'
<1>2. TypeOK'
  BY ChanTypes, Zenon DEF IInv, TypeOK, Places, Preemptible, cond_done, At, Trap, Goto, acquire,
     release, tableVars, cpuVars, condVars
<1>3. Moves(c, p, "user")
  BY LocksOf, ProcAssumption DEF Moves, SchedPoints, Resumes, Forking, HoldsPtable, HoldsLk,
     cond_done, At, Trap, Goto, acquire, release, tableVars, cpuVars, condVars
<1> QED BY <1>2, <1>3, Move

\* sleep_acquire() keeps the inductive invariant: it moves p to "sleep1".
LEMMA sleep_acquire_inv ==
  ASSUME NEW c \in CPU, NEW p \in Slot, IInv, sleep_acquire(c, p)
  PROVE  IInv'
<1>2. TypeOK'
  BY ChanTypes, Zenon DEF IInv, TypeOK, Places, Preemptible, sleep_acquire, At, Trap, Goto,
     acquire, release, tableVars, cpuVars, condVars
<1>3. Moves(c, p, "sleep1")
  BY LocksOf, ProcAssumption DEF Moves, SchedPoints, Resumes, Forking, HoldsPtable, HoldsLk,
     sleep_acquire, At, Trap, Goto, acquire, release, tableVars, cpuVars, condVars
<1> QED BY <1>2, <1>3, Move

\* sleep_release() keeps the inductive invariant: it moves p to "sleep2".
LEMMA sleep_release_inv ==
  ASSUME NEW c \in CPU, NEW p \in Slot, IInv, sleep_release(c, p)
  PROVE  IInv'
<1>2. TypeOK'
  BY ChanTypes, Zenon DEF IInv, TypeOK, Places, Preemptible, sleep_release, At, Trap, Goto,
     acquire, release, tableVars, cpuVars, condVars
<1>3. Moves(c, p, "sleep2")
  BY LocksOf, ProcAssumption DEF Moves, SchedPoints, Resumes, Forking, HoldsPtable, HoldsLk,
     sleep_release, At, Trap, Goto, acquire, release, tableVars, cpuVars, condVars
<1> QED BY <1>2, <1>3, Move

\* sleep_resume() keeps the inductive invariant: it moves p to "relock".
LEMMA sleep_resume_inv ==
  ASSUME NEW c \in CPU, NEW p \in Slot, IInv, sleep_resume(c, p)
  PROVE  IInv'
<1>2. TypeOK'
  BY ChanTypes, Zenon DEF IInv, TypeOK, Places, Preemptible, sleep_resume, At, Trap, Goto,
     acquire, release, tableVars, cpuVars, condVars
<1>3. Moves(c, p, "relock")
  BY LocksOf, ProcAssumption DEF Moves, SchedPoints, Resumes, Forking, HoldsPtable, HoldsLk,
     sleep_resume, At, Trap, Goto, acquire, release, tableVars, cpuVars, condVars
<1> QED BY <1>2, <1>3, Move

\* sleep_relock() keeps the inductive invariant: it moves p to "test".
LEMMA sleep_relock_inv ==
  ASSUME NEW c \in CPU, NEW p \in Slot, IInv, sleep_relock(c, p)
  PROVE  IInv'
<1>2. TypeOK'
  BY ChanTypes, Zenon DEF IInv, TypeOK, Places, Preemptible, sleep_relock, At, Trap, Goto,
     acquire, release, tableVars, cpuVars, condVars
<1>3. Moves(c, p, "test")
  BY LocksOf, ProcAssumption DEF Moves, SchedPoints, Resumes, Forking, HoldsPtable, HoldsLk,
     sleep_relock, At, Trap, Goto, acquire, release, tableVars, cpuVars, condVars
<1> QED BY <1>2, <1>3, Move

\* signal() keeps the inductive invariant: it moves p to "signal".
LEMMA signal_inv ==
  ASSUME NEW c \in CPU, NEW p \in Slot, IInv, signal(c, p)
  PROVE  IInv'
<1>2. TypeOK'
  BY ChanTypes, Zenon DEF IInv, TypeOK, Places, Preemptible, signal, At, Trap, Goto, acquire,
     release, tableVars, cpuVars, condVars
<1>3. Moves(c, p, "signal")
  BY LocksOf, ProcAssumption DEF Moves, SchedPoints, Resumes, Forking, HoldsPtable, HoldsLk,
     signal, At, Trap, Goto, acquire, release, tableVars, cpuVars, condVars
<1> QED BY <1>2, <1>3, Move

\* yield_return() keeps the inductive invariant: it moves p back to where the
\* timer interrupted it.
LEMMA yield_return_inv ==
  ASSUME NEW c \in CPU, NEW p \in Slot, IInv, yield_return(c, p)
  PROVE  IInv'
<1>1. TypeOK'
  BY Zenon DEF IInv, TypeOK, Places, Preemptible, yield_return, Goto, release, tableVars,
     condVars
<1>2. back[p] \in Preemptible /\ \A q \in Slot \ {p} : back'[q] = back[q]
  BY DEF IInv, TypeOK, yield_return
<1>3. Loc(p) = back[p]
  BY DEF Loc, yield_return, At
<1>4. Moves(c, p, back[p])
  BY <1>2, <1>3, LocksOf, ProcAssumption DEF Moves, SchedPoints, Preemptible, Resumes,
     HoldsPtable, HoldsLk, yield_return, At, Goto, release, tableVars, condVars
<1> QED BY <1>1, <1>4, Move

\* allocproc() keeps the inductive invariant.
LEMMA allocproc_inv ==
  ASSUME NEW c \in CPU, NEW p \in Slot, IInv, allocproc(c, p)
  PROVE  IInv'
<1> USE ProcAssumption DEF allocproc, At, Trap, Goto, acquire, release, tableVars,
      cpuVars, threadVars, condVars, SchedPoints, Resumes, Preemptible, None, Slot
<1>0. PICK s \in Slot : /\ state[s] = "UNUSED"
                        /\ state' = [state EXCEPT ![s] = "EMBRYO"]
                        /\ pid' = [pid EXCEPT ![s] = nextpid]
                        /\ child' = [child EXCEPT ![p] = s]
  BY Zenon
<1>a. s # p /\ pc[s] = "none" /\ \A d \in CPU : ctx[d] # s
  BY <1>0, NotOnCpu DEF IInv, OffCpu
<1>1. TypeOK'
  BY SMTT(90), <1>0, <1>a DEF IInv, TypeOK, Places, CondChan, initproc
<1>2. StackExclusive'
  BY <1>0, <1>a DEF IInv, StackExclusive, TypeOK, OnCpu, LockByPlace
<1>3. LockByPlace'
  BY <1>0, <1>a, FreeLock DEF IInv, LockByPlace, TypeOK, StackExclusive, OnCpu, HoldsPtable
<1>4. LkByPlace'
  BY SMTT(90), <1>0, <1>a DEF IInv, LkByPlace, TypeOK, StackExclusive, HoldsLk
<1>5. OnCpu'
  BY SMTT(60), <1>0, <1>a DEF IInv, OnCpu, TypeOK, StackExclusive, LockByPlace, HoldsPtable
<1>6. OffCpu'
  BY SMTT(90), <1>0, <1>a DEF IInv, OffCpu, TypeOK, OnCpu, StackExclusive
<1>7. ChildOwned'
  <2>1. ASSUME NEW q \in Slot PROVE (Loc(q) \in Forking => child[q] # None)'
    BY SMTT(90), <1>0, <1>a DEF IInv, TypeOK, ChildOwned, Loc, Forking
  <2>2. ASSUME NEW q \in Slot, child'[q] # None
        PROVE  /\ state'[child'[q]] = "EMBRYO"
               /\ Loc(q)' = "fork1" => pc'[child'[q]] = "none"
               /\ Loc(q)' \in {"fork2", "fork3"} => pc'[child'[q]] = "forkret" /\ kstack'[child'[q]]
    <3>1. CASE q = p
      BY <1>0, <1>a, <2>2, <3>1 DEF IInv, TypeOK, Loc, Forking
    <3>2. CASE q # p
      <4>1. child'[q] = child[q] /\ child[q] \in Slot /\ Loc(q)' = Loc(q)
        BY <1>0, <1>a, <2>2, <3>2 DEF IInv, TypeOK, Loc, ChildOwned
      <4>2. child[q] # p
        BY <4>1 DEF IInv, ChildOwned, OnCpu
      <4> QED BY SMTT(90), <1>0, <1>a, <2>2, <3>2, <4>1, <4>2 DEF IInv, TypeOK, ChildOwned
    <3> QED BY <3>1, <3>2
  <2>3. ASSUME NEW q \in Slot, NEW r \in Slot, child'[q] = child'[r], child'[q] # None
        PROVE  q = r
    BY SMTT(90), <1>0, <1>a, <2>3 DEF IInv, TypeOK, ChildOwned
  <2> QED BY <2>1, <2>2, <2>3 DEF ChildOwned
<1>8. StackOwned'
  BY <1>0, <1>a DEF IInv, StackOwned, TypeOK
<1> QED BY <1>1, <1>2, <1>3, <1>4, <1>5, <1>6, <1>7, <1>8 DEF IInv

\* allocproc_kstack() keeps the inductive invariant.
LEMMA allocproc_kstack_inv ==
  ASSUME NEW c \in CPU, NEW p \in Slot, IInv, allocproc_kstack(c, p)
  PROVE  IInv'
<1> USE ProcAssumption DEF allocproc_kstack, At, Trap, Goto, acquire, release, tableVars,
      cpuVars, threadVars, condVars, SchedPoints, Resumes, Preemptible, None, Slot
<1>0. /\ child[p] \in Slot /\ state[child[p]] = "EMBRYO" /\ child[p] # p
      /\ \A d \in CPU : ctx[d] # child[p]
      /\ \A q \in Slot : child[q] = child[p] => q = p
      /\ pc[p] = "fork1" => pc[child[p]] = "none"
      /\ pc[p] # "fork1" => pc[child[p]] = "forkret" /\ kstack[child[p]]
  BY ForkChild DEF Forking
<1>1. TypeOK'
  BY <1>0, ZenonT(60) DEF IInv, TypeOK, Places, CondChan, initproc
<1>2. StackExclusive'
  BY <1>0 DEF IInv, StackExclusive, TypeOK, OnCpu, LockByPlace
<1>3. LockByPlace'
  BY SMTT(40), <1>0 DEF IInv, LockByPlace, TypeOK, StackExclusive, OnCpu, HoldsPtable
<1>4. LkByPlace'
  BY SMTT(90), <1>0 DEF IInv, LkByPlace, TypeOK, StackExclusive, HoldsLk
<1>5. OnCpu'
  BY SMTT(90), <1>0 DEF IInv, OnCpu, TypeOK, StackExclusive, LockByPlace, HoldsPtable
<1>6. OffCpu'
  <2> SUFFICES ASSUME NEW r \in Slot, \A d \in CPU : ctx'[d] # r
               PROVE  /\ state'[r] # "RUNNING"
                      /\ state'[r] = "RUNNABLE" => pc'[r] \in Resumes
                      /\ state'[r] = "SLEEPING" => pc'[r] \in {"in_sleep", "in_wait"}
                      /\ state'[r] = "ZOMBIE" => pc'[r] = "dead"
                      /\ state'[r] = "UNUSED" => pc'[r] = "none"
                      /\ state'[r] = "EMBRYO" => pc'[r] \in {"none", "forkret"}
    BY Zenon DEF OffCpu
  <2>1. r # p
    OBVIOUS
  <2>2. CASE r = child[p]
    BY <1>0, <2>1, <2>2 DEF IInv, TypeOK
  <2>3. CASE r # child[p]
    BY SMTT(90), <1>0, <2>1, <2>3 DEF IInv, TypeOK, OffCpu
  <2> QED BY <2>2, <2>3
<1>7. ChildOwned'
  <2>1. ASSUME NEW q \in Slot PROVE (Loc(q) \in Forking => child[q] # None)'
    BY SMTT(90), <1>0 DEF IInv, TypeOK, ChildOwned, Loc, Forking
  <2>2. ASSUME NEW q \in Slot, child'[q] # None
        PROVE  /\ state'[child'[q]] = "EMBRYO"
               /\ Loc(q)' = "fork1" => pc'[child'[q]] = "none"
               /\ Loc(q)' \in {"fork2", "fork3"} => pc'[child'[q]] = "forkret" /\ kstack'[child'[q]]
    <3>1. CASE q = p
      BY <1>0, <2>2, <3>1 DEF IInv, TypeOK, Loc, Forking
    <3>2. CASE q # p
      <4>1. child'[q] = child[q] /\ child[q] \in Slot
        BY <1>0, <2>2, <3>2 DEF IInv, TypeOK, Loc, ChildOwned
      <4>2. child[q] # p
        BY <4>1 DEF IInv, ChildOwned, OnCpu
      <4>3. child[q] # child[p]
        BY <1>0, <3>2
      <4>4. pc'[child[q]] = pc[child[q]] /\ state'[child[q]] = state[child[q]]
              /\ kstack'[child[q]] = kstack[child[q]]
        BY SMTT(60), <1>0, <4>1, <4>2, <4>3 DEF IInv, TypeOK
      <4>5. Loc(q)' \in Forking => Loc(q)' = Loc(q)
        BY SMTT(90), <1>0, <3>2 DEF IInv, TypeOK, Loc, Forking
      <4> QED BY SMTT(60), <4>1, <4>4, <4>5, <2>2 DEF IInv, ChildOwned, Forking
    <3> QED BY <3>1, <3>2
  <2>3. ASSUME NEW q \in Slot, NEW r \in Slot, child'[q] = child'[r], child'[q] # None
        PROVE  q = r
    BY <1>0, <2>3 DEF IInv, TypeOK, ChildOwned
  <2> QED BY Zenon, <2>1, <2>2, <2>3 DEF ChildOwned
<1>8. StackOwned'
  BY <1>0 DEF IInv, StackOwned, TypeOK
<1> QED BY <1>1, <1>2, <1>3, <1>4, <1>5, <1>6, <1>7, <1>8 DEF IInv

\* allocproc_fail() keeps the inductive invariant.
LEMMA allocproc_fail_inv ==
  ASSUME NEW c \in CPU, NEW p \in Slot, IInv, allocproc_fail(c, p)
  PROVE  IInv'
<1> USE ProcAssumption DEF allocproc_fail, At, Trap, Goto, acquire, release, tableVars,
      cpuVars, threadVars, condVars, SchedPoints, Resumes, Preemptible, None, Slot
<1>0. /\ child[p] \in Slot /\ state[child[p]] = "EMBRYO" /\ child[p] # p
      /\ \A d \in CPU : ctx[d] # child[p]
      /\ \A q \in Slot : child[q] = child[p] => q = p
      /\ pc[p] = "fork1" => pc[child[p]] = "none"
      /\ pc[p] # "fork1" => pc[child[p]] = "forkret" /\ kstack[child[p]]
  BY ForkChild DEF Forking
<1>1. TypeOK'
  BY <1>0, Zenon DEF IInv, TypeOK, Places, CondChan, initproc
<1>2. StackExclusive'
  BY <1>0 DEF IInv, StackExclusive, TypeOK, OnCpu, LockByPlace
<1>3. LockByPlace'
  BY <1>0 DEF IInv, LockByPlace, TypeOK, StackExclusive, OnCpu, HoldsPtable
<1>4. LkByPlace'
  BY SMTT(40), <1>0 DEF IInv, LkByPlace, TypeOK, StackExclusive, HoldsLk
<1>5. OnCpu'
  BY SMTT(60), <1>0 DEF IInv, OnCpu, TypeOK, StackExclusive, LockByPlace, HoldsPtable
<1>6. OffCpu'
  BY SMTT(90), <1>0 DEF IInv, OffCpu, TypeOK, OnCpu, StackExclusive
<1>7. ChildOwned'
  <2>1. ASSUME NEW q \in Slot PROVE (Loc(q) \in Forking => child[q] # None)'
    BY <1>0 DEF IInv, TypeOK, ChildOwned, Loc, Forking
  <2>2. ASSUME NEW q \in Slot, child'[q] # None
        PROVE  /\ state'[child'[q]] = "EMBRYO"
               /\ Loc(q)' = "fork1" => pc'[child'[q]] = "none"
               /\ Loc(q)' \in {"fork2", "fork3"} => pc'[child'[q]] = "forkret" /\ kstack'[child'[q]]
    <3>1. CASE q = p
      BY SMTT(90), <1>0, <2>2, <3>1 DEF IInv, TypeOK, Loc, Forking
    <3>2. CASE q # p
      <4>1. child'[q] = child[q] /\ child[q] \in Slot /\ Loc(q)' = Loc(q)
        BY <1>0, <2>2, <3>2 DEF IInv, TypeOK, Loc, ChildOwned
      <4>2. child[q] # p
        BY <4>1 DEF IInv, ChildOwned, OnCpu
      <4> QED BY SMTT(90), <1>0, <2>2, <3>2, <4>1, <4>2 DEF IInv, TypeOK, ChildOwned
    <3> QED BY SMTT(40), <3>1, <3>2
  <2>3. ASSUME NEW q \in Slot, NEW r \in Slot, child'[q] = child'[r], child'[q] # None
        PROVE  q = r
    BY SMTT(40), <1>0, <2>3 DEF IInv, TypeOK, ChildOwned
  <2> QED BY <2>1, <2>2, <2>3 DEF ChildOwned
<1>8. StackOwned'
  BY <1>0 DEF IInv, StackOwned, TypeOK
<1> QED BY <1>1, <1>2, <1>3, <1>4, <1>5, <1>6, <1>7, <1>8 DEF IInv

\* fork_fail() keeps the inductive invariant.
LEMMA fork_fail_inv ==
  ASSUME NEW c \in CPU, NEW p \in Slot, IInv, fork_fail(c, p)
  PROVE  IInv'
<1> USE ProcAssumption DEF fork_fail, At, Trap, Goto, acquire, release, tableVars,
      cpuVars, threadVars, condVars, SchedPoints, Resumes, Preemptible, None, Slot
<1>0. /\ child[p] \in Slot /\ state[child[p]] = "EMBRYO" /\ child[p] # p
      /\ \A d \in CPU : ctx[d] # child[p]
      /\ \A q \in Slot : child[q] = child[p] => q = p
      /\ pc[p] = "fork1" => pc[child[p]] = "none"
      /\ pc[p] # "fork1" => pc[child[p]] = "forkret" /\ kstack[child[p]]
  BY ForkChild DEF Forking
<1>1. TypeOK'
  BY <1>0, ZenonT(90) DEF IInv, TypeOK, Places, CondChan, initproc
<1>2. StackExclusive'
  BY SMTT(60), <1>0 DEF IInv, StackExclusive, TypeOK, OnCpu, LockByPlace
<1>3. LockByPlace'
  BY SMTT(60), <1>0 DEF IInv, LockByPlace, TypeOK, StackExclusive, OnCpu, HoldsPtable
<1>4. LkByPlace'
  BY SMTT(90), <1>0 DEF IInv, LkByPlace, TypeOK, StackExclusive, HoldsLk
<1>5. OnCpu'
  BY SMTT(90), <1>0 DEF IInv, OnCpu, TypeOK, StackExclusive, LockByPlace, HoldsPtable
<1>6. OffCpu'
  BY SMTT(90), <1>0 DEF IInv, OffCpu, TypeOK, OnCpu, StackExclusive
<1>7. ChildOwned'
  <2>1. ASSUME NEW q \in Slot PROVE (Loc(q) \in Forking => child[q] # None)'
    BY SMTT(90), <1>0 DEF IInv, TypeOK, ChildOwned, Loc, Forking
  <2>2. ASSUME NEW q \in Slot, child'[q] # None
        PROVE  /\ state'[child'[q]] = "EMBRYO"
               /\ Loc(q)' = "fork1" => pc'[child'[q]] = "none"
               /\ Loc(q)' \in {"fork2", "fork3"} => pc'[child'[q]] = "forkret" /\ kstack'[child'[q]]
    <3>1. CASE q = p
      BY <1>0, <2>2, <3>1 DEF IInv, TypeOK, Loc, Forking
    <3>2. CASE q # p
      <4>1. child'[q] = child[q] /\ child[q] \in Slot
        BY <1>0, <2>2, <3>2 DEF IInv, TypeOK, Loc, ChildOwned
      <4>2. child[q] # p
        BY <4>1 DEF IInv, ChildOwned, OnCpu
      <4>3. child[q] # child[p]
        BY SMTT(60), <1>0, <3>2
      <4>4. pc'[child[q]] = pc[child[q]] /\ state'[child[q]] = state[child[q]]
              /\ kstack'[child[q]] = kstack[child[q]]
        BY SMTT(60), <1>0, <4>1, <4>2, <4>3 DEF IInv, TypeOK
      <4>5. Loc(q)' \in Forking => Loc(q)' = Loc(q)
        BY SMTT(90), <1>0, <3>2 DEF IInv, TypeOK, Loc, Forking
      <4> QED BY ZenonT(90), <4>1, <4>4, <4>5, <2>2 DEF IInv, ChildOwned, Forking
    <3> QED BY <3>1, <3>2
  <2>3. ASSUME NEW q \in Slot, NEW r \in Slot, child'[q] = child'[r], child'[q] # None
        PROVE  q = r
    BY SMTT(60), <1>0, <2>3 DEF IInv, TypeOK, ChildOwned
  <2> QED BY Zenon, <2>1, <2>2, <2>3 DEF ChildOwned
<1>8. StackOwned'
  BY <1>0 DEF IInv, StackOwned, TypeOK
<1> QED BY <1>1, <1>2, <1>3, <1>4, <1>5, <1>6, <1>7, <1>8 DEF IInv

\* fork_run() keeps the inductive invariant.
LEMMA fork_run_inv ==
  ASSUME NEW c \in CPU, NEW p \in Slot, IInv, fork_run(c, p)
  PROVE  IInv'
<1> USE ProcAssumption DEF fork_run, At, Trap, Goto, acquire, release, tableVars,
      cpuVars, threadVars, condVars, SchedPoints, Resumes, Preemptible, None, Slot
<1>0. /\ child[p] \in Slot /\ state[child[p]] = "EMBRYO" /\ child[p] # p
      /\ \A d \in CPU : ctx[d] # child[p]
      /\ \A q \in Slot : child[q] = child[p] => q = p
      /\ pc[p] = "fork1" => pc[child[p]] = "none"
      /\ pc[p] # "fork1" => pc[child[p]] = "forkret" /\ kstack[child[p]]
  BY ForkChild DEF Forking
<1>1. TypeOK'
  BY <1>0, ZenonT(90) DEF IInv, TypeOK, Places, CondChan, initproc
<1>2. StackExclusive'
  BY SMTT(90), <1>0 DEF IInv, StackExclusive, TypeOK, OnCpu, LockByPlace
<1>3. LockByPlace'
  BY SMTT(60), <1>0, FreeLock DEF IInv, LockByPlace, TypeOK, StackExclusive, OnCpu, HoldsPtable
<1>4. LkByPlace'
  BY SMTT(90), <1>0 DEF IInv, LkByPlace, TypeOK, StackExclusive, HoldsLk
<1>5. OnCpu'
  BY SMTT(90), <1>0 DEF IInv, OnCpu, TypeOK, StackExclusive, LockByPlace, HoldsPtable
<1>6. OffCpu'
  BY SMTT(90), <1>0 DEF IInv, OffCpu, TypeOK, OnCpu, StackExclusive
<1>7. ChildOwned'
  <2>1. ASSUME NEW q \in Slot PROVE (Loc(q) \in Forking => child[q] # None)'
    BY SMTT(40), <1>0 DEF IInv, TypeOK, ChildOwned, Loc, Forking
  <2>2. ASSUME NEW q \in Slot, child'[q] # None
        PROVE  /\ state'[child'[q]] = "EMBRYO"
               /\ Loc(q)' = "fork1" => pc'[child'[q]] = "none"
               /\ Loc(q)' \in {"fork2", "fork3"} => pc'[child'[q]] = "forkret" /\ kstack'[child'[q]]
    <3>1. CASE q = p
      BY SMTT(90), <1>0, <2>2, <3>1 DEF IInv, TypeOK, Loc, Forking
    <3>2. CASE q # p
      <4>1. child'[q] = child[q] /\ child[q] \in Slot /\ Loc(q)' = Loc(q)
        BY <1>0, <2>2, <3>2 DEF IInv, TypeOK, Loc, ChildOwned
      <4>2. child[q] # p
        BY SMTT(90), <4>1 DEF IInv, ChildOwned, OnCpu
      <4> QED BY SMTT(90), <1>0, <2>2, <3>2, <4>1, <4>2 DEF IInv, TypeOK, ChildOwned
    <3> QED BY SMTT(90), <3>1, <3>2
  <2>3. ASSUME NEW q \in Slot, NEW r \in Slot, child'[q] = child'[r], child'[q] # None
        PROVE  q = r
    BY SMTT(60), <1>0, <2>3 DEF IInv, TypeOK, ChildOwned
  <2> QED BY <2>1, <2>2, <2>3 DEF ChildOwned
<1>8. StackOwned'
  BY SMTT(90), <1>0 DEF IInv, StackOwned, TypeOK
<1> QED BY <1>1, <1>2, <1>3, <1>4, <1>5, <1>6, <1>7, <1>8 DEF IInv

\* exit() keeps the inductive invariant.
LEMMA exit_inv ==
  ASSUME NEW c \in CPU, NEW p \in Slot, IInv, exit(c, p)
  PROVE  IInv'
<1> USE ProcAssumption DEF exit, exit_wakes, reparent, Sleepers, At, Trap, Goto, acquire, release, tableVars,
      cpuVars, threadVars, condVars, SchedPoints, Resumes, Preemptible, None, Slot
<1>1. TypeOK'
  BY SMTT(90) DEF IInv, TypeOK, Places, CondChan, initproc
<1>2. StackExclusive'
  BY DEF IInv, StackExclusive, TypeOK, OnCpu, LockByPlace
<1>3. LockByPlace'
  <2> SUFFICES ASSUME NEW d \in CPU, NEW q \in Slot, ctx'[d] = q, pc'[q] \in HoldsPtable
               PROVE  d = c
    BY DEF LockByPlace
  <2>1. CASE d # c
    <3>1. ctx[d] = q /\ q # p
      BY SMTT(90), <2>1 DEF IInv, TypeOK, StackExclusive
    <3>2. pc'[q] = pc[q]
      BY SMTT(90), <3>1 DEF IInv, TypeOK
    <3> QED BY SMTT(90), <3>1, <3>2, FreeLock
  <2> QED BY <2>1
<1>4. LkByPlace'
  BY SMTT(90) DEF IInv, LkByPlace, TypeOK, StackExclusive, HoldsLk
<1>5. OnCpu'
  BY SMTT(90) DEF IInv, OnCpu, TypeOK, StackExclusive, LockByPlace, HoldsPtable
<1>6. OffCpu'
  BY SMTT(90) DEF IInv, OffCpu, TypeOK, OnCpu, StackExclusive
<1>7. ChildOwned'
  <2>1. \A q \in Slot : Loc(q)' \in Forking =>
           Loc(q) \in Forking /\ (Loc(q)' = "fork1" <=> Loc(q) = "fork1")
    BY DEF IInv, TypeOK, Loc, Forking
  <2>2. \A s \in Slot : state[s] = "EMBRYO" =>
           state'[s] = "EMBRYO" /\ pc'[s] = pc[s] /\ kstack'[s] = kstack[s]
    BY ZenonT(90) DEF IInv, TypeOK, OnCpu
  <2> QED BY SMTT(90), <2>1, <2>2, ChildFrame
<1>8. StackOwned'
  BY Zenon DEF IInv, StackOwned, TypeOK, OnCpu
<1> QED BY <1>1, <1>2, <1>3, <1>4, <1>5, <1>6, <1>7, <1>8 DEF IInv

\* wait_reap() keeps the inductive invariant.
LEMMA wait_reap_inv ==
  ASSUME NEW c \in CPU, NEW p \in Slot, IInv, wait_reap(c, p)
  PROVE  IInv'
<1> USE ProcAssumption DEF wait_reap, Zombies, Children, At, Trap, Goto, acquire, release, tableVars,
      cpuVars, threadVars, condVars, SchedPoints, Resumes, Preemptible, None, Slot
<1>0. PICK q \in Slot : /\ state[q] = "ZOMBIE"
                        /\ kstack' = [kstack EXCEPT ![q] = FALSE]
                        /\ pid' = [pid EXCEPT ![q] = 0]
                        /\ parent' = [parent EXCEPT ![q] = None]
                        /\ killed' = [killed EXCEPT ![q] = FALSE]
                        /\ state' = [state EXCEPT ![q] = "UNUSED"]
                        /\ pc' = [pc EXCEPT ![p] = "user", ![q] = "none"]
  BY Zenon
<1>a. q # p /\ \A d \in CPU : ctx[d] # q
  BY <1>0 DEF IInv, OnCpu, LockByPlace, HoldsPtable
<1>1. TypeOK'
  BY <1>0, <1>a, ZenonT(90) DEF IInv, TypeOK, Places, CondChan, initproc
<1>2. StackExclusive'
  BY SMTT(90), <1>0, <1>a DEF IInv, StackExclusive, TypeOK, OnCpu, LockByPlace
<1>3. LockByPlace'
  BY SMTT(90), <1>0, <1>a DEF IInv, LockByPlace, TypeOK, StackExclusive, OnCpu, HoldsPtable
<1>4. LkByPlace'
  BY SMTT(90), <1>0, <1>a DEF IInv, LkByPlace, TypeOK, StackExclusive, HoldsLk
<1>5. OnCpu'
  BY SMTT(90), <1>0, <1>a DEF IInv, OnCpu, TypeOK, StackExclusive, LockByPlace, HoldsPtable
<1>6. OffCpu'
  <2> SUFFICES ASSUME NEW r \in Slot, \A d \in CPU : ctx'[d] # r
               PROVE  /\ state'[r] # "RUNNING"
                      /\ state'[r] = "RUNNABLE" => pc'[r] \in Resumes
                      /\ state'[r] = "SLEEPING" => pc'[r] \in {"in_sleep", "in_wait"}
                      /\ state'[r] = "ZOMBIE" => pc'[r] = "dead"
                      /\ state'[r] = "UNUSED" => pc'[r] = "none"
                      /\ state'[r] = "EMBRYO" => pc'[r] \in {"none", "forkret"}
    BY ZenonT(90) DEF OffCpu
  <2>1. r # p
    BY Zenon
  <2>2. CASE r = q
    BY SMTT(90), <1>0, <1>a, <2>1, <2>2 DEF IInv, TypeOK
  <2>3. CASE r # q
    BY SMTT(90), <1>0, <1>a, <2>1, <2>3 DEF IInv, TypeOK, OffCpu
  <2> QED BY <2>2, <2>3
<1>7. ChildOwned'
  <2>1. \A r \in Slot : Loc(r)' \in Forking =>
           Loc(r) \in Forking /\ (Loc(r)' = "fork1" <=> Loc(r) = "fork1")
    BY SMTT(90), <1>0, <1>a DEF IInv, TypeOK, Loc, Forking
  <2>2. ASSUME NEW s \in Slot, state[s] = "EMBRYO"
        PROVE  state'[s] = "EMBRYO" /\ pc'[s] = pc[s] /\ kstack'[s] = kstack[s]
    <3>1. s # p /\ s # q
      BY SMTT(60), <1>0, <2>2 DEF IInv, OnCpu
    <3> QED BY <1>0, <2>2, <3>1 DEF IInv, TypeOK
  <2> QED BY Zenon, <2>1, <2>2, ChildFrame
<1>8. StackOwned'
  BY <1>0, <1>a DEF IInv, StackOwned, TypeOK
<1> QED BY <1>1, <1>2, <1>3, <1>4, <1>5, <1>6, <1>7, <1>8 DEF IInv

\* wait_sleep() keeps the inductive invariant.
LEMMA wait_sleep_inv ==
  ASSUME NEW c \in CPU, NEW p \in Slot, IInv, wait_sleep(c, p)
  PROVE  IInv'
<1> USE ProcAssumption DEF wait_sleep, Zombies, Children, At, Trap, Goto, acquire, release, tableVars,
      cpuVars, threadVars, condVars, SchedPoints, Resumes, Preemptible, None, Slot
<1>1. TypeOK'
  BY ChanTypes, ZenonT(90) DEF IInv, TypeOK, Places, CondChan, initproc
<1>2. StackExclusive'
  BY SMTT(60) DEF IInv, StackExclusive, TypeOK, OnCpu, LockByPlace
<1>3. LockByPlace'
  BY SMTT(60) DEF IInv, LockByPlace, TypeOK, StackExclusive, OnCpu, HoldsPtable
<1>4. LkByPlace'
  BY SMTT(90) DEF IInv, LkByPlace, TypeOK, StackExclusive, HoldsLk
<1>5. OnCpu'
  BY SMTT(90) DEF IInv, OnCpu, TypeOK, StackExclusive, LockByPlace, HoldsPtable
<1>6. OffCpu'
  BY SMTT(90) DEF IInv, OffCpu, TypeOK, OnCpu, StackExclusive
<1>7. ChildOwned'
  <2>1. \A q \in Slot : Loc(q)' \in Forking =>
           Loc(q) \in Forking /\ (Loc(q)' = "fork1" <=> Loc(q) = "fork1")
    BY DEF IInv, TypeOK, Loc, Forking
  <2>2. \A s \in Slot : state[s] = "EMBRYO" =>
           state'[s] = "EMBRYO" /\ pc'[s] = pc[s] /\ kstack'[s] = kstack[s]
    BY Zenon DEF IInv, TypeOK, OnCpu
  <2> QED BY <2>1, <2>2, ChildFrame
<1>8. StackOwned'
  BY ZenonT(90) DEF IInv, StackOwned, TypeOK, OnCpu
<1> QED BY <1>1, <1>2, <1>3, <1>4, <1>5, <1>6, <1>7, <1>8 DEF IInv

\* kill() keeps the inductive invariant.
LEMMA kill_inv ==
  ASSUME NEW c \in CPU, NEW p \in Slot, NEW k \in KillPids, IInv, kill(c, p, k)
  PROVE  IInv'
<1> USE ProcAssumption DEF kill, At, Trap, Goto, acquire, release, tableVars,
      cpuVars, threadVars, condVars, SchedPoints, Resumes, Preemptible, None, Slot
<1>1. TypeOK'
  BY ChanTypes, ZenonT(90) DEF IInv, TypeOK, Places, CondChan, initproc
<1>2. StackExclusive'
  BY DEF IInv, StackExclusive, TypeOK, OnCpu, LockByPlace
<1>3. LockByPlace'
  BY FreeLock DEF IInv, LockByPlace, TypeOK, StackExclusive, OnCpu, HoldsPtable
<1>4. LkByPlace'
  BY SMTT(60) DEF IInv, LkByPlace, TypeOK, StackExclusive, HoldsLk
<1>5. OnCpu'
  BY SMTT(90) DEF IInv, OnCpu, TypeOK, StackExclusive, LockByPlace, HoldsPtable
<1>6. OffCpu'
  BY SMTT(90) DEF IInv, OffCpu, TypeOK, OnCpu, StackExclusive
<1>7. ChildOwned'
  <2>1. \A q \in Slot : Loc(q)' = Loc(q)
    BY DEF Loc
  <2>2. \A s \in Slot : state[s] = "EMBRYO" => state'[s] = "EMBRYO"
    BY SMTT(60) DEF IInv, TypeOK
  <2> QED BY <2>1, <2>2, ChildFrame
<1>8. StackOwned'
  BY SMTT(90) DEF IInv, StackOwned, TypeOK
<1> QED BY <1>1, <1>2, <1>3, <1>4, <1>5, <1>6, <1>7, <1>8 DEF IInv

\* sched() keeps the inductive invariant.
LEMMA sched_inv ==
  ASSUME NEW c \in CPU, NEW p \in Slot, IInv, sched(c, p)
  PROVE  IInv'
<1> USE ProcAssumption DEF sched, AfterSwtch, At, Trap, Goto, acquire, release, tableVars,
      cpuVars, threadVars, condVars, SchedPoints, Resumes, Preemptible, None, Slot
<1>1. TypeOK'
  BY Zenon DEF IInv, TypeOK, Places, CondChan, initproc
<1>2. StackExclusive'
  BY DEF IInv, StackExclusive, TypeOK, OnCpu, LockByPlace
<1>3. LockByPlace'
  BY DEF IInv, LockByPlace, TypeOK, StackExclusive, OnCpu, HoldsPtable
<1>4. LkByPlace'
  BY DEF IInv, LkByPlace, TypeOK, StackExclusive, HoldsLk
<1>5. OnCpu'
  BY DEF IInv, OnCpu, TypeOK, StackExclusive, LockByPlace, HoldsPtable
<1>6. OffCpu'
  BY DEF IInv, OffCpu, TypeOK, OnCpu, StackExclusive
<1>7. ChildOwned'
  <2>1. \A q \in Slot : Loc(q)' \in Forking =>
           Loc(q) \in Forking /\ (Loc(q)' = "fork1" <=> Loc(q) = "fork1")
    BY DEF IInv, TypeOK, Loc, Forking
  <2>2. \A s \in Slot : state[s] = "EMBRYO" =>
           state'[s] = "EMBRYO" /\ pc'[s] = pc[s] /\ kstack'[s] = kstack[s]
    BY DEF IInv, TypeOK, OnCpu, OffCpu
  <2> QED BY <2>1, <2>2, ChildFrame
<1>8. StackOwned'
  BY DEF IInv, StackOwned, TypeOK
<1> QED BY <1>1, <1>2, <1>3, <1>4, <1>5, <1>6, <1>7, <1>8 DEF IInv

\* scheduler_acquire() keeps the inductive invariant.
LEMMA scheduler_acquire_inv ==
  ASSUME NEW c \in CPU, IInv, scheduler_acquire(c)
  PROVE  IInv'
<1> USE ProcAssumption DEF scheduler_acquire, At, Trap, Goto, acquire, release, tableVars,
      cpuVars, threadVars, condVars, SchedPoints, Resumes, Preemptible, None, Slot
<1>1. TypeOK'
  BY SMTT(90) DEF IInv, TypeOK, Places, CondChan, initproc
<1>2. StackExclusive'
  BY SMTT(90) DEF IInv, StackExclusive, TypeOK, OnCpu, LockByPlace
<1>3. LockByPlace'
  BY SMTT(90), FreeLock DEF IInv, LockByPlace, TypeOK, StackExclusive, OnCpu, HoldsPtable
<1>4. LkByPlace'
  BY SMTT(90) DEF IInv, LkByPlace, TypeOK, StackExclusive, HoldsLk
<1>5. OnCpu'
  BY SMTT(90) DEF IInv, OnCpu, TypeOK, StackExclusive, LockByPlace, HoldsPtable
<1>6. OffCpu'
  BY SMTT(90) DEF IInv, OffCpu, TypeOK, OnCpu, StackExclusive
<1>7. ChildOwned'
  BY DEF IInv, ChildOwned, Loc
<1>8. StackOwned'
  BY DEF IInv, StackOwned, TypeOK
<1> QED BY SMTT(90), <1>1, <1>2, <1>3, <1>4, <1>5, <1>6, <1>7, <1>8 DEF IInv

\* scheduler_run() keeps the inductive invariant.
LEMMA scheduler_run_inv ==
  ASSUME NEW c \in CPU, NEW p \in Slot, IInv, scheduler_run(c, p)
  PROVE  IInv'
<1> USE ProcAssumption DEF scheduler_run, At, Trap, Goto, acquire, release, tableVars,
      cpuVars, threadVars, condVars, SchedPoints, Resumes, Preemptible, None, Slot
<1>0. \A d \in CPU : ctx[d] # p
  BY SMTT(90) DEF IInv, OnCpu, LockByPlace, HoldsPtable
<1>1. TypeOK'
  BY SMTT(90) DEF IInv, TypeOK, Places, CondChan, initproc
<1>2. StackExclusive'
  BY <1>0 DEF IInv, StackExclusive, TypeOK, OnCpu, LockByPlace
<1>3. LockByPlace'
  BY SMTT(90) DEF IInv, LockByPlace, TypeOK, StackExclusive, OnCpu, HoldsPtable
<1>4. LkByPlace'
  BY SMTT(90) DEF IInv, LkByPlace, TypeOK, StackExclusive, HoldsLk
<1>5. OnCpu'
  BY SMTT(90), <1>0 DEF IInv, OnCpu, TypeOK, StackExclusive, LockByPlace, HoldsPtable, OffCpu
<1>6. OffCpu'
  BY SMTT(40), <1>0 DEF IInv, OffCpu, TypeOK, OnCpu, StackExclusive
<1>7. ChildOwned'
  <2>1. \A q \in Slot : Loc(q)' \in Forking =>
           Loc(q) \in Forking /\ (Loc(q)' = "fork1" <=> Loc(q) = "fork1")
    BY DEF IInv, TypeOK, Loc, Forking
  <2>2. \A s \in Slot : state[s] = "EMBRYO" =>
           state'[s] = "EMBRYO" /\ pc'[s] = pc[s] /\ kstack'[s] = kstack[s]
    BY ZenonT(90) DEF IInv, TypeOK, OnCpu
  <2> QED BY SMTT(90), <2>1, <2>2, ChildFrame
<1>8. StackOwned'
  BY SMTT(90) DEF IInv, StackOwned, TypeOK
<1> QED BY SMTT(90), <1>1, <1>2, <1>3, <1>4, <1>5, <1>6, <1>7, <1>8 DEF IInv

\* scheduler_release() keeps the inductive invariant.
LEMMA scheduler_release_inv ==
  ASSUME NEW c \in CPU, IInv, scheduler_release(c)
  PROVE  IInv'
<1> USE ProcAssumption DEF scheduler_release, At, Trap, Goto, acquire, release, tableVars,
      cpuVars, threadVars, condVars, SchedPoints, Resumes, Preemptible, None, Slot
<1>1. TypeOK'
  BY SMTT(90) DEF IInv, TypeOK, Places, CondChan, initproc
<1>2. StackExclusive'
  BY SMTT(90) DEF IInv, StackExclusive, TypeOK, OnCpu, LockByPlace
<1>3. LockByPlace'
  BY SMTT(90) DEF IInv, LockByPlace, TypeOK, StackExclusive, OnCpu, HoldsPtable
<1>4. LkByPlace'
  BY SMTT(90) DEF IInv, LkByPlace, TypeOK, StackExclusive, HoldsLk
<1>5. OnCpu'
  BY SMTT(90) DEF IInv, OnCpu, TypeOK, StackExclusive, LockByPlace, HoldsPtable
<1>6. OffCpu'
  BY SMTT(90) DEF IInv, OffCpu, TypeOK, OnCpu, StackExclusive
<1>7. ChildOwned'
  BY SMTT(60) DEF IInv, ChildOwned, Loc
<1>8. StackOwned'
  BY SMTT(60) DEF IInv, StackOwned, TypeOK
<1> QED BY SMTT(90), <1>1, <1>2, <1>3, <1>4, <1>5, <1>6, <1>7, <1>8 DEF IInv

\* yield() keeps the inductive invariant.
LEMMA yield_inv ==
  ASSUME NEW c \in CPU, NEW p \in Slot, IInv, yield(c, p)
  PROVE  IInv'
<1> USE ProcAssumption DEF yield, At, Trap, Goto, acquire, release, tableVars,
      cpuVars, threadVars, condVars, SchedPoints, Resumes, Preemptible, None, Slot
<1>1. TypeOK'
  BY ZenonT(90) DEF IInv, TypeOK, Places, CondChan, initproc
<1>2. StackExclusive'
  BY DEF IInv, StackExclusive, TypeOK, OnCpu, LockByPlace
<1>3. LockByPlace'
  <2> SUFFICES ASSUME NEW d \in CPU, NEW q \in Slot, ctx'[d] = q, pc'[q] \in HoldsPtable
               PROVE  d = c
    BY DEF LockByPlace
  <2>1. CASE d # c
    <3>1. ctx[d] = q /\ q # p
      BY SMTT(90), <2>1 DEF IInv, TypeOK, StackExclusive
    <3>2. pc'[q] = pc[q]
      BY SMTT(90), <3>1 DEF IInv, TypeOK
    <3> QED BY SMTT(90), <3>1, <3>2, FreeLock
  <2> QED BY <2>1
<1>4. LkByPlace'
  BY SMTT(90) DEF IInv, LkByPlace, TypeOK, StackExclusive, HoldsLk
<1>5. OnCpu'
  BY SMTT(90) DEF IInv, OnCpu, TypeOK, StackExclusive, LockByPlace, HoldsPtable
<1>6. OffCpu'
  BY SMTT(60) DEF IInv, OffCpu, TypeOK, OnCpu, StackExclusive
<1>7. ChildOwned'
  <2>1. \A q \in Slot : Loc(q)' \in Forking =>
           Loc(q) \in Forking /\ (Loc(q)' = "fork1" <=> Loc(q) = "fork1")
    BY SMTT(90) DEF IInv, TypeOK, Loc, Forking
  <2>2. \A s \in Slot : state[s] = "EMBRYO" =>
           state'[s] = "EMBRYO" /\ pc'[s] = pc[s] /\ kstack'[s] = kstack[s]
    BY Zenon DEF IInv, TypeOK, OnCpu
  <2> QED BY SMTT(90), <2>1, <2>2, ChildFrame
<1>8. StackOwned'
  BY ZenonT(90) DEF IInv, StackOwned, TypeOK, OnCpu
<1> QED BY <1>1, <1>2, <1>3, <1>4, <1>5, <1>6, <1>7, <1>8 DEF IInv

\* sleep_mark() keeps the inductive invariant.
LEMMA sleep_mark_inv ==
  ASSUME NEW c \in CPU, NEW p \in Slot, IInv, sleep_mark(c, p)
  PROVE  IInv'
<1> USE ProcAssumption DEF sleep_mark, At, Trap, Goto, acquire, release, tableVars,
      cpuVars, threadVars, condVars, SchedPoints, Resumes, Preemptible, None, Slot
<1>1. TypeOK'
  BY ChanTypes, ZenonT(90) DEF IInv, TypeOK, Places, CondChan, initproc
<1>2. StackExclusive'
  BY SMTT(90) DEF IInv, StackExclusive, TypeOK, OnCpu, LockByPlace
<1>3. LockByPlace'
  BY SMTT(90) DEF IInv, LockByPlace, TypeOK, StackExclusive, OnCpu, HoldsPtable
<1>4. LkByPlace'
  BY SMTT(90) DEF IInv, LkByPlace, TypeOK, StackExclusive, HoldsLk
<1>5. OnCpu'
  BY SMTT(90) DEF IInv, OnCpu, TypeOK, StackExclusive, LockByPlace, HoldsPtable
<1>6. OffCpu'
  BY SMTT(60) DEF IInv, OffCpu, TypeOK, OnCpu, StackExclusive
<1>7. ChildOwned'
  <2>1. \A q \in Slot : Loc(q)' \in Forking =>
           Loc(q) \in Forking /\ (Loc(q)' = "fork1" <=> Loc(q) = "fork1")
    BY DEF IInv, TypeOK, Loc, Forking
  <2>2. \A s \in Slot : state[s] = "EMBRYO" =>
           state'[s] = "EMBRYO" /\ pc'[s] = pc[s] /\ kstack'[s] = kstack[s]
    BY Zenon DEF IInv, TypeOK, OnCpu
  <2> QED BY SMTT(90), <2>1, <2>2, ChildFrame
<1>8. StackOwned'
  BY ZenonT(90) DEF IInv, StackOwned, TypeOK, OnCpu
<1> QED BY <1>1, <1>2, <1>3, <1>4, <1>5, <1>6, <1>7, <1>8 DEF IInv

\* wakeup() keeps the inductive invariant.
LEMMA wakeup_inv ==
  ASSUME NEW c \in CPU, NEW p \in Slot, IInv, wakeup(c, p)
  PROVE  IInv'
<1> USE ProcAssumption DEF wakeup, wakeup1, Sleepers, At, Trap, Goto, acquire, release, tableVars,
      cpuVars, threadVars, condVars, SchedPoints, Resumes, Preemptible, None, Slot
<1>1. TypeOK'
  BY ZenonT(90) DEF IInv, TypeOK, Places, CondChan, initproc
<1>2. StackExclusive'
  BY SMTT(90) DEF IInv, StackExclusive, TypeOK, OnCpu, LockByPlace
<1>3. LockByPlace'
  BY SMTT(90), FreeLock DEF IInv, TypeOK, LockByPlace, HoldsPtable
<1>4. LkByPlace'
  BY SMTT(90) DEF IInv, LkByPlace, TypeOK, StackExclusive, HoldsLk
<1>5. OnCpu'
  <2> SUFFICES ASSUME NEW d \in CPU, NEW q \in Slot, ctx[d] = q
               PROVE  state'[q] = state[q] /\ (pc'[q] = pc[q] \/ (q = p /\ pc'[q] = "user"))
    BY SMTT(90) DEF IInv, OnCpu, TypeOK
  <2>1. pc[q] \notin HoldsPtable
    BY SMTT(60), FreeLock
  <2>2. state[q] = "RUNNING"
    BY SMTT(60), <2>1 DEF IInv, OnCpu, HoldsPtable
  <2> QED BY SMTT(60), <2>2 DEF IInv, TypeOK
<1>6. OffCpu'
  BY SMTT(90) DEF IInv, OffCpu, TypeOK, OnCpu, StackExclusive
<1>7. ChildOwned'
  <2>1. \A q \in Slot : Loc(q)' \in Forking =>
           Loc(q) \in Forking /\ (Loc(q)' = "fork1" <=> Loc(q) = "fork1")
    BY DEF IInv, TypeOK, Loc, Forking
  <2>2. \A s \in Slot : state[s] = "EMBRYO" =>
           state'[s] = "EMBRYO" /\ pc'[s] = pc[s] /\ kstack'[s] = kstack[s]
    BY ZenonT(90) DEF IInv, TypeOK, OnCpu
  <2> QED BY SMTT(90), <2>1, <2>2, ChildFrame
<1>8. StackOwned'
  BY DEF IInv, StackOwned, TypeOK
<1> QED BY <1>1, <1>2, <1>3, <1>4, <1>5, <1>6, <1>7, <1>8 DEF IInv

\* The boot state satisfies the inductive invariant.
LEMMA InitInv == Init => IInv
<1> SUFFICES ASSUME Init PROVE IInv
  OBVIOUS
<1> USE ProcAssumption DEF Init, Slot, None, initproc
<1>1. TypeOK
  <2>1. chan \in [Slot -> 0..CondChan] /\ pid \in [Slot -> Nat]
    BY DEF CondChan
  <2>2. pc \in [Slot -> Places] /\ back \in [Slot -> Preemptible]
    BY SMTT(60) DEF Places, Resumes, Preemptible
  <2> QED BY Zenon, <2>1, <2>2 DEF TypeOK
<1>2. StackExclusive /\ LockByPlace /\ LkByPlace /\ OnCpu
  BY DEF StackExclusive, LockByPlace, LkByPlace, OnCpu
<1>3. OffCpu /\ StackOwned
  BY ZenonT(90) DEF OffCpu, StackOwned, Resumes
<1>4. ChildOwned
  BY DEF ChildOwned, Loc, Forking
<1> QED BY <1>1, <1>2, <1>3, <1>4 DEF IInv

\* Every step preserves it.
LEMMA NextInv == IInv /\ [Next]_vars => IInv'
<1> SUFFICES ASSUME IInv, [Next]_vars PROVE IInv'
  OBVIOUS
<1>1. CASE UNCHANGED vars
  <2>1. UNCHANGED <<state, pid, parent, chan, killed, kstack, nextpid, plock, ctx, intena, saved,
                    pc, back, child, lk, cond>>
    BY <1>1, Zenon DEF vars, tableVars, cpuVars, threadVars, condVars
  <2>2. TypeOK' /\ StackExclusive' /\ StackOwned'
    BY <2>1, Zenon DEF IInv, TypeOK, StackExclusive, StackOwned
  <2>3. LockByPlace' /\ LkByPlace'
    BY <2>1, Zenon DEF IInv, LockByPlace, LkByPlace
  <2>4. OnCpu' /\ OffCpu'
    BY <2>1, ZenonT(90) DEF IInv, OnCpu, OffCpu
  <2>5. ChildOwned'
    BY <2>1, Zenon DEF IInv, ChildOwned, Loc
  <2> QED BY <2>2, <2>3, <2>4, <2>5 DEF IInv
<1>2. ASSUME NEW c \in CPU, scheduler(c) PROVE IInv'
  BY <1>2, scheduler_acquire_inv, scheduler_release_inv, scheduler_run_inv, ProcAssumption
     DEF scheduler, Slot
<1>3. ASSUME NEW c \in CPU, NEW p \in Slot, process(c, p) PROVE IInv'
  <2>1. CASE fork(c, p)
    BY <2>1, allocproc_inv, allocproc_kstack_inv, allocproc_fail_inv, fork_copy_inv,
       fork_fail_inv, fork_run_inv DEF fork
  <2>2. CASE exit(c, p) \/ sched(c, p) \/ forkret(c, p) \/ yield(c, p) \/ yield_return(c, p)
    BY <2>2, exit_inv, sched_inv, forkret_inv, yield_inv, yield_return_inv
  <2>3. CASE wait(c, p)
    BY <2>3, wait_enter_inv, wait_reap_inv, wait_fail_inv, wait_sleep_inv, wait_resume_inv
       DEF wait
  <2>4. CASE \E k \in KillPids : kill(c, p, k)
    BY <2>4, kill_inv
  <2>5. CASE sleep(c, p)
    BY <2>5, sleep_acquire_inv, sleep_release_inv, sleep_mark_inv, sleep_resume_inv,
       sleep_relock_inv DEF sleep
  <2>6. CASE cond_enter(c, p) \/ cond_done(c, p) \/ signal(c, p) \/ wakeup(c, p)
    BY <2>6, cond_enter_inv, cond_done_inv, signal_inv, wakeup_inv
  <2> QED BY <1>3, <2>1, <2>2, <2>3, <2>4, <2>5, <2>6 DEF process
<1> QED BY <1>1, <1>2, <1>3 DEF Next

\* The inductive invariant holds in every reachable state.
THEOREM Invariance == Spec => []IInv
BY InitInv, NextInv, PTL DEF Spec

\* Every variable keeps its type.
THEOREM TypeCorrect == Spec => []TypeOK
<1>1. IInv => TypeOK
  BY DEF IInv
<1> QED BY <1>1, Invariance, PTL

\* No two CPUs ever execute on one kernel stack, although yield(), sleep() and
\* exit() run on after they have changed p->state.
THEOREM OneCpuPerStack == Spec => []StackExclusive
<1>1. IInv => StackExclusive
  BY SMTT(40) DEF IInv
<1> QED BY <1>1, Invariance, PTL

\* wait() and fork() never free a kernel stack in use, and the scheduler never
\* dispatches a process without one.
THEOREM NoFreedStack == Spec => []StackAlive
<1>1. IInv => StackAlive
  <2> SUFFICES ASSUME IInv PROVE StackAlive
    OBVIOUS
  <2>1. ASSUME NEW c \in CPU, ctx[c] # None PROVE kstack[ctx[c]]
    <3>1. ctx[c] \in Slot
      BY SMTT(60), <2>1 DEF IInv, TypeOK
    <3>2. state[ctx[c]] \notin {"UNUSED", "EMBRYO"}
      BY <3>1, NotOnCpu
    <3> QED BY <3>1, <3>2 DEF IInv, StackOwned
  <2>2. \A p \in Slot : state[p] = "RUNNABLE" => kstack[p]
    BY SMTT(90) DEF IInv, StackOwned
  <2> QED BY <2>1, <2>2 DEF StackAlive
<1> QED BY <1>1, Invariance, PTL

\* No call of sched() panics: ptable.lock is held, no other spinlock is, and
\* the caller has changed p->state.
THEOREM SchedNeverPanics == Spec => []NoSchedPanic
<1>1. IInv => NoSchedPanic
  BY DEF IInv, NoSchedPanic, LockByPlace, LkByPlace, OnCpu, HoldsPtable, HoldsLk, SchedPoints
<1> QED BY <1>1, Invariance, PTL

\* fork(), exit(), wait(), kill(), sleep(), wakeup(), yield() and the scheduler
\* take a slot only through the transitions of LifeStep.
THEOREM LifeCycleHolds == Spec => LifeCycle
<1>1. IInv /\ [Next]_vars => [LifeStep]_vars
  <2> SUFFICES ASSUME IInv, Next PROVE LifeStep
    OBVIOUS
  <2> USE DEF At, Trap, LifeStep, Slot
  <2>1. ASSUME NEW c \in CPU, scheduler(c) PROVE LifeStep
    BY ZenonT(90), <2>1 DEF IInv, TypeOK, scheduler, scheduler_acquire, scheduler_run,
       scheduler_release, tableVars
  <2>2. ASSUME NEW c \in CPU, NEW p \in Slot, process(c, p) PROVE LifeStep
    <3>1. CASE fork(c, p)
      <4>1. CASE allocproc(c, p)
        BY SMTT(90), <4>1 DEF IInv, TypeOK, allocproc
      <4>2. CASE allocproc_fail(c, p) \/ fork_fail(c, p) \/ fork_run(c, p)
        <5>1. ctx[c] = p /\ pc[p] \in Forking
          BY <4>2 DEF Forking, allocproc_fail, fork_fail, fork_run
        <5>2. child[p] \in Slot /\ state[child[p]] = "EMBRYO"
          BY <5>1, ForkChild
        <5> QED BY ZenonT(90), <4>2, <5>2 DEF IInv, TypeOK, allocproc_fail, fork_fail, fork_run
      <4>3. CASE allocproc_kstack(c, p) \/ fork_copy(c, p)
        <5>1. state' = state
          BY ZenonT(60), <4>3 DEF allocproc_kstack, fork_copy
        <5> QED BY Zenon, <5>1
      <4> QED BY ZenonT(60), <3>1, <4>1, <4>2, <4>3 DEF fork
    <3>2. CASE exit(c, p)
      BY <3>2 DEF IInv, TypeOK, OnCpu, SchedPoints, exit, exit_wakes, Sleepers
    <3>3. CASE wait(c, p)
      <4>1. CASE wait_reap(c, p)
        BY SMTT(60), <4>1 DEF IInv, TypeOK, wait_reap, Zombies, Children
      <4>2. CASE wait_sleep(c, p)
        BY SMTT(90), <4>2 DEF IInv, TypeOK, OnCpu, SchedPoints, wait_sleep
      <4> QED BY ZenonT(60), <3>3, <4>1, <4>2 DEF wait, wait_enter, wait_fail, wait_resume,
         tableVars
    <3>4. ASSUME NEW k \in KillPids, kill(c, p, k) PROVE LifeStep
      BY SMTT(90), <3>4 DEF IInv, TypeOK, kill
    <3>5. CASE yield(c, p)
      BY SMTT(90), <3>5 DEF IInv, TypeOK, OnCpu, SchedPoints, Preemptible, yield
    <3>6. CASE sleep(c, p)
      BY ZenonT(60), <3>6 DEF IInv, TypeOK, OnCpu, SchedPoints, tableVars, sleep, sleep_acquire,
         sleep_release, sleep_mark, sleep_resume, sleep_relock
    <3>7. CASE wakeup(c, p)
      BY SMTT(90), <3>7 DEF IInv, TypeOK, wakeup, wakeup1, Sleepers
    <3>8. CASE sched(c, p) \/ forkret(c, p) \/ yield_return(c, p) \/ cond_enter(c, p)
                 \/ cond_done(c, p) \/ signal(c, p)
      BY ZenonT(60), <3>8 DEF sched, forkret, yield_return, cond_enter, cond_done, signal,
         tableVars
    <3> QED BY Zenon, <2>2, <3>1, <3>2, <3>3, <3>4, <3>5, <3>6, <3>7, <3>8 DEF process
  <2> QED BY <2>1, <2>2 DEF Next
<1> QED BY <1>1, Invariance, PTL DEF Spec, LifeCycle
=============================================================================
