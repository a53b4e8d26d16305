------------------------------ MODULE Spinlock ------------------------------
(***************************************************************************)
(* spinlock.c: acquire(), release(), holding(), pushcli() and popcli() of    *)
(* several CPUs, one memory access per step, with an interrupt handler that *)
(* takes locks as well.  A handler enters through an interrupt gate, which  *)
(* turns interrupts off, and saves what it interrupts on the stack.  The    *)
(* pushcli/popcli pair inside holding() is one step with the reads between: *)
(* interrupts are off already when acquire() and release() call it.         *)
(***************************************************************************)
EXTENDS Naturals, FiniteSets

CONSTANTS CPU, NoCPU,
          Lock       \* the locks, numbered in the order in which code nests them

ASSUME SpinlockAssumption == NoCPU \notin CPU /\ Lock \subseteq Nat /\ IsFiniteSet(Lock)

VARIABLES
  locked, cpu,           \* struct spinlock
  ncli, intena,          \* struct cpu
  IF_,                   \* FL_IF of eflags, per CPU
  pc, lk, eflags,        \* where the code on a CPU is, and its locals
  intr, saved,           \* in a handler; what it interrupted
  held                   \* the locks the code on a CPU holds

lockVars == <<locked, cpu>>
cpuVars == <<ncli, intena, IF_>>
codeVars == <<pc, lk, eflags>>
vars == <<lockVars, cpuVars, codeVars, intr, saved, held>>

Places == {"run", "cli", "holding", "holding2", "xchg", "own",
           "release", "unlock", "popcli", "panic"}
\* What a handler may find: code outside acquire(), or about to execute cli.
Frame == [pc : {"run", "cli"}, lk : Lock \cup {0}, eflags : BOOLEAN]
NoFrame == [pc |-> "run", lk |-> 0, eflags |-> TRUE]

Init == /\ locked = [l \in Lock |-> FALSE] /\ cpu = [l \in Lock |-> NoCPU]
        /\ ncli = [c \in CPU |-> 0] /\ intena = [c \in CPU |-> FALSE]
        /\ IF_ = [c \in CPU |-> TRUE]
        /\ pc = [c \in CPU |-> "run"] /\ lk = [c \in CPU |-> 0]
        /\ eflags = [c \in CPU |-> TRUE]
        /\ intr = [c \in CPU |-> FALSE] /\ saved = [c \in CPU |-> NoFrame]
        /\ held = [c \in CPU |-> {}]

Goto(c, l) == pc' = [pc EXCEPT ![c] = l]

-----------------------------------------------------------------------------
(* acquire() *)

\* A call of acquire(l), and the readeflags() of pushcli().
acquire(c, l) ==
  /\ pc[c] = "run" /\ \A h \in held[c] : h < l
  /\ eflags' = [eflags EXCEPT ![c] = IF_[c]]
  /\ lk' = [lk EXCEPT ![c] = l]
  /\ Goto(c, "cli")
  /\ UNCHANGED <<lockVars, cpuVars, intr, saved, held>>

\* pushcli(), from cli() on.
bug_push_intena(c) == [intena EXCEPT ![c] = eflags[c]]     \* at every level of nesting
push_intena(c) == IF ncli[c] = 0 THEN [intena EXCEPT ![c] = eflags[c]] ELSE intena
pushcli(c) ==
  /\ pc[c] = "cli"
  /\ IF_' = [IF_ EXCEPT ![c] = FALSE]
  /\ intena' = push_intena(c)
  /\ ncli' = [ncli EXCEPT ![c] = @ + 1]
  /\ Goto(c, "holding")
  /\ UNCHANGED <<lockVars, lk, eflags, intr, saved, held>>

\* holding(lk): lock->locked ...
holding(c) ==
  /\ pc[c] = "holding"
  /\ Goto(c, IF locked[lk[c]] THEN "holding2" ELSE "xchg")
  /\ UNCHANGED <<lockVars, cpuVars, lk, eflags, intr, saved, held>>

\* ... && lock->cpu == mycpu().
holding2(c) ==
  /\ pc[c] = "holding2"
  /\ Goto(c, IF cpu[lk[c]] = c THEN "panic" ELSE "xchg")
  /\ UNCHANGED <<lockVars, cpuVars, lk, eflags, intr, saved, held>>

\* The xchg that finds the lock free.
bug_xchg_free(c) == lk[c] \in Lock                          \* the old value is not tested
xchg_free(c) == ~locked[lk[c]]
xchg(c) ==
  /\ pc[c] = "xchg" /\ xchg_free(c)
  /\ locked' = [locked EXCEPT ![lk[c]] = TRUE]
  /\ Goto(c, "own")
  /\ UNCHANGED <<cpu, cpuVars, lk, eflags, intr, saved, held>>

own(c) ==
  /\ pc[c] = "own"
  /\ cpu' = [cpu EXCEPT ![lk[c]] = c]
  /\ held' = [held EXCEPT ![c] = @ \cup {lk[c]}]
  /\ Goto(c, "run")
  /\ UNCHANGED <<locked, cpuVars, lk, eflags, intr, saved>>

-----------------------------------------------------------------------------
(* release() *)

release(c, l) ==
  /\ pc[c] = "run" /\ l \in held[c]
  /\ lk' = [lk EXCEPT ![c] = l]
  /\ Goto(c, "release")
  /\ UNCHANGED <<lockVars, cpuVars, eflags, intr, saved, held>>

\* holding(lk), then lk->cpu = 0.
disown(c) == [cpu EXCEPT ![lk[c]] = NoCPU]
release_cpu(c) ==
  /\ pc[c] = "release"
  /\ IF locked[lk[c]] /\ cpu[lk[c]] = c
     THEN cpu' = disown(c) /\ Goto(c, "unlock")
     ELSE Goto(c, "panic") /\ UNCHANGED cpu
  /\ UNCHANGED <<locked, cpuVars, lk, eflags, intr, saved, held>>

\* movl $0, lk->locked.
unlocked(c) == [locked EXCEPT ![lk[c]] = FALSE]
unlock(c) ==
  /\ pc[c] = "unlock"
  /\ locked' = unlocked(c)
  /\ held' = [held EXCEPT ![c] = @ \ {lk[c]}]
  /\ Goto(c, "popcli")
  /\ UNCHANGED <<cpu, cpuVars, lk, eflags, intr, saved>>

pop_sti(c) == ncli[c] = 1 /\ intena[c]
popcli(c) ==
  /\ pc[c] = "popcli"
  /\ IF IF_[c] \/ ncli[c] = 0
     THEN Goto(c, "panic") /\ UNCHANGED <<ncli, IF_>>
     ELSE /\ ncli' = [ncli EXCEPT ![c] = @ - 1]
          /\ IF_' = [IF_ EXCEPT ![c] = pop_sti(c)]
          /\ Goto(c, "run")
  /\ UNCHANGED <<lockVars, intena, lk, eflags, intr, saved, held>>

-----------------------------------------------------------------------------
(* Interrupts *)

interrupt(c) ==
  /\ IF_[c] /\ ~intr[c] /\ pc[c] # "panic"
  /\ saved' = [saved EXCEPT ![c] = [pc |-> pc[c], lk |-> lk[c], eflags |-> eflags[c]]]
  /\ intr' = [intr EXCEPT ![c] = TRUE]
  /\ IF_' = [IF_ EXCEPT ![c] = FALSE]
  /\ Goto(c, "run")
  /\ UNCHANGED <<lockVars, ncli, intena, lk, eflags, held>>

iret(c) ==
  /\ intr[c] /\ pc[c] = "run" /\ held[c] = {}
  /\ Goto(c, saved[c].pc)
  /\ lk' = [lk EXCEPT ![c] = saved[c].lk]
  /\ eflags' = [eflags EXCEPT ![c] = saved[c].eflags]
  /\ intr' = [intr EXCEPT ![c] = FALSE]
  /\ IF_' = [IF_ EXCEPT ![c] = TRUE]
  /\ saved' = [saved EXCEPT ![c] = NoFrame]      \* popped
  /\ UNCHANGED <<lockVars, ncli, intena, held>>

-----------------------------------------------------------------------------
\* The steps inside acquire() and release().
step(c) == \/ pushcli(c) \/ holding(c) \/ holding2(c) \/ xchg(c) \/ own(c)
           \/ release_cpu(c) \/ unlock(c) \/ popcli(c)

Next == \E c \in CPU : \/ step(c) \/ interrupt(c) \/ iret(c)
                       \/ \E l \in Lock : acquire(c, l) \/ release(c, l)

Spec == Init /\ [][Next]_vars

-----------------------------------------------------------------------------
\* Every variable has its type.
TypeOK == /\ locked \in [Lock -> BOOLEAN] /\ cpu \in [Lock -> CPU \cup {NoCPU}]
          /\ ncli \in [CPU -> 0..(Cardinality(Lock) + 1)]
          /\ intena \in [CPU -> BOOLEAN] /\ IF_ \in [CPU -> BOOLEAN]
          /\ pc \in [CPU -> Places] /\ lk \in [CPU -> Lock \cup {0}]
          /\ eflags \in [CPU -> BOOLEAN] /\ intr \in [CPU -> BOOLEAN]
          /\ saved \in [CPU -> Frame] /\ held \in [CPU -> SUBSET Lock]

\* No lock is held by two CPUs.
MutualExclusion == \A c, d \in CPU : c # d => held[c] \cap held[d] = {}

\* A CPU that holds a lock takes no interrupt, so no handler can spin for ever
\* on a lock of the code it interrupted.
NoIntrWhileHolding == \A c \in CPU : held[c] # {} => ~IF_[c]

\* pushcli() and popcli() are matched: with every lock released, interrupts are
\* as they were, on in threads and off in handlers.
IntrRestored == \A c \in CPU : pc[c] = "run" /\ held[c] = {} =>
                  ncli[c] = 0 /\ (IF_[c] <=> ~intr[c])

\* No panic of acquire(), release() or popcli() fires for code that nests and
\* pairs its calls: holding() is never TRUE of a lock that only another CPU
\* holds, whatever stale lk->cpu it reads while that CPU takes the lock.
NoPanic == \A c \in CPU : pc[c] # "panic"

\* What the callers of acquire() and release() rely on: one CPU holds a lock, no handler
\* runs on it meanwhile, and neither call panics.
LockSafety == MutualExclusion /\ NoIntrWhileHolding /\ NoPanic
=============================================================================
