--------------------------- MODULE SpinlockProofs ---------------------------
(***************************************************************************)
(* Mutual exclusion, interrupt nesting and freedom from panics of Spinlock, *)
(* for any number of CPUs and locks.                                        *)
(***************************************************************************)
EXTENDS Spinlock, FiniteSetTheorems, TLAPS

\* c has won the xchg for l and not yet given l up.
Has(c, l) == l \in held[c] \/ (pc[c] = "own" /\ lk[c] = l)

\* TypeOK without the bound on ncli.
Types == /\ locked \in [Lock -> BOOLEAN] /\ cpu \in [Lock -> CPU \cup {NoCPU}]
         /\ ncli \in [CPU -> Nat]
         /\ intena \in [CPU -> BOOLEAN] /\ IF_ \in [CPU -> BOOLEAN]
         /\ pc \in [CPU -> Places] /\ lk \in [CPU -> Lock \cup {0}]
         /\ eflags \in [CPU -> BOOLEAN] /\ intr \in [CPU -> BOOLEAN]
         /\ saved \in [CPU -> Frame] /\ held \in [CPU -> SUBSET Lock]

\* locked is set while somebody has the lock, and only one CPU does.
LockInv == /\ \A c \in CPU, l \in Lock : Has(c, l) => locked[l]
           /\ \A c, d \in CPU, l \in Lock : Has(c, l) /\ Has(d, l) => c = d

\* lk->cpu names nobody but the holder, and the holder until release() clears it.
OwnInv == \A c \in CPU, l \in Lock :
            cpu[l] = c <=> l \in held[c] /\ ~(pc[c] = "unlock" /\ lk[c] = l)

\* A CPU's place in acquire() or release() fits the locks it holds.
PlaceInv(c) ==
  /\ pc[c] \in {"cli", "holding", "holding2", "xchg", "own"} => lk[c] \in Lock /\ lk[c] \notin held[c]
  /\ pc[c] \in {"release", "unlock"} => lk[c] \in held[c]
  /\ pc[c] # "panic"

\* One pushcli() more than locks held: acquire() or release() is under way.
Extra(c) == IF pc[c] \in {"holding", "holding2", "xchg", "own", "popcli"} THEN 1 ELSE 0

\* ncli counts the locks; interrupts are on exactly in threads with ncli = 0;
\* intena and eflags remember that.
IntrInv(c) ==
  /\ ncli[c] = Cardinality(held[c]) + Extra(c)
  /\ IF_[c] <=> (ncli[c] = 0 /\ ~intr[c])
  /\ ncli[c] # 0 => (intena[c] <=> ~intr[c])
  /\ pc[c] = "cli" => (eflags[c] <=> IF_[c])
  /\ intr[c] /\ saved[c].pc = "cli" => saved[c].lk \in Lock /\ saved[c].eflags

IInv == Types /\ LockInv /\ OwnInv /\ \A c \in CPU : PlaceInv(c) /\ IntrInv(c)

\* held[c] is finite, and empty when its cardinality is 0.
HeldFinite == \A c \in CPU : /\ IsFiniteSet(held[c]) /\ Cardinality(held[c]) \in Nat
                             /\ Cardinality(held[c]) <= Cardinality(Lock)
                             /\ Cardinality(held[c]) = 0 <=> held[c] = {}

LEMMA Finite == ASSUME held \in [CPU -> SUBSET Lock] PROVE HeldFinite
<1> SUFFICES ASSUME NEW c \in CPU
             PROVE /\ IsFiniteSet(held[c]) /\ Cardinality(held[c]) \in Nat
                   /\ Cardinality(held[c]) <= Cardinality(Lock)
                   /\ Cardinality(held[c]) = 0 <=> held[c] = {}
  BY DEF HeldFinite
<1>1. held[c] \in SUBSET Lock
  OBVIOUS
<1>2. IsFiniteSet(held[c]) /\ Cardinality(held[c]) <= Cardinality(Lock)
  BY <1>1, FS_Subset, SpinlockAssumption
<1> QED BY <1>2, FS_CardinalityType, FS_EmptySet

LEMMA InitInv == Init => IInv
<1> SUFFICES ASSUME Init PROVE IInv
  OBVIOUS
<1>1. Types
  <2>1. NoFrame \in Frame
    BY DEF NoFrame, Frame
  <2> QED BY <2>1 DEF Init, Types, Places
<1>2. LockInv /\ OwnInv
  BY SpinlockAssumption DEF Init, LockInv, OwnInv, Has
<1>3. \A c \in CPU : PlaceInv(c) /\ IntrInv(c)
  BY FS_EmptySet DEF Init, PlaceInv, IntrInv, Extra, NoFrame
<1> QED BY <1>1, <1>2, <1>3 DEF IInv

\* A step of CPU c leaves what belongs to the other CPUs alone.
OthersSame(c) == \A d \in CPU \ {c} :
  /\ ncli'[d] = ncli[d] /\ intena'[d] = intena[d] /\ IF_'[d] = IF_[d]
  /\ pc'[d] = pc[d] /\ lk'[d] = lk[d] /\ eflags'[d] = eflags[d]
  /\ intr'[d] = intr[d] /\ saved'[d] = saved[d] /\ held'[d] = held[d]

LEMMA StepOthers ==
  ASSUME Types, NEW c \in CPU, step(c) \/ interrupt(c) \/ iret(c) \/ \E l \in Lock : acquire(c, l) \/ release(c, l)
  PROVE OthersSame(c)
<1>1. CASE \E l \in Lock : acquire(c, l) \/ release(c, l)
  BY <1>1 DEF Types, OthersSame, acquire, release, Goto, lockVars, cpuVars
<1>2. CASE interrupt(c) \/ iret(c)
  BY <1>2 DEF Types, OthersSame, interrupt, iret, Goto, lockVars
<1>3. CASE pushcli(c) \/ popcli(c)
  BY <1>3 DEF Types, OthersSame, pushcli, push_intena, popcli, Goto, lockVars
<1>4. CASE holding(c) \/ holding2(c) \/ xchg(c) \/ own(c)
  BY <1>4 DEF Types, OthersSame, holding, holding2, xchg, own, Goto, lockVars, cpuVars
<1>5. CASE release_cpu(c) \/ unlock(c)
  BY <1>5 DEF Types, OthersSame, release_cpu, unlock, Goto, cpuVars
<1> QED BY <1>1, <1>2, <1>3, <1>4, <1>5 DEF step

LEMMA LocalInv ==
  ASSUME IInv, NEW c \in CPU, OthersSame(c), PlaceInv(c)', IntrInv(c)'
  PROVE \A d \in CPU : PlaceInv(d)' /\ IntrInv(d)'
<1> SUFFICES ASSUME NEW d \in CPU, d # c PROVE PlaceInv(d)' /\ IntrInv(d)'
  OBVIOUS
<1>1. PlaceInv(d) /\ IntrInv(d)
  BY DEF IInv
<1>2. /\ ncli'[d] = ncli[d] /\ intena'[d] = intena[d] /\ IF_'[d] = IF_[d]
      /\ pc'[d] = pc[d] /\ lk'[d] = lk[d] /\ eflags'[d] = eflags[d]
      /\ intr'[d] = intr[d] /\ saved'[d] = saved[d] /\ held'[d] = held[d]
  BY DEF OthersSame
<1> QED BY <1>1, <1>2, Zenon DEF PlaceInv, IntrInv, Extra

\* Steps that touch no lock and win or give up none keep the lock invariants.
LEMMA LocksSame ==
  ASSUME IInv, NEW c \in CPU, OthersSame(c), UNCHANGED <<locked, cpu, held>>,
         pc[c] \notin {"own", "unlock"}, pc'[c] \notin {"own", "unlock"}
  PROVE LockInv' /\ OwnInv'
<1>1. \A d \in CPU : d # c => pc'[d] = pc[d] /\ lk'[d] = lk[d]
  BY DEF OthersSame
<1>2. \A d \in CPU, l \in Lock : Has(d, l)' <=> Has(d, l)
  BY <1>1 DEF Has
<1>3. LockInv'
  BY <1>2 DEF IInv, LockInv
<1>4. OwnInv'
  BY <1>1 DEF IInv, OwnInv
<1> QED BY <1>3, <1>4

-----------------------------------------------------------------------------
(* One lemma per step *)

LEMMA acquire_inv == ASSUME IInv, NEW c \in CPU, NEW l \in Lock, acquire(c, l) PROVE IInv'
<1>1. OthersSame(c)
  BY StepOthers DEF IInv
<1>2. Types'
  BY DEF IInv, Types, acquire, Goto, lockVars, cpuVars, Places
<1>3. /\ pc[c] = "run" /\ pc'[c] = "cli" /\ lk'[c] = l /\ eflags'[c] = IF_[c]
      /\ UNCHANGED <<locked, cpu, held, ncli, intena, IF_, intr, saved>>
  BY DEF IInv, Types, acquire, Goto, lockVars, cpuVars
<1>4. LockInv' /\ OwnInv'
  BY <1>1, <1>3, LocksSame
<1>5. l \notin held[c]
  BY SpinlockAssumption DEF acquire
<1>6. PlaceInv(c)'
  BY <1>3, <1>5 DEF PlaceInv
<1>7. IntrInv(c)'
  BY <1>3 DEF IInv, IntrInv, Extra
<1> QED BY <1>1, <1>2, <1>4, <1>6, <1>7, LocalInv DEF IInv

LEMMA pushcli_inv == ASSUME IInv, NEW c \in CPU, pushcli(c) PROVE IInv'
<1>1. OthersSame(c)
  BY StepOthers DEF IInv, step
<1>2. Types'
  BY DEF IInv, Types, pushcli, push_intena, Goto, lockVars, Places
<1>3. /\ pc[c] = "cli" /\ pc'[c] = "holding" /\ ncli'[c] = ncli[c] + 1
      /\ IF_'[c] = FALSE /\ intena'[c] = (IF ncli[c] = 0 THEN eflags[c] ELSE intena[c])
      /\ UNCHANGED <<locked, cpu, held, lk, eflags, intr, saved>>
  BY DEF IInv, Types, pushcli, push_intena, Goto, lockVars
<1>4. LockInv' /\ OwnInv'
  BY <1>1, <1>3, LocksSame
<1>5. PlaceInv(c)'
  BY <1>3 DEF IInv, PlaceInv
<1>6. ncli[c] \in Nat /\ Cardinality(held[c]) \in Nat
  BY Finite DEF HeldFinite, IInv, Types
<1>7. ncli'[c] = Cardinality(held'[c]) + Extra(c)' /\ ncli'[c] # 0
  BY <1>3, <1>6 DEF IInv, IntrInv, Extra
<1>8. intena'[c] <=> ~intr[c]
  BY <1>3 DEF IInv, IntrInv
<1>9. IntrInv(c)'
  BY <1>3, <1>7, <1>8 DEF IInv, IntrInv
<1> QED BY <1>1, <1>2, <1>4, <1>5, <1>9, LocalInv DEF IInv

\* holding() is FALSE of a lock the CPU does not hold.
LEMMA holding_inv == ASSUME IInv, NEW c \in CPU, holding(c) \/ holding2(c) PROVE IInv'
<1>1. OthersSame(c)
  BY StepOthers DEF IInv, step
<1>2. Types'
  BY DEF IInv, Types, holding, holding2, Goto, lockVars, cpuVars, Places
<1>3. lk[c] \in Lock /\ cpu[lk[c]] # c
  BY DEF IInv, PlaceInv, OwnInv, holding, holding2
<1>4. /\ pc[c] \in {"holding", "holding2"} /\ pc'[c] \in {"holding2", "xchg"}
      /\ UNCHANGED <<locked, cpu, held, ncli, intena, IF_, lk, eflags, intr, saved>>
  BY <1>3 DEF IInv, Types, holding, holding2, Goto, lockVars, cpuVars
<1>5. LockInv' /\ OwnInv'
  BY <1>1, <1>4, LocksSame
<1>6. PlaceInv(c)'
  BY <1>4 DEF IInv, PlaceInv
<1>7. IntrInv(c)'
  BY <1>4 DEF IInv, IntrInv, Extra
<1> QED BY <1>1, <1>2, <1>5, <1>6, <1>7, LocalInv DEF IInv

LEMMA xchg_inv == ASSUME IInv, NEW c \in CPU, xchg(c) PROVE IInv'
<1>1. OthersSame(c)
  BY StepOthers DEF IInv, step
<1>2. Types'
  BY Zenon DEF IInv, Types, xchg, Goto, cpuVars, Places
<1>3. lk[c] \in Lock /\ lk[c] \notin held[c]
  BY DEF IInv, PlaceInv, xchg
<1>4. /\ pc[c] = "xchg" /\ pc'[c] = "own" /\ ~locked[lk[c]]
      /\ \A l \in Lock : locked'[l] = (l = lk[c] \/ locked[l])
      /\ UNCHANGED <<cpu, held, ncli, intena, IF_, lk, eflags, intr, saved>>
  BY Zenon, <1>3 DEF IInv, Types, xchg, xchg_free, Goto, cpuVars
<1>5. \A d \in CPU : d # c => pc'[d] = pc[d]
  BY <1>1 DEF OthersSame
<1>6. \A d \in CPU, l \in Lock : Has(d, l)' <=> Has(d, l) \/ (d = c /\ l = lk[c])
  BY <1>4, <1>5 DEF Has
<1>7. \A d \in CPU : ~Has(d, lk[c])
  BY <1>3, <1>4 DEF IInv, LockInv
<1>8. LockInv'
  <2>1. \A d \in CPU, l \in Lock : Has(d, l)' => locked'[l]
    BY Zenon, <1>4, <1>6 DEF IInv, LockInv
  <2>2. \A d, e \in CPU, l \in Lock : Has(d, l)' /\ Has(e, l)' => d = e
    BY <1>6, <1>7 DEF IInv, LockInv
  <2> QED BY <2>1, <2>2 DEF LockInv
<1>9. OwnInv'
  BY <1>4, <1>5 DEF IInv, OwnInv
<1>10. PlaceInv(c)'
  BY <1>3, <1>4 DEF PlaceInv
<1>11. IntrInv(c)'
  BY <1>4 DEF IInv, IntrInv, Extra
<1> QED BY <1>1, <1>2, <1>8, <1>9, <1>10, <1>11, LocalInv DEF IInv

LEMMA own_inv == ASSUME IInv, NEW c \in CPU, own(c) PROVE IInv'
<1>1. OthersSame(c)
  BY StepOthers DEF IInv, step
<1>2. lk[c] \in Lock /\ lk[c] \notin held[c]
  BY DEF IInv, PlaceInv, own
<1>3. Types'
  BY <1>2 DEF IInv, Types, own, Goto, cpuVars, Places
<1>4. /\ pc[c] = "own" /\ pc'[c] = "run" /\ held'[c] = held[c] \cup {lk[c]}
      /\ \A l \in Lock : cpu'[l] = IF l = lk[c] THEN c ELSE cpu[l]
      /\ UNCHANGED <<locked, ncli, intena, IF_, lk, eflags, intr, saved>>
  BY <1>2 DEF IInv, Types, own, Goto, cpuVars
<1>5. \A d \in CPU : d # c => pc'[d] = pc[d] /\ held'[d] = held[d]
  BY <1>1 DEF OthersSame
<1>6. \A d \in CPU, l \in Lock : Has(d, l)' <=> Has(d, l)
  BY <1>4, <1>5 DEF Has
<1>7. LockInv'
  BY <1>4, <1>6 DEF IInv, LockInv
<1>8. \A d \in CPU : d # c => lk[c] \notin held[d]
  BY <1>2, <1>4 DEF IInv, LockInv, Has
<1>9. OwnInv'
  BY <1>2, <1>4, <1>5, <1>8 DEF IInv, OwnInv
<1>10. PlaceInv(c)'
  BY <1>4 DEF PlaceInv
<1>11. IsFiniteSet(held[c]) /\ Cardinality(held[c]) \in Nat
  BY Finite DEF HeldFinite, IInv, Types
<1>12. Cardinality(held'[c]) = Cardinality(held[c]) + 1
  BY ZenonT(90), <1>2, <1>4, <1>11, FS_AddElement
<1>13. IntrInv(c)'
  BY <1>4, <1>11, <1>12 DEF IInv, IntrInv, Extra
<1> QED BY <1>1, <1>3, <1>7, <1>9, <1>10, <1>13, LocalInv DEF IInv

LEMMA release_inv == ASSUME IInv, NEW c \in CPU, NEW l \in Lock, release(c, l) PROVE IInv'
<1>1. OthersSame(c)
  BY StepOthers DEF IInv
<1>2. Types'
  BY DEF IInv, Types, release, Goto, lockVars, cpuVars, Places
<1>3. /\ pc[c] = "run" /\ pc'[c] = "release" /\ lk'[c] = l /\ l \in held[c]
      /\ UNCHANGED <<locked, cpu, held, ncli, intena, IF_, eflags, intr, saved>>
  BY DEF IInv, Types, release, Goto, lockVars, cpuVars
<1>4. LockInv' /\ OwnInv'
  BY <1>1, <1>3, LocksSame
<1>5. PlaceInv(c)'
  BY <1>3 DEF PlaceInv
<1>6. IntrInv(c)'
  BY <1>3 DEF IInv, IntrInv, Extra
<1> QED BY <1>1, <1>2, <1>4, <1>5, <1>6, LocalInv DEF IInv

\* release() finds its CPU in lk->cpu.
LEMMA release_cpu_inv == ASSUME IInv, NEW c \in CPU, release_cpu(c) PROVE IInv'
<1>1. OthersSame(c)
  BY StepOthers DEF IInv, step
<1>2. pc[c] = "release" /\ lk[c] \in held[c] /\ lk[c] \in Lock
  BY DEF IInv, Types, PlaceInv, release_cpu
<1>3. locked[lk[c]] /\ cpu[lk[c]] = c
  BY <1>2 DEF IInv, LockInv, OwnInv, Has
<1>4. /\ pc'[c] = "unlock" /\ cpu' = [cpu EXCEPT ![lk[c]] = NoCPU]
      /\ UNCHANGED <<locked, held, ncli, intena, IF_, lk, eflags, intr, saved>>
  BY <1>3 DEF IInv, Types, release_cpu, disown, Goto, cpuVars
<1>5. Types'
  BY <1>3 DEF IInv, Types, release_cpu, disown, Goto, cpuVars, Places
<1>6. \A d \in CPU : d # c => pc'[d] = pc[d]
  BY <1>1 DEF OthersSame
<1>7. \A d \in CPU, l \in Lock : Has(d, l)' <=> Has(d, l)
  BY <1>2, <1>4, <1>6 DEF Has
<1>8. LockInv'
  BY <1>4, <1>7 DEF IInv, LockInv
<1>9. \A d \in CPU : d # c => lk[c] \notin held[d]
  BY <1>2 DEF IInv, LockInv, Has
<1>10. \A l \in Lock : cpu'[l] = IF l = lk[c] THEN NoCPU ELSE cpu[l]
  BY SMTT(40), <1>4 DEF IInv, Types
<1>11. OwnInv'
  BY <1>2, <1>4, <1>6, <1>9, <1>10, SpinlockAssumption DEF IInv, OwnInv
<1>12. PlaceInv(c)'
  BY <1>2, <1>4 DEF PlaceInv
<1>13. IntrInv(c)'
  BY <1>2, <1>4 DEF IInv, IntrInv, Extra
<1> QED BY <1>1, <1>5, <1>8, <1>11, <1>12, <1>13, LocalInv DEF IInv

LEMMA unlock_inv == ASSUME IInv, NEW c \in CPU, unlock(c) PROVE IInv'
<1>1. OthersSame(c)
  BY StepOthers DEF IInv, step
<1>2. pc[c] = "unlock" /\ lk[c] \in held[c] /\ lk[c] \in Lock
  BY DEF IInv, Types, PlaceInv, unlock
<1>3. Types'
  BY <1>2 DEF IInv, Types, unlock, unlocked, Goto, cpuVars, Places
<1>4. /\ pc'[c] = "popcli" /\ held'[c] = held[c] \ {lk[c]}
      /\ \A l \in Lock : locked'[l] = (l # lk[c] /\ locked[l])
      /\ UNCHANGED <<cpu, ncli, intena, IF_, lk, eflags, intr, saved>>
  BY Zenon, <1>2 DEF IInv, Types, unlock, unlocked, Goto, cpuVars
<1>5. \A d \in CPU : d # c => pc'[d] = pc[d] /\ held'[d] = held[d]
  BY <1>1 DEF OthersSame
<1>6. \A d \in CPU : d # c => ~Has(d, lk[c])
  BY <1>2 DEF IInv, LockInv, Has
<1>7. \A d \in CPU, l \in Lock : Has(d, l)' <=> Has(d, l) /\ l # lk[c]
  BY <1>2, <1>4, <1>5, <1>6 DEF Has
<1>8. LockInv'
  BY Zenon, <1>4, <1>7 DEF IInv, LockInv
<1>9. cpu[lk[c]] # c
  BY <1>2 DEF IInv, OwnInv
<1>10. OwnInv'
  BY <1>2, <1>4, <1>5, <1>6, <1>9 DEF IInv, OwnInv, Has
<1>11. PlaceInv(c)'
  BY <1>4 DEF PlaceInv
<1>12. IsFiniteSet(held[c]) /\ Cardinality(held[c]) \in Nat
  BY Finite DEF HeldFinite, IInv, Types
<1>13. Cardinality(held'[c]) = Cardinality(held[c]) - 1
  <2>1. Cardinality(held[c] \ {lk[c]}) = Cardinality(held[c]) - 1
    BY <1>2, <1>12, FS_RemoveElement, Zenon
  <2> QED BY <1>4, <2>1, Zenon
<1>14. IntrInv(c)'
  BY <1>2, <1>4, <1>12, <1>13 DEF IInv, IntrInv, Extra
<1> QED BY <1>1, <1>3, <1>8, <1>10, <1>11, <1>14, LocalInv DEF IInv

\* popcli() turns interrupts on again when the last lock goes, in threads only.
LEMMA popcli_inv == ASSUME IInv, NEW c \in CPU, popcli(c) PROVE IInv'
<1>1. OthersSame(c)
  BY SMTT(40), StepOthers DEF IInv, step
<1>2. ncli[c] \in Nat /\ Cardinality(held[c]) \in Nat
  BY Finite DEF HeldFinite, IInv, Types
<1>3. pc[c] = "popcli" /\ ncli[c] = Cardinality(held[c]) + 1
  BY DEF IInv, IntrInv, Extra, popcli
<1>4. ncli[c] # 0 /\ ~IF_[c]
  BY <1>2, <1>3 DEF IInv, IntrInv
<1>5. /\ pc'[c] = "run" /\ ncli'[c] = ncli[c] - 1 /\ IF_'[c] = (ncli[c] = 1 /\ intena[c])
      /\ UNCHANGED <<locked, cpu, held, intena, lk, eflags, intr, saved>>
  BY <1>4 DEF IInv, Types, popcli, pop_sti, Goto, lockVars
<1>6. Types'
  <2>1. ncli[c] - 1 \in Nat /\ pop_sti(c) \in BOOLEAN
    BY <1>2, <1>4 DEF pop_sti
  <2> QED BY SMTT(90), <1>4, <2>1 DEF IInv, Types, popcli, Goto, lockVars, Places
<1>7. LockInv' /\ OwnInv'
  BY SMTT(90), <1>1, <1>3, <1>5, LocksSame
<1>8. PlaceInv(c)'
  BY <1>5 DEF PlaceInv
<1>9. ncli'[c] = Cardinality(held'[c]) + Extra(c)'
  BY <1>2, <1>3, <1>5 DEF Extra
<1>10. intena[c] <=> ~intr[c]
  BY <1>4 DEF IInv, IntrInv
<1>11. IF_'[c] <=> (ncli'[c] = 0 /\ ~intr'[c])
  <2>1. ncli[c] = 1 <=> ncli'[c] = 0
    BY SMTT(40), <1>2, <1>5
  <2> QED BY <1>5, <1>10, <2>1, Zenon
<1>12. IntrInv(c)'
  BY <1>5, <1>9, <1>10, <1>11 DEF IInv, IntrInv
<1> QED BY <1>1, <1>6, <1>7, <1>8, <1>12, LocalInv DEF IInv

\* An interrupt finds a CPU without locks, outside acquire() or before its cli.
LEMMA interrupt_inv == ASSUME IInv, NEW c \in CPU, interrupt(c) PROVE IInv'
<1>1. OthersSame(c)
  BY SMTT(90), StepOthers DEF IInv
<1>2. IF_[c] /\ ~intr[c] /\ ncli[c] = 0
  BY DEF IInv, IntrInv, interrupt
<1>3. ncli[c] \in Nat /\ Cardinality(held[c]) \in Nat /\ (Cardinality(held[c]) = 0 <=> held[c] = {})
  BY Finite DEF HeldFinite, IInv, Types
<1>4. held[c] = {} /\ Extra(c) = 0
  BY <1>2, <1>3 DEF IInv, IntrInv, Extra
<1>5. pc[c] \in {"run", "cli"}
  BY <1>4 DEF IInv, Types, Places, PlaceInv, Extra
<1>6. [pc |-> pc[c], lk |-> lk[c], eflags |-> eflags[c]] \in Frame
  BY <1>5 DEF IInv, Types, Frame
<1>7. Types'
  BY <1>6 DEF IInv, Types, interrupt, Goto, lockVars, Places
<1>8. /\ pc'[c] = "run" /\ intr'[c] = TRUE /\ IF_'[c] = FALSE
      /\ saved'[c] = [pc |-> pc[c], lk |-> lk[c], eflags |-> eflags[c]]
      /\ UNCHANGED <<locked, cpu, held, ncli, intena, lk, eflags>>
  BY SMTT(90) DEF IInv, Types, interrupt, Goto, lockVars
<1>9. LockInv' /\ OwnInv'
  BY <1>1, <1>5, <1>8, LocksSame
<1>10. PlaceInv(c)'
  BY <1>8 DEF PlaceInv
<1>11. pc[c] = "cli" => lk[c] \in Lock /\ eflags[c]
  BY <1>2 DEF IInv, PlaceInv, IntrInv
<1>12. ncli'[c] = Cardinality(held'[c]) + Extra(c)'
  <2>1. Extra(c)' = 0
    BY <1>8 DEF Extra
  <2>2. Cardinality(held'[c]) = 0
    BY SMTT(90), <1>3, <1>4, <1>8
  <2>3. ncli'[c] = 0
    BY <1>2, <1>8
  <2> QED BY SMTT(40), <2>1, <2>2, <2>3
<1>13. IntrInv(c)'
  BY <1>2, <1>8, <1>11, <1>12 DEF IntrInv
<1> QED BY <1>1, <1>7, <1>9, <1>10, <1>13, LocalInv DEF IInv

LEMMA iret_inv == ASSUME IInv, NEW c \in CPU, iret(c) PROVE IInv'
<1>1. OthersSame(c)
  BY StepOthers DEF IInv
<1>2. intr[c] /\ pc[c] = "run" /\ held[c] = {} /\ saved[c] \in Frame
  BY DEF IInv, Types, iret
<1>3. saved[c].pc \in {"run", "cli"} /\ saved[c].lk \in Lock \cup {0} /\ saved[c].eflags \in BOOLEAN
  BY <1>2 DEF Frame
<1>4. Types'
  <2>1. NoFrame \in Frame
    BY DEF NoFrame, Frame
  <2> QED BY <1>3, <2>1 DEF IInv, Types, iret, Goto, lockVars, Places
<1>5. /\ pc'[c] = saved[c].pc /\ lk'[c] = saved[c].lk /\ eflags'[c] = saved[c].eflags
      /\ intr'[c] = FALSE /\ IF_'[c] = TRUE
      /\ UNCHANGED <<locked, cpu, held, ncli, intena>>
  BY SMTT(90) DEF IInv, Types, iret, Goto, lockVars
<1>6. LockInv' /\ OwnInv'
  BY SMTT(90), <1>1, <1>2, <1>3, <1>5, LocksSame
<1>7. saved[c].pc = "cli" => saved[c].lk \in Lock /\ saved[c].eflags
  BY <1>2 DEF IInv, IntrInv
<1>8. PlaceInv(c)'
  BY <1>2, <1>3, <1>5, <1>7 DEF PlaceInv
<1>9. Cardinality(held[c]) = 0 /\ Extra(c) = 0
  <2>1. Cardinality(held[c]) = 0
    BY Zenon, <1>2, Finite DEF HeldFinite, IInv, Types
  <2> QED BY <1>2, <2>1 DEF Extra
<1>12. ncli[c] = 0
  BY <1>9 DEF IInv, IntrInv
<1>10. ncli'[c] = Cardinality(held'[c]) + Extra(c)'
  <2>1. Extra(c)' = 0
    BY <1>3, <1>5 DEF Extra
  <2> QED BY <1>5, <1>9, <1>12, <2>1
<1>11. IntrInv(c)'
  BY <1>5, <1>7, <1>10, <1>12 DEF IntrInv
<1> QED BY <1>1, <1>4, <1>6, <1>8, <1>11, LocalInv DEF IInv

LEMMA NextInv == IInv /\ [Next]_vars => IInv'
<1> SUFFICES ASSUME IInv, [Next]_vars PROVE IInv'
  OBVIOUS
<1>1. CASE UNCHANGED vars
  <2>1. UNCHANGED <<locked, cpu, ncli, intena, IF_, pc, lk, eflags, intr, saved, held>>
    BY <1>1, Zenon DEF vars, lockVars, cpuVars, codeVars
  <2>2. Types'
    BY <2>1, Zenon DEF IInv, Types
  <2>4. LockInv'
    BY <2>1, Zenon DEF IInv, LockInv, Has
  <2>5. OwnInv'
    BY <2>1, Zenon DEF IInv, OwnInv
  <2>3. \A c \in CPU : PlaceInv(c)' /\ IntrInv(c)'
    BY <2>1, Zenon DEF IInv, PlaceInv, IntrInv, Extra
  <2> QED BY <2>2, <2>3, <2>4, <2>5 DEF IInv
<1>2. ASSUME NEW c \in CPU, step(c) PROVE IInv'
  BY <1>2, pushcli_inv, holding_inv, xchg_inv, own_inv, release_cpu_inv, unlock_inv, popcli_inv DEF step
<1>3. ASSUME NEW c \in CPU, interrupt(c) \/ iret(c) PROVE IInv'
  BY <1>3, interrupt_inv, iret_inv
<1>4. ASSUME NEW c \in CPU, NEW l \in Lock, acquire(c, l) \/ release(c, l) PROVE IInv'
  BY <1>4, acquire_inv, release_inv
<1> QED BY <1>1, <1>2, <1>3, <1>4, Zenon DEF Next

LEMMA Invariance == Spec => []IInv
BY InitInv, NextInv, PTL DEF Spec

-----------------------------------------------------------------------------
\* Every variable has its type: ncli never exceeds the number of locks by more
\* than the one pushcli() of the acquire() or release() under way.
THEOREM SpinlockTypes == Spec => []TypeOK
<1>1. IInv => TypeOK
  <2> SUFFICES ASSUME IInv PROVE TypeOK
    OBVIOUS
  <2>1. Cardinality(Lock) \in Nat
    BY FS_CardinalityType, SpinlockAssumption
  <2>2. \A c \in CPU : ncli[c] \in 0..(Cardinality(Lock) + 1)
    BY <2>1, Finite DEF HeldFinite, IInv, Types, IntrInv, Extra
  <2> QED BY <2>2 DEF IInv, Types, TypeOK
<1> QED BY <1>1, Invariance, PTL

\* acquire() and release() exclude each other on every lock, for any number of
\* CPUs, locks and levels of nesting, with interrupt handlers taking locks.
THEOREM LocksExclude == Spec => []MutualExclusion
<1>1. IInv => MutualExclusion
  BY DEF IInv, Types, LockInv, Has, MutualExclusion
<1> QED BY <1>1, Invariance, PTL

\* No CPU that holds a spinlock is interrupted.
THEOREM HoldersUninterrupted == Spec => []NoIntrWhileHolding
<1>1. IInv => NoIntrWhileHolding
  <2> SUFFICES ASSUME IInv, NEW c \in CPU, held[c] # {} PROVE ~IF_[c]
    BY DEF NoIntrWhileHolding
  <2>1. Cardinality(held[c]) \in Nat /\ Cardinality(held[c]) # 0 /\ Extra(c) \in Nat
    BY Finite DEF HeldFinite, IInv, Types, Extra
  <2>2. ncli[c] # 0
    BY <2>1 DEF IInv, IntrInv
  <2> QED BY <2>2 DEF IInv, IntrInv
<1> QED BY <1>1, Invariance, PTL

\* pushcli() and popcli() restore the interrupt flag.
THEOREM PushPopMatched == Spec => []IntrRestored
<1>1. IInv => IntrRestored
  <2> SUFFICES ASSUME IInv, NEW c \in CPU, pc[c] = "run", held[c] = {}
               PROVE ncli[c] = 0 /\ (IF_[c] <=> ~intr[c])
    BY DEF IntrRestored
  <2>1. Cardinality(held[c]) = 0
    BY SMTT(90), Finite DEF HeldFinite, IInv, Types
  <2>2. Extra(c) = 0
    BY DEF Extra
  <2>3. ncli[c] = 0
    <3>1. ncli[c] = Cardinality(held[c]) + Extra(c)
      BY Zenon DEF IInv, IntrInv
    <3> QED BY <2>1, <2>2, <3>1
  <2> QED BY <2>3 DEF IInv, IntrInv
<1> QED BY <1>1, Invariance, PTL

\* acquire(), release() and popcli() never panic in code that pairs its calls.
THEOREM LocksNeverPanic == Spec => []NoPanic
<1>1. IInv => NoPanic
  BY DEF IInv, PlaceInv, NoPanic
<1> QED BY <1>1, Invariance, PTL

\* What the callers of acquire() and release() rely on: exclusion, no interrupt on a
\* CPU with a lock, no panic.
THEOREM LocksAreSafe == Spec => []LockSafety
BY LocksExclude, HoldersUninterrupted, LocksNeverPanic, PTL DEF LockSafety
=============================================================================
