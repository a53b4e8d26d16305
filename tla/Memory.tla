------------------------------- MODULE Memory -------------------------------
(***************************************************************************)
(* Physical pages (kalloc.c), address spaces (vm.c), the calls that build,   *)
(* copy, resize and free them (fork(), exec(), growproc(), wait()) and the  *)
(* table of shared pages.  Sizes are in units of a fraction of a page.  A    *)
(* call is one step, since kmem.lock and the process's own page table are   *)
(* all it uses; the calls on shared pages release shm_table.lock midway.    *)
(***************************************************************************)
EXTENDS Integers, Sequences, FiniteSets, FiniteSetsExt

CONSTANTS Proc, Init1,   \* processes; the one userinit() makes
          NPAGE,         \* pages freerange() gives to kinit1() and kinit2()
          PGSIZE,        \* units in a page
          NPTE, NTAB,    \* user pages per page table; user page tables
          KVPAGES,       \* the page directory and the kernel's page tables
          W,             \* sizes are computed modulo W, 2^32 in the code
          Id, Entry,     \* ids of shared pages; indices of shm_table
          ProgSize,      \* sizes of the programs exec() loads; with the stack they fit below KERNBASE
          Incr,          \* arguments of sbrk()
          Orderly        \* programs, which open a shared page once and close what they
                         \* have opened, do so last in first out, and before they call
                         \* sbrk(), exec() or exit()

KERNBASE == NPTE * NTAB * PGSIZE

Page == 1..NPAGE
No == 0                                   \* the null pointer, an absent entry
UPage == 0..(NPTE * NTAB - 1)             \* user virtual pages
Table == 0..(NTAB - 1)

VARIABLES
  free,      \* the pages on kmem.freelist, whose order is left out
  kstack,    \* of each process
  space,     \* of each process: kvm, page tables, what each user page is mapped to
  sz,
  pa,        \* shm_table: pa[], id[], ref_count[], va[][]
  id, ref_count, va,
  pc, idx,   \* where a process is; mem_idx of its call
  opened,    \* the ids a program has opened and not closed
  panic      \* a panic() was reached

shmVars == <<pa, id, ref_count, va>>
vars == <<free, kstack, space, sz, shmVars, pc, idx, opened, panic>>

NoSpace == [kvm |-> {}, tab |-> [t \in Table |-> No], map |-> [k \in UPage |-> No]]

\* The page of fr that has n smaller ones; kalloc() returns some free page.
Nth(fr, n) == CHOOSE g \in fr : Cardinality({h \in fr : h < g}) = n
Rank(S, x) == Cardinality({y \in S : y < x})
Up(n) == (n + PGSIZE - 1) \div PGSIZE      \* PGROUNDUP, in pages
Pages(f) == {f[x] : x \in DOMAIN f} \ {No}
PagesOf(sp) == sp.kvm \cup Pages(sp.tab) \cup Pages(sp.map)

-----------------------------------------------------------------------------
(* address spaces: each returns [ok, sp, fr] *)

\* setupkvm(): all its pages or, through freevm(), none.
setupkvm(fr) ==
  LET ok == Cardinality(fr) >= KVPAGES
      kvm == {g \in fr : Rank(fr, g) < KVPAGES}
  IN  [ok |-> ok, sp |-> [NoSpace EXCEPT !.kvm = IF ok THEN kvm ELSE {}], fr |-> IF ok THEN fr \ kvm ELSE fr]

\* deallocuvm(): the pages from newsz to oldsz are freed and their entries cleared.
Region(low, high) == {k \in UPage : k >= Up(low) /\ k * PGSIZE < high}
bug_deallocuvm(sp, fr, oldsz, newsz) ==            \* *pte = 0 forgotten
  [sp |-> sp, fr |-> fr \cup ({sp.map[k] : k \in Region(newsz, oldsz)} \ {No})]
deallocuvm(sp, fr, oldsz, newsz) ==
  [sp |-> [sp EXCEPT !.map = [k \in UPage |-> IF k \in Region(newsz, oldsz) THEN No ELSE @[k]]],
   fr |-> fr \cup ({sp.map[k] : k \in Region(newsz, oldsz)} \ {No})]

\* The page tables walkpgdir() makes when the pages of S are mapped.
Lacking(sp, S) == {t \in Table : sp.tab[t] = No /\ \E k \in S : k \div NPTE = t}

\* allocuvm(): page by page, the page and then, if need be, its page table; on
\* failure the pages are freed, the page tables stay.
bug_Kept(S, Got) == Got                             \* the pages are not freed on failure
Kept(S, Got) == IF Got = S THEN S ELSE {}
allocuvm(sp, fr, oldsz, newsz) ==
  LET S == IF newsz < KERNBASE THEN Region(oldsz, newsz) ELSE {}
      Got == {k \in S : LET T == {j \in S : j <= k} IN Cardinality(T) + Cardinality(Lacking(sp, T)) <= Cardinality(fr)}
      New == Lacking(sp, Got)
      n == Cardinality(New)
      kept == Kept(S, Got)
  IN  [ok |-> newsz < KERNBASE /\ Got = S,
       sp |-> [sp EXCEPT !.tab = [t \in Table |-> IF t \in New THEN Nth(fr, Rank(New, t)) ELSE @[t]],
                         !.map = [k \in UPage |-> IF k \in kept THEN Nth(fr, n + Rank(S, k)) ELSE @[k]]],
       fr |-> {g \in fr : Rank(fr, g) >= n + Cardinality(kept)}]
Remaps(sp, oldsz, newsz) == newsz < KERNBASE /\ \E k \in Region(oldsz, newsz) : sp.map[k] # No

freevm(sp, fr) == LET d == deallocuvm(sp, fr, KERNBASE, 0) IN d.fr \cup d.sp.kvm \cup Pages(d.sp.tab)

\* copyuvm(): a space of the same size, or nothing.
Absent(sp, size) == \E k \in Region(0, size) : sp.map[k] = No
copyuvm(size, fr) ==
  LET a == setupkvm(fr)
      b == allocuvm(a.sp, a.fr, 0, size)
  IN  IF a.ok /\ b.ok THEN b ELSE [ok |-> FALSE, sp |-> NoSpace, fr |-> IF a.ok THEN freevm(b.sp, b.fr) ELSE fr]

\* The image exec() builds: the program, then a guard page and a stack page.
Loaded(size, fr) ==
  LET a == setupkvm(fr)
      b == allocuvm(a.sp, a.fr, 0, size)
      top == Up(size) * PGSIZE
      c == allocuvm(b.sp, b.fr, top, top + 2 * PGSIZE)
  IN  IF a.ok /\ b.ok /\ c.ok THEN c
      ELSE [ok |-> FALSE, sp |-> NoSpace,
            fr |-> IF ~a.ok THEN fr ELSE IF ~b.ok THEN freevm(b.sp, b.fr) ELSE freevm(c.sp, c.fr)]

-----------------------------------------------------------------------------
\* kinit1(), kinit2(), _shared_mem_init(), then userinit() with inituvm().
First == LET boot == {g \in Page : g > Cardinality(Entry) + 1} IN allocuvm(setupkvm(boot).sp, setupkvm(boot).fr, 0, PGSIZE)
Init ==
  /\ pa = [i \in Entry |-> 1 + Rank(Entry, i)] /\ kstack = [p \in Proc |-> IF p = Init1 THEN Cardinality(Entry) + 1 ELSE No]
  /\ free = First.fr
  /\ space = [p \in Proc |-> IF p = Init1 THEN First.sp ELSE NoSpace]
  /\ sz = [p \in Proc |-> IF p = Init1 THEN PGSIZE ELSE 0]
  /\ id = [i \in Entry |-> No] /\ ref_count = [i \in Entry |-> 0] /\ va = [p \in Proc |-> [i \in Entry |-> No]]
  /\ pc = [p \in Proc |-> IF p = Init1 THEN "user" ELSE "unused"]
  /\ idx = [p \in Proc |-> No] /\ opened = [p \in Proc |-> <<>>] /\ panic = "none"

Set(f, x, v) == [f EXCEPT ![x] = v]
Runs(p, l) == panic = "none" /\ pc[p] = l
Free(p) == Runs(p, "user") /\ (Orderly => opened[p] = <<>>)

\* growproc().  A size of zero counts as a failure when the memory is gone: the
\* process, without a stack, then faults.  The first process does not do that.
growproc(p, n) ==
  LET new == (sz[p] + n) % W
      a == allocuvm(space[p], free, sz[p], new)
      d == deallocuvm(space[p], free, sz[p], new)
  IN  /\ Free(p) /\ (p # Init1 \/ new # 0)
      /\ IF n > 0 /\ new >= sz[p]
         THEN IF Remaps(space[p], sz[p], new) THEN panic' = "remap" /\ UNCHANGED <<free, space, sz, pc>>
              ELSE /\ space' = Set(space, p, a.sp) /\ free' = a.fr
                   /\ sz' = IF a.ok THEN Set(sz, p, new) ELSE sz
                   /\ UNCHANGED <<pc, panic>>
         ELSE IF n < 0 /\ new < sz[p]
         THEN /\ space' = Set(space, p, d.sp) /\ free' = d.fr
              /\ IF new = 0 THEN pc' = Set(pc, p, "faults") /\ UNCHANGED sz
                 ELSE sz' = Set(sz, p, new) /\ UNCHANGED pc
              /\ UNCHANGED panic
         ELSE UNCHANGED <<free, space, sz, pc, panic>>
      /\ UNCHANGED <<kstack, shmVars, idx, opened>>

\* fork(): allocproc() takes a kernel stack, then copyuvm().
fork(p, c) ==
  LET ks == Nth(free, 0)
      b == copyuvm(sz[p], free \ {ks})
  IN  /\ Runs(p, "user") /\ pc[c] = "unused" /\ free # {}
      /\ IF Absent(space[p], sz[p])
         THEN panic' = "copyuvm" /\ UNCHANGED <<free, kstack, space, sz, pc>>
         ELSE /\ free' = IF b.ok THEN b.fr ELSE b.fr \cup {ks}
              /\ kstack' = IF b.ok THEN Set(kstack, c, ks) ELSE kstack
              /\ space' = Set(space, c, b.sp)
              /\ sz' = IF b.ok THEN Set(sz, c, sz[p]) ELSE sz
              /\ pc' = IF b.ok THEN Set(pc, c, "user") ELSE pc
              /\ UNCHANGED panic
      /\ UNCHANGED <<shmVars, idx, opened>>

\* exec(): the new image replaces the old one, which is freed, or nothing changes.
exec(p, size) ==
  LET b == Loaded(size, free)
  IN  /\ Free(p)
      /\ space' = IF b.ok THEN Set(space, p, b.sp) ELSE space
      /\ sz' = IF b.ok THEN Set(sz, p, (Up(size) + 2) * PGSIZE) ELSE sz
      /\ free' = IF b.ok THEN freevm(space[p], b.fr) ELSE b.fr
      /\ UNCHANGED <<kstack, shmVars, pc, idx, opened, panic>>

\* exit(), of its own accord or after a fault, and wait() in the parent.
exit(p) ==
  /\ (p # Init1 /\ Free(p)) \/ Runs(p, "faults")
  /\ pc' = Set(pc, p, "zombie") /\ opened' = Set(opened, p, <<>>)
  /\ UNCHANGED <<free, kstack, space, sz, shmVars, idx, panic>>
wait(p) ==
  /\ Runs(p, "zombie") /\ pc' = Set(pc, p, "unused")
  /\ free' = freevm(space[p], free) \cup {kstack[p]}
  /\ space' = Set(space, p, NoSpace) /\ kstack' = Set(kstack, p, No) /\ sz' = Set(sz, p, 0)
  /\ UNCHANGED <<shmVars, idx, opened, panic>>

-----------------------------------------------------------------------------
(* shared pages *)

\* The entry open_sharedmem() settles for: the first with the id, or, if there
\* is none, the last unused one.
Unused == {i \in Entry : ref_count[i] = 0}
Named(x) == {i \in Entry : ref_count[i] # 0 /\ id[i] = x}
Found(x) == IF Named(x) # {} THEN Min(Named(x)) ELSE Max(Unused)

\* open_sharedmem() under the lock, and the mapping that follows it.  An address
\* past KERNBASE, which the code does not refuse, is left out.
open_take(p, x) ==
  /\ Runs(p, "user") /\ Named(x) \cup Unused # {} /\ Up(sz[p]) \in UPage
  /\ \A k \in 1..Len(opened[p]) : opened[p][k] # x
  /\ id' = Set(id, Found(x), x) /\ ref_count' = Set(ref_count, Found(x), ref_count[Found(x)] + 1)
  /\ idx' = Set(idx, p, Found(x)) /\ pc' = Set(pc, p, "open")
  /\ UNCHANGED <<free, kstack, space, sz, pa, va, opened, panic>>

bug_GivenBack(i) == ref_count                       \* ref_count stays on failure
GivenBack(i) == Set(ref_count, i, ref_count[i] - 1)
open_map(p) ==
  LET k == Up(sz[p])
      New == Lacking(space[p], {k})
      t == k \div NPTE
  IN  /\ Runs(p, "open") /\ pc' = Set(pc, p, "user") /\ idx' = Set(idx, p, No)
      /\ IF New # {} /\ free = {}
         THEN /\ ref_count' = GivenBack(idx[p])
              /\ UNCHANGED <<free, space, va, sz, opened, panic>>
         ELSE IF space[p].map[k] # No THEN panic' = "remap" /\ UNCHANGED <<free, space, ref_count, va, sz, opened>>
         ELSE /\ space' = [space EXCEPT ![p].map[k] = pa[idx[p]],
                                        ![p].tab[t] = IF New = {} THEN @ ELSE Nth(free, 0)]
              /\ free' = IF New = {} THEN free ELSE free \ {Nth(free, 0)}
              /\ va' = [va EXCEPT ![p][idx[p]] = k] /\ sz' = Set(sz, p, sz[p] + PGSIZE)
              /\ opened' = Set(opened, p, Append(opened[p], id[idx[p]]))
              /\ UNCHANGED <<ref_count, panic>>
      /\ UNCHANGED <<kstack, pa, id>>

\* close_sharedmem() likewise.  The id of an unused entry and the address of a page
\* that is not open are not read again: the model clears them.
close_drop(p, x) ==
  /\ Runs(p, "user") /\ Named(x) # {}
  /\ \E k \in 1..Len(opened[p]) : opened[p][k] = x /\ (Orderly => k = Len(opened[p]))
  /\ ref_count' = Set(ref_count, Min(Named(x)), ref_count[Min(Named(x))] - 1)
  /\ idx' = Set(idx, p, Min(Named(x))) /\ pc' = Set(pc, p, "close")
  /\ id' = IF ref_count[Min(Named(x))] = 1 THEN Set(id, Min(Named(x)), No) ELSE id
  /\ opened' = Set(opened, p, SelectSeq(opened[p], LAMBDA y : y # x))
  /\ UNCHANGED <<free, kstack, space, sz, pa, va, panic>>

close_unmap(p) ==
  LET k == va[p][idx[p]]
  IN  /\ Runs(p, "close") /\ pc' = Set(pc, p, "user") /\ idx' = Set(idx, p, No)
      /\ IF space[p].map[k] = No THEN panic' = "reunmap" /\ UNCHANGED <<space, sz>>
         ELSE /\ space' = [space EXCEPT ![p].map[k] = No] /\ sz' = Set(sz, p, sz[p] - PGSIZE)
              /\ UNCHANGED panic
      /\ va' = [va EXCEPT ![p][idx[p]] = No]
      /\ UNCHANGED <<free, kstack, pa, id, ref_count, opened>>

Next == \E p \in Proc :
  \/ \E n \in Incr : growproc(p, n)
  \/ \E c \in Proc : fork(p, c)
  \/ \E s \in ProgSize : exec(p, s)
  \/ exit(p) \/ wait(p)
  \/ \E x \in Id : open_take(p, x) \/ close_drop(p, x)
  \/ open_map(p) \/ close_unmap(p)
Spec == Init /\ [][Next]_vars

-----------------------------------------------------------------------------
Shared == {pa[i] : i \in Entry}
\* The uses of page g: as a kernel stack, in a kernel part, as a page table, mapped.
Uses(g) == MapThenSumSet(LAMBDA p :
     (IF kstack[p] = g THEN 1 ELSE 0) + (IF g \in space[p].kvm THEN 1 ELSE 0)
   + Cardinality({t \in Table : space[p].tab[t] = g}) + Cardinality({k \in UPage : space[p].map[k] = g}), Proc)

\* Every page that is not in the table of shared pages is on the free list or has exactly
\* one use, whichever allocation fails: fork(), exec(), sbrk() and wait() lose no page and
\* leave no entry to a page that kalloc() may hand out again.
OneUse == \A g \in Page : IF g \in Shared THEN g \notin free
                          ELSE Uses(g) + (IF g \in free THEN 1 ELSE 0) = 1

\* Exactly the pages below sz are mapped, and no call reaches a panic() of vm.c: copyuvm()
\* finds every page it copies, mappages() never remaps and unmappages() never unmaps twice.
Present == /\ panic = "none"
           /\ \A p \in Proc : pc[p] \in {"user", "open"} =>
                \A k \in UPage : (space[p].map[k] # No) = (k * PGSIZE < sz[p])

\* ref_count[i] is the number of processes that have shared page i mapped, or are in
\* open_sharedmem() on it, less those that are about to unmap it.
RefCount == \A i \in Entry :
  LET Mapping == {p \in Proc : \E k \in UPage : space[p].map[k] = pa[i]}
  IN  ref_count[i] = Cardinality(Mapping \cup {p \in Proc : pc[p] = "open" /\ idx[p] = i})
                     - Cardinality({p \in Proc : pc[p] = "close" /\ idx[p] = i})
=============================================================================
