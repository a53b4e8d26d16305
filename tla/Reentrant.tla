------------------------------ MODULE Reentrant -----------------------------
(***************************************************************************)
(* The reentrant lock, step by step, under its one user: the table of        *)
(* Fibonacci numbers, which fibonacci_number() fills by calling itself with  *)
(* the lock held.  holdingreentrant() reads the lock without any other lock. *)
(***************************************************************************)
EXTENDS Integers, Sequences

CONSTANTS Proc, Index    \* the processes and what they ask for, 0..n

Nobody == "none"

VARIABLES
  sleeplock,             \* who holds lk->lk, or Nobody
  locked, pid, recursion,  \* the reentrant lock; pid is a process or Nobody
  fibs, valid,           \* fib_nums
  stack,                 \* the active calls of each process, the innermost first
  answer                 \* what the last call of each process returned

rvars == <<sleeplock, locked, pid, recursion, fibs, valid, stack, answer>>
lock == <<sleeplock, locked, pid, recursion>>
table == <<fibs, valid>>

\* A call: its index and where it is.
Call(n) == [n |-> n, at |-> "test"]

RInit == /\ sleeplock = Nobody /\ locked = 0 /\ pid = Nobody /\ recursion = 0
         /\ fibs = [k \in Index |-> IF k < 2 THEN 1 ELSE 0] /\ valid = [k \in Index |-> k < 2]
         /\ stack = [p \in Proc |-> <<>>] /\ answer = [p \in Proc |-> <<>>]

At(p, l) == stack[p] # <<>> /\ stack[p][1].at = l
Go(p, l) == stack' = [stack EXCEPT ![p][1].at = l]
N(p) == stack[p][1].n

begin(p, n) == /\ stack[p] = <<>> /\ stack' = [stack EXCEPT ![p] = <<Call(n)>>]
               /\ UNCHANGED <<lock, table, answer>>

\* holdingreentrant() reads locked and then pid.
holds_locked(p) == At(p, "test") /\ Go(p, IF locked = 1 THEN "pid" ELSE "sleep") /\ UNCHANGED <<lock, table, answer>>
bug_holds_pid(p) == At(p, "pid") /\ Go(p, "enter") /\ UNCHANGED <<lock, table, answer>>
holds_pid(p) == At(p, "pid") /\ Go(p, IF pid = p THEN "enter" ELSE "sleep") /\ UNCHANGED <<lock, table, answer>>

\* acquirereentrant() for a new owner.
acquiresleep(p) == /\ At(p, "sleep") /\ sleeplock = Nobody /\ sleeplock' = p /\ Go(p, "locked")
                   /\ UNCHANGED <<locked, pid, recursion, table, answer>>
set_locked(p) == /\ At(p, "locked") /\ locked' = 1 /\ Go(p, "own")
                 /\ UNCHANGED <<sleeplock, pid, recursion, table, answer>>
set_pid(p) == /\ At(p, "own") /\ pid' = p /\ Go(p, "enter")
              /\ UNCHANGED <<sleeplock, locked, recursion, table, answer>>

\* recursion++, and what the call finds in the table.
enter(p) == /\ At(p, "enter") /\ recursion' = recursion + 1
            /\ Go(p, IF valid[N(p)] THEN "leave" ELSE "first")
            /\ UNCHANGED <<sleeplock, locked, pid, table, answer>>

\* The two recursive calls, and the additions when they are back.
call(p) == /\ \/ At(p, "first") /\ stack' = [stack EXCEPT ![p] = <<Call(N(p) - 1), [@[1] EXCEPT !.at = "add1"]>> \o Tail(@)]
              \/ At(p, "second") /\ stack' = [stack EXCEPT ![p] = <<Call(N(p) - 2), [@[1] EXCEPT !.at = "add2"]>> \o Tail(@)]
           /\ UNCHANGED <<lock, table, answer>>
add(p) == /\ \/ At(p, "add1") /\ Go(p, "second") /\ UNCHANGED valid
             \/ At(p, "add2") /\ Go(p, "leave") /\ valid' = [valid EXCEPT ![N(p)] = TRUE]
          /\ fibs' = [fibs EXCEPT ![N(p)] = @ + answer[p][2]]
          /\ UNCHANGED <<lock, answer>>

\* releasereentrant(): a holder leaves one level, another nothing; the last level gives
\* the lock up step by step.
leave(p) == /\ At(p, "leave")
            /\ IF locked = 1 /\ pid = p
               THEN recursion' = recursion - 1 /\ Go(p, IF recursion = 1 THEN "unlock" ELSE "return")
               ELSE Go(p, "return") /\ UNCHANGED recursion
            /\ UNCHANGED <<sleeplock, locked, pid, table, answer>>
unlock(p) == At(p, "unlock") /\ locked' = 0 /\ Go(p, "disown") /\ UNCHANGED <<sleeplock, pid, recursion, table, answer>>
disown(p) == At(p, "disown") /\ pid' = Nobody /\ Go(p, "wake") /\ UNCHANGED <<sleeplock, locked, recursion, table, answer>>
releasesleep(p) == /\ At(p, "wake") /\ sleeplock' = Nobody /\ Go(p, "return")
                   /\ UNCHANGED <<locked, pid, recursion, table, answer>>

\* The value is read after the lock is released.
return(p) == /\ At(p, "return") /\ answer' = [answer EXCEPT ![p] = <<N(p), fibs[N(p)]>>]
             /\ stack' = [stack EXCEPT ![p] = Tail(@)] /\ UNCHANGED <<lock, table>>

RStep(p) == \/ holds_locked(p) \/ holds_pid(p) \/ acquiresleep(p) \/ set_locked(p) \/ set_pid(p)
            \/ enter(p) \/ call(p) \/ add(p)
            \/ leave(p) \/ unlock(p) \/ disown(p) \/ releasesleep(p) \/ return(p)
RNext == \E p \in Proc : RStep(p) \/ \E n \in Index : begin(p, n)

RSpec == RInit /\ [][RNext]_rvars

-----------------------------------------------------------------------------
Fib[n \in Nat] == IF n < 2 THEN 1 ELSE Fib[n - 1] + Fib[n - 2]
InTable(p) == \E k \in 1..Len(stack[p]) : stack[p][k].at \in {"first", "second", "add1", "add2"}

\* One process at a time works on the Fibonacci table, however deep it is in
\* fibonacci_number(), and a number returned or marked valid is the right one: the
\* unlocked reads of holdingreentrant() never let a second process in.
FibRight == /\ \A p, q \in Proc : InTable(p) /\ InTable(q) => p = q
            /\ \A k \in Index : valid[k] => fibs[k] = Fib[k]
            /\ \A p \in Proc : answer[p] # <<>> => answer[p][2] = Fib[answer[p][1]]
=============================================================================
