------------------------------- MODULE MCMlfqRR -----------------------------
(***************************************************************************)
(* Mlfq with history variables for the round robin of queue 0 and for the   *)
(* slices the CPUs give to the queues.                                      *)
(***************************************************************************)
EXTENDS Mlfq

VARIABLES
  passed,   \* passed[s]: run from queue 0 since s became ready in queue 0
  spoiled   \* CPUs in a slice during which set_queue() moved their process

HInit == Init /\ passed = [s \in Slot |-> {}] /\ spoiled = {}
\* The step A together with what it adds to the history.
With(A) ==
  /\ A
  /\ LET ran == {s \in Ready(0) : state'[s] = "RUNNING"}
         moved == {c \in CPU : proc[c] # None /\ queue'[proc[c]] # queue[proc[c]]}
     IN /\ passed' = [s \in Slot |-> IF s \in Ready(0) \cap Ready(0)'
                                     THEN passed[s] \cup ran ELSE {}]
        /\ spoiled' = {c \in spoiled \cup moved : proc'[c] # None \/ runs_queue'[c] # 0}

HNext == \/ With(clock)
         \/ \E c \in CPU : \/ With(dispatch(c)) \/ With(idle(c)) \/ With(yield(c))
                           \/ With(leave(c, "SLEEPING")) \/ With(leave(c, "UNUSED"))
                           \/ With(allocproc(c))
                           \/ \E s \in Slot, q \in QueueArgs : With(set_queue(c, s, q))
         \/ \E s \in Slot : With(wakeup(s)) \/ With(fork(s))
HSpec == HInit /\ [][HNext]_<<vars, passed, spoiled>>

\* Round robin: no process is run twice from queue 0 while another one is ready
\* in queue 0 all the time, whichever CPUs the turns are on.
RoundRobin ==
  [][\A r, s \in Slot :
       r \in passed[s] /\ s \in Ready(0) \cap Ready(0)' =>
         ~(r \in Ready(0) /\ state'[r] = "RUNNING")]_<<vars, passed, spoiled>>

\* Unless set_queue() moves its process during the slice, a CPU runs a process of
\* the queue whose slice it is spending and does not overspend the slice, also
\* when processes sleep, exit or are moved up by _aging() in the middle of it:
\* the weights 3:2:1 are the most ticks a queue gets in a row.
SliceKept == \A c \in CPU \ spoiled : proc[c] # None =>
               /\ queue[proc[c]] = current_queue[c]
               /\ runs_queue[c] < Slice(current_queue[c])
=============================================================================
