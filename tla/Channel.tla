------------------------------- MODULE Channel ------------------------------
(***************************************************************************)
(* What the pipes promise to the processes that write to them: the bytes of *)
(* a write go in one after the other and come out in the order they went    *)
(* in, none lost and none twice, and at most Capacity are in a pipe.  The   *)
(* page of a pipe may be freed and become another pipe.                     *)
(***************************************************************************)
EXTENDS Naturals, Sequences

CONSTANTS Pipe, Proc, Capacity, Message
VARIABLES open,      \* the pages that are pipes
          queue,     \* the bytes in each
          out        \* the bytes each process has still to write

Init == open = {} /\ queue = [x \in Pipe |-> <<>>] /\ out = [p \in Proc |-> <<>>]

Drop(s, k) == SubSeq(s, k + 1, Len(s))

Create(x) == x \notin open /\ open' = open \cup {x} /\ UNCHANGED <<queue, out>>
Destroy(x) == /\ x \in open /\ open' = open \ {x} /\ queue' = [queue EXCEPT ![x] = <<>>]
              /\ UNCHANGED out
Write(p) == /\ out[p] = <<>> /\ out' \in {[out EXCEPT ![p] = m] : m \in Message}
            /\ UNCHANGED <<open, queue>>
\* k bytes go in; the writer goes on or gives up.
Send(x, p) == /\ x \in open /\ UNCHANGED open
              /\ \E k \in 0..Len(out[p]) :
                   /\ Len(queue[x]) + k <= Capacity
                   /\ queue' = [queue EXCEPT ![x] = @ \o SubSeq(out[p], 1, k)]
                   /\ out' \in {[out EXCEPT ![p] = Drop(@, k)], [out EXCEPT ![p] = <<>>]}
Receive(x) == /\ x \in open /\ UNCHANGED <<open, out>>
              /\ \E k \in 1..Len(queue[x]) : queue' = [queue EXCEPT ![x] = Drop(@, k)]

Next == \/ \E x \in Pipe : Create(x) \/ Destroy(x) \/ Receive(x) \/ \E p \in Proc : Send(x, p)
        \/ \E p \in Proc : Write(p)
Spec == Init /\ [][Next]_<<open, queue, out>>
=============================================================================
