----------------------------- MODULE AtomicDisk -----------------------------
(***************************************************************************)
(* What the log promises to the file system (the comment at the top of     *)
(* log.c): system calls change blocks between begin_op() and end_op(), the *)
(* blocks become durable all at once and only while no call is active, and *)
(* a crash goes back to the durable blocks.                                *)
(***************************************************************************)
CONSTANTS Proc, Block, Val

VARIABLES mem,      \* the blocks as system calls see them
          dur,      \* the blocks a crash leaves
          active    \* the processes inside begin_op() ... end_op()

vars == <<mem, dur, active>>

Init == mem \in [Block -> Val] /\ dur = mem /\ active = {}

Begin(p) == active' = active \cup {p} /\ UNCHANGED <<mem, dur>>

Write(p, b, v) == /\ p \in active
                  /\ mem' = [mem EXCEPT ![b] = v]
                  /\ UNCHANGED <<dur, active>>

End(p) == p \in active /\ active' = active \ {p} /\ UNCHANGED <<mem, dur>>

Commit == active = {} /\ dur' = mem /\ UNCHANGED <<mem, active>>

Crash == mem' = dur /\ active' = {} /\ UNCHANGED dur

Next == \/ \E p \in Proc : Begin(p) \/ End(p) \/ \E b \in Block, v \in Val : Write(p, b, v)
        \/ Commit \/ Crash

Spec == Init /\ [][Next]_vars
=============================================================================
