-------------------------------- MODULE Sjf ---------------------------------
(***************************************************************************)
(* _SJF_scheduler() of proc.c, run under ptable.lock: passes over the table *)
(* collect the RUNNABLE processes of queue 1 by rising burst time, one      *)
(* burst time per pass, then each process in turn is accepted with its      *)
(* confidence in percent, and the last one if none is.                      *)
(***************************************************************************)
EXTENDS Integers, Sequences, FiniteSetsExt, SequencesExt

CONSTANTS NPROC,
          INF,       \* 1e9, the start value of new_min
          Bursts     \* burst times set_sjf_info() was called with

Slot == 1..NPROC
None == -1
\* rand is below confidence never (<= 0), always (>= 100), or by chance.
Confidence == {"never", "by_chance", "always"}

VARIABLES
  jobs,         \* the RUNNABLE processes of queue 1
  burst_time, confidence,
  min_val, p_idx, i, pc,
  result        \* what the function returns

vars == <<jobs, burst_time, confidence, min_val, p_idx, i, pc, result>>
table == <<jobs, burst_time, confidence>>

Init == /\ jobs \in SUBSET Slot
        /\ burst_time \in [Slot -> Bursts] /\ confidence \in [Slot -> Confidence]
        /\ min_val = 0 /\ p_idx = <<>> /\ i = 1 /\ pc = "scan" /\ result = None

Longer == {s \in jobs : min_val < burst_time[s]}
Equal == SetToSortSeq({s \in jobs : min_val = burst_time[s]}, <)
new_min == Min({INF} \cup {burst_time[s] : s \in Longer})

flag == Longer = {} /\ Equal = <<>>

\* One pass of the while loop.  Its test of idx is made between passes only.
pass == /\ pc = "scan" /\ Len(p_idx) < NPROC
        /\ p_idx' = p_idx \o Equal
        /\ min_val' = new_min
        /\ pc' = IF flag THEN "draw" ELSE "scan"
        /\ UNCHANGED <<table, i, result>>

full == /\ pc = "scan" /\ Len(p_idx) >= NPROC
        /\ pc' = "draw"
        /\ UNCHANGED <<table, min_val, p_idx, i, result>>

return(s) == result' = s /\ pc' = "done" /\ UNCHANGED <<table, min_val, p_idx, i>>

Accepted(s) == confidence[s] # "never"
bug_Refused(s) == confidence[s] \in Confidence                          \* 100 is not sure
Refused(s) == confidence[s] # "always"
draw == /\ pc = "draw" /\ i <= Len(p_idx)
        /\ \/ Accepted(p_idx[i]) /\ return(p_idx[i])
           \/ /\ Refused(p_idx[i])
              /\ i' = i + 1
              /\ UNCHANGED <<table, min_val, p_idx, pc, result>>

no_draw == /\ pc = "draw" /\ i > Len(p_idx)
           /\ return(IF p_idx = <<>> THEN None ELSE p_idx[Len(p_idx)])

Done == pc = "done" /\ UNCHANGED vars

Next == pass \/ full \/ draw \/ no_draw \/ Done
Spec == Init /\ [][Next]_vars

-----------------------------------------------------------------------------
\* The reference: every job once, by burst time and then by slot.  (Jobs with
\* a negative burst time are on no pass's list.)
Before(s, t) == burst_time[s] < burst_time[t] \/ (burst_time[s] = burst_time[t] /\ s < t)
Listed == {s \in jobs : burst_time[s] >= 0}

\* The passes of _SJF_scheduler() compute the reference list.  The process it then
\* returns is a job, it returns none only if there is none, and a job it was sure to
\* accept is not passed over for a longer one.
PicksWell ==
  /\ pc # "scan" => p_idx = SetToSortSeq(Listed, Before)
  /\ pc = "done" =>
       /\ result = None <=> Listed = {}
       /\ result # None => /\ result \in Listed
                           /\ \A s \in Listed : Before(s, result) => confidence[s] # "always"
=============================================================================
