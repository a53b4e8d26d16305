----------------------------- MODULE LogProofs ------------------------------
(***************************************************************************)
(* Proofs about Log.  The reservation of begin_op() is enough: if no call  *)
(* writes more than MAXOPBLOCKS - 1 distinct blocks, the transaction never *)
(* outgrows the log.  The invariant counts, for every begin_op() not yet   *)
(* ended, the entries its call may still add to lh.  A crash at any point, *)
(* inside commit() and inside recovery too, leaves all of a transaction or *)
(* none of it: Log implements AtomicDisk.  And no update is lost while the *)
(* machine is up: a buffer that bget() may recycle is on disk at its home. *)
(***************************************************************************)
EXTENDS Log, FiniteSetTheorems, TLAPS

\* The open begin_op() calls: the d-th of process p.
OpenOps == {o \in Op : o[2] <= depth[o[1]]}

\* The entries of lh a call may still add, one pair per entry.
Usable == {u \in OpenOps \X (1..OpMax) : u[2] > Cardinality(wrote[u[1]] \cap Logged)}

\* Calls are counted, write OpMax blocks at most, and log what they wrote.
OpsInv ==
  /\ outstanding = Cardinality(OpenOps)
  /\ \A o \in Op : IsFiniteSet(wrote[o]) /\ Cardinality(wrote[o]) <= OpMax
  /\ \A p \in Proc : IF pc[p] \in {"op", "log"} THEN depth[p] > 0 ELSE depth[p] < MaxDepth
  /\ \A p \in Proc : pc[p] = "log" => blk[p] \in wrote[<<p, depth[p]>>]

\* commit() and recovery run alone, and end with an empty transaction.
StageInv ==
  /\ committing \/ recovering => outstanding = 0
  /\ ~committing /\ ~recovering /\ outstanding = 0 => lh = <<>>
  /\ ~committing /\ ~recovering => stage = "idle"
  /\ stage = "finish" => lh = <<>> /\ committing
  /\ recovering => ~committing /\ stage \in {"read_head", "install", "erase"}
  /\ committing => stage \in {"write_log", "head", "install", "erase", "finish"}
  /\ tail <= Len(lh)

\* There is room for what the open calls may still add.
RoomInv == /\ Len(lh) + Cardinality(Usable) + 2 <= LOGSIZE
           /\ Len(hdr) + 2 <= LOGSIZE
           /\ ~panicked

IInv == TypeOK /\ OpsInv /\ StageInv /\ RoomInv

-----------------------------------------------------------------------------
\* The open calls and their entries are finitely many.
LEMMA OpsFinite == IsFiniteSet(OpenOps) /\ Cardinality(OpenOps) \in Nat
<1>1. IsFiniteSet(1..MaxDepth)
  BY FS_Interval, LogAssumption
<1>2. IsFiniteSet(Op)
  BY Zenon, <1>1, FS_Product, LogAssumption DEF Op
<1>3. OpenOps \in SUBSET Op
  BY Zenon DEF OpenOps
<1> QED BY Zenon, <1>2, <1>3, FS_Subset, FS_CardinalityType

UsableSmall == /\ IsFiniteSet(Usable) /\ Cardinality(Usable) \in Nat
               /\ Cardinality(Usable) <= Cardinality(OpenOps) * OpMax
\* The bound on the entries in use, where it is needed.
LEMMA UsableBound == UsableSmall
<1>1. IsFiniteSet(1..OpMax) /\ Cardinality(1..OpMax) = OpMax
  BY FS_Interval, LogAssumption
<1>2. /\ IsFiniteSet(OpenOps \X (1..OpMax))
      /\ Cardinality(OpenOps \X (1..OpMax)) = Cardinality(OpenOps) * OpMax
  BY Zenon, <1>1, OpsFinite, FS_Product
<1>3. Usable \in SUBSET (OpenOps \X (1..OpMax))
  BY Zenon DEF Usable
<1> QED BY Zenon, <1>2, <1>3, FS_Subset, FS_CardinalityType DEF UsableSmall

\* k calls of at most m - 1 blocks leave k blocks of their k * m.
LEMMA Slack == ASSUME NEW k \in Nat, NEW m \in Nat, NEW n \in Nat, n < m
               PROVE  k * n + k <= k * m
<1>1. k * (n + 1) <= k * m
  OBVIOUS
<1>2. k * (n + 1) = k * n + k
  OBVIOUS
<1> QED BY Zenon, <1>1, <1>2

\* With no call open there is nothing left to add.
LEMMA NoOpen == ASSUME OpenOps = {} PROVE Cardinality(Usable) = 0
BY Zenon, FS_EmptySet DEF Usable

\* Steps that leave calls and lh alone leave the count alone.
LEMMA SameOps == ASSUME depth' = depth, wrote' = wrote, lh' = lh
                 PROVE  OpenOps' = OpenOps /\ Usable' = Usable
BY DEF OpenOps, Usable, Logged

\* The blocks of a call that are in lh are at most those it wrote.
LEMMA LoggedPart == ASSUME IInv, NEW o \in Op
                    PROVE  /\ IsFiniteSet(wrote[o] \cap Logged)
                           /\ Cardinality(wrote[o] \cap Logged) \in 0..OpMax
<1>1. IsFiniteSet(wrote[o]) /\ Cardinality(wrote[o]) <= OpMax
  BY Zenon DEF IInv, OpsInv
<1>2. wrote[o] \cap Logged \in SUBSET wrote[o]
  BY Zenon
<1> QED BY <1>1, <1>2, FS_Subset, FS_CardinalityType, LogAssumption

-----------------------------------------------------------------------------
\* begin_op() keeps the invariant: either the process sleeps, or the new call
\* fits by begin_op()'s test, with a block to spare for every open call.
LEMMA begin_op_inv == ASSUME OpMax < MAXOPBLOCKS, NEW p \in Proc, IInv, begin_op(p)
                      PROVE  IInv'
<1>1. CASE committing \/ NoRoom
  <2>1. pc' = [pc EXCEPT ![p] = "asleep"] /\ UNCHANGED <<outstanding, depth>>
    BY Zenon, <1>1 DEF begin_op, Goto
  <2>2. TypeOK'
    BY Zenon, <2>1 DEF IInv, TypeOK, begin_op, diskVars, ctlVars
  <2>3. OpenOps' = OpenOps /\ Usable' = Usable
    BY Zenon, <2>1, SameOps DEF begin_op
  <2>4. OpsInv'
    BY Zenon, <2>1, <2>3 DEF IInv, TypeOK, OpsInv, begin_op, BeginsOp
  <2>5. StageInv' /\ RoomInv'
    BY Zenon, <2>1, <2>3 DEF IInv, StageInv, RoomInv, begin_op, diskVars, ctlVars
  <2> QED BY Zenon, <2>2, <2>4, <2>5 DEF IInv
<1>2. CASE ~(committing \/ NoRoom)
  <2>1. /\ outstanding' = outstanding + 1 /\ depth' = [depth EXCEPT ![p] = @ + 1]
        /\ pc' = [pc EXCEPT ![p] = "op"]
    BY Zenon, <1>2 DEF begin_op, admit, Goto
  <2>2. depth[p] \in Nat /\ depth[p] < MaxDepth
    BY <1>2 DEF IInv, TypeOK, OpsInv, begin_op, BeginsOp
  <2> DEFINE new == <<p, depth[p] + 1>>
  <2>3. TypeOK'
    <3>1. depth' \in [Proc -> 0..MaxDepth] /\ outstanding' \in Nat
      BY <2>1, <2>2, LogAssumption DEF IInv, TypeOK
    <3> QED BY <2>1, <3>1, Zenon DEF IInv, TypeOK, begin_op, diskVars, ctlVars
  <2>4. OpenOps' = OpenOps \cup {new} /\ new \notin OpenOps
    BY <2>1, <2>2, LogAssumption DEF IInv, TypeOK, OpenOps, Op
  <2>5. outstanding' = Cardinality(OpenOps')
    BY Zenon, <2>1, <2>4, OpsFinite, FS_AddElement DEF IInv, OpsInv
  <2>6. OpsInv'
    BY <2>1, <2>2, <2>5 DEF IInv, TypeOK, OpsInv, begin_op
  <2>7. StageInv'
    BY <1>2, <2>1 DEF IInv, TypeOK, StageInv, begin_op, Up, ctlVars
  <2>8. Len(lh') + Cardinality(Usable') + 2 <= LOGSIZE
    <3> DEFINE k == outstanding + 1
    <3>1. UsableSmall'
      BY UsableBound, PTL
    <3>2. /\ lh' = lh /\ Len(lh) \in Nat /\ k \in Nat
          /\ Cardinality(OpenOps') = k
      BY <2>1, <2>5 DEF IInv, TypeOK, begin_op
    <3>3. k * OpMax + k <= k * MAXOPBLOCKS
      BY Zenon, <3>2, Slack, LogAssumption
    <3>4. Len(lh) + k * MAXOPBLOCKS <= LOGSIZE
      BY <1>2, <3>2, LogAssumption DEF NoRoom
    <3>5. CASE outstanding = 0
      <4>1. Len(lh) = 0
        BY <1>2, <3>5 DEF IInv, StageInv, begin_op, Up
      <4>2. k * OpMax = OpMax
        BY <3>5, LogAssumption
      <4> QED BY <3>1, <3>2, <4>1, <4>2, LogAssumption DEF UsableSmall
    <3>6. CASE outstanding # 0
      <4>1. k >= 2
        BY <3>6 DEF IInv, TypeOK
      <4>2. k * OpMax \in Nat /\ k * MAXOPBLOCKS \in Nat
        BY <3>2, LogAssumption
      <4> HIDE DEF k
      <4> QED BY <3>1, <3>2, <3>3, <3>4, <4>1, <4>2, LogAssumption DEF UsableSmall
    <3> QED BY Zenon, <3>5, <3>6
  <2>9. RoomInv'
    BY Zenon, <2>8 DEF IInv, RoomInv, begin_op, diskVars
  <2> QED BY Zenon, <2>3, <2>6, <2>7, <2>9 DEF IInv
<1> QED BY Zenon, <1>1, <1>2

\* Calls that go on with more of their blocks in lh have no more left to add.
LEMMA Shrinks ==
  ASSUME IInv, OpenOps' \subseteq OpenOps,
         \A o \in OpenOps' : /\ IsFiniteSet(wrote'[o] \cap Logged')
                             /\ wrote[o] \cap Logged \subseteq wrote'[o] \cap Logged'
  PROVE  Usable' \subseteq Usable /\ Cardinality(Usable') <= Cardinality(Usable)
<1>1. ASSUME NEW u \in Usable' PROVE u \in Usable
  <2>1. /\ u \in OpenOps' \X (1..OpMax) /\ u[1] \in OpenOps' /\ u[1] \in Op
        /\ u[2] > Cardinality(wrote'[u[1]] \cap Logged') /\ u[2] \in Nat
    BY <1>1, LogAssumption DEF Usable, OpenOps
  <2>2. Cardinality(wrote[u[1]] \cap Logged) <= Cardinality(wrote'[u[1]] \cap Logged')
    BY Zenon, <2>1, FS_Subset
  <2>3. Cardinality(wrote[u[1]] \cap Logged) \in Nat
    BY SMTT(40), <2>1, LoggedPart, LogAssumption
  <2>4. Cardinality(wrote'[u[1]] \cap Logged') \in Nat
    BY Zenon, <2>1, FS_CardinalityType
  <2>5. u[2] > Cardinality(wrote[u[1]] \cap Logged)
    BY <2>1, <2>2, <2>3, <2>4
  <2> QED BY Zenon, <2>1, <2>5 DEF Usable
<1>2. IsFiniteSet(Usable)
  BY Zenon, UsableBound DEF UsableSmall
<1>3. Usable' \in SUBSET Usable
  BY Zenon, <1>1
<1> QED BY Zenon, <1>2, <1>3, FS_Subset

\* modify() keeps the invariant: the tests of log_write() pass, because there is
\* always room, and the call writes at most OpMax distinct blocks.
LEMMA modify_inv == ASSUME NEW p \in Proc, NEW b \in Block, NEW v \in Val, IInv, modify(p, b, v)
                    PROVE  IInv'
<1> DEFINE o == <<p, depth[p]>>
<1>1. o \in Op
  BY LogAssumption DEF IInv, TypeOK, OpsInv, modify, Op
<1>2. /\ wrote' = [wrote EXCEPT ![o] = @ \cup {b}] /\ depth' = depth /\ lh' = lh
      /\ pc' = [pc EXCEPT ![p] = "log"] /\ blk' = [blk EXCEPT ![p] = b]
  BY Zenon DEF modify, Goto
<1>3. ~panicked'
  <2>1. Cardinality(Usable) \in Nat /\ Len(lh) \in Nat
    BY UsableBound DEF UsableSmall, IInv, TypeOK
  <2>2. Len(lh) + 2 <= LOGSIZE
    BY <2>1, LogAssumption DEF IInv, RoomInv
  <2>3. o \in OpenOps
    BY <1>1 DEF OpenOps, IInv, TypeOK
  <2>4. outstanding >= 1
    BY <2>3, OpsFinite, FS_EmptySet DEF IInv, OpsInv
  <2>5. ~(Len(lh) >= LOGSIZE \/ Len(lh) >= logsize - 1 \/ outstanding < 1)
    BY <2>1, <2>2, <2>4, LogAssumption DEF logsize, IInv, TypeOK
  <2> QED BY <2>5, Zenon DEF modify
<1>4. TypeOK'
  <2>1. wrote' \in [Op -> SUBSET Block]
    <3> HIDE DEF o
    <3> QED BY Zenon, <1>1, <1>2 DEF IInv, TypeOK
  <2>2. cache' \in [Block -> Val] /\ blk' \in [Proc -> Block \cup {NoBlock}]
    BY <1>2 DEF IInv, TypeOK, modify
  <2> QED BY <1>2, <1>3, <2>1, <2>2, Zenon DEF IInv, TypeOK, modify, diskVars, ctlVars
<1>5. \A q \in Op : /\ IsFiniteSet(wrote'[q]) /\ Cardinality(wrote'[q]) <= OpMax
                    /\ wrote[q] \subseteq wrote'[q]
  <2> TAKE q \in Op
  <2>1. IsFiniteSet(wrote[q]) /\ Cardinality(wrote[q]) <= OpMax /\ Cardinality(wrote[q]) \in Nat
    BY Zenon, FS_CardinalityType DEF IInv, OpsInv
  <2>2. CASE q = o
    <3>1. wrote'[q] = wrote[q] \cup {b} /\ (b \in wrote[q] \/ Cardinality(wrote[q]) < OpMax)
      BY Zenon, <1>1, <1>2, <2>2 DEF IInv, TypeOK, modify
    <3>2. /\ IsFiniteSet(wrote[q] \cup {b})
          /\ Cardinality(wrote[q] \cup {b})
               = IF b \in wrote[q] THEN Cardinality(wrote[q]) ELSE Cardinality(wrote[q]) + 1
      BY <2>1, FS_AddElement, Zenon
    <3> QED BY <2>1, <3>1, <3>2, LogAssumption
  <2>3. CASE q # o
    BY Zenon, <1>2, <2>1, <2>3 DEF IInv, TypeOK
  <2> QED BY Zenon, <2>2, <2>3
<1>6. OpenOps' = OpenOps /\ Logged' = Logged
  BY Zenon, <1>2 DEF OpenOps, Logged
<1>7. OpsInv'
  <2>1. outstanding' = Cardinality(OpenOps')
    BY Zenon, <1>6 DEF IInv, OpsInv, modify
  <2>2. b \in wrote'[o]
    BY Zenon, <1>1, <1>2 DEF IInv, TypeOK
  <2>3. \A q \in Proc : IF pc'[q] \in {"op", "log"} THEN depth'[q] > 0 ELSE depth'[q] < MaxDepth
    BY Zenon, <1>2 DEF IInv, TypeOK, OpsInv, modify
  <2>4. ASSUME NEW q \in Proc, pc'[q] = "log" PROVE blk'[q] \in wrote'[<<q, depth'[q]>>]
    <3>1. CASE q = p
      BY Zenon, <1>2, <2>2, <3>1 DEF IInv, TypeOK
    <3>2. CASE q # p
      <4>1. pc[q] = "log" /\ blk'[q] = blk[q] /\ depth'[q] = depth[q]
        BY Zenon, <1>2, <2>4, <3>2 DEF IInv, TypeOK
      <4>2. <<q, depth[q]>> \in Op
        BY <4>1, LogAssumption DEF IInv, TypeOK, OpsInv, Op
      <4> QED BY Zenon, <1>5, <4>1, <4>2 DEF IInv, OpsInv
    <3> QED BY Zenon, <3>1, <3>2
  <2> QED BY Zenon, <1>5, <2>1, <2>3, <2>4 DEF OpsInv
<1>8. StageInv'
  BY Zenon DEF IInv, StageInv, modify, ctlVars
<1>9. RoomInv'
  <2>1. \A q \in OpenOps' : /\ IsFiniteSet(wrote'[q] \cap Logged')
                            /\ wrote[q] \cap Logged \subseteq wrote'[q] \cap Logged'
    BY Zenon, <1>5, <1>6, FS_Subset DEF OpenOps
  <2>2. Cardinality(Usable') <= Cardinality(Usable)
    BY Zenon, <1>6, <2>1, Shrinks
  <2>3. Cardinality(Usable) \in Nat /\ Cardinality(Usable') \in Nat /\ Len(lh) \in Nat
    <3>1. UsableSmall'
      BY UsableBound, PTL
    <3> QED BY <3>1, UsableBound DEF UsableSmall, IInv, TypeOK
  <2> QED BY <1>2, <1>3, <2>2, <2>3, LogAssumption DEF IInv, RoomInv, modify, diskVars
<1> QED BY Zenon, <1>4, <1>7, <1>8, <1>9 DEF IInv

\* log_write() keeps the invariant: a new entry of lh uses up one of those the
\* call could still add.
LEMMA log_write_inv == ASSUME NEW p \in Proc, IInv, log_write(p) PROVE IInv'
<1> DEFINE o == <<p, depth[p]>>
           b == blk[p]
<1>1. o \in Op /\ o \in OpenOps /\ b \in wrote[o] /\ b \in Block
  <2>1. o \in Op /\ o \in OpenOps
    BY LogAssumption DEF IInv, TypeOK, OpsInv, log_write, Op, OpenOps
  <2>2. b \in wrote[o]
    BY Zenon DEF IInv, OpsInv, log_write
  <2> QED BY Zenon, <2>1, <2>2 DEF IInv, TypeOK
<1>2. /\ lh' = absorb(b) /\ dirty' = dirty \cup {b} /\ pc' = [pc EXCEPT ![p] = "op"]
      /\ blk' = [blk EXCEPT ![p] = NoBlock]
      /\ UNCHANGED <<home, logblk, hdr, outstanding, committing, cache, depth, wrote,
                     stage, tail, recovering, panicked, crashes>>
  BY Zenon DEF log_write, Goto, diskVars, ctlVars
<1> HIDE DEF o, b
<1>3. lh' \in Seq(Block) /\ Len(lh') \in Nat /\ Len(lh) \in Nat
  BY <1>1, <1>2 DEF absorb, IInv, TypeOK
<1>4. TypeOK'
  <2>1. blk' \in [Proc -> Block \cup {NoBlock}] /\ dirty' \subseteq Block
    BY Zenon, <1>1, <1>2 DEF IInv, TypeOK
  <2> QED BY <1>2, <1>3, <2>1, Zenon DEF IInv, TypeOK
<1>5. OpenOps' = OpenOps
  BY Zenon, <1>2 DEF OpenOps
<1>6. OpsInv'
  <2>1. outstanding' = Cardinality(OpenOps')
    BY Zenon, <1>2, <1>5 DEF IInv, OpsInv
  <2>2. \A q \in Proc : IF pc'[q] \in {"op", "log"} THEN depth'[q] > 0 ELSE depth'[q] < MaxDepth
    BY Zenon, <1>2 DEF IInv, TypeOK, OpsInv, log_write
  <2>3. \A q \in Proc : pc'[q] = "log" => pc[q] = "log" /\ blk'[q] = blk[q]
    BY Zenon, <1>2 DEF IInv, TypeOK
  <2> QED BY Zenon, <1>2, <2>1, <2>2, <2>3 DEF IInv, OpsInv
<1>7. Logged \subseteq Logged' /\ (b \notin Logged => Len(lh') = Len(lh) + 1 /\ b \in Logged')
  <2>1. CASE b \in Logged
    BY Zenon, <1>2, <2>1 DEF absorb, Logged
  <2>2. CASE b \notin Logged
    <3>1. lh' = Append(lh, b) /\ Len(lh') = Len(lh) + 1
      BY <1>2, <2>2, <1>1 DEF absorb, IInv, TypeOK
    <3>2. \A i \in 1..Len(lh) : lh'[i] = lh[i] /\ i \in 1..Len(lh')
      BY <3>1, <1>1 DEF IInv, TypeOK
    <3>3. lh'[Len(lh')] = b /\ Len(lh') \in 1..Len(lh')
      BY <3>1, <1>1 DEF IInv, TypeOK
    <3> QED BY Zenon, <3>1, <3>2, <3>3 DEF Logged
  <2> QED BY Zenon, <2>1, <2>2
<1>8. Usable' \subseteq Usable /\ Cardinality(Usable') <= Cardinality(Usable)
  <2>1. \A q \in OpenOps' : /\ IsFiniteSet(wrote'[q] \cap Logged')
                            /\ wrote[q] \cap Logged \subseteq wrote'[q] \cap Logged'
    <3> TAKE q \in OpenOps'
    <3>1. IsFiniteSet(wrote[q]) /\ wrote'[q] = wrote[q]
      BY Zenon, <1>2, <1>5 DEF IInv, OpsInv, OpenOps
    <3>2. wrote[q] \cap Logged' \in SUBSET wrote[q]
      BY Zenon
    <3> QED BY Zenon, <1>7, <3>1, <3>2, FS_Subset
  <2> QED BY Zenon, <1>5, <2>1, Shrinks
<1>9. /\ Cardinality(Usable) \in Nat /\ Cardinality(Usable') \in Nat
      /\ IsFiniteSet(Usable)
  <2>1. UsableSmall'
    BY UsableBound, PTL
  <2> QED BY Zenon, <2>1, UsableBound DEF UsableSmall
<1>10. Len(lh') + Cardinality(Usable') <= Len(lh) + Cardinality(Usable)
  <2>1. CASE b \in Logged
    BY <1>2, <1>3, <1>8, <1>9, <2>1 DEF absorb
  <2>2. CASE b \notin Logged
    <3> DEFINE k == Cardinality(wrote[o] \cap Logged)
    <3>1. k \in Nat /\ IsFiniteSet(wrote[o] \cap Logged)
      BY <1>1, LoggedPart, LogAssumption
    <3>2. IsFiniteSet(wrote[o]) /\ Cardinality(wrote[o]) <= OpMax /\ Cardinality(wrote[o]) \in Nat
      BY Zenon, <1>1, FS_CardinalityType DEF IInv, OpsInv
    <3>3. /\ Cardinality((wrote[o] \cap Logged) \cup {b}) = k + 1
          /\ IsFiniteSet((wrote[o] \cap Logged) \cup {b})
      BY Zenon, <2>2, <3>1, FS_AddElement
    <3>4. k + 1 <= OpMax
      <4>1. (wrote[o] \cap Logged) \cup {b} \in SUBSET wrote[o]
        BY Zenon, <1>1
      <4>2. Cardinality((wrote[o] \cap Logged) \cup {b}) <= Cardinality(wrote[o])
        BY Zenon, <3>2, <4>1, FS_Subset
      <4> QED BY <3>1, <3>2, <3>3, <4>2, LogAssumption
    <3>5. k + 1 <= Cardinality(wrote'[o] \cap Logged') /\ Cardinality(wrote'[o] \cap Logged') \in Nat
      <4>1. (wrote[o] \cap Logged) \cup {b} \in SUBSET (wrote'[o] \cap Logged')
        BY Zenon, <1>1, <1>2, <1>7, <2>2
      <4>2. wrote[o] \cap Logged' \in SUBSET wrote[o]
        BY Zenon
      <4>3. IsFiniteSet(wrote'[o] \cap Logged')
        BY Zenon, <1>2, <3>2, <4>2, FS_Subset
      <4>4. Cardinality((wrote[o] \cap Logged) \cup {b}) <= Cardinality(wrote'[o] \cap Logged')
        BY Zenon, <4>1, <4>3, FS_Subset
      <4> QED BY Zenon, <3>3, <4>3, <4>4, FS_CardinalityType
    <3> DEFINE u == <<o, k + 1>>
    <3>6. u \in Usable /\ u \notin Usable'
      <4>1. u[1] = o /\ u[2] = k + 1 /\ u \in OpenOps \X (1..OpMax)
        BY <1>1, <3>1, <3>4, LogAssumption
      <4>2. u[2] > Cardinality(wrote[u[1]] \cap Logged)
        BY <3>1, <4>1
      <4>3. ~(u[2] > Cardinality(wrote'[u[1]] \cap Logged'))
        BY <3>1, <3>5, <4>1
      <4> QED BY <4>1, <4>2, <4>3, Zenon DEF Usable
    <3>7. Usable' \in SUBSET (Usable \ {u})
      BY Zenon, <1>8, <3>6
    <3> HIDE DEF u
    <3>8. IsFiniteSet(Usable \ {u}) /\ Cardinality(Usable \ {u}) = Cardinality(Usable) - 1
      BY Zenon, <1>9, <3>6, FS_RemoveElement
    <3>9. Cardinality(Usable') <= Cardinality(Usable \ {u})
      BY Zenon, <3>7, <3>8, FS_Subset
    <3> QED BY <1>3, <1>7, <1>9, <2>2, <3>8, <3>9
  <2> QED BY Zenon, <2>1, <2>2
<1>11. StageInv'
  <2>1. OpenOps # {} /\ outstanding # 0
    BY Zenon, <1>1, OpsFinite, FS_EmptySet DEF IInv, OpsInv
  <2>2. Len(lh') >= Len(lh)
    BY <1>2, <1>3, <1>7 DEF absorb
  <2> QED BY <1>2, <1>3, <2>1, <2>2 DEF IInv, StageInv, TypeOK
<1>12. RoomInv'
  BY SMTT(90), <1>2, <1>3, <1>9, <1>10, LogAssumption DEF IInv, RoomInv
<1> QED BY Zenon, <1>4, <1>6, <1>11, <1>12 DEF IInv

\* end_op() keeps the invariant: it closes the call's innermost begin_op(); the
\* last one starts commit() with nothing left to add.
LEMMA end_op_inv == ASSUME NEW p \in Proc, IInv, end_op(p) PROVE IInv'
<1> DEFINE o == <<p, depth[p]>>
<1>1. o \in Op /\ o \in OpenOps /\ depth[p] \in 1..MaxDepth
  BY LogAssumption DEF IInv, TypeOK, OpsInv, end_op, Op, OpenOps
<1>2. /\ outstanding' = outstanding - 1 /\ depth' = [depth EXCEPT ![p] = @ - 1]
      /\ wrote' = [wrote EXCEPT ![o] = {}] /\ lh' = lh /\ blk' = blk
      /\ UNCHANGED <<home, logblk, hdr, cache, dirty, recovering, crashes>>
  BY Zenon DEF end_op, diskVars
<1>3. ~committing /\ ~recovering /\ outstanding \in Nat /\ outstanding >= 1
  <2>1. OpenOps # {} /\ outstanding # 0
    BY Zenon, <1>1, OpsFinite, FS_EmptySet DEF IInv, OpsInv
  <2> QED BY <2>1 DEF IInv, StageInv, TypeOK
<1>4. panicked' = FALSE
  BY <1>3, Zenon DEF end_op, IInv, TypeOK
<1>5. OpenOps' = OpenOps \ {o}
  BY SMTT(90), <1>1, <1>2, LogAssumption DEF OpenOps, Op, IInv, TypeOK
<1>6. outstanding' = Cardinality(OpenOps') /\ outstanding' \in Nat
  <2> HIDE DEF o
  <2>1. Cardinality(OpenOps \ {o}) = Cardinality(OpenOps) - 1
    BY Zenon, <1>1, OpsFinite, FS_RemoveElement
  <2> QED BY <1>2, <1>3, <1>5, <2>1 DEF IInv, OpsInv
<1>7. /\ outstanding = 1 => committing' /\ stage' = "write_log" /\ tail' = 0 /\ pc' = [pc EXCEPT ![p] = "commit"]
      /\ outstanding # 1 => UNCHANGED <<committing, stage, tail>>
                             /\ pc' = [Woken EXCEPT ![p] = IF depth[p] > 1 THEN "op" ELSE "idle"]
  BY Zenon DEF end_op, Goto, leave
<1>8. \A q \in Proc : /\ q # p => IF pc'[q] \in {"op", "log"} THEN pc'[q] = pc[q]
                                   ELSE pc[q] \notin {"op", "log"}
                      /\ q = p => IF pc'[q] = "op" THEN depth[p] > 1 ELSE pc'[q] \in {"idle", "commit"}
  BY Zenon, <1>7 DEF IInv, TypeOK, Woken
<1>9. TypeOK'
  <2>1. pc' \in [Proc -> {"idle", "begin", "asleep", "op", "log", "commit"}]
    BY Zenon, <1>7 DEF IInv, TypeOK, Woken
  <2>2. depth' \in [Proc -> 0..MaxDepth]
    BY <1>1, <1>2, LogAssumption DEF IInv, TypeOK
  <2>3. wrote' \in [Op -> SUBSET Block]
    <3> HIDE DEF o
    <3> QED BY Zenon, <1>2 DEF IInv, TypeOK
  <2>4. committing' \in BOOLEAN /\ stage' \in Stages
    BY <1>3, <1>7, Zenon DEF IInv, TypeOK, Stages
  <2>5. tail' \in 0..LOGSIZE
    BY <1>7, LogAssumption DEF IInv, TypeOK
  <2> QED BY <1>2, <1>4, <1>6, <2>1, <2>2, <2>3, <2>4, <2>5, Zenon DEF IInv, TypeOK
<1>10. \A q \in Op : /\ q # o => wrote'[q] = wrote[q]
                     /\ IsFiniteSet(wrote'[q]) /\ Cardinality(wrote'[q]) <= OpMax
  <2> HIDE DEF o
  <2> TAKE q \in Op
  <2>1. CASE q = o
    BY <1>1, <1>2, <2>1, FS_EmptySet, LogAssumption DEF IInv, TypeOK
  <2>2. CASE q # o
    BY Zenon, <1>2, <2>2 DEF IInv, TypeOK, OpsInv
  <2> QED BY Zenon, <2>1, <2>2
<1>11. OpsInv'
  <2>1. \A q \in Proc : IF pc'[q] \in {"op", "log"} THEN depth'[q] > 0 ELSE depth'[q] < MaxDepth
    <3> TAKE q \in Proc
    <3>1. CASE q = p
      <4>1. depth'[q] = depth[p] - 1
        BY Zenon, <1>2, <3>1 DEF IInv, TypeOK
      <4>2. IF pc'[q] = "op" THEN depth[p] > 1 ELSE pc'[q] \notin {"op", "log"}
        BY Zenon, <1>8, <3>1
      <4> QED BY <1>1, <4>1, <4>2, LogAssumption
    <3>2. CASE q # p
      <4>1. depth'[q] = depth[q] /\ (pc'[q] \in {"op", "log"} <=> pc[q] \in {"op", "log"})
        BY Zenon, <1>2, <1>8, <3>2 DEF IInv, TypeOK
      <4> QED BY Zenon, <4>1 DEF IInv, OpsInv
    <3> QED BY Zenon, <3>1, <3>2
  <2>2. ASSUME NEW q \in Proc, pc'[q] = "log" PROVE blk'[q] \in wrote'[<<q, depth'[q]>>]
    <3>1. q # p /\ pc[q] = "log" /\ depth'[q] = depth[q]
      BY Zenon, <1>2, <1>8, <2>2 DEF IInv, TypeOK
    <3>2. <<q, depth[q]>> \in Op /\ <<q, depth[q]>> # o
      BY <3>1, LogAssumption DEF IInv, TypeOK, OpsInv, Op
    <3> QED BY Zenon, <1>2, <1>10, <3>1, <3>2 DEF IInv, OpsInv
  <2> QED BY Zenon, <1>6, <1>10, <2>1, <2>2 DEF OpsInv
<1>12. StageInv'
  BY <1>2, <1>3, <1>6, <1>7 DEF IInv, TypeOK, StageInv
<1>13. RoomInv'
  <2>1. \A q \in OpenOps' : /\ IsFiniteSet(wrote'[q] \cap Logged')
                            /\ wrote[q] \cap Logged \subseteq wrote'[q] \cap Logged'
    <3> TAKE q \in OpenOps'
    <3>1. q \in Op /\ q # o
      BY Zenon, <1>5 DEF OpenOps
    <3>2. Logged' = Logged /\ wrote'[q] = wrote[q]
      BY Zenon, <1>2, <1>10, <3>1 DEF Logged
    <3> QED BY Zenon, <3>1, <3>2, LoggedPart
  <2>2. Cardinality(Usable') <= Cardinality(Usable)
    BY Zenon, <1>5, <2>1, Shrinks
  <2>3. Cardinality(Usable) \in Nat /\ Cardinality(Usable') \in Nat /\ Len(lh) \in Nat
    <3>1. UsableSmall'
      BY UsableBound, PTL
    <3> QED BY <3>1, UsableBound DEF UsableSmall, IInv, TypeOK
  <2> QED BY <1>2, <1>4, <2>2, <2>3, LogAssumption DEF IInv, RoomInv
<1> QED BY Zenon, <1>9, <1>11, <1>12, <1>13 DEF IInv

\* While commit() or recovery runs, no call is open.
LEMMA AloneInCommit == ASSUME IInv, committing \/ recovering PROVE OpenOps = {}
BY Zenon, OpsFinite, FS_EmptySet DEF IInv, OpsInv, StageInv

\* The block writes of commit() and recovery keep the invariant.
LEMMA commit_inv == ASSUME IInv, commit PROVE IInv'
<1> USE DEF Quiet, Step, opVars, diskVars
<1>1. CASE write_log \/ write_log_done \/ write_head \/ install_trans \/ install_done
  <2>1. lh' = lh /\ depth' = depth /\ wrote' = wrote /\ pc' = pc /\ blk' = blk
        /\ UNCHANGED <<outstanding, committing, panicked, crashes, recovering>>
    BY <1>1, Zenon DEF write_log, write_log_done, write_head, install_trans, install_done
  <2>2. OpenOps' = OpenOps /\ Usable' = Usable
    BY Zenon, <2>1, SameOps
  <2>3. OpsInv'
    BY <2>1, <2>2, Zenon DEF IInv, OpsInv
  <2>4. Len(lh) \in Nat /\ Len(lh) <= LOGSIZE /\ tail \in Nat
    BY SMTT(90), UsableBound, LogAssumption DEF IInv, TypeOK, RoomInv, UsableSmall
  <2>5. StageInv'
    BY <1>1, <2>1, <2>4 DEF IInv, StageInv, write_log, write_log_done, write_head,
       install_trans, install_done, AfterLog
  <2>6. RoomInv'
    <3>1. hdr' \in {hdr, lh} /\ Cardinality(Usable) \in Nat
      BY <1>1, UsableBound, Zenon DEF write_log, write_log_done, write_head, install_trans,
         install_done, UsableSmall
    <3> QED BY <2>1, <2>2, <2>4, <3>1, LogAssumption DEF IInv, TypeOK, RoomInv
  <2>7. TypeOK'
    <3>1. tail' \in 0..LOGSIZE
      BY SMTT(90), <1>1, <2>4, LogAssumption DEF write_log, write_log_done, write_head,
         install_trans, install_done
    <3>2. stage' \in Stages
      BY Zenon, <1>1 DEF IInv, TypeOK, write_log, write_log_done, write_head, install_trans,
         install_done, Stages, AfterLog
    <3>3. hdr' \in Seq(Block)
      BY Zenon, <1>1 DEF IInv, TypeOK, write_log, write_log_done, write_head, install_trans,
         install_done
    <3>4. /\ home' \in [Block -> Val] /\ cache' \in [Block -> Val] /\ dirty' \subseteq Block
          /\ logblk' \in [1..LOGSIZE -> Val]
      <4>1. CASE write_log
        <5>1. tail + 1 \in 1..Len(lh)
          BY <2>4, <4>1 DEF write_log
        <5>2. lh[tail + 1] \in Block
          BY <5>1, lh \in Seq(Block) DEF IInv, TypeOK
        <5>3. cache[lh[tail + 1]] \in Val
          BY Zenon, <5>2 DEF IInv, TypeOK
        <5> QED BY Zenon, <4>1, <5>3 DEF IInv, TypeOK, write_log
      <4>2. CASE install_trans
        <5>1. tail + 1 \in 1..Len(lh) /\ tail + 1 \in 1..LOGSIZE
          BY <2>4, <4>2, LogAssumption DEF install_trans
        <5>2. lh[tail + 1] \in Block
          BY <5>1, lh \in Seq(Block) DEF IInv, TypeOK
        <5>3. logblk[tail + 1] \in Val
          BY <5>1, Zenon DEF IInv, TypeOK
        <5> QED BY Zenon, <4>2, <5>2, <5>3 DEF IInv, TypeOK, install_trans
      <4>3. CASE write_log_done \/ write_head \/ install_done
        BY <4>3, Zenon DEF IInv, TypeOK, write_log_done, write_head, install_done
      <4> QED BY Zenon, <1>1, <4>1, <4>2, <4>3
    <3> QED BY <2>1, <3>1, <3>2, <3>3, <3>4, Zenon DEF IInv, TypeOK
  <2> QED BY Zenon, <2>3, <2>5, <2>6, <2>7 DEF IInv
<1>2. CASE erase \/ read_head
  <2>1. /\ depth' = depth /\ wrote' = wrote /\ pc' = pc /\ blk' = blk /\ cache' = cache /\ dirty' = dirty
        /\ UNCHANGED <<home, logblk, outstanding, committing, panicked, crashes>>
        /\ lh' \in {<<>>, hdr} /\ hdr' \in {<<>>, hdr} /\ tail' = 0
        /\ stage' \in {"idle", "finish", "install"} /\ recovering' \in BOOLEAN
    BY <1>2, Zenon DEF erase, read_head, IInv, TypeOK
  <2>2. OpenOps' = OpenOps /\ OpenOps = {}
    <3>1. committing \/ recovering
      BY Zenon, <1>2 DEF IInv, StageInv, TypeOK, erase, read_head
    <3> QED BY Zenon, <2>1, <3>1, AloneInCommit DEF OpenOps
  <2>3. Usable' = {}
    BY Zenon, <2>2 DEF Usable
  <2>4. OpsInv'
    BY <2>1, <2>2, Zenon DEF IInv, OpsInv
  <2>5. StageInv'
    BY <1>2, <2>1 DEF IInv, TypeOK, StageInv, erase, read_head
  <2>6. RoomInv'
    BY <2>1, <2>3, FS_EmptySet, LogAssumption DEF IInv, TypeOK, RoomInv
  <2>7. TypeOK'
    <3>0. <<>> \in Seq(Block)
      OBVIOUS
    <3>1. lh' \in Seq(Block) /\ hdr' \in Seq(Block)
      BY <2>1, <3>0, Zenon DEF IInv, TypeOK
    <3>3. tail' \in 0..LOGSIZE
      BY <2>1, LogAssumption
    <3>2. stage' \in Stages
      BY <2>1, Zenon DEF Stages
    <3> QED BY <2>1, <3>1, <3>2, <3>3, Zenon DEF IInv, TypeOK
  <2> QED BY Zenon, <2>4, <2>5, <2>6, <2>7 DEF IInv
<1>3. ASSUME NEW p \in Proc, end_commit(p) PROVE IInv'
  <2>1. /\ lh' = lh /\ depth' = depth /\ wrote' = wrote /\ blk' = blk /\ cache' = cache /\ dirty' = dirty
        /\ UNCHANGED <<home, logblk, hdr, outstanding, panicked, crashes, recovering>>
        /\ pc' = [Woken EXCEPT ![p] = "idle"] /\ committing' = FALSE
        /\ stage = "finish" /\ stage' = "idle" /\ tail' = 0 /\ pc[p] = "commit"
    BY <1>3, Zenon DEF end_commit
  <2>2. OpenOps' = OpenOps /\ Usable' = Usable
    BY Zenon, <2>1, SameOps
  <2>3. OpsInv'
    <3>1. \A q \in Proc : IF pc'[q] \in {"op", "log"} THEN pc'[q] = pc[q] ELSE pc[q] \notin {"op", "log"}
      BY Zenon, <2>1 DEF IInv, TypeOK, Woken
    <3> QED BY Zenon, <2>1, <2>2, <3>1 DEF IInv, TypeOK, OpsInv
  <2>4. StageInv'
    BY <2>1 DEF IInv, TypeOK, StageInv
  <2>5. RoomInv'
    BY Zenon, <2>1, <2>2 DEF IInv, RoomInv
  <2>6. TypeOK'
    <3>1. pc' \in [Proc -> {"idle", "begin", "asleep", "op", "log", "commit"}]
      BY Zenon, <2>1 DEF IInv, TypeOK, Woken
    <3>2. tail' \in 0..LOGSIZE /\ stage' \in Stages
      BY <2>1, LogAssumption DEF Stages
    <3> QED BY <2>1, <3>1, <3>2, Zenon DEF IInv, TypeOK
  <2> QED BY Zenon, <2>3, <2>4, <2>5, <2>6 DEF IInv
<1> QED BY <1>1, <1>2, <1>3, Zenon DEF commit

\* A crash keeps the invariant: nothing is open, and what is in the header on
\* disk was once in lh.
LEMMA crash_inv == ASSUME IInv, crash PROVE IInv'
<1>1. /\ lh' = <<>> /\ outstanding' = 0 /\ committing' = FALSE /\ cache' = home /\ dirty' = {}
      /\ pc' = Idle /\ blk' = NoBlocks /\ depth' = NoDepth /\ wrote' = NoWrites
      /\ stage' = "read_head" /\ tail' = 0 /\ recovering' = TRUE /\ panicked' = FALSE
      /\ crashes' = crashes + 1 /\ UNCHANGED <<home, logblk, hdr>>
  BY Zenon DEF crash, diskVars
<1>2. OpenOps' = {}
  BY <1>1 DEF OpenOps, NoDepth, Op
<1>3. Usable' = {}
  BY Zenon, <1>2 DEF Usable
<1>4. TypeOK'
  <2>1. /\ pc' \in [Proc -> {"idle", "begin", "asleep", "op", "log", "commit"}]
        /\ blk' \in [Proc -> Block \cup {NoBlock}] /\ wrote' \in [Op -> SUBSET Block]
        /\ stage' \in Stages /\ dirty' \subseteq Block
    BY <1>1, Zenon DEF Idle, NoBlocks, NoWrites, Stages
  <2>2. depth' \in [Proc -> 0..MaxDepth] /\ tail' \in 0..LOGSIZE /\ crashes' \in Nat /\ outstanding' \in Nat
    BY <1>1, LogAssumption DEF NoDepth, IInv, TypeOK
  <2>3. lh' \in Seq(Block)
    BY <1>1
  <2> QED BY <1>1, <2>1, <2>2, <2>3, Zenon DEF IInv, TypeOK
<1>5. OpsInv'
  <2>1. outstanding' = Cardinality(OpenOps')
    BY Zenon, <1>1, <1>2, FS_EmptySet
  <2>2. \A o \in Op : IsFiniteSet(wrote'[o]) /\ Cardinality(wrote'[o]) <= OpMax
    BY <1>1, FS_EmptySet, LogAssumption DEF NoWrites
  <2>3. \A p \in Proc : pc'[p] = "idle" /\ depth'[p] < MaxDepth
    BY <1>1, LogAssumption DEF Idle, NoDepth
  <2> QED BY Zenon, <2>1, <2>2, <2>3 DEF OpsInv
<1>6. StageInv' /\ RoomInv'
  BY <1>1, <1>3, FS_EmptySet, LogAssumption DEF IInv, StageInv, RoomInv, TypeOK
<1> QED BY Zenon, <1>4, <1>5, <1>6 DEF IInv

\* The initial state satisfies the invariant.
LEMMA InitInv == ASSUME OpMax < MAXOPBLOCKS, Init PROVE IInv
<1>1. OpenOps = {}
  BY DEF Init, OpenOps, NoDepth, Op
<1>2. Usable = {}
  BY Zenon, <1>1 DEF Usable
<1>3. TypeOK
  <2>1. /\ pc \in [Proc -> {"idle", "begin", "asleep", "op", "log", "commit"}]
        /\ blk \in [Proc -> Block \cup {NoBlock}] /\ wrote \in [Op -> SUBSET Block]
        /\ stage \in Stages /\ dirty \subseteq Block
        /\ home \in [Block -> Val] /\ cache \in [Block -> Val]
        /\ committing \in BOOLEAN /\ recovering \in BOOLEAN /\ panicked \in BOOLEAN
    BY Zenon DEF Init, Idle, NoBlocks, NoWrites, Stages
  <2>2. depth \in [Proc -> 0..MaxDepth] /\ tail \in 0..LOGSIZE /\ crashes \in Nat /\ outstanding \in Nat
    BY LogAssumption DEF Init, NoDepth
  <2>3. lh \in Seq(Block) /\ hdr \in Seq(Block)
    BY DEF Init
  <2>4. logblk \in [1..LOGSIZE -> Val]
    <3>1. (CHOOSE v \in Val : TRUE) \in Val
      BY LogAssumption, Zenon
    <3> QED BY <3>1, Zenon DEF Init
  <2> QED BY <2>1, <2>2, <2>3, <2>4, Zenon DEF TypeOK
<1>4. OpsInv
  <2>1. outstanding = Cardinality(OpenOps)
    BY Zenon, <1>1, FS_EmptySet DEF Init
  <2>2. \A o \in Op : IsFiniteSet(wrote[o]) /\ Cardinality(wrote[o]) <= OpMax
    BY FS_EmptySet, LogAssumption DEF Init, NoWrites
  <2>3. \A p \in Proc : pc[p] = "idle" /\ depth[p] < MaxDepth
    BY LogAssumption DEF Init, Idle, NoDepth
  <2> QED BY Zenon, <2>1, <2>2, <2>3 DEF OpsInv
<1>5. StageInv /\ RoomInv
  BY <1>2, FS_EmptySet, LogAssumption DEF Init, StageInv, RoomInv
<1> QED BY Zenon, <1>3, <1>4, <1>5 DEF IInv

\* Every step of the log keeps the invariant.
LEMMA NextInv == ASSUME OpMax < MAXOPBLOCKS, IInv, [Next]_vars PROVE IInv'
<1>1. CASE UNCHANGED vars
  <2>1. UNCHANGED <<home, logblk, hdr, lh, outstanding, committing, cache, dirty, pc, blk, depth,
                    wrote, stage, tail, recovering, panicked, crashes>>
    BY <1>1, Zenon DEF vars, diskVars, opVars, ctlVars
  <2>2. OpenOps' = OpenOps /\ Usable' = Usable
    BY Zenon, <2>1, SameOps
  <2>3. TypeOK' /\ StageInv' /\ RoomInv'
    BY <2>1, <2>2, Zenon DEF IInv, TypeOK, StageInv, RoomInv
  <2>4. OpsInv'
    BY <2>1, <2>2, Zenon DEF IInv, OpsInv
  <2> QED BY Zenon, <2>3, <2>4 DEF IInv
<1>2. CASE commit \/ crash
  BY Zenon, <1>2, commit_inv, crash_inv
<1>3. ASSUME NEW p \in Proc, transact(p) PROVE IInv'
  <2>1. CASE begin_op(p)
    BY Zenon, <2>1, begin_op_inv
  <2>2. CASE log_write(p) \/ end_op(p)
    BY Zenon, <2>2, log_write_inv, end_op_inv
  <2>3. ASSUME NEW b \in Block, NEW v \in Val, modify(p, b, v) PROVE IInv'
    BY Zenon, <2>3, modify_inv
  <2> QED BY Zenon, <1>3, <2>1, <2>2, <2>3 DEF transact
<1> QED BY <1>1, <1>2, <1>3, Zenon DEF Next

\* The invariant holds in every state.
LEMMA Invariance == ASSUME OpMax < MAXOPBLOCKS PROVE Spec => []IInv
BY InitInv, NextInv, PTL DEF Spec

\* Log: every variable keeps its type, if no call writes MAXOPBLOCKS blocks.
THEOREM LogTypes == ASSUME OpMax < MAXOPBLOCKS PROVE Spec => []TypeOK
<1>1. IInv => TypeOK
  BY Zenon DEF IInv
<1> QED BY <1>1, Invariance, PTL

\* The reservation of begin_op() suffices: if no call writes MAXOPBLOCKS blocks,
\* neither log_write() nor end_op() panics and the transaction fits the log.
THEOREM ReservationSuffices == ASSUME OpMax < MAXOPBLOCKS PROVE Spec => []LogFits
<1>1. IInv => LogFits
  <2>1. Cardinality(Usable) \in Nat
    BY Zenon, UsableBound DEF UsableSmall
  <2> QED BY <2>1, LogAssumption DEF IInv, RoomInv, LogFits, logsize, TypeOK
<1> QED BY <1>1, Invariance, PTL

-----------------------------------------------------------------------------
(* Crashes *)

\* No block number is listed twice.
NoRepeat(s) == \A i, j \in 1..Len(s) : s[i] = s[j] => i = j

\* The header on disk is empty outside the two stages that follow the commit, and
\* there it is lh.
HeaderInv ==
  /\ NoRepeat(lh) /\ NoRepeat(hdr)
  /\ stage \in {"install", "erase"} => hdr = lh
  /\ stage \in {"idle", "write_log", "head", "finish"} => hdr = <<>>

\* The process that is between changing block b and logging it.
InLogWrite(b) == \E p \in Proc : pc[p] = "log" /\ blk[p] = b

\* What is not on disk at its home is dirty, and what is dirty is in lh and not
\* yet installed.
CleanInv ==
  /\ \A b \in Block : cache[b] = home[b] \/ b \in dirty \/ InLogWrite(b)
  /\ dirty \subseteq Logged
  /\ stage = "install" => \A b \in dirty : \E i \in 1..Len(lh) : i > tail /\ lh[i] = b
  /\ stage \in {"erase", "finish"} => dirty = {}
  /\ recovering => cache = home /\ dirty = {}

\* How far the copies to the log and to the home blocks have got.
CopyInv ==
  /\ stage = "write_log" => \A i \in 1..tail : logblk[i] = cache[lh[i]]
  /\ stage \in {"head", "install", "erase"} /\ ~recovering =>
       \A i \in 1..Len(lh) : logblk[i] = cache[lh[i]]
  /\ stage = "install" => \A i \in 1..tail : home[lh[i]] = logblk[i]
  /\ stage = "erase" => \A i \in 1..Len(lh) : home[lh[i]] = logblk[i]

CrashInv == HeaderInv /\ CleanInv /\ CopyInv

\* The parts of the two invariants.
LEMMA LogParts == ASSUME IInv PROVE TypeOK /\ OpsInv /\ StageInv /\ RoomInv
BY Zenon DEF IInv
\* The parts of the invariant, for the steps that need one of them.
LEMMA CrashParts == ASSUME CrashInv PROVE HeaderInv /\ CleanInv /\ CopyInv
BY Zenon DEF CrashInv

-----------------------------------------------------------------------------
(* The disk after recovery *)

\* Recovery of an empty log changes nothing.
LEMMA EmptyLog == ASSUME TypeOK, hdr = <<>> PROVE Recovered = home
<1>1. ~\E i \in 1..Len(hdr) : TRUE
  OBVIOUS
<1>2. Recovered = [b \in Block |-> home[b]]
  BY Zenon, <1>1 DEF Recovered
<1> QED BY Zenon, <1>2 DEF TypeOK

\* A block of the header gets the log block at its place.
LEMMA RecoveredLogged ==
  ASSUME TypeOK, NoRepeat(hdr), NEW i \in 1..Len(hdr)
  PROVE  hdr[i] \in Block /\ Recovered[hdr[i]] = logblk[i]
<1>1. hdr[i] \in Block
  BY DEF TypeOK
<1> DEFINE k == CHOOSE j \in 1..Len(hdr) : hdr[j] = hdr[i]
<1>2. k \in 1..Len(hdr) /\ hdr[k] = hdr[i]
  BY Zenon
<1>3. k = i
  BY Zenon, <1>2 DEF NoRepeat
<1>4. Recovered[hdr[i]] = logblk[k]
  BY Zenon, <1>1 DEF Recovered
<1> QED BY ZenonT(30), <1>1, <1>3, <1>4

\* A block that is not in the header keeps what its home holds.
LEMMA RecoveredHome ==
  ASSUME TypeOK, NEW b \in Block, \A i \in 1..Len(hdr) : hdr[i] # b
  PROVE  Recovered[b] = home[b]
BY Zenon DEF Recovered

\* What the disk holds after recovery is determined block by block.
LEMMA RecoveredIs ==
  ASSUME TypeOK, NoRepeat(hdr), NEW f, f = [b \in Block |-> f[b]],
         \A i \in 1..Len(hdr) : f[hdr[i]] = logblk[i],
         \A b \in Block : (\A i \in 1..Len(hdr) : hdr[i] # b) => f[b] = home[b]
  PROVE  Recovered = f
<1>1. ASSUME NEW b \in Block PROVE Recovered[b] = f[b]
  <2>1. CASE \A i \in 1..Len(hdr) : hdr[i] # b
    BY Zenon, <2>1, RecoveredHome
  <2>2. CASE \E i \in 1..Len(hdr) : hdr[i] = b
    <3>1. PICK i \in 1..Len(hdr) : hdr[i] = b
      BY Zenon, <2>2
    <3> QED BY Zenon, <3>1, RecoveredLogged
  <2> QED BY Zenon, <2>1, <2>2
<1>2. Recovered = [b \in Block |-> Recovered[b]]
  BY Zenon DEF Recovered
<1> QED BY <1>1, <1>2, Zenon

\* With no call open nobody is in log_write().
LEMMA NoneOpen == ASSUME IInv, outstanding = 0
                  PROVE  \A p \in Proc : depth[p] = 0 /\ pc[p] \notin {"op", "log"}
<1>1. OpenOps = {}
  BY ZenonT(30), OpsFinite, FS_EmptySet, LogParts DEF OpsInv
<1>2. ASSUME NEW p \in Proc, depth[p] # 0 PROVE FALSE
  <2>1. depth[p] \in 1..MaxDepth
    BY <1>2, LogParts DEF TypeOK
  <2>2. 1 \in 1..MaxDepth /\ 1 <= depth[p]
    BY <2>1, LogAssumption
  <2>3. <<p, 1>> \in OpenOps
    BY Zenon, <2>2 DEF OpenOps, Op
  <2> QED BY Zenon, <1>1, <2>3
<1> QED BY <1>2, LogParts DEF OpsInv

-----------------------------------------------------------------------------
(* The steps of system calls *)

\* While a call is open no commit and no recovery runs.
LEMMA CallsRunAlone == ASSUME IInv, Up, NEW p \in Proc, pc[p] \in {"op", "log"}
                       PROVE  stage = "idle" /\ ~committing /\ ~recovering /\ depth[p] > 0
<1>1. outstanding # 0 /\ depth[p] > 0
  BY Zenon, NoneOpen, LogParts DEF OpsInv
<1> QED BY Zenon, <1>1, LogParts DEF StageInv, Up

\* begin_op() touches neither blocks nor log.
LEMMA begin_op_crash == ASSUME IInv, CrashInv, NEW p \in Proc, begin_op(p) PROVE CrashInv'
<1>1. /\ UNCHANGED <<home, logblk, hdr, lh, cache, dirty, blk, stage, tail, recovering>>
      /\ pc[p] # "log" /\ \E l \in {"asleep", "op"} : pc' = [pc EXCEPT ![p] = l]
  BY Zenon DEF begin_op, BeginsOp, admit, Goto, diskVars, ctlVars
<1>2. \A b \in Block : InLogWrite(b)' <=> InLogWrite(b)
  BY Zenon, <1>1, LogParts DEF InLogWrite, TypeOK
<1>3. CleanInv'
  BY Zenon, <1>1, <1>2, CrashParts DEF CleanInv, Logged
<1>4. HeaderInv' /\ CopyInv'
  BY <1>1, CrashParts DEF HeaderInv, NoRepeat, CopyInv
<1> QED BY Zenon, <1>3, <1>4 DEF CrashInv

\* A call changes a block in the cache and is now in log_write() for it.
LEMMA modify_crash ==
  ASSUME IInv, CrashInv, NEW p \in Proc, NEW b \in Block, NEW v \in Val, modify(p, b, v)
  PROVE  CrashInv'
<1>1. stage = "idle" /\ ~recovering
  BY Zenon, CallsRunAlone DEF modify
<1>2. /\ UNCHANGED <<home, logblk, hdr, lh, dirty, stage, tail, recovering>>
      /\ cache' = [cache EXCEPT ![b] = v] /\ blk' = [blk EXCEPT ![p] = b]
      /\ pc[p] = "op" /\ pc' = [pc EXCEPT ![p] = "log"]
  BY Zenon DEF modify, Goto, diskVars, ctlVars
<1>3. InLogWrite(b)' /\ \A c \in Block : InLogWrite(c) => InLogWrite(c)'
  BY Zenon, <1>2, LogParts DEF InLogWrite, TypeOK
<1>4. CleanInv'
  <2>1. \A c \in Block : cache'[c] = home'[c] \/ c \in dirty' \/ InLogWrite(c)'
    BY Zenon, <1>2, <1>3, CrashParts, LogParts DEF CleanInv, TypeOK
  <2> QED BY Zenon, <1>1, <1>2, <2>1, CrashParts DEF CleanInv, Logged
<1>5. HeaderInv' /\ CopyInv'
  BY SMTT(40), <1>1, <1>2, CrashParts DEF HeaderInv, NoRepeat, CopyInv
<1> QED BY Zenon, <1>4, <1>5 DEF CrashInv

\* log_write() pins the block and lists it once.
LEMMA log_write_crash == ASSUME IInv, CrashInv, NEW p \in Proc, log_write(p) PROVE CrashInv'
<1>1. stage = "idle" /\ ~recovering /\ depth[p] \in 1..MaxDepth
  BY CallsRunAlone, LogParts DEF log_write, TypeOK
<1> DEFINE b == blk[p]
<1>2. /\ UNCHANGED <<home, logblk, hdr, cache, stage, tail, recovering>>
      /\ lh' = absorb(b) /\ dirty' = dirty \cup {b}
      /\ pc[p] = "log" /\ pc' = [pc EXCEPT ![p] = "op"] /\ blk' = [blk EXCEPT ![p] = NoBlock]
  BY Zenon DEF log_write, Goto, diskVars, ctlVars
<1>3. b \in Block
  <2>1. b \in wrote[<<p, depth[p]>>] /\ <<p, depth[p]>> \in Op
    BY Zenon, <1>1, <1>2, LogParts DEF OpsInv, Op
  <2> QED BY Zenon, <2>1, LogParts DEF TypeOK
<1>4. NoRepeat(lh') /\ Logged' = Logged \cup {b}
  <2>1. CASE b \in Logged
    BY Zenon, <1>2, <2>1, CrashParts DEF absorb, HeaderInv, Logged
  <2>2. CASE b \notin Logged
    <3>1. lh \in Seq(Block) /\ lh' = Append(lh, b)
      BY Zenon, <1>2, <2>2, LogParts DEF absorb, TypeOK
    <3>2. /\ Len(lh') = Len(lh) + 1 /\ lh'[Len(lh) + 1] = b
          /\ \A i \in 1..Len(lh) : lh'[i] = lh[i]
      BY <1>3, <3>1
    <3>3. Len(lh) \in Nat /\ \A i \in 1..Len(lh) : lh[i] # b
      BY <2>2, <3>1 DEF Logged
    <3>4. NoRepeat(lh')
      BY <3>2, <3>3, CrashParts DEF NoRepeat, HeaderInv
    <3>5. Logged' = Logged \cup {b}
      BY <3>2, <3>3 DEF Logged
    <3> QED BY Zenon, <3>4, <3>5
  <2> QED BY Zenon, <2>1, <2>2
<1>5. \A c \in Block : InLogWrite(c) => c = b \/ InLogWrite(c)'
  BY Zenon, <1>2, LogParts DEF InLogWrite, TypeOK
<1>6. CleanInv'
  <2>1. \A c \in Block : cache'[c] = home'[c] \/ c \in dirty' \/ InLogWrite(c)'
    BY Zenon, <1>2, <1>5, CrashParts DEF CleanInv
  <2> QED BY Zenon, <1>1, <1>2, <1>4, <2>1, CrashParts DEF CleanInv
<1>7. HeaderInv' /\ CopyInv'
  BY <1>1, <1>2, <1>4, CrashParts DEF HeaderInv, NoRepeat, CopyInv
<1> QED BY Zenon, <1>6, <1>7 DEF CrashInv

\* end_op() touches no block; the last one finds nobody in log_write().
LEMMA end_op_crash == ASSUME IInv, CrashInv, NEW p \in Proc, end_op(p) PROVE CrashInv'
<1>1. stage = "idle" /\ ~recovering
  BY Zenon, CallsRunAlone DEF end_op
<1>2. /\ UNCHANGED <<home, logblk, hdr, lh, cache, dirty, blk, recovering>>
      /\ \/ stage' = stage
         \/ stage' = "write_log" /\ tail' = 0
  BY Zenon DEF end_op, diskVars
<1>3. \A q \in Proc : pc[q] = "log" => pc'[q] = "log"
  BY ZenonT(30), LogParts DEF end_op, leave, Woken, Goto, TypeOK
<1>4. \A b \in Block : InLogWrite(b) => InLogWrite(b)'
  BY Zenon, <1>2, <1>3 DEF InLogWrite
<1>5. CleanInv'
  BY Zenon, <1>1, <1>2, <1>4, CrashParts DEF CleanInv, Logged
<1>6. HeaderInv' /\ CopyInv'
  BY <1>1, <1>2, CrashParts DEF HeaderInv, NoRepeat, CopyInv
<1> QED BY Zenon, <1>5, <1>6 DEF CrashInv

-----------------------------------------------------------------------------
(* The steps of commit() and of recovery, and crashes *)

\* While commit() or recovery runs, nobody is in log_write().
LEMMA NobodyLogs == ASSUME IInv, committing \/ recovering PROVE \A b : ~InLogWrite(b)
BY Zenon, NoneOpen, LogParts DEF InLogWrite, StageInv

\* In every stage but the idle one, commit() or recovery runs.
LEMMA Running == ASSUME IInv, stage # "idle"
                 PROVE  /\ committing \/ recovering
                        /\ recovering <=> ~committing
                        /\ lh \in Seq(Block) /\ tail \in Nat /\ Len(lh) < LOGSIZE
<1>1. Cardinality(Usable) \in Nat
  BY Zenon, UsableBound DEF UsableSmall
<1> QED BY SMTT(40), <1>1, LogAssumption, LogParts DEF StageInv, TypeOK, RoomInv

\* write_log() copies one more block of the cache to the log.
LEMMA write_log_crash == ASSUME IInv, CrashInv, write_log PROVE CrashInv'
<1>1. /\ UNCHANGED <<home, hdr, lh, cache, dirty, pc, blk, stage, recovering>>
      /\ stage = "write_log" /\ tail < Len(lh) /\ tail' = tail + 1
      /\ logblk' = [logblk EXCEPT ![tail + 1] = cache[lh[tail + 1]]]
  BY ZenonT(40) DEF write_log, Quiet, opVars
<1>2. tail + 1 \in 1..LOGSIZE /\ tail \in Nat
  BY <1>1, Running, LogAssumption
<1>3. CopyInv'
  <2>1. \A i \in 1..tail + 1 : logblk'[i] = cache[lh[i]]
    BY SMTT(40), <1>1, <1>2, CrashParts, LogParts DEF CopyInv, TypeOK
  <2> QED BY Zenon, <1>1, <2>1 DEF CopyInv
<1>4. HeaderInv' /\ CleanInv'
  BY SMTT(40), <1>1, CrashParts DEF HeaderInv, CleanInv, NoRepeat, InLogWrite, Logged
<1> QED BY Zenon, <1>3, <1>4 DEF CrashInv

\* The log holds every block of the transaction, or there is none.
LEMMA write_log_done_crash == ASSUME IInv, CrashInv, write_log_done PROVE CrashInv'
<1>1. /\ UNCHANGED <<home, logblk, hdr, lh, cache, dirty, pc, blk, recovering>>
      /\ stage = "write_log" /\ tail = Len(lh) /\ stage' = AfterLog
  BY Zenon DEF write_log_done, Step, Quiet, opVars, diskVars
<1>2. Len(lh) = 0 => dirty = {}
  BY <1>1, Running, CrashParts DEF CleanInv, Logged
<1> QED
  BY <1>1, <1>2, Running DEF CrashInv, HeaderInv, CleanInv, CopyInv, NoRepeat, InLogWrite,
     Logged, AfterLog

\* The commit point: the header lists the blocks of lh.
LEMMA write_head_crash == ASSUME IInv, CrashInv, write_head PROVE CrashInv'
<1>1. /\ UNCHANGED <<home, logblk, lh, cache, dirty, pc, blk, recovering>>
      /\ stage = "head" /\ stage' = "install" /\ tail' = 0 /\ hdr' = lh
  BY Zenon DEF write_head, Step, Quiet, opVars
<1>2. lh \in Seq(Block) /\ \A b \in dirty : \E i \in 1..Len(lh) : i > 0 /\ lh[i] = b
  BY SMTT(40), <1>1, Running, CrashParts DEF CleanInv, Logged
<1>3. HeaderInv' /\ CopyInv'
  BY <1>1, CrashParts DEF HeaderInv, CopyInv, NoRepeat
<1>4. CleanInv'
  BY Zenon, <1>1, <1>2, CrashParts DEF CleanInv, InLogWrite, Logged
<1> QED BY Zenon, <1>3, <1>4 DEF CrashInv

\* install_trans() copies one more log block home, which changes no block of the
\* cache unless the cache is still empty.
LEMMA InstallStep ==
  ASSUME IInv, CrashInv, install_trans
  PROVE  /\ stage = "install" /\ stage' = "install" /\ tail \in Nat /\ tail' = tail + 1
         /\ tail + 1 \in 1..Len(lh) /\ lh[tail + 1] \in Block /\ logblk[tail + 1] \in Val
         /\ UNCHANGED <<logblk, hdr, lh, pc, blk, depth, recovering>>
         /\ home' = [home EXCEPT ![lh[tail + 1]] = logblk[tail + 1]]
         /\ cache' = [cache EXCEPT ![lh[tail + 1]] = logblk[tail + 1]]
         /\ dirty' = dirty \ {lh[tail + 1]}
         /\ ~recovering => cache' = cache
<1>1. /\ stage = "install" /\ stage' = "install" /\ tail < Len(lh) /\ tail' = tail + 1
      /\ UNCHANGED <<logblk, hdr, lh, pc, blk, depth, recovering>>
      /\ home' = [home EXCEPT ![lh[tail + 1]] = logblk[tail + 1]]
      /\ cache' = [cache EXCEPT ![lh[tail + 1]] = logblk[tail + 1]]
      /\ dirty' = dirty \ {lh[tail + 1]}
  BY Zenon DEF install_trans, Quiet, opVars
<1>2. tail + 1 \in 1..Len(lh) /\ tail + 1 \in 1..LOGSIZE /\ tail \in Nat
  BY <1>1, Running, LogAssumption
<1>3. lh[tail + 1] \in Block
  BY <1>1, <1>2, Running
<1>4. logblk[tail + 1] \in Val
  BY ZenonT(30), <1>2, LogParts DEF TypeOK
<1>5. ~recovering => cache[lh[tail + 1]] = logblk[tail + 1]
  BY Zenon, <1>1, <1>2, CrashParts DEF CopyInv
<1>6. ~recovering => cache' = cache
  BY Zenon, <1>1, <1>5, LogParts DEF TypeOK
<1> QED BY Zenon, <1>1, <1>2, <1>3, <1>4, <1>6

\* Step by step install_trans() keeps the invariant.
LEMMA install_trans_crash == ASSUME IInv, CrashInv, install_trans PROVE CrashInv'
<1> DEFINE n == tail + 1
<1>1. n \in 1..Len(lh) /\ lh \in Seq(Block) /\ Len(lh) \in Nat
  BY InstallStep, LogParts DEF TypeOK
<1>2. HeaderInv'
  BY ZenonT(40), InstallStep, CrashParts DEF HeaderInv, NoRepeat
<1>3. CleanInv'
  <2>1. \A b \in Block : ~InLogWrite(b)
    BY Zenon, InstallStep, NobodyLogs, Running
  <2>2. \A b \in Block : cache'[b] = home'[b] \/ b \in dirty'
    <3>1. TypeOK /\ CleanInv
      BY Zenon, LogParts, CrashParts
    <3> QED BY SMTT(40), <2>1, <3>1, InstallStep DEF CleanInv, TypeOK
  <2>3. \A b \in dirty' : \E i \in 1..Len(lh) : i > n /\ lh[i] = b
    BY InstallStep, CrashParts DEF CleanInv
  <2>4. recovering => cache' = home' /\ dirty' = {}
    BY ZenonT(30), InstallStep, CrashParts DEF CleanInv
  <2> QED BY <2>2, <2>3, <2>4, InstallStep, CrashParts DEF CleanInv, Logged
<1>4. CopyInv'
  <2>1. \A i \in 1..n : lh[i] \in Block /\ (i # n => i \in 1..tail /\ lh[i] # lh[n])
    BY SMTT(40), <1>1, InstallStep, CrashParts DEF HeaderInv, NoRepeat
  <2>2. \A i \in 1..n : home'[lh[i]] = logblk[i]
    BY SMTT(40), <2>1, InstallStep, CrashParts, LogParts DEF CopyInv, TypeOK
  <2>3. ~recovering => \A i \in 1..Len(lh) : logblk[i] = cache'[lh[i]]
    BY Zenon, InstallStep, CrashParts DEF CopyInv
  <2> QED BY Zenon, <2>2, <2>3, InstallStep DEF CopyInv
<1> QED BY Zenon, <1>2, <1>3, <1>4 DEF CrashInv

\* Every block of the transaction is at its home.
LEMMA install_done_crash == ASSUME IInv, CrashInv, install_done PROVE CrashInv'
<1>1. /\ UNCHANGED <<home, logblk, hdr, lh, cache, dirty, pc, blk, recovering>>
      /\ stage = "install" /\ tail = Len(lh) /\ stage' = "erase"
  BY Zenon DEF install_done, Step, Quiet, opVars, diskVars
<1>2. dirty = {}
  BY <1>1, Running, CrashParts DEF CleanInv
<1>3. CleanInv'
  BY ZenonT(40), <1>1, <1>2, CrashParts DEF CleanInv, InLogWrite, Logged
<1>4. HeaderInv' /\ CopyInv'
  BY <1>1, CrashParts DEF HeaderInv, CopyInv, NoRepeat
<1> QED BY Zenon, <1>3, <1>4 DEF CrashInv

\* The header is emptied: the transaction is over.
LEMMA erase_crash == ASSUME IInv, CrashInv, erase PROVE CrashInv'
<1>1. /\ UNCHANGED <<home, logblk, cache, dirty, pc, blk>>
      /\ stage = "erase" /\ stage' \in {"idle", "finish"} /\ lh' = <<>> /\ hdr' = <<>>
      /\ recovering' = FALSE
  BY Zenon DEF erase, Step, Quiet, opVars
<1>2. dirty = {}
  BY Zenon, <1>1, CrashParts DEF CleanInv
<1>3. CleanInv'
  BY ZenonT(40), <1>1, <1>2, CrashParts DEF CleanInv, InLogWrite
<1>4. HeaderInv' /\ CopyInv'
  BY <1>1 DEF HeaderInv, CopyInv, NoRepeat
<1> QED BY Zenon, <1>3, <1>4 DEF CrashInv

\* end_op() after the commit, and read_head() at the start of recovery.
LEMMA end_commit_crash == ASSUME IInv, CrashInv, NEW p \in Proc, end_commit(p) PROVE CrashInv'
<1>1. /\ UNCHANGED <<home, logblk, hdr, lh, cache, dirty, recovering>>
      /\ stage = "finish" /\ stage' = "idle"
  BY Zenon DEF end_commit, Step, diskVars
<1>2. \A b \in Block : cache[b] = home[b]
  BY Zenon, <1>1, NobodyLogs, Running, CrashParts DEF CleanInv
<1>3. CleanInv'
  BY Zenon, <1>1, <1>2, CrashParts DEF CleanInv, Logged
<1>4. HeaderInv' /\ CopyInv'
  BY <1>1, CrashParts DEF HeaderInv, CopyInv, NoRepeat
<1> QED BY Zenon, <1>3, <1>4 DEF CrashInv

\* The header is read back.
LEMMA read_head_crash == ASSUME IInv, CrashInv, read_head PROVE CrashInv'
<1>1. /\ UNCHANGED <<home, logblk, hdr, cache, dirty, pc, blk, recovering>>
      /\ stage = "read_head" /\ stage' = "install" /\ tail' = 0 /\ lh' = hdr
  BY Zenon DEF read_head, Step, Quiet, opVars, diskVars
<1>2. recovering
  BY Zenon, <1>1, LogParts DEF StageInv
<1>3. CleanInv'
  BY Zenon, <1>1, <1>2, CrashParts DEF CleanInv, InLogWrite
<1>4. HeaderInv' /\ CopyInv'
  BY SMTT(30), <1>1, <1>2, CrashParts DEF HeaderInv, CopyInv, NoRepeat
<1> QED BY Zenon, <1>3, <1>4 DEF CrashInv

\* A crash at any point.
LEMMA crash_crash == ASSUME IInv, CrashInv, crash PROVE CrashInv'
<1>1. /\ UNCHANGED <<home, logblk, hdr>> /\ lh' = <<>> /\ cache' = home /\ dirty' = {}
      /\ stage' = "read_head" /\ recovering' = TRUE
  BY Zenon DEF crash, diskVars
<1> QED BY <1>1 DEF CrashInv, HeaderInv, CleanInv, CopyInv, NoRepeat

\* Every step keeps the invariant.
LEMMA NextCrash == ASSUME IInv, CrashInv, [Next]_vars PROVE CrashInv'
<1>1. CASE UNCHANGED vars
  <2>1. UNCHANGED <<home, logblk, hdr, lh, cache, dirty, pc, blk, stage, tail, recovering>>
    BY <1>1, Zenon DEF vars, diskVars, opVars, ctlVars
  <2>2. CleanInv'
    BY SMTT(30), <2>1, CrashParts DEF CleanInv, InLogWrite, Logged
  <2>3. HeaderInv'
    BY SMTT(40), <2>1, CrashParts DEF HeaderInv, NoRepeat
  <2>4. CopyInv'
    BY SMTT(40), <2>1, CrashParts DEF CopyInv, NoRepeat
  <2> QED BY Zenon, <2>2, <2>3, <2>4 DEF CrashInv
<1>2. CASE commit
  BY <1>2, ZenonT(30), write_log_crash, write_log_done_crash, write_head_crash,
     install_trans_crash, install_done_crash, erase_crash, read_head_crash, end_commit_crash
     DEF commit
<1>3. CASE crash
  BY Zenon, <1>3, crash_crash
<1>4. ASSUME NEW p \in Proc, transact(p) PROVE CrashInv'
  BY <1>4, Zenon, begin_op_crash, log_write_crash, end_op_crash, modify_crash DEF transact
<1> QED BY <1>1, <1>2, <1>3, <1>4, Zenon DEF Next

\* The invariant holds whenever no call writes MAXOPBLOCKS blocks.
LEMMA CrashInvariance == ASSUME OpMax < MAXOPBLOCKS PROVE Spec => [](IInv /\ CrashInv)
<1>1. Init => CrashInv
  BY DEF Init, CrashInv, HeaderInv, CleanInv, CopyInv, NoRepeat
<1>2. IInv /\ CrashInv /\ [Next]_vars => CrashInv'
  BY Zenon, NextCrash
<1> QED BY <1>1, <1>2, Invariance, PTL DEF Spec

-----------------------------------------------------------------------------
(* What the log promises *)

\* No update is lost while the machine is up.  Whatever buffer bget() recycles, its
\* contents are on disk at their home, between the steps of commit() too; and when
\* the last end_op() has returned, what the calls wrote survives a crash.
THEOREM NoUpdateLost == ASSUME OpMax < MAXOPBLOCKS PROVE Spec => []NothingLost
<1>1. ASSUME IInv, CrashInv PROVE NothingLost
  <2>1. Up => \A b \in Block \ dirty :
                cache[b] = home[b] \/ \E p \in Proc : pc[p] = "log" /\ blk[p] = b
    BY Zenon, <1>1, CrashParts DEF CleanInv, InLogWrite
  <2>2. ASSUME Up, outstanding = 0, ~committing PROVE Recovered = cache
    <3>1. stage = "idle" /\ lh = <<>> /\ hdr = <<>>
      BY Zenon, <1>1, <2>2, CrashParts, LogParts DEF Up, StageInv, HeaderInv
    <3>2. Recovered = home
      BY Zenon, <1>1, <3>1, EmptyLog DEF IInv
    <3>3. dirty = {}
      BY <1>1, <3>1, CrashParts DEF CleanInv, Logged
    <3>4. \A b \in Block : cache[b] = home[b]
      BY Zenon, <1>1, <2>2, <3>3, NoneOpen, CrashParts DEF CleanInv, InLogWrite
    <3> QED BY <1>1, <3>2, <3>4, LogParts DEF TypeOK
  <2> QED BY Zenon, <2>1, <2>2 DEF NothingLost
<1> QED BY <1>1, CrashInvariance, PTL

-----------------------------------------------------------------------------
(* The log implements AtomicDisk: one lemma per step *)

\* The blocks as system calls see them, and the processes inside a call.
Mem == IF recovering THEN Recovered ELSE cache
Active == {p \in Proc : depth[p] > 0}
AtomicStep == [AD!Next]_(AD!vars)

\* Steps that change nothing the abstraction sees.
LEMMA Stutter == ASSUME Mem' = Mem, Recovered' = Recovered, Active' = Active PROVE AtomicStep
BY Zenon DEF AtomicStep, AD!vars, Mem, Active

\* Recovered depends on the disk alone.
LEMMA SameDisk == ASSUME UNCHANGED <<home, logblk, hdr>> PROVE Recovered' = Recovered
BY Zenon DEF Recovered

\* begin_op() admits a call or puts the process to sleep.
LEMMA begin_op_atomic == ASSUME IInv, NEW p \in Proc, begin_op(p) PROVE AtomicStep
<1>1. /\ UNCHANGED <<home, logblk, hdr, cache, recovering>>
      /\ \/ depth' = depth
         \/ depth' = [depth EXCEPT ![p] = @ + 1]
  BY Zenon DEF begin_op, admit, diskVars, ctlVars
<1>2. Recovered' = Recovered /\ Mem' = Mem
  BY Zenon, <1>1, SameDisk DEF Mem
<1>3. CASE depth' = depth
  BY Zenon, <1>2, <1>3, Stutter DEF Active
<1>4. CASE depth' = [depth EXCEPT ![p] = @ + 1]
  <2>1. Active' = Active \cup {p}
    BY <1>4, LogParts DEF Active, TypeOK
  <2>2. AD!Begin(p)
    BY Zenon, <1>2, <2>1 DEF AD!Begin, Mem, Active
  <2> QED BY Zenon, <2>2 DEF AtomicStep, AD!Next
<1> QED BY Zenon, <1>1, <1>3, <1>4

\* A call changes one block as calls see it.
LEMMA modify_atomic ==
  ASSUME IInv, NEW p \in Proc, NEW b \in Block, NEW v \in Val, modify(p, b, v)
  PROVE  AtomicStep
<1>1. ~recovering /\ depth[p] > 0
  BY Zenon, CallsRunAlone DEF modify
<1>2. /\ UNCHANGED <<home, logblk, hdr, recovering, depth>>
      /\ cache' = [cache EXCEPT ![b] = v]
  BY Zenon DEF modify, diskVars, ctlVars
<1>3. Recovered' = Recovered /\ Mem' = [Mem EXCEPT ![b] = v] /\ Active' = Active
  BY Zenon, <1>1, <1>2, SameDisk DEF Mem, Active
<1>4. AD!Write(p, b, v)
  BY Zenon, <1>1, <1>3 DEF AD!Write, Mem, Active
<1> QED BY Zenon, <1>4 DEF AtomicStep, AD!Next

\* log_write() is bookkeeping.
LEMMA log_write_atomic == ASSUME NEW p \in Proc, log_write(p) PROVE AtomicStep
<1>1. UNCHANGED <<home, logblk, hdr, cache, recovering, depth>>
  BY Zenon DEF log_write, diskVars, ctlVars
<1> QED BY Zenon, <1>1, SameDisk, Stutter DEF Mem, Active

\* end_op() ends the call, unless it was nested in another.
LEMMA end_op_atomic == ASSUME IInv, NEW p \in Proc, end_op(p) PROVE AtomicStep
<1>1. /\ UNCHANGED <<home, logblk, hdr, cache, recovering>>
      /\ depth' = [depth EXCEPT ![p] = @ - 1]
  BY Zenon DEF end_op, diskVars
<1>2. depth[p] \in Nat /\ depth[p] > 0
  BY CallsRunAlone, LogParts DEF end_op, TypeOK
<1>3. Recovered' = Recovered /\ Mem' = Mem
  BY Zenon, <1>1, SameDisk DEF Mem
<1>4. CASE depth[p] = 1
  <2>1. p \in Active /\ Active' = Active \ {p}
    BY SMTT(30), <1>1, <1>2, <1>4, LogParts DEF Active, TypeOK
  <2>2. AD!End(p)
    BY Zenon, <1>3, <2>1 DEF AD!End, Mem, Active
  <2> QED BY Zenon, <2>2 DEF AtomicStep, AD!Next
<1>5. CASE depth[p] > 1
  <2>1. Active' = Active
    BY <1>1, <1>2, <1>5, LogParts DEF Active, TypeOK
  <2> QED BY Zenon, <1>3, <2>1, Stutter
<1> QED BY <1>2, <1>4, <1>5

\* The log on disk holds what the cache has and the home blocks do not.
Committed == /\ TypeOK /\ NoRepeat(hdr)
             /\ \A i \in 1..Len(hdr) : cache[hdr[i]] = logblk[i]
             /\ \A b \in Block : cache[b] = home[b] \/ \E i \in 1..Len(hdr) : hdr[i] = b

\* What has been committed is what recovery finds.
LEMMA CommittedRecovers == Committed => Recovered = cache
<1> SUFFICES ASSUME Committed PROVE Recovered = cache
  BY Zenon
<1>1. cache = [b \in Block |-> cache[b]]
  BY Zenon DEF Committed, TypeOK
<1>2. \A b \in Block : (\A i \in 1..Len(hdr) : hdr[i] # b) => cache[b] = home[b]
  BY Zenon DEF Committed
<1> QED BY Zenon, <1>1, <1>2, RecoveredIs DEF Committed

\* write_head() is the commit: every block that differs from its home is in the
\* log, at the place the header gives, with the contents the cache has.
LEMMA write_head_atomic == ASSUME IInv, IInv', CrashInv, CrashInv', write_head PROVE AtomicStep
<1>1. /\ UNCHANGED <<home, logblk, cache, recovering, depth>>
      /\ stage = "head" /\ hdr' = lh
  BY Zenon DEF write_head, Step, Quiet, opVars
<1>2. ~recovering /\ outstanding = 0
  BY Zenon, <1>1, LogParts DEF StageInv
<1>3. Recovered' = cache
  <2>1. \A b \in Block : ~InLogWrite(b)
    BY Zenon, <1>1, NobodyLogs, Running
  <2>2. \A b \in Block : cache[b] = home[b] \/ \E i \in 1..Len(lh) : lh[i] = b
    BY Zenon, <2>1, CrashParts DEF CleanInv, Logged
  <2>3. \A i \in 1..Len(lh) : cache[lh[i]] = logblk[i]
    BY Zenon, <1>1, <1>2, CrashParts DEF CopyInv
  <2>4. Committed'
    BY Zenon, <1>1, <2>2, <2>3 DEF Committed, CrashInv, HeaderInv, IInv
  <2>5. (Committed => Recovered = cache)'
    BY CommittedRecovers, PTL
  <2> QED BY Zenon, <1>1, <2>4, <2>5
<1>4. Active = {} /\ Active' = {} /\ Mem = cache /\ Mem' = cache
  BY SMTT(30), <1>1, <1>2, NoneOpen DEF Active, Mem
<1>5. AD!Commit
  BY Zenon, <1>3, <1>4 DEF AD!Commit, Mem, Active
<1> QED BY Zenon, <1>5 DEF AtomicStep, AD!Next

\* A block that is not in the header is all that recovery takes from its home.
LEMMA SameRecovered ==
  ASSUME hdr' = hdr, logblk' = logblk \/ hdr = <<>>,
         \A b \in Block : home'[b] = home[b] \/ \E i \in 1..Len(hdr) : hdr[i] = b
  PROVE  Recovered' = Recovered
<1>1. CASE logblk' = logblk
  BY Zenon, <1>1 DEF Recovered
<1>2. CASE hdr = <<>>
  <2>1. ~\E i \in 1..Len(hdr) : TRUE
    BY <1>2
  <2> QED BY Zenon, <2>1 DEF Recovered
<1> QED BY Zenon, <1>1, <1>2

\* Before the commit the log blocks do not count.
LEMMA write_log_atomic == ASSUME CrashInv, write_log PROVE AtomicStep
<1>1. UNCHANGED <<home, hdr, cache, recovering, depth>> /\ hdr = <<>>
  BY Zenon, CrashParts DEF write_log, Quiet, opVars, HeaderInv
<1>2. Recovered' = Recovered
  BY Zenon, <1>1, SameRecovered
<1> QED BY Zenon, <1>1, <1>2, Stutter DEF Mem, Active

\* After it the home blocks of the header do not count.
LEMMA install_trans_atomic == ASSUME IInv, CrashInv, install_trans PROVE AtomicStep
<1>1. hdr = lh
  BY Zenon, InstallStep, CrashParts DEF HeaderInv
<1>2. \A b \in Block : home'[b] = home[b] \/ \E i \in 1..Len(hdr) : hdr[i] = b
  BY Zenon, <1>1, InstallStep, LogParts DEF TypeOK
<1>3. Recovered' = Recovered
  BY Zenon, <1>2, InstallStep, SameRecovered
<1>4. Mem' = Mem
  BY <1>3, InstallStep DEF Mem
<1> QED BY Zenon, <1>3, <1>4, InstallStep, Stutter DEF Active

\* When the header is emptied, every home block is what recovery would make it.
LEMMA erase_atomic == ASSUME IInv, IInv', CrashInv, erase PROVE AtomicStep
<1>1. /\ UNCHANGED <<home, cache, depth>> /\ stage = "erase" /\ hdr' = <<>> /\ ~recovering'
  BY Zenon DEF erase, Step, Quiet, opVars
<1>2. Recovered = home
  <2>1. home = [b \in Block |-> home[b]]
    BY Zenon, LogParts DEF TypeOK
  <2>2. \A i \in 1..Len(hdr) : home[hdr[i]] = logblk[i]
    BY Zenon, <1>1, CrashParts DEF CopyInv, HeaderInv
  <2> QED BY Zenon, <2>1, <2>2, RecoveredIs, CrashParts, LogParts DEF HeaderInv
<1>3. Recovered' = home'
  <2>1. (TypeOK /\ hdr = <<>> => Recovered = home)'
    BY EmptyLog, PTL
  <2> QED BY Zenon, <1>1, <2>1 DEF IInv
<1>4. recovering => cache = home
  BY Zenon, CrashParts DEF CleanInv
<1>5. Mem' = Mem
  BY Zenon, <1>1, <1>2, <1>4 DEF Mem
<1> QED BY Zenon, <1>1, <1>2, <1>3, <1>5, Stutter DEF Active

\* The other steps of commit() and recovery write no block.
LEMMA control_atomic ==
  ASSUME write_log_done \/ install_done \/ read_head \/ \E p \in Proc : end_commit(p)
  PROVE  AtomicStep
<1>1. UNCHANGED <<home, logblk, hdr, cache, recovering, depth>>
  BY Zenon DEF write_log_done, install_done, read_head, end_commit, diskVars, Quiet, opVars
<1> QED BY Zenon, <1>1, SameDisk, Stutter DEF Mem, Active

\* A crash goes back to the durable blocks.
LEMMA crash_atomic == ASSUME crash PROVE AtomicStep
<1>1. UNCHANGED <<home, logblk, hdr>> /\ recovering' = TRUE /\ depth' = NoDepth
  BY Zenon DEF crash, diskVars
<1>2. Recovered' = Recovered /\ Mem' = Recovered /\ Active' = {}
  BY <1>1, SameDisk DEF Mem, Active, NoDepth
<1>3. AD!Crash
  BY Zenon, <1>2 DEF AD!Crash, Mem, Active
<1> QED BY Zenon, <1>3 DEF AtomicStep, AD!Next

\* Every step of the log is a step of AtomicDisk or changes nothing it sees.
LEMMA StepRefines ==
  ASSUME IInv, IInv', CrashInv, CrashInv', [Next]_vars PROVE AtomicStep
<1>1. CASE UNCHANGED vars
  <2>1. UNCHANGED <<home, logblk, hdr, cache, recovering, depth>>
    BY <1>1, Zenon DEF vars, diskVars, opVars, ctlVars
  <2> QED BY Zenon, <2>1, SameDisk, Stutter DEF Mem, Active
<1>2. CASE commit
  BY <1>2, ZenonT(30), write_log_atomic, write_head_atomic, install_trans_atomic, erase_atomic,
     control_atomic DEF commit
<1>3. CASE crash
  BY Zenon, <1>3, crash_atomic
<1>4. ASSUME NEW p \in Proc, transact(p) PROVE AtomicStep
  BY <1>4, Zenon, begin_op_atomic, log_write_atomic, end_op_atomic, modify_atomic DEF transact
<1> QED BY <1>1, <1>2, <1>3, <1>4, Zenon DEF Next

\* The log commits atomically: a crash at any point, inside commit() and inside
\* recovery too, leaves the blocks as they were when the last transaction was
\* committed, which is a moment at which no system call was active.
THEOREM CommitIsAtomic == ASSUME OpMax < MAXOPBLOCKS PROVE Spec => AtomicCommit
<1>1. ASSUME Init PROVE AD!Init
  <2>1. Recovered = home
    BY ZenonT(30), <1>1, InitInv, EmptyLog, LogParts DEF Init
  <2>2. Mem = home /\ Active = {}
    BY <1>1, <2>1 DEF Init, Mem, Active, NoDepth
  <2> QED BY Zenon, <1>1, <2>1, <2>2 DEF Init, AD!Init, Mem, Active
<1>2. IInv /\ CrashInv /\ (IInv /\ CrashInv)' /\ [Next]_vars => [AD!Next]_(AD!vars)
  BY Zenon, StepRefines DEF AtomicStep
<1> QED BY <1>1, <1>2, CrashInvariance, PTL DEF Spec, AtomicCommit, AD!Spec
=============================================================================
