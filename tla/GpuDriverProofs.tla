--------------------------- MODULE GpuDriverProofs ---------------------------
(***************************************************************************)
(* Proofs about the contract: its state is always of its type, and the     *)
(* bytes of every pool are accounted for, for any set of devices, any pool *)
(* size and any number of allocations.                                     *)
(***************************************************************************)
EXTENDS GpuDriver, FiniteSetTheorems, TLAPS

-----------------------------------------------------------------------------
(***************************************************************************)
(* Type correctness of the driver's state: no id is in the table before it *)
(* was issued, and no pool goes below zero.                                *)
(***************************************************************************)
LEMMA StepKeepsType ==
  ASSUME TypeOK, [Next]_driverVars
  PROVE  TypeOK'
<1> USE GpuDriverAssumption
<1>1. ASSUME NEW g \in Gpu, NEW size \in Sizes, AllocateVram(g, size)
      PROVE  TypeOK'
  <2>1. issued' \notin DOMAIN allocations /\ issued' \in 1 .. MaxAllocs
    BY <1>1 DEF TypeOK, AllocateVram
  <2>2. /\ DOMAIN allocations' = DOMAIN allocations \cup {issued'}
        /\ allocations'[issued'] = [gpu |-> g, size |-> size]
        /\ \A x \in DOMAIN allocations : allocations'[x] = allocations[x]
        /\ IsTable(allocations')
    BY <1>1, <2>1 DEF AllocateVram, Insert, IsTable
  <2>3. \A a \in DOMAIN allocations' : allocations'[a] \in Allocation
    BY <2>2 DEF TypeOK, Allocation
  <2>4. vramAvailable' \in [Gpu -> Nat]
    BY <1>1 DEF TypeOK, AllocateVram, Fits
  <2>5. DOMAIN allocations' \subseteq 1 .. issued' /\ issued' \in 0 .. MaxAllocs
    BY <1>1, <2>1, <2>2 DEF TypeOK, AllocateVram
  <2> QED
    BY <1>1, <2>2, <2>3, <2>4, <2>5 DEF TypeOK, AllocateVram, Reply
<1>2. ASSUME NEW a \in AllocId, FreeVram(a)
      PROVE  TypeOK'
  <2>1. /\ DOMAIN allocations' = DOMAIN allocations \ {a}
        /\ \A x \in DOMAIN allocations' : allocations'[x] = allocations[x]
        /\ IsTable(allocations')
    BY <1>2 DEF FreeVram, Remove, Restrict, IsTable
  <2>2. allocations[a].gpu \in Gpu /\ allocations[a].size \in Nat
    BY <1>2 DEF TypeOK, FreeVram, Allocation
  <2>3. vramAvailable' \in [Gpu -> Nat]
    BY <1>2, <2>2 DEF TypeOK, FreeVram
  <2> QED
    BY <1>2, <2>1, <2>3 DEF TypeOK, FreeVram, Reply
<1>3. ASSUME NEW g \in Gpu, Submit(g) \/ MarkFaulted(g) \/ ResetDevice(g)
      PROVE  TypeOK'
  <2>1. /\ UNCHANGED <<allocations, issued, vramAvailable>>
        /\ faulted' \in [Gpu -> BOOLEAN]
    BY <1>3 DEF TypeOK, Submit, Accept, Reject, Fail, Lose, MarkFaulted,
                ResetDevice
  <2>2. reply' \in Reply
    BY <1>3 DEF Submit, Accept, Reject, Fail, Lose, MarkFaulted,
                ResetDevice, Reply, Outcome
  <2> QED
    BY <2>1, <2>2 DEF TypeOK
<1>4. CASE OtherCall
  BY <1>4 DEF TypeOK, OtherCall, Reply
<1>5. CASE UNCHANGED driverVars
  BY <1>5 DEF TypeOK, driverVars
<1> QED
  BY <1>1, <1>2, <1>3, <1>4, <1>5 DEF Next

THEOREM TypeCorrect == Spec => []TypeOK
<1>1. Init => TypeOK
  BY GpuDriverAssumption DEF Init, TypeOK, Reply, EmptyTable, IsTable
<1>2. TypeOK /\ [Next]_driverVars => TypeOK'
  BY StepKeepsType
<1> QED
  BY <1>1, <1>2, PTL DEF Spec

-----------------------------------------------------------------------------
(***************************************************************************)
(* An allocation of n bytes is made of n bytes.                            *)
(***************************************************************************)
LEMMA BytesOfOne ==
  ASSUME NEW k, NEW n \in Nat
  PROVE  /\ IsFiniteSet({k} \X (1 .. n))
         /\ Cardinality({k} \X (1 .. n)) = n
<1> DEFINE b == [i \in 1 .. n |-> <<k, i>>]
<1>1. b \in [1 .. n -> {k} \X (1 .. n)]
  OBVIOUS
<1>2. \A i, j \in 1 .. n : b[i] = b[j] => i = j
  OBVIOUS
<1>3. \A t \in {k} \X (1 .. n) : \E i \in 1 .. n : b[i] = t
  OBVIOUS
<1>4. b \in Bijection(1 .. n, {k} \X (1 .. n))
  <2> HIDE DEF b
  <2> QED
    BY <1>1, <1>2, <1>3 DEF Bijection, Injection, Surjection, IsInjective
<1>5. IsFiniteSet(1 .. n) /\ Cardinality(1 .. n) = n
  BY FS_Interval
<1>6. ExistsBijection(1 .. n, {k} \X (1 .. n))
  BY <1>4 DEF ExistsBijection
<1> QED
  BY <1>5, <1>6, FS_Bijection

(***************************************************************************)
(* Adding and taking away the bytes of one allocation.                     *)
(***************************************************************************)
LEMMA AddBytes ==
  ASSUME NEW S, IsFiniteSet(S), NEW k, NEW n \in Nat,
         \A i \in 1 .. n : <<k, i>> \notin S
  PROVE  LET T == S \cup ({k} \X (1 .. n)) IN
         IsFiniteSet(T) /\ Cardinality(T) = Cardinality(S) + n
<1> DEFINE B == {k} \X (1 .. n)
<1>1. IsFiniteSet(B) /\ Cardinality(B) = n
  BY BytesOfOne
<1>2. S \cap B = {}
  OBVIOUS
<1>3. Cardinality(S) \in Nat
  BY FS_CardinalityType
<1> HIDE DEF B
<1>4. /\ IsFiniteSet(S \cup B)
      /\ Cardinality(S \cup B)
           = Cardinality(S) + Cardinality(B) - Cardinality(S \cap B)
  BY <1>1, FS_Union
<1>5. Cardinality(S \cap B) = 0
  BY <1>2, FS_EmptySet
<1> QED
  BY <1>1, <1>3, <1>4, <1>5 DEF B

LEMMA TakeBytes ==
  ASSUME NEW S, IsFiniteSet(S), NEW k, NEW n \in Nat,
         {k} \X (1 .. n) \subseteq S
  PROVE  LET T == S \ ({k} \X (1 .. n)) IN
         IsFiniteSet(T) /\ Cardinality(T) + n = Cardinality(S)
<1> DEFINE B == {k} \X (1 .. n)
           T == S \ B
<1>1. IsFiniteSet(T)
  BY FS_Subset
<1>2. T \cup B = S
  OBVIOUS
<1>3. \A i \in 1 .. n : <<k, i>> \notin T
  OBVIOUS
<1> HIDE DEF T
<1>4. Cardinality(T \cup B) = Cardinality(T) + n
  BY <1>1, <1>3, AddBytes
<1> QED
  BY <1>1, <1>2, <1>4 DEF T

-----------------------------------------------------------------------------
(***************************************************************************)
(* The inductive invariant: the accounting, and that what is counted is    *)
(* finite, without which Cardinality means nothing.                        *)
(***************************************************************************)
Accounted(g) ==
  /\ IsFiniteSet(UsedBytes(g))
  /\ vramAvailable[g] + Cardinality(UsedBytes(g)) = VramTotal

Accounting == TypeOK /\ \A g \in Gpu : Accounted(g)

(***************************************************************************)
(* allocate_vram and free_vram keep the account of every GPU, the one they *)
(* work on and the others.                                                 *)
(***************************************************************************)
LEMMA AllocateKeepsAccount ==
  ASSUME Accounting, TypeOK', NEW g \in Gpu, NEW size \in Sizes,
         AllocateVram(g, size), NEW h \in Gpu
  PROVE  Accounted(h)'
<1> USE GpuDriverAssumption
<1> DEFINE k == issued'
<1>1. k \notin DOMAIN allocations
  BY DEF AllocateVram, Accounting, TypeOK
<1>2. /\ DOMAIN allocations' = DOMAIN allocations \cup {k}
      /\ allocations'[k] = [gpu |-> g, size |-> size]
      /\ \A x \in DOMAIN allocations : allocations'[x] = allocations[x]
  BY <1>1 DEF AllocateVram, Insert
<1>3. size \in Nat /\ IsFiniteSet(UsedBytes(h))
  BY DEF Accounting, Accounted
<1>4. CASE h = g
  <2>1. UsedBytes(h)' = UsedBytes(h) \cup ({k} \X (1 .. size))
    BY <1>1, <1>2, <1>4 DEF UsedBytes, BytesOf
  <2>2. \A i \in 1 .. size : <<k, i>> \notin UsedBytes(h)
    BY <1>1 DEF UsedBytes, BytesOf
  <2>3. /\ IsFiniteSet(UsedBytes(h)')
        /\ Cardinality(UsedBytes(h)') = Cardinality(UsedBytes(h)) + size
    <3> DEFINE S == UsedBytes(h)
    <3>1. IsFiniteSet(S) /\ \A i \in 1 .. size : <<k, i>> \notin S
      BY <1>3, <2>2
    <3> HIDE DEF S
    <3>2. LET T == S \cup ({k} \X (1 .. size)) IN
          IsFiniteSet(T) /\ Cardinality(T) = Cardinality(S) + size
      BY <1>3, <3>1, AddBytes
    <3> QED
      BY <2>1, <3>2 DEF S
  <2>4. vramAvailable'[h] = vramAvailable[h] - size /\ vramAvailable[h] \in Nat
    BY <1>4 DEF AllocateVram, Accounting, TypeOK
  <2>5. Cardinality(UsedBytes(h)) \in Nat
    BY <1>3, FS_CardinalityType
  <2> QED
    BY <1>3, <2>3, <2>4, <2>5 DEF Accounting, Accounted
<1>5. CASE h # g
  <2>1. UsedBytes(h)' = UsedBytes(h)
    BY <1>1, <1>2, <1>5 DEF UsedBytes, BytesOf
  <2>2. vramAvailable'[h] = vramAvailable[h]
    BY <1>5 DEF AllocateVram, Accounting, TypeOK
  <2> QED
    BY <2>1, <2>2 DEF Accounting, Accounted
<1> QED
  BY <1>4, <1>5

LEMMA FreeKeepsAccount ==
  ASSUME Accounting, TypeOK', NEW a \in AllocId, FreeVram(a), NEW h \in Gpu
  PROVE  Accounted(h)'
<1> USE GpuDriverAssumption
<1> DEFINE g == allocations[a].gpu
           size == allocations[a].size
<1>1. /\ DOMAIN allocations' = DOMAIN allocations \ {a}
      /\ \A x \in DOMAIN allocations' : allocations'[x] = allocations[x]
      /\ a \in DOMAIN allocations
  BY DEF FreeVram, Remove, Restrict
<1>2. g \in Gpu /\ size \in Nat
  BY <1>1 DEF Accounting, TypeOK, Allocation
<1>3. IsFiniteSet(UsedBytes(h))
  BY DEF Accounting, Accounted
<1>4. CASE h = g
  <2>1. UsedBytes(h)' = UsedBytes(h) \ ({a} \X (1 .. size))
    BY <1>1, <1>4 DEF UsedBytes, BytesOf
  <2>2. {a} \X (1 .. size) \subseteq UsedBytes(h)
    BY <1>1, <1>4 DEF UsedBytes, BytesOf
  <2>3. /\ IsFiniteSet(UsedBytes(h)')
        /\ Cardinality(UsedBytes(h)') + size = Cardinality(UsedBytes(h))
    <3> DEFINE S == UsedBytes(h)
    <3>1. IsFiniteSet(S) /\ {a} \X (1 .. size) \subseteq S
      BY <1>3, <2>2
    <3> HIDE DEF S
    <3>2. LET T == S \ ({a} \X (1 .. size)) IN
          IsFiniteSet(T) /\ Cardinality(T) + size = Cardinality(S)
      BY <1>2, <3>1, TakeBytes
    <3> QED
      BY <2>1, <3>2 DEF S
  <2>4. vramAvailable'[h] = vramAvailable[h] + size /\ vramAvailable[h] \in Nat
    BY <1>4 DEF FreeVram, Accounting, TypeOK
  <2>5. Cardinality(UsedBytes(h)') \in Nat
    BY <2>3, FS_CardinalityType
  <2> QED
    BY <1>2, <2>3, <2>4, <2>5 DEF Accounting, Accounted
<1>5. CASE h # g
  <2>1. UsedBytes(h)' = UsedBytes(h)
    BY <1>1, <1>5 DEF UsedBytes, BytesOf
  <2>2. vramAvailable'[h] = vramAvailable[h]
    BY <1>2, <1>5 DEF FreeVram, Accounting, TypeOK
  <2> QED
    BY <2>1, <2>2 DEF Accounting, Accounted
<1> QED
  BY <1>4, <1>5

(***************************************************************************)
(* Every step keeps the account of every GPU.                              *)
(***************************************************************************)
LEMMA StepKeepsAccounting ==
  ASSUME Accounting, [Next]_driverVars
  PROVE  Accounting'
<1>1. TypeOK'
  BY StepKeepsType DEF Accounting
<1>2. ASSUME NEW g \in Gpu, NEW size \in Sizes, AllocateVram(g, size)
      PROVE  \A h \in Gpu : Accounted(h)'
  BY <1>1, <1>2, AllocateKeepsAccount
<1>3. ASSUME NEW a \in AllocId, FreeVram(a)
      PROVE  \A h \in Gpu : Accounted(h)'
  BY <1>1, <1>3, FreeKeepsAccount
<1>4. ASSUME UNCHANGED <<allocations, vramAvailable>>
      PROVE  \A h \in Gpu : Accounted(h)'
  BY <1>4 DEF Accounting, Accounted, UsedBytes, BytesOf
<1>5. ASSUME NEW g \in Gpu, Submit(g) \/ MarkFaulted(g) \/ ResetDevice(g)
      PROVE  UNCHANGED <<allocations, vramAvailable>>
  BY <1>5 DEF Submit, Accept, Reject, Fail, Lose, MarkFaulted, ResetDevice
<1>6. OtherCall \/ UNCHANGED driverVars => UNCHANGED <<allocations, vramAvailable>>
  BY DEF OtherCall, driverVars
<1> QED
  BY <1>1, <1>2, <1>3, <1>4, <1>5, <1>6 DEF Next, Accounting

LEMMA InitAccounts == ASSUME Init PROVE Accounting
<1>1. TypeOK
  BY GpuDriverAssumption DEF Init, TypeOK, Reply, EmptyTable, IsTable
<1>2. \A g \in Gpu : UsedBytes(g) = {}
  BY DEF Init, UsedBytes, EmptyTable
<1> QED
  BY <1>1, <1>2, FS_EmptySet, GpuDriverAssumption
     DEF Init, Accounting, Accounted

LEMMA AccountingHolds == Spec => []Accounting
<1>1. Init => Accounting
  BY InitAccounts
<1>2. Accounting /\ [Next]_driverVars => Accounting'
  BY StepKeepsAccounting
<1> QED
  BY <1>1, <1>2, PTL DEF Spec

(***************************************************************************)
(* The bytes of every pool are accounted for, always, for every set of     *)
(* devices, every pool size and every history of calls: the VRAM           *)
(* bookkeeping of allocate_vram and free_vram.                             *)
(***************************************************************************)
THEOREM VramAccounted == Spec => []VramAccounting
<1>1. Accounting => VramAccounting
  BY DEF Accounting, Accounted, VramAccounting
<1> QED
  BY <1>1, AccountingHolds, PTL

(***************************************************************************)
(* Freeing never makes more bytes available than the pool has: the sum in  *)
(* free_vram does not go beyond the pool, whatever was freed before.       *)
(***************************************************************************)
NeverAbovePool == \A g \in Gpu : vramAvailable[g] <= VramTotal

LEMMA AccountedPools == ASSUME Accounting PROVE NeverAbovePool
<1> SUFFICES ASSUME NEW g \in Gpu
             PROVE  vramAvailable[g] <= VramTotal
  BY DEF NeverAbovePool
<1>1. Cardinality(UsedBytes(g)) \in Nat
  BY FS_CardinalityType DEF Accounting, Accounted
<1> QED
  BY <1>1, GpuDriverAssumption DEF Accounting, Accounted, TypeOK

(* The same as a theorem of the contract.                                  *)
THEOREM PoolsNeverOverflow == Spec => []NeverAbovePool
<1>1. Accounting => NeverAbovePool
  BY AccountedPools
<1> QED
  BY <1>1, AccountingHolds, PTL

=============================================================================
