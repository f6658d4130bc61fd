----------------------- MODULE SoftwareGpuDriverProofs -----------------------
(***************************************************************************)
(* The reference driver implements the contract, for every set of devices, *)
(* every pool size and any number of allocations: every call is the call   *)
(* of the same name of GpuDriver, seen without the addresses.              *)
(***************************************************************************)
EXTENDS SoftwareGpuDriver, TLAPS

(***************************************************************************)
(* What the refinement needs of a state: the allocations are a table of    *)
(* records with a device, and the other variables have their types.        *)
(***************************************************************************)
Shape ==
  /\ issued \in 0 .. MaxAllocs
  /\ DOMAIN allocations \subseteq 1 .. issued
  /\ \A a \in DOMAIN allocations : allocations[a].gpu \in Gpu
  /\ IsTable(allocations)
  /\ faulted \in [Gpu -> BOOLEAN]

LEMMA StepKeepsShape ==
  ASSUME Shape, [Next]_vars
  PROVE  Shape'
<1> USE SoftwareGpuDriverAssumption
<1>1. ASSUME NEW g \in Gpu, NEW size \in Sizes, AllocateVram(g, size)
      PROVE  Shape'
  <2>1. /\ DOMAIN allocations' = DOMAIN allocations \cup {issued'}
        /\ allocations'[issued'].gpu = g
        /\ \A x \in DOMAIN allocations \ {issued'} :
             allocations'[x] = allocations[x]
        /\ IsTable(allocations')
    BY <1>1 DEF AllocateVram, Insert, IsTable
  <2>2. issued' = issued + 1 /\ issued' \in 0 .. MaxAllocs
    BY <1>1 DEF AllocateVram, Shape
  <2> QED
    BY <1>1, <2>1, <2>2 DEF AllocateVram, Shape
<1>2. ASSUME NEW a \in 1 .. MaxAllocs, FreeVram(a)
      PROVE  Shape'
  <2>1. /\ DOMAIN allocations' = DOMAIN allocations \ {a}
        /\ \A x \in DOMAIN allocations' : allocations'[x] = allocations[x]
        /\ IsTable(allocations')
    BY <1>2 DEF FreeVram, Remove, Restrict, IsTable
  <2> QED
    BY <1>2, <2>1 DEF FreeVram, Shape
<1>3. ASSUME NEW g \in Gpu,
             \/ Initialize(g) \/ Shutdown(g) \/ Submit(g)
             \/ InjectFault(g) \/ ResetDevice(g)
      PROVE  Shape'
  BY <1>3 DEF Initialize, Shutdown, Submit, InjectFault, ResetDevice, Shape
<1>4. CASE UNCHANGED vars
  BY <1>4 DEF vars, Shape
<1> QED
  BY <1>1, <1>2, <1>3, <1>4 DEF Next

-----------------------------------------------------------------------------
(***************************************************************************)
(* The two calls that change the table change it the same way without the  *)
(* addresses.                                                              *)
(***************************************************************************)
LEMMA AllocateRefines ==
  ASSUME Shape, NEW g \in Gpu, NEW size \in Sizes, AllocateVram(g, size)
  PROVE  Contract!AllocateVram(g, size)
<1>1. issued' \notin DOMAIN allocations
  BY DEF AllocateVram, Shape
<1>2. /\ DOMAIN allocations' = DOMAIN allocations \cup {issued'}
      /\ allocations'[issued'].gpu = g
      /\ allocations'[issued'].size = size
      /\ \A x \in DOMAIN allocations : allocations'[x] = allocations[x]
  BY <1>1 DEF AllocateVram, Insert
<1>3. WithoutAddress'
        = Contract!Insert(WithoutAddress, issued', [gpu |-> g, size |-> size])
  BY <1>1, <1>2 DEF WithoutAddress, Contract!Insert
<1> QED
  BY <1>3 DEF AllocateVram, Fits, Contract!AllocateVram, Contract!Fits,
              Contract!NoReply

LEMMA FreeRefines ==
  ASSUME Shape, NEW a, FreeVram(a)
  PROVE  Contract!FreeVram(a)
<1>1. /\ DOMAIN allocations' = DOMAIN allocations \ {a}
      /\ \A x \in DOMAIN allocations' : allocations'[x] = allocations[x]
      /\ a \in DOMAIN allocations
  BY DEF FreeVram, Remove, Restrict
<1>2. WithoutAddress' = Contract!Remove(WithoutAddress, a)
  BY <1>1 DEF WithoutAddress, Contract!Remove, Contract!Restrict
<1>3. /\ DOMAIN WithoutAddress = DOMAIN allocations
      /\ WithoutAddress[a].gpu = allocations[a].gpu
      /\ WithoutAddress[a].size = allocations[a].size
  BY <1>1 DEF WithoutAddress
<1> QED
  BY <1>1, <1>2, <1>3 DEF FreeVram, Contract!FreeVram, Contract!NoReply

LEMMA StepRefines ==
  ASSUME Shape, [Next]_vars
  PROVE  [Contract!Next]_(Contract!driverVars)
<1>1. ASSUME NEW g \in Gpu, NEW size \in Sizes, AllocateVram(g, size)
      PROVE  Contract!Next
  BY <1>1, AllocateRefines DEF Contract!Next
<1>2. ASSUME NEW a \in 1 .. MaxAllocs, FreeVram(a)
      PROVE  Contract!Next
  BY <1>2, FreeRefines DEF Contract!Next, Contract!AllocId
<1>3. ASSUME UNCHANGED allocations
      PROVE  UNCHANGED WithoutAddress
  BY <1>3 DEF WithoutAddress
<1>4. ASSUME NEW g \in Gpu, Submit(g)
      PROVE  Contract!Next
  <2>1. Contract!Accept(g) \/ Contract!Reject(g)
    BY <1>3, <1>4 DEF Shape, Submit, Contract!Accept, Contract!Reject
  <2> QED
    BY <2>1 DEF Contract!Next, Contract!Submit
<1>5. ASSUME NEW g \in Gpu, InjectFault(g)
      PROVE  Contract!Next
  BY <1>3, <1>5 DEF InjectFault, Contract!MarkFaulted, Contract!NoReply,
                    Contract!Next
<1>6. ASSUME NEW g \in Gpu, ResetDevice(g)
      PROVE  Contract!Next
  BY <1>3, <1>6 DEF ResetDevice, Contract!ResetDevice, Contract!NoReply,
                    Contract!Next
<1>7. ASSUME NEW g \in Gpu, Initialize(g) \/ Shutdown(g)
      PROVE  Contract!Next
  BY <1>3, <1>7 DEF Initialize, Shutdown, Contract!OtherCall,
                    Contract!NoReply, Contract!Next
<1>8. CASE UNCHANGED vars
  BY <1>3, <1>8 DEF vars, Contract!driverVars
<1> QED
  BY <1>1, <1>2, <1>4, <1>5, <1>6, <1>7, <1>8 DEF Next

(***************************************************************************)
(* SoftwareGpuDriver keeps the contract of the trait GpuDriver: whatever a *)
(* caller does, it sees a behaviour of the contract.                       *)
(***************************************************************************)
THEOREM SoftwareDriverImplementsContract == Spec => ImplementsContract
<1>1. Init => Shape
  BY SoftwareGpuDriverAssumption DEF Init, Shape, EmptyTable, IsTable
<1>2. Shape /\ [Next]_vars => Shape'
  BY StepKeepsShape
<1>3. Init => Contract!Init
  BY DEF Init, EmptyTable, WithoutAddress, Contract!Init,
         Contract!EmptyTable, Contract!NoReply
<1>4. Shape /\ [Next]_vars => [Contract!Next]_(Contract!driverVars)
  BY StepRefines
<1> QED
  BY <1>1, <1>2, <1>3, <1>4, PTL DEF Spec, ImplementsContract, Contract!Spec

-----------------------------------------------------------------------------
(***************************************************************************)
(* The accounting of the contract, of which the addresses are made.  What  *)
(* GpuDriverProofs shows of every step of the contract holds of the steps  *)
(* of the driver, which are steps of the contract.                         *)
(***************************************************************************)
Accounts == INSTANCE GpuDriverProofs WITH allocations <- WithoutAddress

LEMMA StepsAccount ==
  ASSUME Shape, [Next]_vars, Accounts!Accounting
  PROVE  Accounts!Accounting'
<1>1. [Contract!Next]_(Contract!driverVars)
  BY StepRefines
<1>2. [Accounts!Next]_(Accounts!driverVars)
  BY <1>1
     DEF Contract!Next, Contract!AllocateVram, Contract!Fits, Contract!Insert,
         Contract!FreeVram, Contract!Remove, Contract!Restrict, Contract!Submit,
         Contract!Accept, Contract!Reject, Contract!Fail, Contract!Lose,
         Contract!MarkFaulted, Contract!ResetDevice, Contract!OtherCall,
         Contract!NoReply, Contract!AllocId, Contract!driverVars,
         Accounts!Next, Accounts!AllocateVram, Accounts!Fits, Accounts!Insert,
         Accounts!FreeVram, Accounts!Remove, Accounts!Restrict, Accounts!Submit,
         Accounts!Accept, Accounts!Reject, Accounts!Fail, Accounts!Lose,
         Accounts!MarkFaulted, Accounts!ResetDevice, Accounts!OtherCall,
         Accounts!NoReply, Accounts!AllocId, Accounts!driverVars
<1> QED
  BY <1>2, SoftwareGpuDriverAssumption, Accounts!StepKeepsAccounting
     DEF Accounts!GpuDriverAssumption

LEMMA InitAccounts == ASSUME Init PROVE Accounts!Accounting
<1>1. Accounts!Init
  BY DEF Init, EmptyTable, WithoutAddress, Accounts!Init, Accounts!EmptyTable,
         Accounts!NoReply
<1> QED
  BY <1>1, SoftwareGpuDriverAssumption, Accounts!InitAccounts
     DEF Accounts!GpuDriverAssumption

(***************************************************************************)
(* Where the allocations are.  The address of a new one is the number of   *)
(* bytes in use, and it is given only what is not.                         *)
(***************************************************************************)
Addressed ==
  \A a \in DOMAIN allocations :
    /\ allocations[a] \in [gpu : Gpu, size : Sizes, address : Nat]
    /\ allocations[a].address + allocations[a].size <= VramTotal

Inside ==
  /\ Shape /\ Accounts!Accounting /\ Addressed
  /\ initialized \in [Gpu -> BOOLEAN]

LEMMA StepKeepsAddressed ==
  ASSUME Inside, [Next]_vars
  PROVE  Addressed'
<1> USE SoftwareGpuDriverAssumption DEF Inside
<1>1. ASSUME NEW g \in Gpu, NEW size \in Sizes, AllocateVram(g, size)
      PROVE  Addressed'
  <2>1. vramAvailable[g] \in Nat /\ vramAvailable[g] <= VramTotal
    BY Accounts!AccountedPools
       DEF Accounts!GpuDriverAssumption, Accounts!Accounting, Accounts!TypeOK,
           Accounts!NeverAbovePool
  <2> DEFINE new == [gpu |-> g, size |-> size, address |-> DeviceAddress(g)]
  <2>2. /\ DOMAIN allocations' = DOMAIN allocations \cup {issued'}
        /\ allocations'[issued'] = new
        /\ \A x \in DOMAIN allocations \ {issued'} :
             allocations'[x] = allocations[x]
    BY <1>1 DEF AllocateVram, Insert
  <2>3. /\ new \in [gpu : Gpu, size : Sizes, address : Nat]
        /\ new.address + new.size <= VramTotal
    BY <1>1, <2>1 DEF AllocateVram, Fits, DeviceAddress
  <2> HIDE DEF new
  <2> QED
    BY <2>2, <2>3 DEF Addressed
<1>2. ASSUME NEW a \in 1 .. MaxAllocs, FreeVram(a)
      PROVE  Addressed'
  <2>1. /\ DOMAIN allocations' \subseteq DOMAIN allocations
        /\ \A x \in DOMAIN allocations' : allocations'[x] = allocations[x]
    BY <1>2 DEF FreeVram, Remove, Restrict
  <2> QED
    BY <2>1 DEF Addressed
<1>3. ASSUME NEW g \in Gpu,
             \/ Initialize(g) \/ Shutdown(g) \/ Submit(g)
             \/ InjectFault(g) \/ ResetDevice(g)
      PROVE  Addressed'
  BY <1>3 DEF Initialize, Shutdown, Submit, InjectFault, ResetDevice, Addressed
<1>4. CASE UNCHANGED vars
  BY <1>4 DEF vars, Addressed
<1> QED
  BY <1>1, <1>2, <1>3, <1>4 DEF Next

LEMMA StepKeepsInside ==
  ASSUME Inside, [Next]_vars
  PROVE  Inside'
<1>1. Shape' /\ Accounts!Accounting'
  BY StepKeepsShape, StepsAccount DEF Inside
<1>2. Addressed'
  BY StepKeepsAddressed
<1>3. initialized' \in [Gpu -> BOOLEAN]
  BY DEF Inside, Next, Initialize, Shutdown, AllocateVram, FreeVram, Submit,
         InjectFault, ResetDevice, vars
<1> QED
  BY <1>1, <1>2, <1>3 DEF Inside

LEMMA InitIsInside == Init => Inside
BY InitAccounts, SoftwareGpuDriverAssumption
   DEF Init, Inside, Shape, Addressed, EmptyTable, IsTable

LEMMA InsideHolds == Spec => []Inside
<1>1. Init => Inside
  BY InitIsInside
<1>2. Inside /\ [Next]_vars => Inside'
  BY StepKeepsInside
<1> QED
  BY <1>1, <1>2, PTL DEF Spec

LEMMA InsideIsTyped == ASSUME Inside PROVE TypeOK
<1>1. Accounts!TypeOK => Contract!TypeOK
  BY DEF Accounts!TypeOK, Accounts!Allocation, Accounts!IsTable,
         Accounts!Reply, Accounts!NoReply, Accounts!Outcome,
         Contract!TypeOK, Contract!Allocation, Contract!IsTable,
         Contract!Reply, Contract!NoReply, Contract!Outcome
<1> QED
  BY <1>1 DEF Inside, Shape, Addressed, TypeOK, Accounts!Accounting

(***************************************************************************)
(* Type correctness of the driver's state; that addresses are numbers is   *)
(* because a pool never has more available than it was made with.          *)
(***************************************************************************)
THEOREM TypeCorrect == Spec => []TypeOK
<1>1. Inside => TypeOK
  BY InsideIsTyped
<1> QED
  BY <1>1, InsideHolds, PTL

(***************************************************************************)
(* The range map_dma reports for a live allocation lies inside the pool,   *)
(* for any pool size and any history of allocations and frees.             *)
(***************************************************************************)
THEOREM MappingsStayInside == Spec => []MappingInsidePool
<1>1. Inside => MappingInsidePool
  BY SoftwareGpuDriverAssumption DEF Inside, Addressed, MappingInsidePool
<1> QED
  BY <1>1, InsideHolds, PTL

(***************************************************************************)
(* Every byte of every pool of the reference driver is available or held   *)
(* by exactly one allocation: the accounting of the contract holds of it.  *)
(***************************************************************************)
THEOREM PoolsAccounted == Spec => []Accounts!VramAccounting
<1>1. Accounts!Accounting => Accounts!VramAccounting
  BY DEF Accounts!Accounting, Accounts!Accounted, Accounts!VramAccounting
<1>2. Inside => Accounts!VramAccounting
  BY <1>1 DEF Inside
<1> QED
  BY <1>2, InsideHolds, PTL

=============================================================================
