------------------------- MODULE CommandStreamProofs -------------------------
(***************************************************************************)
(* validate_stream and translate_ops are loops over the stream.  What they *)
(* compute is proved for streams of any length, by induction on how many   *)
(* operations they have seen.                                              *)
(***************************************************************************)
EXTENDS MCCommandStream, FiniteSetTheorems, WellFoundedInduction, TLAPS

-----------------------------------------------------------------------------
(***************************************************************************)
(* Induction, in a form in which the provers can use it: over a set        *)
(* instead of a predicate.  It comes from the least element of what is not *)
(* in the set.                                                             *)
(***************************************************************************)
LEMMA LeastElement ==
  ASSUME NEW T, T \subseteq Nat, T # {}
  PROVE  \E x \in T : \A y \in T : x <= y
<1>1. PICK R : /\ IsWellFoundedOn(R, Nat)
               /\ \A x, y \in Nat : y < x => <<y, x>> \in R
  <2>1. IsWellFoundedOn(OpToRel(<, Nat), Nat)
    BY NatLessThanWellFounded
  <2>2. \A x, y \in Nat : y < x => <<y, x>> \in OpToRel(<, Nat)
    BY DEF OpToRel
  <2> QED
    BY <2>1, <2>2
<1>2. PICK x \in T : \A y \in T : ~ (<<y, x>> \in R)
  BY <1>1, WFMin
<1>3. ASSUME NEW y \in T PROVE x <= y
  <2>1. x \in Nat /\ y \in Nat
    OBVIOUS
  <2>2. ~ (y < x)
    BY <1>1, <1>2, <2>1
  <2> QED
    BY <2>1, <2>2
<1> QED
  BY <1>3

LEMMA SetInduction ==
  ASSUME NEW S, 0 \in S, \A n \in Nat : n \in S => n + 1 \in S
  PROVE  Nat \subseteq S
<1> DEFINE T == Nat \ S
<1> SUFFICES ASSUME T # {} PROVE FALSE
  OBVIOUS
<1> HIDE DEF T
<1>1. PICK x \in T : \A y \in T : x <= y
  BY LeastElement DEF T
<1>2. x # 0 /\ x - 1 \in Nat /\ x - 1 \in S
  BY <1>1 DEF T
<1>3. (x - 1) + 1 \in S
  BY <1>2
<1> QED
  BY <1>1, <1>3 DEF T

(***************************************************************************)
(* A loop of len iterations over states of type St runs: there is a        *)
(* function from how many iterations were made to the state after them.    *)
(***************************************************************************)
LoopRuns(len, St, init, step) ==
  \E f \in [0 .. len -> St] :
    f[0] = init /\ \A n \in 1 .. len : f[n] = step[<<f[n - 1], n>>]

LEMMA EveryLoopRuns ==
  ASSUME NEW len \in Nat, NEW St, NEW init \in St,
         NEW step, step \in [St \X (1 .. len) -> St]
  PROVE  LoopRuns(len, St, init, step)
<1> DEFINE Run(f, n) ==
             /\ f \in [0 .. n -> St]
             /\ f[0] = init
             /\ \A i \in 1 .. n : f[i] = step[<<f[i - 1], i>>]
           S == {n \in Nat : n <= len => \E f : Run(f, n)}
<1>1. 0 \in S
  <2>1. Run([i \in 0 .. 0 |-> init], 0)
    OBVIOUS
  <2> QED
    BY <2>1
<1>2. ASSUME NEW n \in Nat, n \in S
      PROVE  n + 1 \in S
  <2> SUFFICES ASSUME n + 1 <= len
               PROVE  \E f : Run(f, n + 1)
    BY <1>2
  <2>1. PICK f : Run(f, n)
    BY <1>2
  <2> DEFINE g == [i \in 0 .. n + 1 |-> IF i <= n THEN f[i] ELSE step[<<f[n], n + 1>>]]
  <2>2. f[n] \in St /\ step[<<f[n], n + 1>>] \in St
    BY <2>1
  <2>3. g \in [0 .. n + 1 -> St]
    BY <2>1, <2>2
  <2>4. g[0] = init
    BY <2>1
  <2>5. \A i \in 1 .. n + 1 : g[i] = step[<<g[i - 1], i>>]
    <3>1. ASSUME NEW i \in 1 .. n PROVE g[i] = step[<<g[i - 1], i>>]
      <4>1. g[i] = f[i] /\ g[i - 1] = f[i - 1]
        OBVIOUS
      <4> QED
        BY <2>1, <4>1
    <3>2. g[n + 1] = step[<<g[n], n + 1>>] /\ (n + 1) - 1 = n
      OBVIOUS
    <3>3. \A i \in 1 .. n + 1 : i \in 1 .. n \/ i = n + 1
      OBVIOUS
    <3> HIDE DEF g
    <3> QED
      BY <3>1, <3>2, <3>3
  <2>6. Run(g, n + 1)
    BY <2>3, <2>4, <2>5
  <2> QED
    BY <2>6
<1> HIDE DEF S
<1>3. Nat \subseteq S
  BY <1>1, <1>2, SetInduction
<1>4. PICK f : Run(f, len)
  <2>1. len \in S
    BY <1>3
  <2> QED
    BY <2>1 DEF S
<1> QED
  BY <1>4 DEF LoopRuns

-----------------------------------------------------------------------------
(***************************************************************************)
(* validate_stream: one iteration, and what all of them decide.            *)
(***************************************************************************)
AfterOp(bound, op, d, ps, rs) ==
  IF bound = "Err" \/ ~OpAllowed(op, bound = "Some", d, ps, rs) THEN "Err"
  ELSE IF op.op = "BindPipeline" THEN "Some" ELSE bound

LEMMA ValidationLoop ==
  ASSUME NEW Op, NEW s \in Seq(Op), NEW d, NEW ps, NEW rs
  PROVE  \E f : /\ f[0] = "None"
                /\ \A n \in 1 .. Len(s) : f[n] = AfterOp(f[n - 1], s[n], d, ps, rs)
                /\ ValidateStream(s, d, ps, rs) <=> f[Len(s)] # "Err"
<1> DEFINE L == Len(s)
           Bound == {"None", "Some", "Err"}
           step == [x \in Bound \X (1 .. L) |-> AfterOp(x[1], s[x[2]], d, ps, rs)]
           Is(f) == f = [n \in 0 .. L |-> IF n = 0 THEN "None"
                                         ELSE AfterOp(f[n - 1], s[n], d, ps, rs)]
           after == CHOOSE f : Is(f)
<1>1. L \in Nat /\ "None" \in Bound
  OBVIOUS
<1>2. step \in [Bound \X (1 .. L) -> Bound]
  BY DEF AfterOp
<1>3. PICK f \in [0 .. L -> Bound] :
        f[0] = "None" /\ \A n \in 1 .. L : f[n] = step[<<f[n - 1], n>>]
  <2> HIDE DEF L, Bound, step
  <2>1. LoopRuns(L, Bound, "None", step)
    BY <1>1, <1>2, EveryLoopRuns
  <2> QED
    BY <2>1 DEF LoopRuns
<1>4. \A n \in 1 .. L : step[<<f[n - 1], n>>] = AfterOp(f[n - 1], s[n], d, ps, rs)
  <2> SUFFICES ASSUME NEW n \in 1 .. L
               PROVE  step[<<f[n - 1], n>>] = AfterOp(f[n - 1], s[n], d, ps, rs)
    OBVIOUS
  <2>1. f[n - 1] \in Bound
    BY <1>1
  <2> QED
    BY <2>1
<1>5. Is(f)
  <2>1. \A n \in 0 .. L : f[n] = IF n = 0 THEN "None"
                                 ELSE AfterOp(f[n - 1], s[n], d, ps, rs)
    <3> HIDE DEF step
    <3> QED
      BY <1>3, <1>4
  <2> QED
    BY <1>3, <2>1
<1>6. Is(after)
  <2> HIDE DEF Is
  <2> QED
    BY <1>5
<1>7. ValidateStream(s, d, ps, rs) <=> after[L] # "Err"
  BY DEF ValidateStream, AfterOp
<1>8. after[0] = "None" /\ \A n \in 1 .. L : after[n] = AfterOp(after[n - 1], s[n], d, ps, rs)
  <2> HIDE DEF after
  <2> QED
    BY <1>1, <1>6
<1> QED
  BY <1>7, <1>8

(* A pipeline was bound before the i-th operation.                         *)
BoundBefore(s, i) == \E j \in 1 .. i - 1 : s[j].op = "BindPipeline"

LEMMA ValidationDecides ==
  ASSUME NEW Op, NEW s \in Seq(Op), NEW d, NEW ps, NEW rs
  PROVE  ValidateStream(s, d, ps, rs)
           <=> \A i \in 1 .. Len(s) : OpAllowed(s[i], BoundBefore(s, i), d, ps, rs)
<1> DEFINE Seen(n) == \A i \in 1 .. n : OpAllowed(s[i], BoundBefore(s, i), d, ps, rs)
<1>1. PICK f : /\ f[0] = "None"
               /\ \A n \in 1 .. Len(s) : f[n] = AfterOp(f[n - 1], s[n], d, ps, rs)
               /\ ValidateStream(s, d, ps, rs) <=> f[Len(s)] # "Err"
  BY ValidationLoop
<1> DEFINE Agrees(n) == IF Seen(n)
                        THEN f[n] = IF BoundBefore(s, n + 1) THEN "Some" ELSE "None"
                        ELSE f[n] = "Err"
           S == {n \in Nat : n <= Len(s) => Agrees(n)}
<1>2. 0 \in S
  <2>1. Seen(0) /\ ~BoundBefore(s, 0 + 1)
    BY DEF BoundBefore
  <2> QED
    BY <1>1, <2>1
<1>3. ASSUME NEW n \in Nat, n \in S
      PROVE  n + 1 \in S
  <2> SUFFICES ASSUME n + 1 <= Len(s)
               PROVE  Agrees(n + 1)
    OBVIOUS
  <2>1. Agrees(n) /\ n + 1 \in 1 .. Len(s)
    BY <1>3
  <2>2. f[n + 1] = AfterOp(f[n], s[n + 1], d, ps, rs)
    BY <1>1, <2>1
  <2>3. Seen(n + 1) <=> Seen(n) /\ OpAllowed(s[n + 1], BoundBefore(s, n + 1), d, ps, rs)
    <3>1. \A i \in 1 .. n + 1 : i \in 1 .. n \/ i = n + 1
      OBVIOUS
    <3>2. 1 .. n \subseteq 1 .. n + 1 /\ n + 1 \in 1 .. n + 1
      OBVIOUS
    <3> QED
      BY <3>1, <3>2
  <2>4. BoundBefore(s, n + 2) <=> BoundBefore(s, n + 1) \/ s[n + 1].op = "BindPipeline"
    BY DEF BoundBefore
  <2> HIDE DEF Seen
  <2>5. CASE ~Seen(n)
    BY <2>1, <2>2, <2>3, <2>5 DEF AfterOp
  <2>6. CASE Seen(n) /\ ~OpAllowed(s[n + 1], BoundBefore(s, n + 1), d, ps, rs)
    BY <2>1, <2>2, <2>3, <2>6 DEF AfterOp, OpAllowed
  <2>7. CASE Seen(n) /\ OpAllowed(s[n + 1], BoundBefore(s, n + 1), d, ps, rs)
    BY <2>1, <2>2, <2>3, <2>4, <2>7 DEF AfterOp, OpAllowed
  <2> QED
    BY <2>5, <2>6, <2>7
<1> HIDE DEF S
<1>4. Nat \subseteq S
  BY <1>2, <1>3, SetInduction
<1>5. Agrees(Len(s))
  <2>1. Len(s) \in S
    BY <1>4
  <2> QED
    BY <2>1 DEF S
<1> QED
  BY <1>1, <1>5

(* Every stream that can be recorded is a sequence of operations.          *)
Recorded == ops \in Seq(GraphicsOp(PipelineId, ResourceId))

LEMMA RecordedInit == ASSUME Init PROVE Recorded
BY DEF Init, Recorded

LEMMA RecordedStep == ASSUME Recorded, [Next]_vars PROVE Recorded'
BY DEF Recorded, Next, Record, Push, vars

(***************************************************************************)
(* For streams of any length, over any objects: validate_stream accepts    *)
(* exactly those whose draws come after a binding of a live pipeline of    *)
(* the device, and whose bindings and copies are to live objects.          *)
(***************************************************************************)
THEOREM ValidationExact == Spec => []ValidationIsExact
<1>1. ASSUME Recorded, NEW d \in Device
      PROVE  ValidateStream(ops, d, pipelines, resources)
               <=> DrawsHavePipeline(d) /\ BindingsAreLocal(d) /\ CopiesAreLive
  <2> DEFINE Allowed(i) == OpAllowed(ops[i], BoundBefore(ops, i), d, pipelines, resources)
  <2>1. ValidateStream(ops, d, pipelines, resources) <=> \A i \in 1 .. Len(ops) : Allowed(i)
    BY <1>1, ValidationDecides DEF Recorded
  <2>2. DOMAIN ops = 1 .. Len(ops) /\ Len(ops) \in Nat
    BY <1>1 DEF Recorded
  <2>3. BindingsAreLocal(d) <=>
          \A i \in 1 .. Len(ops) :
            /\ ops[i].op = "BindPipeline" => OwnedBy(pipelines, ops[i].pipeline, d)
            /\ ops[i].op = "BindResource" => OwnedBy(resources, ops[i].resource, d)
    BY <2>2 DEF BindingsAreLocal, OwnedBy
  <2>4. CopiesAreLive <=>
          \A i \in 1 .. Len(ops) :
            ops[i].op = "Copy" => {ops[i].src, ops[i].dst} \subseteq DOMAIN resources
    BY <2>2 DEF CopiesAreLive
  <2>5. ASSUME BindingsAreLocal(d)
        PROVE  DrawsHavePipeline(d) <=>
                 \A i \in 1 .. Len(ops) :
                   ops[i].op \in {"Draw", "Dispatch"} => BoundBefore(ops, i)
    <3>1. ASSUME NEW i \in 1 .. Len(ops), NEW j \in 1 .. i - 1
          PROVE  j \in 1 .. Len(ops)
      BY <2>2
    <3>2. \A j \in 1 .. Len(ops) : ops[j].op = "BindPipeline" =>
            ops[j].pipeline \in DOMAIN pipelines
              /\ pipelines[ops[j].pipeline].device = d
      BY <2>3, <2>5 DEF OwnedBy
    <3> QED
      BY <2>2, <3>1, <3>2 DEF DrawsHavePipeline, BoundBefore
  <2>6. (\A i \in 1 .. Len(ops) : Allowed(i)) <=>
          /\ BindingsAreLocal(d) /\ CopiesAreLive
          /\ \A i \in 1 .. Len(ops) :
               ops[i].op \in {"Draw", "Dispatch"} => BoundBefore(ops, i)
    BY <2>3, <2>4 DEF OpAllowed
  <2> QED
    BY <2>1, <2>5, <2>6
<1>2. Recorded => ValidationIsExact
  BY <1>1 DEF ValidationIsExact
<1> QED
  BY <1>2, RecordedInit, RecordedStep, PTL DEF Spec

-----------------------------------------------------------------------------
(***************************************************************************)
(* translate_ops: the operations it keeps of the first n, and that they    *)
(* are what was collected after n.                                         *)
(***************************************************************************)
KeptOf(s, n) == {i \in 1 .. n : Executed(s[i])}

LEMMA TranslationLoop ==
  ASSUME NEW Op, NEW s \in Seq(Op)
  PROVE  \E f : /\ f \in [0 .. Len(s) -> Seq(Op)]
                /\ f[0] = <<>>
                /\ \A n \in 1 .. Len(s) :
                     f[n] = IF Executed(s[n]) THEN Append(f[n - 1], s[n]) ELSE f[n - 1]
                /\ TranslateOps(s) = f[Len(s)]
<1> DEFINE L == Len(s)
           Next1(c, n) == IF Executed(s[n]) THEN Append(c, s[n]) ELSE c
           step == [x \in Seq(Op) \X (1 .. L) |-> Next1(x[1], x[2])]
           Is(f) == f = [n \in 0 .. L |-> IF n = 0 THEN <<>>
                                         ELSE Next1(f[n - 1], n)]
           driverOps == CHOOSE f : Is(f)
<1>1. L \in Nat /\ <<>> \in Seq(Op)
  OBVIOUS
<1>2. step \in [Seq(Op) \X (1 .. L) -> Seq(Op)]
  OBVIOUS
<1>3. PICK f \in [0 .. L -> Seq(Op)] :
        f[0] = <<>> /\ \A n \in 1 .. L : f[n] = step[<<f[n - 1], n>>]
  <2> HIDE DEF L, step
  <2>1. LoopRuns(L, Seq(Op), <<>>, step)
    BY <1>1, <1>2, EveryLoopRuns
  <2> QED
    BY <2>1 DEF LoopRuns
<1>4. \A n \in 1 .. L : f[n] = Next1(f[n - 1], n)
  <2> SUFFICES ASSUME NEW n \in 1 .. L
               PROVE  step[<<f[n - 1], n>>] = Next1(f[n - 1], n)
    BY <1>3
  <2>1. f[n - 1] \in Seq(Op)
    BY <1>1
  <2> HIDE DEF Next1
  <2> QED
    BY <2>1
<1> HIDE DEF step, Next1
<1>5. Is(f)
  <2>1. \A n \in 0 .. L : f[n] = IF n = 0 THEN <<>> ELSE Next1(f[n - 1], n)
    BY <1>3, <1>4
  <2> QED
    BY <1>3, <2>1
<1>6. ASSUME NEW g, Is(g)
      PROVE  g = f
  <2> DEFINE S == {n \in Nat : n <= L => g[n] = f[n]}
  <2>1. g[0] = <<>> /\ \A n \in 1 .. L : g[n] = Next1(g[n - 1], n)
    BY <1>1, <1>6
  <2>2. 0 \in S
    BY <1>3, <2>1
  <2>3. ASSUME NEW n \in Nat, n \in S
        PROVE  n + 1 \in S
    <3> SUFFICES ASSUME n + 1 <= L PROVE g[n + 1] = f[n + 1]
      OBVIOUS
    <3>1. n + 1 \in 1 .. L /\ (n + 1) - 1 = n /\ g[n] = f[n]
      BY <1>1, <2>3
    <3> QED
      BY <1>4, <2>1, <3>1
  <2> HIDE DEF S
  <2>4. Nat \subseteq S
    BY <2>2, <2>3, SetInduction
  <2>5. \A n \in 0 .. L : g[n] = f[n]
    BY <2>4 DEF S
  <2> QED
    BY <1>3, <1>6, <2>5
<1>7. driverOps = f
  <2> HIDE DEF Is
  <2> QED
    BY <1>5, <1>6
<1>8. TranslateOps(s) = driverOps[L]
  BY DEF TranslateOps, Next1
<1>9. TranslateOps(s) = f[Len(s)]
  BY <1>7, <1>8
<1>10. \A n \in 1 .. Len(s) :
         f[n] = IF Executed(s[n]) THEN Append(f[n - 1], s[n]) ELSE f[n - 1]
  BY <1>4 DEF Next1
<1> QED
  BY <1>3, <1>9, <1>10

(* c holds the operations that are kept of the first n, each at its rank.  *)
Rank(K, i) == Cardinality({j \in K : j <= i})

InOrder(s, n, c) ==
  LET K == KeptOf(s, n)
  IN  /\ IsFiniteSet(K)
      /\ Len(c) = Cardinality(K)
      /\ \A i \in K : c[Rank(K, i)] = s[i]

LEMMA RankInRange ==
  ASSUME NEW K, IsFiniteSet(K), K \subseteq Nat, NEW i \in K
  PROVE  Rank(K, i) \in 1 .. Cardinality(K)
<1> DEFINE B == {j \in K : j <= i}
<1>1. B \subseteq K /\ i \in B
  OBVIOUS
<1> HIDE DEF B
<1>2. IsFiniteSet(B) /\ Cardinality(B) <= Cardinality(K)
  BY <1>1, FS_Subset
<1>3. Cardinality(B) \in Nat /\ Cardinality(K) \in Nat /\ Cardinality(B) # 0
  BY <1>1, <1>2, FS_CardinalityType, FS_EmptySet
<1> QED
  BY <1>2, <1>3 DEF Rank, B

LEMMA KeepNext ==
  ASSUME NEW Op, NEW s \in Seq(Op), NEW n \in Nat, n + 1 <= Len(s),
         NEW c \in Seq(Op), InOrder(s, n, c), Executed(s[n + 1])
  PROVE  InOrder(s, n + 1, Append(c, s[n + 1]))
<1> DEFINE K == KeptOf(s, n)
           M == KeptOf(s, n + 1)
           e == Append(c, s[n + 1])
<1>1. M = K \cup {n + 1} /\ n + 1 \notin K /\ K \subseteq 1 .. n
  BY DEF KeptOf
<1>2. IsFiniteSet(K) /\ Len(c) = Cardinality(K) /\ \A i \in K : c[Rank(K, i)] = s[i]
  BY DEF InOrder
<1>3. s[n + 1] \in Op
  OBVIOUS
<1>4. /\ Len(e) = Len(c) + 1 /\ e[Len(c) + 1] = s[n + 1]
      /\ \A k \in 1 .. Len(c) : e[k] = c[k]
  BY <1>3
<1> HIDE DEF K, M, e
<1>5. IsFiniteSet(M) /\ Cardinality(M) = Cardinality(K) + 1
  BY <1>1, <1>2, FS_AddElement
<1>6. ASSUME NEW i \in K PROVE e[Rank(M, i)] = s[i]
  <2>1. {j \in M : j <= i} = {j \in K : j <= i}
    BY <1>1
  <2>2. Rank(M, i) = Rank(K, i)
    BY <2>1 DEF Rank
  <2>3. Rank(K, i) \in 1 .. Len(c)
    <3>1. K \subseteq Nat /\ IsFiniteSet(K)
      BY <1>1, <1>2
    <3>2. Rank(K, i) \in 1 .. Cardinality(K)
      BY <3>1, RankInRange
    <3> QED
      BY <1>2, <3>2
  <2> QED
    BY <1>2, <1>4, <2>2, <2>3
<1>7. e[Rank(M, n + 1)] = s[n + 1]
  <2>1. {j \in M : j <= n + 1} = M
    <3>1. \A j \in M : j <= n + 1
      BY <1>1
    <3> QED
      BY <3>1
  <2>2. Rank(M, n + 1) = Len(c) + 1
    BY <1>2, <1>5, <2>1 DEF Rank
  <2> QED
    BY <1>4, <2>2
<1>8. \A i \in M : e[Rank(M, i)] = s[i]
  BY <1>1, <1>6, <1>7
<1> QED
  BY <1>2, <1>4, <1>5, <1>8 DEF InOrder, M, e

LEMMA TranslationInOrder ==
  ASSUME NEW Op, NEW s \in Seq(Op)
  PROVE  InOrder(s, Len(s), TranslateOps(s))
<1>1. PICK f : /\ f \in [0 .. Len(s) -> Seq(Op)]
               /\ f[0] = <<>>
               /\ \A n \in 1 .. Len(s) :
                    f[n] = IF Executed(s[n]) THEN Append(f[n - 1], s[n]) ELSE f[n - 1]
               /\ TranslateOps(s) = f[Len(s)]
  BY TranslationLoop
<1> DEFINE S == {n \in Nat : n <= Len(s) => InOrder(s, n, f[n])}
<1>2. 0 \in S
  <2>1. KeptOf(s, 0) = {}
    BY DEF KeptOf
  <2>2. IsFiniteSet(KeptOf(s, 0)) /\ Cardinality(KeptOf(s, 0)) = 0
    BY <2>1, FS_EmptySet
  <2>3. Len(f[0]) = 0
    BY <1>1
  <2>4. InOrder(s, 0, f[0])
    BY <2>1, <2>2, <2>3 DEF InOrder
  <2> QED
    BY <2>4
<1>3. ASSUME NEW n \in Nat, n \in S
      PROVE  n + 1 \in S
  <2> SUFFICES ASSUME n + 1 <= Len(s)
               PROVE  InOrder(s, n + 1, f[n + 1])
    OBVIOUS
  <2>1. InOrder(s, n, f[n]) /\ f[n] \in Seq(Op)
    BY <1>1, <1>3
  <2>2. f[n + 1] = IF Executed(s[n + 1]) THEN Append(f[n], s[n + 1]) ELSE f[n]
    <3>1. n + 1 \in 1 .. Len(s) /\ (n + 1) - 1 = n
      OBVIOUS
    <3> QED
      BY <1>1, <3>1
  <2>3. CASE Executed(s[n + 1])
    BY <2>1, <2>2, <2>3, KeepNext
  <2>4. CASE ~Executed(s[n + 1])
    <3>1. KeptOf(s, n + 1) = KeptOf(s, n)
      BY <2>4 DEF KeptOf
    <3> QED
      BY <2>1, <2>2, <2>4, <3>1 DEF InOrder
  <2> QED
    BY <2>3, <2>4
<1> HIDE DEF S
<1>4. Nat \subseteq S
  BY <1>2, <1>3, SetInduction
<1>5. Len(s) \in S
  BY <1>4
<1>6. InOrder(s, Len(s), f[Len(s)])
  BY <1>5 DEF S
<1> QED
  BY <1>1, <1>6

(***************************************************************************)
(* For streams of any length: the driver is given every operation of the   *)
(* stream that is not a binding, once and in the order of the stream.      *)
(***************************************************************************)
THEOREM TranslationOrdered == Spec => []TranslationKeepsOrder
<1>1. ASSUME Recorded PROVE TranslationKeepsOrder
  <2> DEFINE kept == {i \in DOMAIN ops :
                       ops[i].op \in {"Draw", "Dispatch", "Copy", "Barrier"}}
  <2>1. kept = KeptOf(ops, Len(ops))
    <3>1. \A i \in 1 .. Len(ops) : ops[i].op \in {"BindPipeline", "BindResource", "Copy",
                                                  "Draw", "Dispatch", "Barrier"}
      <4>1. \A op \in GraphicsOp(PipelineId, ResourceId) :
              op.op \in {"BindPipeline", "BindResource", "Copy", "Draw", "Dispatch",
                         "Barrier"}
        BY DEF GraphicsOp, BindPipeline, BindResource, Copy, Draw, Dispatch, Barrier
      <4> QED
        BY <1>1, <4>1 DEF Recorded
    <3>2. DOMAIN ops = 1 .. Len(ops)
      BY <1>1 DEF Recorded
    <3> QED
      BY <3>1, <3>2 DEF KeptOf, Executed
  <2>2. InOrder(ops, Len(ops), TranslateOps(ops))
    BY <1>1, TranslationInOrder DEF Recorded
  <2> HIDE DEF kept
  <2>3. /\ Len(TranslateOps(ops)) = Cardinality(kept)
        /\ \A i \in kept : TranslateOps(ops)[Rank(kept, i)] = ops[i]
    BY <2>1, <2>2 DEF InOrder
  <2> QED
    BY <2>3 DEF TranslationKeepsOrder, kept, Rank
<1> QED
  BY <1>1, RecordedInit, RecordedStep, PTL DEF Spec

=============================================================================
