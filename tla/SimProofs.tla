----------------------------- MODULE SimProofs -----------------------------
(***************************************************************************)
(* Theorems about the scheduling simulators: while a tick is run the best  *)
(* processes run; nobody is lost between arrival and queues; the waiting   *)
(* times shown are those that were waited.  For every table, number of     *)
(* CPUs and quantum.                                                       *)
(*                                                                         *)
(* First finite orders, then the multiprocessor simulators (MultiSim),     *)
(* then those for one CPU (UniSim).                                        *)
(***************************************************************************)
EXTENDS MCSims, FiniteSetTheorems, TLAPS

(* R is a strict order of S. *)
Ordered(S, R) ==
  /\ \A x \in S : <<x, x>> \notin R
  /\ \A x, y \in S : x = y \/ <<x, y>> \in R \/ <<y, x>> \in R
  /\ \A x, y, z \in S : <<x, y>> \in R /\ <<y, z>> \in R => <<x, z>> \in R

(* Those before x *)
Below(S, R, x) == {y \in S : <<y, x>> \in R}

(* How many are before it tells an element of an ordered set. *)
LEMMA Ranks ==
  ASSUME NEW S, IsFiniteSet(S), NEW R, Ordered(S, R)
  PROVE  /\ Cardinality(S) \in Nat
         /\ \A k \in 1 .. Cardinality(S) : \E x \in S : Cardinality(Below(S, R, x)) = k - 1
         /\ \A x \in S : \E k \in 1 .. Cardinality(S) : Cardinality(Below(S, R, x)) = k - 1
         /\ \A x, z \in S : Cardinality(Below(S, R, x)) = Cardinality(Below(S, R, z)) => x = z
<1> DEFINE n == Cardinality(S)
           below(x) == {y \in S : <<y, x>> \in R}
           f == [x \in S |-> Cardinality(below(x))]
<1>1. n \in Nat
  BY FS_CardinalityType
<1>2. ASSUME NEW x \in S
      PROVE  IsFiniteSet(below(x)) /\ Cardinality(below(x)) \in Nat /\ Cardinality(below(x)) \in 0 .. n - 1
  <2>1. IsFiniteSet(S \ {x}) /\ Cardinality(S \ {x}) = n - 1
    BY FS_RemoveElement
  <2>2. below(x) \subseteq S \ {x}
    BY DEF Ordered
  <2>3. IsFiniteSet(below(x)) /\ Cardinality(below(x)) <= Cardinality(S \ {x})
    BY <2>1, <2>2, FS_Subset
  <2>4. Cardinality(below(x)) \in Nat
    BY <2>3, FS_CardinalityType
  <2>5. QED
    BY <1>1, <2>1, <2>3, <2>4
<1>3. ASSUME NEW x \in S, NEW z \in S, <<x, z>> \in R
      PROVE  Cardinality(below(x)) < Cardinality(below(z))
  <2>1. x \in below(z) /\ IsFiniteSet(below(z))
    BY <1>2, <1>3
  <2>2. IsFiniteSet(below(z) \ {x}) /\ Cardinality(below(z) \ {x}) = Cardinality(below(z)) - 1
    BY <2>1, FS_RemoveElement
  <2>3. below(x) \subseteq below(z) \ {x}
    BY <1>3 DEF Ordered
  <2>4. Cardinality(below(x)) <= Cardinality(below(z) \ {x})
    BY <2>2, <2>3, FS_Subset
  <2>5. Cardinality(below(x)) \in Nat /\ Cardinality(below(z)) \in Nat
    BY <1>2
  <2>6. QED
    BY <2>2, <2>4, <2>5
<1>4. ASSUME NEW x \in S, NEW z \in S, Cardinality(below(x)) = Cardinality(below(z)) PROVE x = z
  <2>1. Cardinality(below(x)) \in Nat /\ Cardinality(below(z)) \in Nat
    BY <1>2
  <2>2. ~(<<x, z>> \in R) /\ ~(<<z, x>> \in R)
    BY <1>3, <1>4, <2>1
  <2>3. QED
    BY <2>2 DEF Ordered
<1>5. f \in Injection(S, 0 .. n - 1)
  <2>1. f \in [S -> 0 .. n - 1]
    BY <1>2
  <2>2. \A x, z \in S : f[x] = f[z] => x = z
    BY <1>4
  <2>3. QED
    BY <2>1, <2>2 DEF Injection, IsInjective
<1>6. IsFiniteSet(0 .. n - 1) /\ Cardinality(0 .. n - 1) = n
  <2>1. 0 \in Int /\ n - 1 \in Int
    BY <1>1
  <2>2. IsFiniteSet(0 .. n - 1) /\ Cardinality(0 .. n - 1) = IF 0 > n - 1 THEN 0 ELSE n - 1 - 0 + 1
    BY <2>1, FS_Interval
  <2>3. QED
    BY <1>1, <2>2
<1>7. f \in Surjection(S, 0 .. n - 1)
  BY <1>5, <1>6, FS_Injection
<1>8. ASSUME NEW k \in 1 .. n PROVE \E x \in S : Cardinality(below(x)) = k - 1
  <2>1. k - 1 \in 0 .. n - 1
    BY <1>1
  <2>2. \E x \in S : f[x] = k - 1
    BY <1>7, <2>1 DEF Surjection
  <2>3. QED
    BY <2>2
<1>9. ASSUME NEW x \in S PROVE \E k \in 1 .. n : Cardinality(below(x)) = k - 1
  <2>1. PICK c \in 0 .. n - 1 : c = Cardinality(below(x))
    BY <1>2
  <2>2. c + 1 \in 1 .. n /\ c = (c + 1) - 1
    BY <1>1
  <2>3. QED
    BY <2>1, <2>2
<1>10. QED
  BY <1>1, <1>4, <1>8, <1>9 DEF Below

(* InOrder() lists a set, each element once. *)
LEMMA InOrderLists ==
  ASSUME NEW S, IsFiniteSet(S), NEW R, Ordered(S, R)
  PROVE  LET s == InOrder(S, R) IN
         /\ s \in Seq(S)
         /\ \A k, m \in 1 .. Len(s) : s[k] = s[m] => k = m
         /\ \A x \in S : \E k \in 1 .. Len(s) : s[k] = x
<1> DEFINE s == InOrder(S, R)
           n == Cardinality(S)
           below(x) == Below(S, R, x)
<1>1. /\ n \in Nat
      /\ \A k \in 1 .. n : \E x \in S : Cardinality(below(x)) = k - 1
      /\ \A x \in S : \E k \in 1 .. n : Cardinality(below(x)) = k - 1
      /\ \A x, z \in S : Cardinality(below(x)) = Cardinality(below(z)) => x = z
  BY Ranks
<1>2. s = [k \in 1 .. n |-> CHOOSE x \in S : Cardinality(below(x)) = k - 1]
  BY DEF InOrder, Below
<1> HIDE DEF s, below
<1>3. \A k \in 1 .. n : s[k] \in S /\ Cardinality(below(s[k])) = k - 1
  BY <1>1, <1>2
<1>4. s \in [1 .. n -> S]
  BY <1>2, <1>3
<1>5. s \in Seq(S) /\ Len(s) = n
  BY <1>1, <1>4
<1>6. \A k, m \in 1 .. n : s[k] = s[m] => k = m
  BY <1>1, <1>3
<1>7. ASSUME NEW x \in S PROVE \E k \in 1 .. n : s[k] = x
  <2>1. PICK k \in 1 .. n : Cardinality(below(x)) = k - 1
    BY <1>1
  <2>2. s[k] = x
    BY <1>1, <1>3, <2>1
  <2>3. QED
    BY <2>2
<1>8. QED
  BY <1>5, <1>6, <1>7 DEF s

(* A finite ordered set has a first element. *)
LEMMA FirstThere ==
  ASSUME NEW S, IsFiniteSet(S), S # {}, NEW R, Ordered(S, R)
  PROVE  \E x \in S : \A y \in S \ {x} : <<x, y>> \in R
<1>1. Cardinality(S) \in Nat /\ Cardinality(S) # 0
  BY FS_EmptySet, FS_CardinalityType
<1>2. 1 \in 1 .. Cardinality(S)
  BY <1>1
<1>3. PICK x \in S : Cardinality(Below(S, R, x)) = 1 - 1
  BY <1>2, Ranks
<1>4. IsFiniteSet(Below(S, R, x))
  <2>1. Below(S, R, x) \in SUBSET S
    BY DEF Below
  <2>2. QED
    BY <2>1, FS_Subset
<1>5. Below(S, R, x) = {}
  BY <1>3, <1>4, FS_EmptySet
<1>6. QED
  BY <1>5 DEF Ordered, Below

(* Types *)
MsTypeOK ==
  /\ sim \in Simulations
  /\ tstate \in [Ps -> {"ready", "running", "finished"}]
  /\ remaining \in [Ps -> Int] /\ level \in [Ps -> Int] /\ start \in [Ps -> Int]
  /\ finish \in [Ps -> Int] /\ waited \in [Ps -> Int]
  /\ cpu_id \in [Ps -> CPUs \cup {0}] /\ current \in [CPUs -> Ps \cup {0}]
  /\ quantum \in [CPUs -> Int] /\ clock \in Nat /\ todo \in Seq(Nat)

(* A CPU and its process agree. *)
BusyInv ==
  /\ \A i \in CPUs : current[i] # 0 => tstate[current[i]] = "running" /\ cpu_id[current[i]] = i
  /\ \A p \in Ps : tstate[p] = "running" => cpu_id[p] \in CPUs /\ current[cpu_id[p]] = p

(* A loop over the CPUs goes from the first to the last. *)
InLoop ==
  /\ Len(todo) <= sim.cpus
  /\ \A k \in 1 .. Len(todo) : todo[k] = sim.cpus - Len(todo) + k

(* The loops have looked at what is not in todo. *)
LoopInv ==
  /\ phase = "done" => \A p \in Ps : tstate[p] = "finished"
  /\ phase \in {"assign", "run"} => InLoop
  /\ phase = "preempt" =>
       /\ sim.policy = "ayush_rms"
       /\ \A k \in 1 .. Len(todo) : todo[k] \in Ready
       /\ \A k, m \in 1 .. Len(todo) : todo[k] = todo[m] => k = m

(* No process that waits should have CPU i. *)
Good(i) ==
  \A p \in Ready : current[i] # 0 /\ (sim.policy \in Preemptive => Rank(current[i]) <= Rank(p))

(* No process should run instead of p. *)
Rightly(p) == \A i \in CPUs : current[i] # 0 /\ Rank(current[i]) <= Rank(p)

(* What the loops have looked at is settled. *)
BestInv ==
  /\ phase = "preempt" =>
       \A p \in Ready : (\A k \in 1 .. Len(todo) : todo[k] # p) => Rightly(p)
  /\ phase = "assign" =>
       \A i \in CPUs : sim.policy = "ayush_rms" \/ i <= sim.cpus - Len(todo) => Good(i)
  /\ phase = "run" /\ Len(todo) = sim.cpus => \A i \in CPUs : Good(i)

(* The ticks that p waited or ran *)
Spent(p) == waited[p] + sim.table[p].burst - remaining[p]

(* The tick of this cycle is still to be run by p. *)
ToRun(p) == tstate[p] = "running" /\ cpu_id[p] > sim.cpus - Len(todo)

(* The ticks since its arrival *)
Passed(p) ==
  IF phase = "run" /\ ~ToRun(p) THEN clock - sim.table[p].arrival + 1
  ELSE clock - sim.table[p].arrival

(* Since its arrival a process has waited or run in every tick. *)
WaitInv ==
  \A p \in Ps :
    /\ tstate[p] = "finished" => waited[p] = finish[p] - sim.table[p].arrival - sim.table[p].burst
    /\ tstate[p] # "finished" /\ sim.table[p].arrival > clock => tstate[p] = "ready" /\ Spent(p) = 0
    /\ tstate[p] # "finished" /\ sim.table[p].arrival <= clock => Spent(p) = Passed(p)

(* The invariant of the multiprocessor simulators *)
MsInv == MsTypeOK /\ BusyInv /\ LoopInv /\ BestInv /\ WaitInv

-----------------------------------------------------------------------------

(* The table and the CPUs *)
LEMMA SimFacts ==
  ASSUME sim \in Simulations
  PROVE  /\ Len(sim.table) \in Nat /\ Ps = 1 .. Len(sim.table) /\ IsFiniteSet(Ps)
         /\ \A p \in Ps : /\ p \in Nat /\ p # 0 /\ sim.table[p].arrival \in Nat
                          /\ sim.table[p].burst \in Nat /\ sim.table[p].burst # 0
                          /\ sim.table[p].key \in Nat /\ sim.table[p].key # 0
         /\ sim.cpus \in Nat /\ sim.cpus # 0 /\ CPUs = 1 .. sim.cpus /\ IsFiniteSet(CPUs)
         /\ sim.policy \in Policies
<1> DEFINE T == [arrival : Nat, burst : Nat \ {0}, key : Nat \ {0}]
<1>1. /\ sim.policy \in Policies /\ sim.cpus \in Nat \ {0} /\ sim.table \in Seq(T)
  BY MsAssumption
<1>a. \A x \in T : x.arrival \in Nat /\ x.burst \in Nat /\ x.burst # 0 /\ x.key \in Nat /\ x.key # 0
  OBVIOUS
<1> HIDE DEF T
<1>2. PICK t \in Seq(T) : t = sim.table
  BY <1>1
<1>3. DOMAIN t = 1 .. Len(t) /\ Len(t) \in Nat /\ \A p \in 1 .. Len(t) : t[p] \in T
  BY <1>2
<1>4. \A p \in 1 .. Len(t) : /\ t[p].arrival \in Nat /\ t[p].burst \in Nat /\ t[p].burst # 0
                             /\ t[p].key \in Nat /\ t[p].key # 0
  BY <1>3, <1>a
<1>b. \A n \in Nat : IsFiniteSet(1 .. n)
  BY FS_Interval
<1>5. IsFiniteSet(1 .. Len(t))
  BY <1>3, <1>b
<1>6. IsFiniteSet(1 .. sim.cpus)
  BY <1>1, <1>b
<1>7. Ps = 1 .. Len(t)
  BY <1>2, <1>3 DEF Ps
<1>8. QED
  BY <1>1, <1>2, <1>3, <1>4, <1>5, <1>6, <1>7 DEF CPUs

(* The elements of a set of numbers, from the least on *)
Rising(S) == {x \in S \X S : x[1] < x[2]}

(* A finite set of numbers has a least one. *)
LEMMA LeastThere ==
  ASSUME NEW S \in SUBSET Int, IsFiniteSet(S), S # {}
  PROVE  \E x \in S : \A y \in S : x <= y
<1>1. \A x, y \in S : <<x, y>> \in Rising(S) <=> x < y
  BY DEF Rising
<1>2. Ordered(S, Rising(S))
  BY <1>1 DEF Ordered
<1>3. PICK x \in S : \A y \in S \ {x} : <<x, y>> \in Rising(S)
  BY <1>2, FirstThere
<1>4. ASSUME NEW y \in S PROVE x <= y
  <2>1. x \in Int /\ y \in Int
    OBVIOUS
  <2>2. y # x => x < y
    BY <1>1, <1>3
  <2>3. QED
    BY <2>1, <2>2
<1>5. QED
  BY <1>4

(* Processes are ordered by rank and number. *)
LEMMA RankOrder ==
  ASSUME MsTypeOK, NEW S \in SUBSET Ps
  PROVE  /\ Ordered(S, ByRank) /\ IsFiniteSet(S)
         /\ \A p \in S : Rank(p) \in Int
         /\ \A p, q \in S : <<p, q>> \in ByRank <=> Before(p, q)
<1>1. IsFiniteSet(S) /\ \A p \in Ps : p \in Nat /\ sim.table[p].key \in Nat
  BY SimFacts, FS_Subset DEF MsTypeOK
<1>2. \A p \in Ps : level[p] \in Int
  BY DEF MsTypeOK
<1>3. \A p \in Ps : Rank(p) \in Int
  BY <1>1, <1>2 DEF Rank
<1>4. \A p, q \in S : <<p, q>> \in ByRank <=> Before(p, q)
  BY DEF ByRank
<1>5. Ordered(S, ByRank)
  <2>1. \A p, q \in S : Before(p, q) <=> Rank(p) < Rank(q) \/ (Rank(p) = Rank(q) /\ p < q)
    BY DEF Before
  <2>2. \A p \in S : p \in Nat /\ Rank(p) \in Int
    BY <1>1, <1>3
  <2>3. \A x \in S : ~Before(x, x)
    BY <2>1, <2>2
  <2>4. \A x, y \in S : x = y \/ Before(x, y) \/ Before(y, x)
    BY <2>1, <2>2
  <2>5. \A x, y, z \in S : Before(x, y) /\ Before(y, z) => Before(x, z)
    BY <2>1, <2>2
  <2>6. QED
    BY <1>4, <2>3, <2>4, <2>5 DEF Ordered
<1>6. QED
  BY <1>1, <1>3, <1>4, <1>5

(* The best of the ready processes *)
LEMMA BestIs ==
  ASSUME MsTypeOK, Ready # {}
  PROVE  Best \in Ready /\ First \in Ready /\ \A q \in Ready : Rank(Best) <= Rank(q)
<1>1. Ready \in SUBSET Ps
  BY DEF Ready
<1>2. /\ Ordered(Ready, ByRank) /\ IsFiniteSet(Ready)
      /\ \A p \in Ready : Rank(p) \in Int
      /\ \A p, q \in Ready : <<p, q>> \in ByRank <=> Before(p, q)
  BY <1>1, RankOrder
<1>3. \E p \in Ready : \A q \in Ready \ {p} : <<p, q>> \in ByRank
  BY <1>2, FirstThere
<1>4. \E p \in Ready : \A q \in Ready \ {p} : Before(p, q)
  BY <1>2, <1>3
<1>5. Best \in Ready /\ \A q \in Ready \ {Best} : Before(Best, q)
  BY <1>4 DEF Best
<1>6. \A q \in Ready : Rank(Best) <= Rank(q)
  BY <1>2, <1>5 DEF Before
<1>7. First \in Ready
  <2>1. Ready \in SUBSET Int
    BY <1>1, SimFacts DEF MsTypeOK
  <2>3. \E x \in Ready : \A y \in Ready : x <= y
    BY <1>2, <2>1, LeastThere
  <2>4. QED
    BY <2>3 DEF First
<1>8. QED
  BY <1>5, <1>6, <1>7

(* The CPU for which a process of RMS is compared *)
LEMMA TargetIs ==
  ASSUME MsTypeOK, sim.policy = "ayush_rms"
  PROVE  /\ Target \in CPUs /\ (Idle # {} => current[Target] = 0)
         /\ Idle = {} => \A j \in CPUs : Rank(current[j]) <= Rank(current[Target])
<1>1. IsFiniteSet(CPUs) /\ CPUs \subseteq Int /\ 1 \in CPUs /\ \A p \in Ps : sim.table[p].key \in Nat
  <2>1. sim \in Simulations
    BY DEF MsTypeOK
  <2>2. /\ sim.cpus \in Nat /\ sim.cpus # 0 /\ CPUs = 1 .. sim.cpus /\ IsFiniteSet(CPUs)
        /\ \A p \in Ps : sim.table[p].key \in Nat
    BY <2>1, SimFacts
  <2>3. QED
    BY <2>2
<1>2. CASE Idle # {}
  <2>1. Idle \in SUBSET CPUs /\ Idle \in SUBSET Int
    BY <1>1 DEF Idle
  <2>2. IsFiniteSet(Idle)
    BY <1>1, <2>1, FS_Subset
  <2>4. \E x \in Idle : \A y \in Idle : x <= y
    BY <1>2, <2>1, <2>2, LeastThere
  <2>5. Target \in Idle
    BY <1>2, <2>4 DEF Target
  <2>6. QED
    BY <1>2, <2>5 DEF Idle
<1>3. CASE Idle = {}
  <2> DEFINE K(i) == sim.table[current[i]].key
             R == {x \in CPUs \X CPUs : K(x[2]) < K(x[1]) \/ (K(x[2]) = K(x[1]) /\ x[1] < x[2])}
  <2>1. \A i \in CPUs : current[i] \in Ps /\ K(i) \in Nat /\ Rank(current[i]) = K(i)
    BY <1>1, <1>3 DEF Idle, MsTypeOK, Rank, Mlfq
  <2>2. \A i, j \in CPUs : <<i, j>> \in R <=> K(j) < K(i) \/ (K(j) = K(i) /\ i < j)
    OBVIOUS
  <2> HIDE DEF R, K
  <2>a. \A i \in CPUs : i \in Int /\ K(i) \in Int
    BY <1>1, <2>1
  <2>b. \A i \in CPUs : <<i, i>> \notin R
    BY <2>2, <2>a
  <2>c. ASSUME NEW i \in CPUs, NEW j \in CPUs PROVE i = j \/ <<i, j>> \in R \/ <<j, i>> \in R
    <3>1. i \in Int /\ j \in Int /\ K(i) \in Int /\ K(j) \in Int
      BY <2>a
    <3>2. i = j \/ K(j) < K(i) \/ (K(j) = K(i) /\ i < j) \/ K(i) < K(j) \/ (K(i) = K(j) /\ j < i)
      BY <3>1
    <3>3. QED
      BY <2>2, <3>2
  <2>d. \A i, j, m \in CPUs : <<i, j>> \in R /\ <<j, m>> \in R => <<i, m>> \in R
    BY <2>2, <2>a
  <2>3. Ordered(CPUs, R)
    BY <2>b, <2>c, <2>d DEF Ordered
  <2>4. PICK i \in CPUs : \A j \in CPUs \ {i} : <<i, j>> \in R
    BY <1>1, <2>3, FirstThere
  <2>5. ASSUME NEW j \in CPUs PROVE K(j) < K(i) \/ (K(j) = K(i) /\ i <= j)
    <3>1. CASE j = i
      BY <2>a, <3>1
    <3>2. CASE j # i
      <4>1. <<i, j>> \in R
        BY <2>4, <3>2
      <4>2. K(j) < K(i) \/ (K(j) = K(i) /\ i < j)
        BY <2>2, <4>1
      <4>3. i \in Int /\ j \in Int
        BY <2>a
      <4>4. QED
        BY <4>2, <4>3
    <3>3. QED
      BY <3>1, <3>2
  <2>6. LongestPeriod \in CPUs /\ \A j \in CPUs : K(j) <= K(LongestPeriod)
    <3>1. LongestPeriod = CHOOSE x \in CPUs : \A j \in CPUs : K(j) < K(x) \/ (K(j) = K(x) /\ x <= j)
      BY DEF LongestPeriod, K
    <3>2. LongestPeriod \in CPUs /\ \A j \in CPUs : K(j) < K(LongestPeriod) \/ (K(j) = K(LongestPeriod) /\ LongestPeriod <= j)
      BY <2>5, <3>1
    <3>3. QED
      BY <2>a, <3>2
  <2>7. QED
    BY <1>3, <2>1, <2>6 DEF Target
<1>4. QED
  BY <1>2, <1>3

-----------------------------------------------------------------------------

(* One turn of a loop over the CPUs *)
LEMMA Turn ==
  ASSUME MsTypeOK, InLoop, NEW i, Done(i)
  PROVE  /\ i = sim.cpus - Len(todo) + 1 /\ i \in CPUs
         /\ Len(todo) \in Nat /\ Len(todo) # 0 /\ Len(todo') = Len(todo) - 1
         /\ todo' \in Seq(Nat) /\ (UNCHANGED sim => InLoop')
<1>1. todo \in Seq(Nat) /\ todo # <<>> /\ i = todo[1] /\ todo' = Tail(todo)
  BY DEF Done, MsTypeOK
<1>2. /\ Len(todo) \in Nat /\ Len(todo) # 0 /\ todo' \in Seq(Nat) /\ Len(todo') = Len(todo) - 1
      /\ \A k \in 1 .. Len(todo) - 1 : todo'[k] = todo[k + 1]
  BY <1>1
<1>3. sim.cpus \in Nat /\ CPUs = 1 .. sim.cpus
  BY SimFacts DEF MsTypeOK
<1>4. /\ Len(todo) <= sim.cpus
      /\ \A k \in 1 .. Len(todo) : todo[k] = sim.cpus - Len(todo) + k
  BY DEF InLoop
<1>5. i = sim.cpus - Len(todo) + 1
  BY <1>1, <1>2, <1>4
<1>6. i \in CPUs
  BY <1>2, <1>3, <1>4, <1>5
<1>7. ASSUME UNCHANGED sim PROVE InLoop'
  <2>1. ASSUME NEW k \in 1 .. Len(todo') PROVE todo'[k] = sim.cpus - Len(todo') + k
    <3>1. k \in 1 .. Len(todo) - 1 /\ k + 1 \in 1 .. Len(todo) /\ k \in Int
      BY <1>2
    <3>2. todo'[k] = todo[k + 1] /\ todo[k + 1] = sim.cpus - Len(todo) + (k + 1)
      BY <1>2, <1>4, <3>1
    <3>3. PICK c \in Nat : c = sim.cpus
      BY <1>3
    <3>4. PICK n \in Nat : n = Len(todo)
      BY <1>2
    <3>5. c - n + (k + 1) = c - (n - 1) + k
      BY <3>1
    <3>6. todo'[k] = c - n + (k + 1) /\ Len(todo') = n - 1
      BY <1>2, <3>2, <3>3, <3>4, Zenon
    <3>7. QED
      BY <3>3, <3>5, <3>6, Zenon
  <2>2. Len(todo') <= sim.cpus
    BY <1>2, <1>3, <1>4
  <2>3. QED
    BY <1>7, <2>1, <2>2 DEF InLoop
<1>8. QED
  BY <1>2, <1>5, <1>6, <1>7

(* The loops begin with all CPUs. *)
LEMMA LoopStarts ==
  ASSUME sim \in Simulations, UNCHANGED sim, todo' = Loop(sim.cpus)
  PROVE  todo' \in Seq(Nat) /\ Len(todo') = sim.cpus /\ InLoop'
<1>1. sim.cpus \in Nat
  BY SimFacts
<1>2. PICK n \in Nat : n = sim.cpus
  BY <1>1
<1>3. todo' = [k \in 1 .. n |-> k]
  BY <1>2 DEF Loop
<1>4. todo' \in Seq(Nat) /\ Len(todo') = n /\ \A k \in 1 .. n : todo'[k] = k
  BY <1>3
<1>5. QED
  BY <1>2, <1>4 DEF InLoop

(* A ready process gets a CPU, and who had it is ready. *)
LEMMA Placed ==
  ASSUME MsTypeOK, BusyInv, NEW i \in CPUs, NEW p \in Ready, Place(i, p),
         UNCHANGED <<sim, clock, waited>>, todo' \in Seq(Nat)
  PROVE  /\ MsTypeOK' /\ BusyInv'
         /\ \A q \in Ready' : q = current[i] \/ (q \in Ready /\ q # p)
         /\ \A q \in Ready : q # p => q \in Ready'
         /\ current'[i] = p /\ \A j \in CPUs : j # i => current'[j] = current[j]
         /\ \A q : Rank(q)' = Rank(q)
         /\ UNCHANGED <<remaining, finish>>
         /\ \A q \in Ps : tstate'[q] = "finished" <=> tstate[q] = "finished"
         /\ \A q \in Ps : q # p /\ tstate[q] = "ready" => tstate'[q] = "ready"
<1>1. p \in Ps /\ tstate[p] = "ready" /\ \A q \in Ps : q # 0
  BY SimFacts DEF Ready, MsTypeOK
<1>2. /\ tstate' = [q \in Ps |-> IF q = p THEN "running"
                                 ELSE IF q = current[i] THEN "ready" ELSE tstate[q]]
      /\ current' = [current EXCEPT ![i] = p] /\ cpu_id' = [cpu_id EXCEPT ![p] = i]
      /\ UNCHANGED <<remaining, level, finish>>
  BY DEF Place, Put
<1>3. Ps' = Ps /\ CPUs' = CPUs
  BY DEF Ps, CPUs
<1>4. start' \in [Ps -> Int]
  <2>1. start \in [Ps -> Int] /\ clock \in Int
    BY DEF MsTypeOK
  <2>2. start' = [start EXCEPT ![p] = clock] \/ start' = start
    BY DEF Place, Put
  <2>3. QED
    BY <2>1, <2>2
<1>5. quantum' \in [CPUs -> Int]
  <2>1. sim.quantum \in Int
    BY MsAssumption DEF MsTypeOK
  <2>2. \A x : TQ(x) \in Int
    BY DEF TQ
  <2>3. \A x \in Int : [quantum EXCEPT ![i] = x] \in [CPUs -> Int]
    BY DEF MsTypeOK
  <2>4. \/ quantum' = [quantum EXCEPT ![i] = TQ(level[p])]
        \/ quantum' = [quantum EXCEPT ![i] = sim.quantum]
        \/ quantum' = [quantum EXCEPT ![i] = 4]
        \/ quantum' = quantum
    BY DEF Place, Put, Mlfq
  <2>5. QED
    BY <2>1, <2>2, <2>3, <2>4 DEF MsTypeOK
<1>6. /\ tstate \in [Ps -> {"ready", "running", "finished"}]
      /\ cpu_id \in [Ps -> CPUs \cup {0}] /\ current \in [CPUs -> Ps \cup {0}]
  BY DEF MsTypeOK
<1>7. /\ tstate' \in [Ps -> {"ready", "running", "finished"}]
      /\ cpu_id' \in [Ps -> CPUs \cup {0}] /\ current' \in [CPUs -> Ps \cup {0}]
  BY <1>1, <1>2, <1>6
<1>8. MsTypeOK'
  BY <1>2, <1>3, <1>4, <1>5, <1>7 DEF MsTypeOK
<1>9. /\ \A j \in CPUs : current[j] # 0 => tstate[current[j]] = "running" /\ cpu_id[current[j]] = j
      /\ \A q \in Ps : tstate[q] = "running" => cpu_id[q] \in CPUs /\ current[cpu_id[q]] = q
  BY DEF BusyInv
<1>10. \A q \in Ps : tstate'[q] = IF q = p THEN "running"
                                  ELSE IF q = current[i] THEN "ready" ELSE tstate[q]
  BY <1>2
<1>11. /\ current'[i] = p /\ \A j \in CPUs : j # i => current'[j] = current[j]
       /\ cpu_id'[p] = i /\ \A q \in Ps : q # p => cpu_id'[q] = cpu_id[q]
  BY <1>1, <1>2, <1>6
<1>12. BusyInv'
  <2>1. ASSUME NEW j \in CPUs, current'[j] # 0
        PROVE  tstate'[current'[j]] = "running" /\ cpu_id'[current'[j]] = j
    <3>1. CASE j = i
      BY <1>1, <1>10, <1>11, <3>1
    <3>2. CASE j # i
      <4>1. PICK q \in Ps : q = current[j] /\ q = current'[j]
        BY <1>6, <1>11, <2>1, <3>2
      <4>2. tstate[q] = "running" /\ cpu_id[q] = j
        BY <1>9, <2>1, <4>1
      <4>3. q # p /\ q # current[i]
        BY <1>1, <1>9, <3>2, <4>1, <4>2
      <4>4. QED
        BY <1>10, <1>11, <4>1, <4>2, <4>3
    <3>3. QED
      BY <3>1, <3>2
  <2>2. ASSUME NEW q \in Ps, tstate'[q] = "running"
        PROVE  cpu_id'[q] \in CPUs /\ current'[cpu_id'[q]] = q
    <3>1. CASE q = p
      BY <1>11, <3>1
    <3>2. CASE q # p
      <4>1. tstate[q] = "running" /\ q # current[i] /\ cpu_id'[q] = cpu_id[q]
        BY <1>10, <1>11, <2>2, <3>2
      <4>2. PICK j \in CPUs : j = cpu_id[q] /\ current[j] = q
        BY <1>9, <4>1
      <4>3. j # i
        BY <4>1, <4>2
      <4>4. QED
        BY <1>11, <4>1, <4>2, <4>3
    <3>3. QED
      BY <3>1, <3>2
  <2>3. QED
    BY <1>3, <2>1, <2>2 DEF BusyInv
<1>13. \A q \in Ready' : q = current[i] \/ (q \in Ready /\ q # p)
  BY <1>3, <1>10 DEF Ready
<1>14. \A q \in Ready : q # p => q \in Ready'
  BY <1>3, <1>10 DEF Ready
<1>15. \A q : Rank(q)' = Rank(q)
  BY <1>2 DEF Rank
<1>16. \A q \in Ps : tstate'[q] = "finished" <=> tstate[q] = "finished"
  <2>1. current[i] # 0 => tstate[current[i]] = "running"
    BY <1>9
  <2>2. QED
    BY <1>1, <1>10, <2>1
<1>17. \A q \in Ps : q # p /\ tstate[q] = "ready" => tstate'[q] = "ready"
  BY <1>10
<1>18. QED
  BY <1>2, <1>8, <1>11, <1>12, <1>13, <1>14, <1>15, <1>16, <1>17

(* Steps of the first loops neither wait nor run. *)
LEMMA WaitsStay ==
  ASSUME WaitInv, phase # "run", phase' # "run", UNCHANGED <<sim, clock, waited, remaining, finish>>,
         \A q \in Ps : tstate'[q] = "finished" <=> tstate[q] = "finished",
         \A q \in Ps : sim.table[q].arrival > clock /\ tstate[q] = "ready" => tstate'[q] = "ready"
  PROVE  WaitInv'
<1>1. Ps' = Ps /\ \A q : Spent(q)' = Spent(q)
  BY DEF Ps, Spent
<1>2. \A q : Passed(q) = clock - sim.table[q].arrival /\ Passed(q)' = clock - sim.table[q].arrival
  BY DEF Passed
<1>3. ASSUME NEW q \in Ps
      PROVE  /\ tstate'[q] = "finished" => waited[q] = finish[q] - sim.table[q].arrival - sim.table[q].burst
             /\ tstate'[q] # "finished" /\ sim.table[q].arrival > clock => tstate'[q] = "ready" /\ Spent(q) = 0
             /\ tstate'[q] # "finished" /\ sim.table[q].arrival <= clock => Spent(q) = clock - sim.table[q].arrival
  BY <1>2 DEF WaitInv
<1>4. QED
  BY <1>1, <1>2, <1>3 DEF WaitInv

(* A simulation begins in the invariant. *)
LEMMA MsInitInv == MsInit => MsInv
<1> SUFFICES ASSUME MsInit PROVE MsInv
  OBVIOUS
<1>1. sim \in Simulations
  BY DEF MsInit
<1>2. \A p \in Ps : sim.table[p].arrival \in Nat /\ sim.table[p].burst \in Nat
  BY <1>1, SimFacts
<1>3. MsTypeOK
  <2>1. /\ tstate = [p \in Ps |-> "ready"] /\ remaining = [p \in Ps |-> sim.table[p].burst]
        /\ level = [p \in Ps |-> 0] /\ start = [p \in Ps |-> -1] /\ finish = [p \in Ps |-> 0]
        /\ cpu_id = [p \in Ps |-> 0] /\ waited = [p \in Ps |-> 0]
    BY DEF MsInit
  <2>2. /\ current = [i \in CPUs |-> 0] /\ quantum = [i \in CPUs |-> 0] /\ clock = 0
    BY DEF MsInit
  <2>3. todo \in Seq(Nat)
    <3>1. todo = <<>>
      BY DEF MsInit
    <3>2. <<>> \in Seq(Nat)
      OBVIOUS
    <3>3. QED
      BY <3>1, <3>2
  <2>4. remaining \in [Ps -> Int]
    BY <1>2, <2>1
  <2>5. QED
    BY <1>1, <2>1, <2>2, <2>3, <2>4 DEF MsTypeOK
<1>4. BusyInv
  BY DEF MsInit, BusyInv
<1>5. LoopInv /\ BestInv
  BY DEF MsInit, LoopInv, BestInv
<1>6. WaitInv
  <2>1. ASSUME NEW p \in Ps
        PROVE  /\ tstate[p] # "finished" /\ tstate[p] = "ready" /\ Spent(p) = 0
               /\ sim.table[p].arrival <= clock => Passed(p) = 0
    <3>1. tstate[p] = "ready" /\ waited[p] = 0 /\ remaining[p] = sim.table[p].burst /\ clock = 0 /\ phase = "menu"
      BY DEF MsInit
    <3>2. PICK a \in Nat, b \in Nat : a = sim.table[p].arrival /\ b = sim.table[p].burst
      BY <1>2
    <3>3. Spent(p) = 0
      BY <3>1, <3>2 DEF Spent
    <3>4. Passed(p) = 0 - a
      BY <3>1, <3>2 DEF Passed
    <3>5. QED
      BY <3>1, <3>2, <3>3, <3>4
  <2>2. QED
    BY <2>1 DEF WaitInv
<1>7. QED
  BY <1>3, <1>4, <1>5, <1>6 DEF MsInv

(* A turn of the assigning loop that leaves the CPU alone *)
LEMMA AssignSkips ==
  ASSUME MsInv, NEW i, phase = "assign", phase' \in {"assign", "crashed"}, Done(i),
         UNCHANGED <<sim, taskVars, cpuVars, clock, waited>>,
         sim.policy = "ayush_rms" \/ Good(i)
  PROVE  MsInv'
<1> USE DEF MsInv, taskVars, cpuVars
<1>1. /\ i = sim.cpus - Len(todo) + 1 /\ i \in CPUs /\ Len(todo) \in Nat /\ Len(todo) # 0
      /\ Len(todo') = Len(todo) - 1 /\ todo' \in Seq(Nat) /\ InLoop'
  BY Turn DEF LoopInv
<1>2. Ps' = Ps /\ CPUs' = CPUs
  BY DEF Ps, CPUs
<1>3. MsTypeOK'
  BY <1>1, <1>2 DEF MsTypeOK
<1>4. BusyInv'
  BY <1>2 DEF BusyInv
<1>5. LoopInv'
  BY <1>1 DEF LoopInv
<1>6. \A j : Good(j)' <=> Good(j)
  BY <1>2 DEF Good, Ready, Rank
<1>7. BestInv'
  <2>1. ASSUME NEW j \in CPUs, sim.policy = "ayush_rms" \/ j <= sim.cpus - Len(todo') PROVE Good(j)
    <3>1. sim.cpus \in Nat /\ CPUs = 1 .. sim.cpus
      BY SimFacts DEF MsTypeOK
    <3>2. j = i \/ sim.policy = "ayush_rms" \/ j <= sim.cpus - Len(todo)
      BY <1>1, <2>1, <3>1
    <3>3. QED
      BY <3>2 DEF BestInv
  <2>2. QED
    BY <1>2, <1>6, <2>1 DEF BestInv
<1>8. WaitInv'
  BY WaitsStay
<1>9. QED
  BY <1>3, <1>4, <1>5, <1>7, <1>8

(* A turn of the assigning loop that gives the CPU away *)
LEMMA AssignPlaces ==
  ASSUME MsInv, NEW i, phase = "assign", phase' = "assign", Done(i),
         UNCHANGED <<sim, clock, waited>>, sim.policy # "ayush_rms",
         NEW p \in Ready, Place(i, p),
         sim.policy \in Preemptive => \A q \in Ready : Rank(p) <= Rank(q),
         current[i] = 0 \/ Rank(p) < Rank(current[i])
  PROVE  MsInv'
<1> USE DEF MsInv
<1>1. /\ i = sim.cpus - Len(todo) + 1 /\ i \in CPUs /\ Len(todo) \in Nat /\ Len(todo) # 0
      /\ Len(todo') = Len(todo) - 1 /\ todo' \in Seq(Nat) /\ InLoop'
  BY Turn DEF LoopInv
<1>2. Ps' = Ps /\ CPUs' = CPUs
  BY DEF Ps, CPUs
<1>3. /\ MsTypeOK' /\ BusyInv'
      /\ \A q \in Ready' : q = current[i] \/ (q \in Ready /\ q # p)
      /\ \A q \in Ready : q # p => q \in Ready'
      /\ current'[i] = p /\ \A j \in CPUs : j # i => current'[j] = current[j]
      /\ \A q : Rank(q)' = Rank(q)
      /\ UNCHANGED <<remaining, finish>>
      /\ \A q \in Ps : tstate'[q] = "finished" <=> tstate[q] = "finished"
      /\ \A q \in Ps : q # p /\ tstate[q] = "ready" => tstate'[q] = "ready"
  BY <1>1, Placed
<1>4. LoopInv'
  BY <1>1 DEF LoopInv
<1>5. \A q \in Ps : Rank(q) \in Int /\ q # 0
  <2>1. Ps \in SUBSET Ps
    OBVIOUS
  <2>2. QED
    BY <2>1, RankOrder, SimFacts DEF MsTypeOK
<1>6. Ready \in SUBSET Ps /\ Ready' \in SUBSET Ps /\ p \in Ps
  BY <1>2 DEF Ready
<1>7. ASSUME NEW j \in CPUs, j = i \/ Good(j) PROVE Good(j)'
  <2>1. current'[j] # 0
    BY <1>3, <1>5, <1>6, <1>7 DEF Good
  <2>2. ASSUME sim.policy \in Preemptive, NEW q \in Ready'
        PROVE  Rank(current'[j]) <= Rank(q)
    <3>1. \A x \in Ready : Rank(current'[j]) <= Rank(x)
      BY <1>3, <1>7, <2>2 DEF Good
    <3>2. CASE q \in Ready
      BY <3>1, <3>2
    <3>3. CASE q \notin Ready
      <4>1. q = current[i] /\ q \in Ps /\ Rank(p) < Rank(q)
        BY <1>3, <1>5, <1>6, <3>3
      <4>2. Rank(current'[j]) <= Rank(p)
        BY <3>1
      <4>3. current'[j] \in Ps
        BY <1>2, <1>3, <2>1 DEF MsTypeOK
      <4>4. Rank(current'[j]) \in Int /\ Rank(p) \in Int /\ Rank(q) \in Int
        BY <1>5, <1>6, <4>1, <4>3
      <4>5. QED
        BY <4>1, <4>2, <4>4
    <3>4. QED
      BY <3>2, <3>3
  <2>3. level' = level
    BY DEF Place
  <2>4. QED
    BY <2>1, <2>2, <2>3 DEF Good, Rank
<1>8. BestInv'
  <2>1. ASSUME NEW j \in CPUs, j <= sim.cpus - Len(todo') PROVE Good(j)'
    <3>1. sim.cpus \in Nat /\ CPUs = 1 .. sim.cpus
      BY SimFacts DEF MsTypeOK
    <3>2. j = i \/ j <= sim.cpus - Len(todo)
      BY <1>1, <2>1, <3>1
    <3>3. j = i \/ Good(j)
      BY <3>2 DEF BestInv
    <3>4. QED
      BY <1>7, <3>3
  <2>2. QED
    BY <1>2, <2>1 DEF BestInv
<1>9. WaitInv'
  <2>1. \A q \in Ps : sim.table[q].arrival > clock /\ tstate[q] = "ready" => tstate'[q] = "ready"
    <3>1. sim.table[p].arrival <= clock /\ sim.table[p].arrival \in Int /\ clock \in Int
      BY <1>6, SimFacts DEF Ready, MsTypeOK
    <3>2. ~(sim.table[p].arrival > clock)
      BY <3>1
    <3>3. QED
      BY <1>3, <3>2
  <2>2. QED
    BY <1>3, <2>1, WaitsStay
<1>10. QED
  BY <1>3, <1>4, <1>8, <1>9

(* A cycle begins, in MLFQ now and then with a boost. *)
LEMMA BeginSteps ==
  ASSUME MsInv, BeginCycle PROVE MsInv'
<1> USE DEF MsInv
<1>1. /\ phase \in {"menu", "begin"} /\ UNCHANGED <<sim, tstate, remaining, start, finish, cpu_id, current, clock, waited>>
      /\ \/ sim.policy = "ayush_rms" /\ phase' = "preempt" /\ todo' = InOrder(Ready, ByRank)
         \/ sim.policy # "ayush_rms" /\ phase' = "assign" /\ todo' = Loop(sim.cpus)
  BY DEF BeginCycle
<1>2. Ps' = Ps /\ CPUs' = CPUs /\ sim \in Simulations /\ \A p \in Ps : p \in Nat
  BY <1>1, SimFacts DEF Ps, CPUs, MsTypeOK
<1>3. level' \in [Ps -> Int] /\ quantum' \in [CPUs -> Int]
  <2>1. TQ(0) \in Int
    BY DEF TQ
  <2>2. level \in [Ps -> Int] /\ quantum \in [CPUs -> Int]
    BY DEF MsTypeOK
  <2>3. CASE Boosted
    <3>1. /\ level' = [p \in Ps |-> IF tstate[p] = "finished" THEN level[p] ELSE 0]
          /\ quantum' = [i \in CPUs |-> IF \E p \in Ps : tstate[p] = "running" /\ cpu_id[p] = i
                                        THEN TQ(0) ELSE quantum[i]]
      BY <2>3 DEF BeginCycle
    <3>2. QED
      BY <2>1, <2>2, <3>1
  <2>4. CASE ~Boosted
    BY <2>2, <2>4 DEF BeginCycle
  <2>5. QED
    BY <2>3, <2>4
<1>4. Ready' = Ready /\ Ready \in SUBSET Ps
  BY <1>1, <1>2 DEF Ready
<1>5. todo' \in Seq(Nat) /\ LoopInv' /\ BestInv'
  <2>1. CASE phase' = "preempt"
    <3>1. Ordered(Ready, ByRank) /\ IsFiniteSet(Ready)
      BY <1>4, RankOrder
    <3>2. PICK l : l = todo' /\ l = InOrder(Ready, ByRank)
      BY <1>1, <2>1
    <3>3. /\ l \in Seq(Ready)
          /\ \A k, m \in 1 .. Len(l) : l[k] = l[m] => k = m
          /\ \A x \in Ready : \E k \in 1 .. Len(l) : l[k] = x
      BY <3>1, <3>2, InOrderLists
    <3>4. l \in Seq(Nat) /\ \A k \in 1 .. Len(l) : l[k] \in Ready
      <4>1. Ready \in SUBSET Nat
        BY <1>2, <1>4
      <4>2. Len(l) \in Nat /\ l \in [1 .. Len(l) -> Ready]
        BY <3>3
      <4>3. l \in [1 .. Len(l) -> Nat]
        BY <4>1, <4>2
      <4>4. QED
        BY <4>2, <4>3
    <3>5. LoopInv'
      BY <1>1, <1>4, <2>1, <3>2, <3>3, <3>4 DEF LoopInv
    <3>6. BestInv'
      BY <1>4, <2>1, <3>2, <3>3 DEF BestInv
    <3>7. QED
      BY <3>2, <3>4, <3>5, <3>6
  <2>2. CASE phase' = "assign"
    <3>1. sim.policy # "ayush_rms" /\ todo' = Loop(sim.cpus)
      BY <1>1, <2>2
    <3>2. todo' \in Seq(Nat) /\ Len(todo') = sim.cpus /\ InLoop'
      BY <1>1, <1>2, <3>1, LoopStarts
    <3>3. LoopInv'
      BY <2>2, <3>2 DEF LoopInv
    <3>4. BestInv'
      <4>1. sim.cpus \in Nat /\ CPUs = 1 .. sim.cpus
        BY <1>2, SimFacts
      <4>2. \A j \in CPUs : ~(j <= sim.cpus - sim.cpus)
        BY <4>1
      <4>3. QED
        BY <1>1, <1>2, <2>2, <3>1, <3>2, <4>2 DEF BestInv
    <3>5. QED
      BY <3>2, <3>3, <3>4
  <2>3. QED
    BY <1>1, <2>1, <2>2
<1>6. MsTypeOK'
  BY <1>1, <1>2, <1>3, <1>5 DEF MsTypeOK
<1>7. BusyInv'
  BY <1>1, <1>2 DEF BusyInv
<1>8. WaitInv'
  BY <1>1, WaitsStay
<1>9. QED
  BY <1>5, <1>6, <1>7, <1>8

(* Ranks are numbers. *)
LEMMA RankInt == ASSUME MsTypeOK PROVE \A q \in Ps : Rank(q) \in Int /\ q # 0
<1>1. Ps \in SUBSET Ps
  OBVIOUS
<1>2. QED
  BY <1>1, RankOrder, SimFacts DEF MsTypeOK

(* The loop over the CPUs in Bhanu's EDF and MLFQ *)
LEMMA BestSteps ==
  ASSUME MsInv, NEW i \in CPUs, AssignBest(i) PROVE MsInv'
<1> USE DEF MsInv
<1>1. /\ sim.policy \in {"bhanu_edf", "bhanu_mlfq"} /\ phase = "assign" /\ phase' = "assign" /\ Done(i)
      /\ UNCHANGED <<sim, clock, waited>>
  BY DEF AssignBest, Assigning
<1>2. sim.policy # "ayush_rms"
  BY <1>1
<1>3. Ready # {} => Best \in Ready /\ \A q \in Ready : Rank(Best) <= Rank(q)
  BY BestIs
<1>4. CASE Ready # {} /\ (current[i] = 0 \/ Rank(Best) < Rank(current[i]))
  <2>1. Place(i, Best)
    BY <1>4 DEF AssignBest
  <2>2. QED
    BY <1>1, <1>2, <1>3, <1>4, <2>1, AssignPlaces
<1>5. CASE ~(Ready # {} /\ (current[i] = 0 \/ Rank(Best) < Rank(current[i])))
  <2>1. UNCHANGED <<taskVars, cpuVars>>
    BY <1>5 DEF AssignBest, Skip
  <2>2. ASSUME Ready # {} PROVE Good(i)
    <3>1. current[i] \in Ps /\ current[i] # 0 /\ ~(Rank(Best) < Rank(current[i]))
      BY <1>5, <2>2 DEF MsTypeOK
    <3>2. Ready \in SUBSET Ps
      BY DEF Ready
    <3>3. ASSUME NEW q \in Ready PROVE Rank(current[i]) <= Rank(q)
      <4>1. Rank(current[i]) \in Int /\ Rank(q) \in Int /\ Rank(Best) \in Int
        BY <1>3, <2>2, <3>1, <3>2, RankInt
      <4>2. Rank(Best) <= Rank(q)
        BY <1>3, <2>2
      <4>3. QED
        BY <3>1, <4>1, <4>2
    <3>4. QED
      BY <3>1, <3>3 DEF Good
  <2>3. Good(i)
    BY <2>2 DEF Good
  <2>4. QED
    BY <1>1, <2>1, <2>3, AssignSkips
<1>6. QED
  BY <1>4, <1>5

(* The loop over the CPUs in Aryan's round robin *)
LEMMA FirstSteps ==
  ASSUME MsInv, NEW i \in CPUs, AssignFirst(i) PROVE MsInv'
<1> USE DEF MsInv
<1>1. /\ sim.policy = "aryan_rr" /\ phase = "assign" /\ phase' = "assign" /\ Done(i)
      /\ UNCHANGED <<sim, clock, waited>>
  BY DEF AssignFirst, Assigning
<1>2. sim.policy # "ayush_rms" /\ sim.policy \notin Preemptive
  BY <1>1 DEF Preemptive
<1>3. CASE current[i] = 0 /\ Ready # {}
  <2>1. Place(i, First) /\ First \in Ready
    BY <1>3, BestIs DEF AssignFirst
  <2>2. QED
    BY <1>1, <1>2, <1>3, <2>1, AssignPlaces
<1>4. CASE ~(current[i] = 0 /\ Ready # {})
  <2>1. UNCHANGED <<taskVars, cpuVars>>
    BY <1>4 DEF AssignFirst, Skip
  <2>2. Good(i)
    BY <1>2, <1>4 DEF Good
  <2>3. QED
    BY <1>1, <2>1, <2>2, AssignSkips
<1>5. QED
  BY <1>3, <1>4

(* The loop over the CPUs in Aryan's EDF and, after the preemptions, in RMS *)
LEMMA IdleSteps ==
  ASSUME MsInv, NEW i \in CPUs, AssignIdle(i) PROVE MsInv'
<1> USE DEF MsInv
<1>1. /\ sim.policy \in {"aryan_edf", "ayush_rms"} /\ phase = "assign" /\ phase' = "assign" /\ Done(i)
      /\ UNCHANGED <<sim, clock, waited>>
  BY DEF AssignIdle, Assigning
<1>2. sim.policy = "ayush_rms" => Good(i)
  BY <1>1 DEF BestInv
<1>3. CASE current[i] = 0 /\ Ready # {}
  <2>1. sim.policy # "ayush_rms" /\ sim.policy \notin Preemptive
    BY <1>1, <1>2, <1>3 DEF Good, Preemptive
  <2>2. Place(i, Best) /\ Best \in Ready
    BY <1>3, BestIs DEF AssignIdle
  <2>3. QED
    BY <1>1, <1>3, <2>1, <2>2, AssignPlaces
<1>4. CASE ~(current[i] = 0 /\ Ready # {})
  <2>1. UNCHANGED <<taskVars, cpuVars>>
    BY <1>4 DEF AssignIdle, Skip
  <2>2. sim.policy = "ayush_rms" \/ Good(i)
    BY <1>1, <1>4 DEF Good, Preemptive
  <2>3. QED
    BY <1>1, <2>1, <2>2, AssignSkips
<1>5. QED
  BY <1>3, <1>4

(* The loop over the CPUs in Aryan's MLFQ *)
LEMMA UntestedSteps ==
  ASSUME MsInv, NEW i \in CPUs, AssignUntested(i) PROVE MsInv'
<1> USE DEF MsInv
<1>1. /\ sim.policy = "aryan_mlfq" /\ phase = "assign" /\ Done(i)
      /\ UNCHANGED <<sim, clock, waited>>
  BY DEF AssignUntested
<1>2. sim.policy # "ayush_rms" /\ sim.policy \notin Preemptive
  BY <1>1 DEF Preemptive
<1>3. CASE current[i] = 0 /\ Ready # {}
  <2>1. Place(i, Best) /\ Best \in Ready /\ phase' = "assign"
    BY <1>1, <1>3, BestIs DEF AssignUntested
  <2>2. QED
    BY <1>1, <1>2, <1>3, <2>1, AssignPlaces
<1>4. CASE ~(current[i] = 0 /\ Ready # {})
  <2>1. UNCHANGED <<taskVars, cpuVars>> /\ phase' \in {"assign", "crashed"}
    BY <1>1, <1>4 DEF AssignUntested, Skip
  <2>2. Good(i)
    BY <1>2, <1>4 DEF Good
  <2>3. QED
    BY <1>1, <2>1, <2>2, AssignSkips
<1>5. QED
  BY <1>3, <1>4

(* The loop over the CPUs in Ayush's lottery *)
LEMMA WinnerSteps ==
  ASSUME MsInv, NEW i \in CPUs, AssignWinner(i) PROVE MsInv'
<1> USE DEF MsInv
<1>1. /\ sim.policy = "ayush_lottery" /\ phase = "assign" /\ phase' = "assign" /\ Done(i)
      /\ UNCHANGED <<sim, clock, waited>>
  BY DEF AssignWinner, Assigning
<1>2. sim.policy # "ayush_rms" /\ sim.policy \notin Preemptive
  BY <1>1 DEF Preemptive
<1>3. CASE current[i] = 0 /\ \E p \in Ready : sim.table[p].key > 0 /\ Place(i, p) /\ UNCHANGED wild
  BY <1>1, <1>2, <1>3, AssignPlaces
<1>4. CASE (current[i] # 0 \/ \A p \in Ready : sim.table[p].key = 0) /\ Skip
  <2>1. \A p \in Ready : sim.table[p].key # 0
    BY SimFacts DEF Ready, MsTypeOK
  <2>2. Good(i)
    BY <1>2, <1>4, <2>1 DEF Good
  <2>3. QED
    BY <1>1, <1>4, <2>2, AssignSkips DEF Skip
<1>5. QED
  BY <1>3, <1>4, Zenon DEF AssignWinner

(* The loop over the ready processes in Ayush's RMS: once it has looked at
   a process, no process should run instead of it. *)
LEMMA PreemptSteps ==
  ASSUME MsInv, NEW p \in Ps, sim.policy = "ayush_rms", Preempt(p) PROVE MsInv'
<1> USE DEF MsInv
<1>1. /\ phase = "preempt" /\ phase' = "preempt" /\ UNCHANGED <<sim, clock, waited>>
      /\ todo \in Seq(Nat) /\ todo # <<>> /\ p = todo[1] /\ todo' = Tail(todo)
  BY DEF Preempt, Done, MsTypeOK
<1>2. /\ Len(todo) \in Nat /\ Len(todo) # 0 /\ todo' \in Seq(Nat) /\ Len(todo') = Len(todo) - 1
      /\ \A k \in 1 .. Len(todo') : k + 1 \in 1 .. Len(todo) /\ k + 1 # 1 /\ todo'[k] = todo[k + 1]
      /\ \A k \in 1 .. Len(todo) : k # 1 => k - 1 \in 1 .. Len(todo') /\ todo'[k - 1] = todo[k]
      /\ 1 \in 1 .. Len(todo)
  <2>1. Len(todo) \in Nat /\ Len(todo) # 0 /\ todo' \in Seq(Nat) /\ Len(todo') = Len(todo) - 1
    BY <1>1
  <2>2. \A k \in 1 .. Len(todo) - 1 : todo'[k] = todo[k + 1]
    BY <1>1
  <2>3. \A k \in 1 .. Len(todo') : k + 1 \in 1 .. Len(todo) /\ k + 1 # 1 /\ k \in 1 .. Len(todo) - 1
    BY <2>1
  <2>4. \A k \in 1 .. Len(todo) : k # 1 => k - 1 \in 1 .. Len(todo') /\ k - 1 \in 1 .. Len(todo) - 1 /\ (k - 1) + 1 = k
    BY <2>1
  <2>5. \A k \in 1 .. Len(todo) : k # 1 => todo'[k - 1] = todo[k]
    BY <2>2, <2>4
  <2>6. 1 \in 1 .. Len(todo)
    BY <2>1
  <2>7. QED
    BY <2>1, <2>2, <2>3, <2>4, <2>5, <2>6
<1>3. /\ \A k \in 1 .. Len(todo) : todo[k] \in Ready
      /\ \A k, m \in 1 .. Len(todo) : todo[k] = todo[m] => k = m
  BY <1>1 DEF LoopInv
<1>4. p \in Ready /\ Ready \in SUBSET Ps
  BY <1>1, <1>2, <1>3 DEF Ready
<1>5. /\ \A k \in 1 .. Len(todo') : todo'[k] \in Ready /\ todo'[k] # p
      /\ \A k, m \in 1 .. Len(todo') : todo'[k] = todo'[m] => k = m
  <2>1. ASSUME NEW k \in 1 .. Len(todo') PROVE todo'[k] \in Ready /\ todo'[k] # p /\ k \in Int
    BY <1>1, <1>2, <1>3
  <2>2. ASSUME NEW k \in 1 .. Len(todo'), NEW m \in 1 .. Len(todo'), todo'[k] = todo'[m] PROVE k = m
    <3>1. todo[k + 1] = todo[m + 1] /\ k + 1 \in 1 .. Len(todo) /\ m + 1 \in 1 .. Len(todo)
      BY <1>2, <2>2
    <3>2. k + 1 = m + 1
      BY <1>3, <3>1
    <3>3. QED
      BY <2>1, <3>2
  <2>3. QED
    BY <2>1, <2>2
<1>6. ASSUME NEW q \in Ready, q # p, \A k \in 1 .. Len(todo') : todo'[k] # q PROVE Rightly(q)
  <2>1. ASSUME NEW k \in 1 .. Len(todo) PROVE todo[k] # q
    <3>1. CASE k = 1
      BY <1>1, <1>6, <3>1
    <3>2. CASE k # 1
      BY <1>2, <1>6, <3>2
    <3>3. QED
      BY <3>1, <3>2
  <2>2. QED
    BY <1>1, <2>1 DEF BestInv
<1>7. Ps' = Ps /\ CPUs' = CPUs
  BY <1>1 DEF Ps, CPUs
<1>8. /\ Target \in CPUs /\ (Idle # {} => current[Target] = 0)
      /\ Idle = {} => \A j \in CPUs : Rank(current[j]) <= Rank(current[Target])
  BY TargetIs
<1>9. \A j \in CPUs : current[j] # 0 => current[j] \in Ps /\ Rank(current[j]) \in Int
  BY RankInt DEF MsTypeOK
<1>10. Idle = {} => \A j \in CPUs : current[j] # 0
  BY DEF Idle
<1>11. CASE Idle # {} \/ Rank(p) < Rank(current[Target])
  <2>1. PICK i \in CPUs : i = Target
    BY <1>8
  <2>2. Place(i, p)
    BY <1>11, <2>1 DEF Preempt
  <2>3. /\ MsTypeOK' /\ BusyInv'
        /\ \A q \in Ready' : q = current[i] \/ (q \in Ready /\ q # p)
        /\ \A q \in Ready : q # p => q \in Ready'
        /\ current'[i] = p /\ \A j \in CPUs : j # i => current'[j] = current[j]
        /\ \A q : Rank(q)' = Rank(q)
        /\ UNCHANGED <<remaining, finish>>
        /\ \A q \in Ps : tstate'[q] = "finished" <=> tstate[q] = "finished"
        /\ \A q \in Ps : q # p /\ tstate[q] = "ready" => tstate'[q] = "ready"
    BY <1>1, <1>2, <1>4, <2>2, Placed
  <2>4. LoopInv'
    BY <1>1, <1>5, <2>3 DEF LoopInv
  <2>5. Ready' \in SUBSET Ps /\ p \in Ps /\ level' = level
    BY <1>4, <1>7, <2>2 DEF Ready, Place
  <2>6. ASSUME NEW q \in Ready', \A k \in 1 .. Len(todo') : todo'[k] # q PROVE Rightly(q)'
    <3>1. Rank(q) \in Int /\ Rank(p) \in Int /\ q # 0 /\ p # 0
      BY <2>5, RankInt
    <3>2. Idle = {}
      <4>1. CASE q = current[i]
        BY <1>8, <2>1, <3>1, <4>1
      <4>2. CASE q \in Ready /\ q # p
        <5>1. Rightly(q)
          BY <1>6, <2>6, <4>2
        <5>2. QED
          BY <5>1 DEF Rightly, Idle
      <4>3. QED
        BY <2>3, <4>1, <4>2
    <3>3. PICK t \in Ps : t = current[i] /\ Rank(t) \in Int
      BY <1>9, <1>10, <3>2
    <3>4. Rank(p) < Rank(t) /\ \A j \in CPUs : Rank(current[j]) <= Rank(t)
      BY <1>8, <1>11, <2>1, <3>2, <3>3
    <3>5. Rank(t) <= Rank(q)
      <4>1. CASE q = t
        BY <3>3, <4>1
      <4>2. CASE q # t
        <5>1. Rightly(q)
          BY <1>6, <2>3, <2>6, <3>3, <4>2
        <5>2. QED
          BY <3>3, <5>1 DEF Rightly
      <4>3. QED
        BY <4>1, <4>2
    <3>6. ASSUME NEW j \in CPUs PROVE current'[j] # 0 /\ Rank(current'[j]) <= Rank(q)
      <4>1. CASE j = i
        <5>1. Rank(p) <= Rank(q)
          BY <3>1, <3>3, <3>4, <3>5
        <5>2. QED
          BY <2>3, <3>1, <4>1, <5>1
      <4>2. CASE j # i
        <5>1. PICK c \in Ps : c = current[j] /\ Rank(c) \in Int /\ c # 0
          BY <1>9, <1>10, <3>2
        <5>2. Rank(c) <= Rank(t)
          BY <3>4, <5>1
        <5>3. Rank(c) <= Rank(q)
          BY <3>1, <3>3, <3>5, <5>1, <5>2
        <5>4. QED
          BY <2>3, <4>2, <5>1, <5>3
      <4>3. QED
        BY <4>1, <4>2
    <3>7. QED
      BY <1>1, <1>7, <2>5, <3>6 DEF Rightly, Rank
  <2>7. BestInv'
    BY <1>1, <2>6 DEF BestInv
  <2>8. WaitInv'
    <3>1. \A q \in Ps : sim.table[q].arrival > clock /\ tstate[q] = "ready" => tstate'[q] = "ready"
      <4>1. sim.table[p].arrival <= clock /\ sim.table[p].arrival \in Int /\ clock \in Int
        BY <1>4, SimFacts DEF Ready, MsTypeOK
      <4>2. ~(sim.table[p].arrival > clock)
        BY <4>1
      <4>3. QED
        BY <2>3, <4>2
    <3>2. QED
      BY <1>1, <2>3, <3>1, WaitsStay
  <2>9. QED
    BY <2>3, <2>4, <2>7, <2>8
<1>12. CASE ~(Idle # {} \/ Rank(p) < Rank(current[Target]))
  <2>1. UNCHANGED <<taskVars, cpuVars>>
    BY <1>12 DEF Preempt, Skip
  <2>2. Ready' = Ready /\ \A q : Rightly(q)' <=> Rightly(q)
    BY <1>1, <1>7, <2>1 DEF Ready, Rightly, Rank, taskVars, cpuVars
  <2>3. MsTypeOK' /\ BusyInv'
    BY <1>1, <1>2, <1>7, <2>1 DEF MsTypeOK, BusyInv, taskVars, cpuVars
  <2>4. LoopInv'
    BY <1>1, <1>5, <2>2 DEF LoopInv
  <2>5. Rightly(p)
    <3>1. PICK t \in Ps : t = current[Target] /\ Rank(t) \in Int /\ ~(Rank(p) < Rank(t))
      BY <1>8, <1>9, <1>10, <1>12
    <3>2. Rank(p) \in Int
      BY <1>4, RankInt
    <3>3. ASSUME NEW j \in CPUs PROVE current[j] # 0 /\ Rank(current[j]) <= Rank(p)
      <4>1. PICK c \in Ps : c = current[j] /\ Rank(c) \in Int /\ c # 0
        BY <1>9, <1>10, <1>12
      <4>2. Rank(c) <= Rank(t)
        BY <1>8, <1>12, <3>1, <4>1
      <4>3. QED
        BY <3>1, <3>2, <4>1, <4>2
    <3>4. QED
      BY <3>3 DEF Rightly
  <2>6. BestInv'
    <3>1. ASSUME NEW q \in Ready, \A k \in 1 .. Len(todo') : todo'[k] # q PROVE Rightly(q)
      BY <1>6, <2>5, <3>1
    <3>2. QED
      BY <1>1, <2>2, <3>1 DEF BestInv
  <2>7. WaitInv'
    BY <1>1, <2>1, WaitsStay DEF taskVars
  <2>8. QED
    BY <2>3, <2>4, <2>6, <2>7
<1>13. QED
  BY <1>11, <1>12

(* That loop is over, and nobody is left who should run. *)
LEMMA PreemptedSteps ==
  ASSUME MsInv, sim.policy = "ayush_rms", Preempted PROVE MsInv'
<1> USE DEF MsInv
<1>1. /\ phase = "preempt" /\ todo = <<>> /\ phase' = "assign" /\ todo' = Loop(sim.cpus)
      /\ UNCHANGED <<sim, taskVars, cpuVars, clock, waited>>
  BY DEF Preempted
<1>2. Ps' = Ps /\ CPUs' = CPUs /\ sim \in Simulations
  BY <1>1 DEF Ps, CPUs, MsTypeOK
<1>3. todo' \in Seq(Nat) /\ Len(todo') = sim.cpus /\ InLoop'
  BY <1>1, <1>2, LoopStarts
<1>4. MsTypeOK' /\ BusyInv'
  BY <1>1, <1>2, <1>3 DEF MsTypeOK, BusyInv, taskVars, cpuVars
<1>5. LoopInv'
  BY <1>1, <1>3 DEF LoopInv
<1>6. \A q \in Ready : Rightly(q)
  BY <1>1 DEF BestInv
<1>7. \A j \in CPUs : Good(j)
  BY <1>6 DEF Good, Rightly
<1>8. \A j \in CPUs : Good(j)' <=> Good(j)
  BY <1>1, <1>2 DEF Good, Ready, Rank, taskVars, cpuVars
<1>9. BestInv'
  BY <1>1, <1>2, <1>7, <1>8 DEF BestInv
<1>10. WaitInv'
  BY <1>1, WaitsStay DEF taskVars
<1>11. QED
  BY <1>4, <1>5, <1>9, <1>10

(* The numbers of a process *)
LEMMA ProcInts ==
  ASSUME MsTypeOK, NEW p \in Ps
  PROVE  /\ waited[p] \in Int /\ sim.table[p].burst \in Int /\ remaining[p] \in Int
         /\ clock \in Int /\ sim.table[p].arrival \in Int
<1>1. waited[p] \in Int /\ remaining[p] \in Int /\ clock \in Int
  BY DEF MsTypeOK
<1>2. sim.table[p].burst \in Nat /\ sim.table[p].arrival \in Nat
  BY SimFacts DEF MsTypeOK
<1>3. QED
  BY <1>1, <1>2

(* The CPUs are given away: who is ready waits for this cycle. *)
LEMMA AssignedSteps ==
  ASSUME MsInv, Assigned PROVE MsInv'
<1> USE DEF MsInv
<1>1. /\ phase = "assign" /\ todo = <<>> /\ phase' = "run" /\ todo' = Loop(sim.cpus)
      /\ waited' = [p \in Ps |-> IF p \in Ready THEN waited[p] + 1 ELSE waited[p]]
      /\ UNCHANGED <<sim, taskVars, cpuVars, clock>>
  BY DEF Assigned
<1>2. Ps' = Ps /\ CPUs' = CPUs /\ sim \in Simulations
  BY <1>1 DEF Ps, CPUs, MsTypeOK
<1>3. todo' \in Seq(Nat) /\ Len(todo') = sim.cpus /\ InLoop'
  BY <1>1, <1>2, LoopStarts
<1>4. sim.cpus \in Nat /\ CPUs = 1 .. sim.cpus
  BY <1>2, SimFacts
<1>5. waited' \in [Ps -> Int]
  BY <1>1 DEF MsTypeOK
<1>6. MsTypeOK' /\ BusyInv'
  BY <1>1, <1>2, <1>3, <1>5 DEF MsTypeOK, BusyInv, taskVars, cpuVars
<1>7. LoopInv'
  BY <1>1, <1>3 DEF LoopInv
<1>8. \A j \in CPUs : Good(j)
  <2>1. Len(todo) = 0
    BY <1>1
  <2>2. \A j \in CPUs : j <= sim.cpus - 0
    BY <1>4
  <2>3. QED
    BY <1>1, <2>1, <2>2 DEF BestInv
<1>9. \A j \in CPUs : Good(j)' <=> Good(j)
  BY <1>1, <1>2 DEF Good, Ready, Rank, taskVars, cpuVars
<1>10. BestInv'
  BY <1>1, <1>2, <1>8, <1>9 DEF BestInv
<1>11. WaitInv'
  <2>1. ASSUME NEW p \in Ps
        PROVE  /\ tstate[p] = "finished" => waited'[p] = finish[p] - sim.table[p].arrival - sim.table[p].burst
               /\ tstate[p] # "finished" /\ sim.table[p].arrival > clock => tstate[p] = "ready" /\ Spent(p)' = 0
               /\ tstate[p] # "finished" /\ sim.table[p].arrival <= clock => Spent(p)' = Passed(p)'
    <3>1. PICK w \in Int, b \in Int, r \in Int, c \in Int, a \in Int :
            w = waited[p] /\ b = sim.table[p].burst /\ r = remaining[p] /\ c = clock /\ a = sim.table[p].arrival
      BY ProcInts
    <3>2. waited'[p] = IF tstate[p] = "ready" /\ a <= c THEN w + 1 ELSE w
      BY <1>1, <3>1 DEF Ready
    <3>3. Spent(p)' = waited'[p] + b - r /\ Spent(p) = w + b - r /\ Passed(p) = c - a
      BY <1>1, <3>1 DEF Spent, Passed, taskVars
    <3>4. /\ tstate[p] = "finished" => w = finish[p] - a - b
          /\ tstate[p] # "finished" /\ a > c => tstate[p] = "ready" /\ w + b - r = 0
          /\ tstate[p] # "finished" /\ a <= c => w + b - r = c - a
      BY <3>1, <3>3 DEF WaitInv
    <3>5. tstate[p] = "running" => ToRun(p)'
      <4>1. ASSUME tstate[p] = "running" PROVE cpu_id[p] > sim.cpus - sim.cpus
        BY <1>4, <4>1 DEF BusyInv
      <4>2. QED
        BY <1>1, <1>3, <4>1 DEF ToRun, taskVars
    <3>6. Passed(p)' = IF tstate[p] = "running" THEN c - a ELSE c - a + 1
      BY <1>1, <3>1, <3>5 DEF Passed, ToRun, taskVars
    <3>7. tstate[p] \in {"ready", "running", "finished"}
      BY DEF MsTypeOK
    <3>8. CASE tstate[p] = "finished"
      BY <3>1, <3>2, <3>4, <3>8
    <3>9. CASE tstate[p] # "finished" /\ a > c
      <4>1. waited'[p] = w
        BY <3>1, <3>2, <3>9
      <4>2. ~(a <= c)
        BY <3>9
      <4>3. QED
        BY <3>1, <3>3, <3>4, <3>9, <4>1, <4>2
    <3>10. CASE tstate[p] # "finished" /\ ~(a > c)
      <4>1. a <= c /\ w + b - r = c - a
        BY <3>4, <3>10
      <4>2. CASE tstate[p] = "ready"
        <5>1. waited'[p] = w + 1 /\ Passed(p)' = c - a + 1
          BY <3>2, <3>6, <4>1, <4>2
        <5>2. (w + 1) + b - r = c - a + 1
          BY <4>1
        <5>3. QED
          BY <3>1, <3>3, <3>10, <4>2, <5>1, <5>2
      <4>3. CASE tstate[p] = "running"
        <5>1. waited'[p] = w /\ Passed(p)' = c - a
          BY <3>2, <3>6, <4>3
        <5>2. QED
          BY <3>1, <3>3, <3>10, <4>1, <4>3, <5>1
      <4>4. QED
        BY <3>7, <3>10, <4>2, <4>3
    <3>11. QED
      BY <3>8, <3>9, <3>10
  <2>2. QED
    BY <1>1, <1>2, <2>1 DEF WaitInv, taskVars
<1>12. QED
  BY <1>6, <1>7, <1>10, <1>11

(* In the running loop, the tick of the process of CPU i only is run. *)
LEMMA TicksOthers ==
  ASSUME MsTypeOK, BusyInv, InLoop, phase = "run", phase' = "run", NEW i \in CPUs, Done(i), UNCHANGED <<sim, clock, cpu_id, waited>>,
         NEW q \in Ps, q # current[i], tstate'[q] = tstate[q], remaining'[q] = remaining[q]
  PROVE  Spent(q)' = Spent(q) /\ Passed(q)' = Passed(q)
<1>1. i = sim.cpus - Len(todo) + 1 /\ Len(todo) \in Nat /\ Len(todo') = Len(todo) - 1
  BY Turn
<1>2. sim.cpus \in Nat /\ CPUs = 1 .. sim.cpus
  BY SimFacts DEF MsTypeOK
<1>3. Spent(q)' = Spent(q)
  BY DEF Spent
<1>4. ToRun(q)' <=> ToRun(q)
  <2>1. CASE tstate[q] = "running"
    <3>1. PICK k \in CPUs : k = cpu_id[q] /\ k # i
      BY <2>1 DEF BusyInv
    <3>2. PICK c \in Nat, n \in Nat : c = sim.cpus /\ n = Len(todo)
      BY <1>1, <1>2
    <3>3. k > c - (n - 1) <=> k > c - n
      <4>1. k \in Int /\ i = c - n + 1
        BY <1>1, <1>2, <3>2
      <4>2. QED
        BY <3>1, <3>2, <4>1
    <3>4. QED
      BY <1>1, <2>1, <3>1, <3>2, <3>3 DEF ToRun
  <2>2. CASE tstate[q] # "running"
    BY <2>2 DEF ToRun
  <2>3. QED
    BY <2>1, <2>2
<1>5. QED
  BY <1>3, <1>4 DEF Passed

(* An idle CPU runs nothing. *)
LEMMA RunIdleSteps ==
  ASSUME MsInv, NEW i \in CPUs, RunIdle(i) PROVE MsInv'
<1> USE DEF MsInv
<1>1. /\ phase = "run" /\ phase' = "run" /\ Done(i) /\ current[i] = 0
      /\ UNCHANGED <<sim, taskVars, cpuVars, clock, waited>>
  BY DEF RunIdle
<1>2. /\ Len(todo) \in Nat /\ Len(todo') = Len(todo) - 1 /\ todo' \in Seq(Nat) /\ InLoop' /\ InLoop
      /\ Len(todo) <= sim.cpus /\ sim.cpus \in Nat
  BY <1>1, Turn, SimFacts DEF LoopInv, InLoop, MsTypeOK
<1>3. Ps' = Ps /\ CPUs' = CPUs /\ \A q \in Ps : q # 0
  BY <1>1, SimFacts DEF Ps, CPUs, MsTypeOK
<1>4. MsTypeOK' /\ BusyInv' /\ LoopInv'
  BY <1>1, <1>2, <1>3 DEF MsTypeOK, BusyInv, LoopInv, taskVars, cpuVars
<1>5. BestInv'
  <2>1. Len(todo') # sim.cpus
    BY <1>2
  <2>2. QED
    BY <1>1, <2>1 DEF BestInv
<1>6. \A q \in Ps : Spent(q)' = Spent(q) /\ Passed(q)' = Passed(q)
  BY <1>1, <1>2, <1>3, TicksOthers DEF taskVars
<1>7. WaitInv'
  BY <1>1, <1>3, <1>6 DEF WaitInv, taskVars
<1>8. QED
  BY <1>4, <1>5, <1>7

(* The clock goes on. *)
LEMMA EndCycleSteps ==
  ASSUME MsInv, EndCycle PROVE MsInv'
<1> USE DEF MsInv
<1>1. /\ phase = "run" /\ todo = <<>> /\ todo' = <<>> /\ clock' = clock + 1
      /\ phase' = IF \A p \in Ps : tstate[p] = "finished" THEN "done" ELSE "begin"
      /\ UNCHANGED <<sim, taskVars, cpuVars, waited>>
  BY DEF EndCycle
<1>2. Ps' = Ps /\ CPUs' = CPUs /\ sim \in Simulations
  BY <1>1 DEF Ps, CPUs, MsTypeOK
<1>3. phase' \notin {"preempt", "assign", "run"} /\ (phase' = "done" => \A p \in Ps : tstate[p] = "finished")
  BY <1>1
<1>4. MsTypeOK' /\ BusyInv'
  <2>1. clock' \in Nat
    BY <1>1 DEF MsTypeOK
  <2>2. todo' \in Seq(Nat)
    BY <1>1 DEF MsTypeOK
  <2>3. QED
    BY <1>1, <1>2, <2>1, <2>2 DEF MsTypeOK, BusyInv, taskVars, cpuVars
<1>5. LoopInv'
  BY <1>1, <1>2, <1>3 DEF LoopInv, taskVars
<1>6. BestInv'
  BY <1>3 DEF BestInv
<1>7. WaitInv'
  <2>1. ASSUME NEW p \in Ps
        PROVE  /\ tstate[p] = "finished" => waited[p] = finish[p] - sim.table[p].arrival - sim.table[p].burst
               /\ tstate[p] # "finished" /\ sim.table[p].arrival > clock + 1 => tstate[p] = "ready" /\ Spent(p) = 0
               /\ tstate[p] # "finished" /\ sim.table[p].arrival <= clock + 1 => Spent(p) = clock + 1 - sim.table[p].arrival
    <3>1. PICK c \in Int, a \in Int : c = clock /\ a = sim.table[p].arrival
      BY ProcInts
    <3>2. ~ToRun(p)
      <4>1. sim.cpus \in Nat /\ CPUs = 1 .. sim.cpus /\ Len(todo) = 0
        BY <1>1, <1>2, SimFacts
      <4>2. cpu_id[p] \in CPUs \cup {0}
        BY DEF MsTypeOK
      <4>3. ~(cpu_id[p] > sim.cpus - 0)
        BY <4>1, <4>2
      <4>4. QED
        BY <4>1, <4>3 DEF ToRun
    <3>3. Passed(p) = c - a + 1
      BY <1>1, <3>1, <3>2 DEF Passed
    <3>4. /\ tstate[p] = "finished" => waited[p] = finish[p] - a - sim.table[p].burst
          /\ tstate[p] # "finished" /\ a > c => tstate[p] = "ready" /\ Spent(p) = 0
          /\ tstate[p] # "finished" /\ a <= c => Spent(p) = c - a + 1
      BY <3>1, <3>3 DEF WaitInv
    <3>5. CASE a <= c
      <4>1. ~(a > c + 1) /\ c - a + 1 = c + 1 - a
        BY <3>5
      <4>2. QED
        BY <3>1, <3>4, <3>5, <4>1
    <3>6. CASE a = c + 1
      <4>1. ~(a > c + 1) /\ a > c /\ c + 1 - a = 0
        BY <3>6
      <4>2. QED
        BY <3>1, <3>4, <4>1
    <3>7. CASE a > c + 1
      <4>1. ~(a <= c + 1) /\ a > c
        BY <3>7
      <4>2. QED
        BY <3>1, <3>4, <4>1
    <3>8. QED
      BY <3>1, <3>5, <3>6, <3>7
  <2>2. ASSUME NEW p \in Ps
        PROVE  Spent(p)' = Spent(p) /\ Passed(p)' = clock + 1 - sim.table[p].arrival
    <3>1. Spent(p)' = Spent(p)
      BY <1>1 DEF Spent, taskVars
    <3>2. phase' # "run" /\ sim' = sim /\ clock' = clock + 1
      BY <1>1, <1>3
    <3>3. PICK c \in Int, a \in Int, d \in Int : c = clock /\ a = sim.table[p].arrival /\ d = c + 1
      BY ProcInts
    <3>4. Passed(p)' = d - a
      BY <3>2, <3>3 DEF Passed
    <3>5. QED
      BY <3>1, <3>3, <3>4
  <2>3. QED
    BY <1>1, <1>2, <2>1, <2>2 DEF WaitInv, taskVars
<1>8. QED
  BY <1>4, <1>5, <1>6, <1>7

(* A CPU runs one tick of its process, which may end or lose its slice. *)
LEMMA RunTickSteps ==
  ASSUME MsInv, NEW i \in CPUs, RunTick(i) PROVE MsInv'
<1> USE DEF MsInv
<1>1. PICK p \in Ps : p = current[i] /\ p # 0
  BY DEF RunTick, MsTypeOK
<1> DEFINE ends == remaining[p] = 1
           expires == ~ends /\ Sliced(p) /\ quantum[i] - 1 = 0
<1>2. /\ phase = "run" /\ phase' = "run" /\ Done(i) /\ UNCHANGED <<sim, start, cpu_id, clock, waited>>
      /\ remaining' = [remaining EXCEPT ![p] = remaining[p] - 1]
      /\ quantum' = [quantum EXCEPT ![i] = quantum[i] - 1] \/ quantum' = quantum
      /\ finish' = IF ends THEN [finish EXCEPT ![p] = clock + 1] ELSE finish
      /\ tstate' = IF ends THEN [tstate EXCEPT ![p] = "finished"]
                   ELSE IF expires THEN [tstate EXCEPT ![p] = "ready"] ELSE tstate
      /\ level' = [level EXCEPT ![p] = level[p] + 1] \/ level' = level
      /\ current' = IF ends \/ expires THEN [current EXCEPT ![i] = 0] ELSE current
  BY <1>1 DEF RunTick, Put, Incr, Decr
<1> HIDE DEF expires
<1>3. /\ Len(todo) \in Nat /\ Len(todo') = Len(todo) - 1 /\ todo' \in Seq(Nat) /\ InLoop' /\ InLoop
      /\ Len(todo) <= sim.cpus /\ sim.cpus \in Nat /\ i = sim.cpus - Len(todo) + 1 /\ CPUs = 1 .. sim.cpus
  BY <1>2, Turn, SimFacts DEF LoopInv, InLoop, MsTypeOK
<1>4. Ps' = Ps /\ CPUs' = CPUs /\ \A q \in Ps : q # 0
  BY <1>2, SimFacts DEF Ps, CPUs, MsTypeOK
<1>6. tstate[p] = "running" /\ cpu_id[p] = i /\ \A j \in CPUs : j # i => current[j] # p
  BY <1>1 DEF BusyInv
<1>7. MsTypeOK'
  <2>1. /\ tstate \in [Ps -> {"ready", "running", "finished"}] /\ current \in [CPUs -> Ps \cup {0}]
        /\ clock \in Nat
    BY DEF MsTypeOK
  <2>2. remaining \in [Ps -> Int] /\ level \in [Ps -> Int] /\ finish \in [Ps -> Int] /\ quantum \in [CPUs -> Int]
    BY DEF MsTypeOK
  <2>3. tstate' \in [Ps -> {"ready", "running", "finished"}]
    BY <1>2, <2>1
  <2>4. current' \in [CPUs -> Ps \cup {0}]
    BY <1>2, <2>1
  <2>5. remaining' \in [Ps -> Int] /\ level' \in [Ps -> Int]
    BY <1>2, <2>2
  <2>6. finish' \in [Ps -> Int]
    BY <1>2, <2>1, <2>2
  <2>7. quantum' \in [CPUs -> Int]
    BY <1>2, <2>2
  <2>8. QED
    BY <1>2, <1>3, <1>4, <2>3, <2>4, <2>5, <2>6, <2>7 DEF MsTypeOK
<1>8. /\ \A q \in Ps : q # p => tstate'[q] = tstate[q] /\ remaining'[q] = remaining[q] /\ finish'[q] = finish[q]
      /\ \A j \in CPUs : j # i => current'[j] = current[j]
      /\ tstate'[p] = IF ends THEN "finished" ELSE IF expires THEN "ready" ELSE "running"
      /\ current'[i] = IF ends \/ expires THEN 0 ELSE p
      /\ remaining'[p] = remaining[p] - 1 /\ (ends => finish'[p] = clock + 1)
  <2>1. /\ tstate \in [Ps -> {"ready", "running", "finished"}] /\ current \in [CPUs -> Ps \cup {0}]
        /\ remaining \in [Ps -> Int] /\ finish \in [Ps -> Int]
    BY DEF MsTypeOK
  <2>2. /\ \A q \in Ps : q # p => tstate'[q] = tstate[q]
        /\ tstate'[p] = IF ends THEN "finished" ELSE IF expires THEN "ready" ELSE "running"
    BY <1>2, <1>6, <2>1
  <2>3. /\ \A j \in CPUs : j # i => current'[j] = current[j]
        /\ current'[i] = IF ends \/ expires THEN 0 ELSE p
    BY <1>1, <1>2, <2>1
  <2>4. /\ \A q \in Ps : q # p => remaining'[q] = remaining[q]
        /\ remaining'[p] = remaining[p] - 1
    BY <1>2, <2>1
  <2>5. /\ \A q \in Ps : q # p => finish'[q] = finish[q]
        /\ ends => finish'[p] = clock + 1
    BY <1>2, <2>1
  <2>6. QED
    BY <2>2, <2>3, <2>4, <2>5
<1>9. BusyInv'
  <2>1. \A j \in CPUs : j # i /\ current'[j] # 0 => tstate'[current'[j]] = "running" /\ cpu_id[current'[j]] = j
    <3>1. \A j \in CPUs : j # i /\ current[j] # 0 => current[j] \in Ps /\ current[j] # p
      BY <1>6 DEF MsTypeOK
    <3>2. QED
      BY <1>8, <3>1 DEF BusyInv
  <2>2. current'[i] # 0 => tstate'[current'[i]] = "running" /\ cpu_id[current'[i]] = i
    BY <1>6, <1>8
  <2>3. \A q \in Ps : q # p /\ tstate'[q] = "running" => cpu_id[q] \in CPUs /\ current'[cpu_id[q]] = q
    BY <1>1, <1>8 DEF BusyInv
  <2>4. tstate'[p] = "running" => current'[i] = p
    BY <1>8
  <2>5. QED
    BY <1>2, <1>4, <1>6, <2>1, <2>2, <2>3, <2>4 DEF BusyInv
<1>10. LoopInv'
  BY <1>2, <1>3 DEF LoopInv
<1>11. BestInv'
  <2>1. Len(todo') # sim.cpus
    BY <1>3
  <2>2. QED
    BY <1>2, <2>1 DEF BestInv
<1>12. \A q \in Ps : q # p => Spent(q)' = Spent(q) /\ Passed(q)' = Passed(q)
  BY <1>1, <1>2, <1>3, <1>8, TicksOthers
<1>13. /\ tstate'[p] = "finished" => waited'[p] = finish'[p] - sim.table[p].arrival - sim.table[p].burst
       /\ sim.table[p].arrival <= clock /\ ~(sim.table[p].arrival > clock)
       /\ tstate'[p] # "finished" => Spent(p)' = Passed(p)'
  <2>1. PICK w \in Int, b \in Int, r \in Int, c \in Int, a \in Int :
          w = waited[p] /\ b = sim.table[p].burst /\ r = remaining[p] /\ c = clock /\ a = sim.table[p].arrival
    BY ProcInts
  <2>2. a <= c /\ ~(a > c)
    <3>1. ~(a > c)
      BY <1>6, <2>1 DEF WaitInv
    <3>2. QED
      BY <3>1
  <2>3. ToRun(p)
    <3>1. i > sim.cpus - Len(todo)
      BY <1>3
    <3>2. QED
      BY <1>6, <3>1 DEF ToRun
  <2>4. w + b - r = c - a
    <3>1. Spent(p) = Passed(p)
      BY <1>6, <2>1, <2>2 DEF WaitInv
    <3>2. QED
      BY <2>1, <2>3, <3>1 DEF Spent, Passed
  <2>5. ~ToRun(p)'
    <3>1. ~(i > sim.cpus - Len(todo'))
      BY <1>3
    <3>2. QED
      BY <1>2, <1>6, <3>1 DEF ToRun
  <2>6. Spent(p)' = w + b - (r - 1) /\ Passed(p)' = c - a + 1
    BY <1>2, <1>8, <2>1, <2>5 DEF Spent, Passed
  <2>7. w + b - (r - 1) = c - a + 1
    BY <2>4
  <2>8. ASSUME tstate'[p] = "finished" PROVE waited'[p] = finish'[p] - a - b
    <3>1. r = 1 /\ finish'[p] = c + 1 /\ waited'[p] = w
      BY <1>2, <1>8, <2>1, <2>8
    <3>2. w = (c + 1) - a - b
      BY <2>4, <3>1
    <3>3. QED
      BY <3>1, <3>2
  <2>9. QED
    BY <2>1, <2>2, <2>6, <2>7, <2>8
<1>14. WaitInv'
  <2>1. ASSUME NEW q \in Ps
        PROVE  /\ tstate'[q] = "finished" => waited'[q] = finish'[q] - sim.table[q].arrival - sim.table[q].burst
               /\ tstate'[q] # "finished" /\ sim.table[q].arrival > clock => tstate'[q] = "ready" /\ Spent(q)' = 0
               /\ tstate'[q] # "finished" /\ sim.table[q].arrival <= clock => Spent(q)' = Passed(q)'
    <3>1. CASE q = p
      BY <1>13, <3>1
    <3>2. CASE q # p
      BY <1>2, <1>8, <1>12, <3>2 DEF WaitInv
    <3>3. QED
      BY <3>1, <3>2
  <2>2. QED
    BY <1>2, <1>4, <2>1 DEF WaitInv
<1>15. QED
  BY <1>7, <1>9, <1>10, <1>11, <1>14

(* The steps of the seven simulators *)
MsStep ==
  \/ BeginCycle \/ Preempted \/ Assigned \/ EndCycle
  \/ \E p \in Ps : Preempt(p)
  \/ \E i \in CPUs : \/ AssignBest(i) \/ AssignFirst(i) \/ AssignIdle(i) \/ AssignUntested(i)
                     \/ AssignWinner(i) \/ RunTick(i) \/ RunIdle(i)

(* Every step keeps the invariant. *)
LEMMA MsKeeps == ASSUME MsInv, [MsStep]_msVars PROVE MsInv'
<1>1. CASE UNCHANGED msVars
  <2>1. UNCHANGED <<sim, tstate, remaining, level, start, finish, cpu_id, current, quantum, clock, phase, todo, waited>>
    BY <1>1 DEF msVars, taskVars, cpuVars
  <2>2. Ps' = Ps /\ CPUs' = CPUs
    BY <2>1 DEF Ps, CPUs
  <2>3. MsTypeOK' /\ BusyInv' /\ LoopInv'
    BY <2>1, <2>2 DEF MsInv, MsTypeOK, BusyInv, LoopInv, InLoop, Ready
  <2>4. BestInv'
    <3>1. Ready' = Ready /\ \A i : Good(i)' <=> Good(i)
      BY <2>1, <2>2 DEF Good, Ready, Rank
    <3>2. \A q : Rightly(q)' <=> Rightly(q)
      BY <2>1, <2>2 DEF Rightly, Rank
    <3>3. QED
      BY <2>1, <2>2, <3>1, <3>2 DEF MsInv, BestInv
  <2>5. WaitInv'
    <3>1. \A q : Spent(q)' = Spent(q) /\ Passed(q)' = Passed(q)
      BY <2>1 DEF Spent, Passed, ToRun
    <3>2. QED
      BY <2>1, <2>2, <3>1 DEF MsInv, WaitInv
  <2>6. QED
    BY <2>3, <2>4, <2>5 DEF MsInv
<1>2. CASE BeginCycle
  BY <1>2, BeginSteps
<1>3. CASE Preempted
  <2>1. sim.policy = "ayush_rms"
    BY <1>3 DEF MsInv, LoopInv, Preempted
  <2>2. QED
    BY <1>3, <2>1, PreemptedSteps
<1>4. CASE Assigned
  BY <1>4, AssignedSteps
<1>5. CASE EndCycle
  BY <1>5, EndCycleSteps
<1>6. ASSUME NEW p \in Ps, Preempt(p) PROVE MsInv'
  <2>1. sim.policy = "ayush_rms"
    BY <1>6 DEF MsInv, LoopInv, Preempt
  <2>2. QED
    BY <1>6, <2>1, PreemptSteps
<1>7. ASSUME NEW i \in CPUs,
             \/ AssignBest(i) \/ AssignFirst(i) \/ AssignIdle(i) \/ AssignUntested(i)
             \/ AssignWinner(i) \/ RunTick(i) \/ RunIdle(i)
      PROVE  MsInv'
  BY <1>7, BestSteps, FirstSteps, IdleSteps, UntestedSteps, WinnerSteps, RunTickSteps, RunIdleSteps
<1>8. QED
  BY <1>1, <1>2, <1>3, <1>4, <1>5, <1>6, <1>7 DEF MsStep

(* The invariant is enough. *)
LEMMA MsSafe == ASSUME MsInv PROVE BestRun /\ WaitingIsWaited
<1> USE DEF MsInv
<1>1. \A p \in Ps : tstate[p] = "running" <=> \E i \in CPUs : current[i] = p /\ cpu_id[p] = i
  <2>1. \A p \in Ps : p # 0
    BY SimFacts DEF MsTypeOK
  <2>2. QED
    BY <2>1 DEF BusyInv
<1>2. \A i, j \in CPUs : current[i] = current[j] /\ current[i] # 0 => i = j
  BY DEF BusyInv
<1>3. phase = "run" /\ Len(todo) = sim.cpus =>
        \A p \in Ready, i \in CPUs :
          current[i] # 0 /\ (sim.policy \in Preemptive => Rank(current[i]) <= Rank(p))
  BY DEF BestInv, Good
<1>4. ASSUME phase = "done", NEW p \in Ps PROVE waited[p] = Waiting(p)
  BY <1>4 DEF LoopInv, WaitInv, Waiting, Turnaround
<1>5. QED
  BY <1>1, <1>2, <1>3, <1>4 DEF BestRun, TickBegins, WaitingIsWaited

(* The simulators have no other steps. *)
LEMMA MsNextSteps == MsNext => MsStep
<1>1. Cycles => MsStep
  BY DEF Cycles, MsStep
<1>2. QED
  BY <1>1 DEF MsNext, MsStep, BhanuEdf, BhanuMlfq, AryanRr, AryanEdf, AryanMlfq, AyushLottery, AyushRms

(* The seven multiprocessor simulators run the best processes while a tick is
   run, never one process on two CPUs, and show the waiting times of the
   final table as they were: the assigning and the running loops of each. *)
THEOREM MultiSafe == MsSpec => [](BestRun /\ WaitingIsWaited)
<1>1. MsInit => MsInv
  BY MsInitInv
<1>2. MsInv /\ [MsNext]_msVars => MsInv'
  BY MsNextSteps, MsKeeps
<1>3. MsInv => BestRun /\ WaitingIsWaited
  BY MsSafe
<1>4. QED
  BY <1>1, <1>2, <1>3, PTL DEF MsSpec

(* The queues Q hold the elements of W, each once. *)
Listed(Q, S, W) ==
  /\ Q \in [1 .. QUEUES -> Seq(S)]
  /\ \A l \in 1 .. QUEUES : \A k \in 1 .. Len(Q[l]) : Q[l][k] \in W
  /\ \A l, m \in 1 .. QUEUES : \A k \in 1 .. Len(Q[l]), n \in 1 .. Len(Q[m]) :
       Q[l][k] = Q[m][n] => l = m /\ k = n
  /\ \A x \in W : \E l \in 1 .. QUEUES : \E k \in 1 .. Len(Q[l]) : Q[l][k] = x

(* An element is put at the end of a queue. *)
LEMMA ListedPush ==
  ASSUME NEW S, NEW Q, NEW W, Listed(Q, S, W), NEW x \in S, x \notin W, NEW l \in 1 .. QUEUES
  PROVE  Listed([Q EXCEPT ![l] = Append(Q[l], x)], S, W \cup {x})
<1> DEFINE N == [Q EXCEPT ![l] = Append(Q[l], x)]
<1>1. Q \in [1 .. QUEUES -> Seq(S)]
  BY DEF Listed
<1>u. \A m \in 1 .. QUEUES : \A k \in 1 .. Len(Q[m]) : Q[m][k] \in W
  BY DEF Listed
<1>v. \A m, h \in 1 .. QUEUES : \A k \in 1 .. Len(Q[m]), n \in 1 .. Len(Q[h]) :
        Q[m][k] = Q[h][n] => m = h /\ k = n
  BY DEF Listed
<1>w. \A y \in W : \E m \in 1 .. QUEUES : \E k \in 1 .. Len(Q[m]) : Q[m][k] = y
  BY DEF Listed
<1>s. PICK s \in Seq(S) : s = Q[l]
  BY <1>1
<1>t. Append(s, x) \in Seq(S)
  OBVIOUS
<1>2. PICK t \in Seq(S) : s = Q[l] /\ t = Append(s, x)
  BY <1>s, <1>t
<1>3. /\ Len(s) \in Nat /\ Len(t) = Len(s) + 1 /\ t[Len(s) + 1] = x
      /\ \A k \in 1 .. Len(s) : t[k] = s[k]
  BY <1>2
<1>4. N \in [1 .. QUEUES -> Seq(S)] /\ N[l] = t /\ \A m \in 1 .. QUEUES : m # l => N[m] = Q[m]
  BY <1>1, <1>2
<1> HIDE DEF N
<1>5. ASSUME NEW m \in 1 .. QUEUES, NEW k \in 1 .. Len(N[m])
      PROVE  \/ N[m][k] = x /\ m = l /\ k = Len(s) + 1
             \/ k \in 1 .. Len(Q[m]) /\ N[m][k] = Q[m][k]
  <2>1. CASE m # l
    BY <1>4, <2>1
  <2>2. CASE m = l
    <3>1. k \in 1 .. Len(s) + 1
      BY <1>3, <1>4, <2>2
    <3>2. k = Len(s) + 1 \/ k \in 1 .. Len(s)
      BY <1>3, <3>1
    <3>3. QED
      BY <1>2, <1>3, <1>4, <2>2, <3>2
  <2>3. QED
    BY <2>1, <2>2
<1>6. \A m \in 1 .. QUEUES : \A k \in 1 .. Len(N[m]) : N[m][k] \in W \cup {x}
  BY <1>u, <1>5
<1>7. ASSUME NEW m \in 1 .. QUEUES, NEW h \in 1 .. QUEUES,
             NEW k \in 1 .. Len(N[m]), NEW n \in 1 .. Len(N[h]), N[m][k] = N[h][n]
      PROVE  m = h /\ k = n
  <2>1. \/ N[m][k] = x /\ m = l /\ k = Len(s) + 1
        \/ k \in 1 .. Len(Q[m]) /\ N[m][k] = Q[m][k]
    BY <1>5
  <2>2. \/ N[h][n] = x /\ h = l /\ n = Len(s) + 1
        \/ n \in 1 .. Len(Q[h]) /\ N[h][n] = Q[h][n]
    BY <1>5
  <2>3. QED
    BY <1>u, <1>v, <1>7, <2>1, <2>2
<1>8. ASSUME NEW y \in W \cup {x} PROVE \E m \in 1 .. QUEUES : \E k \in 1 .. Len(N[m]) : N[m][k] = y
  <2>1. CASE y = x
    <3>1. Len(s) + 1 \in 1 .. Len(N[l])
      BY <1>3, <1>4
    <3>2. QED
      BY <1>3, <1>4, <2>1, <3>1
  <2>2. CASE y \in W
    <3>1. PICK m \in 1 .. QUEUES : \E k \in 1 .. Len(Q[m]) : Q[m][k] = y
      BY <1>w, <2>2
    <3>2. PICK k \in 1 .. Len(Q[m]) : Q[m][k] = y
      BY <3>1
    <3>3. k \in 1 .. Len(N[m]) /\ N[m][k] = y
      <4>1. CASE m # l
        BY <1>4, <3>2, <4>1
      <4>2. CASE m = l
        <5>1. k \in 1 .. Len(s) + 1 /\ k \in 1 .. Len(s)
          BY <1>2, <1>3, <3>2, <4>2
        <5>2. QED
          BY <1>2, <1>3, <1>4, <3>2, <4>2, <5>1
      <4>3. QED
        BY <4>1, <4>2
    <3>4. QED
      BY <3>3
  <2>3. QED
    BY <2>1, <2>2
<1>9. Listed(N, S, W \cup {x})
  BY <1>4, <1>6, <1>7, <1>8 DEF Listed
<1>10. QED
  BY <1>9 DEF N

(* The first element of a queue is taken. *)
LEMMA ListedPop ==
  ASSUME NEW S, NEW Q, NEW W, Listed(Q, S, W), NEW l \in 1 .. QUEUES, Q[l] # <<>>
  PROVE  Head(Q[l]) \in W /\ Listed([Q EXCEPT ![l] = Tail(Q[l])], S, W \ {Head(Q[l])})
<1> DEFINE N == [Q EXCEPT ![l] = Tail(Q[l])]
<1>1. Q \in [1 .. QUEUES -> Seq(S)]
  BY DEF Listed
<1>u. \A m \in 1 .. QUEUES : \A k \in 1 .. Len(Q[m]) : Q[m][k] \in W
  BY DEF Listed
<1>v. \A m, h \in 1 .. QUEUES : \A k \in 1 .. Len(Q[m]), n \in 1 .. Len(Q[h]) :
        Q[m][k] = Q[h][n] => m = h /\ k = n
  BY DEF Listed
<1>w. \A y \in W : \E m \in 1 .. QUEUES : \E k \in 1 .. Len(Q[m]) : Q[m][k] = y
  BY DEF Listed
<1>s. PICK s \in Seq(S) : s = Q[l]
  BY <1>1
<1>t. s # <<>> /\ Tail(s) \in Seq(S)
  BY <1>s
<1>2. PICK t \in Seq(S) : s = Q[l] /\ s # <<>> /\ t = Tail(s)
  BY <1>s, <1>t
<1>3. PICK x : x = Head(s)
  OBVIOUS
<1>4. /\ Len(s) \in Nat /\ Len(s) # 0 /\ Len(t) = Len(s) - 1 /\ s[1] = x
      /\ \A k \in 1 .. Len(s) - 1 : t[k] = s[k + 1]
  BY <1>2, <1>3
<1>5. N \in [1 .. QUEUES -> Seq(S)] /\ N[l] = t /\ \A m \in 1 .. QUEUES : m # l => N[m] = Q[m]
  BY <1>1, <1>2
<1> HIDE DEF N
<1>6. x \in W /\ 1 \in 1 .. Len(Q[l]) /\ Q[l][1] = x
  <2>1. 1 \in 1 .. Len(s)
    BY <1>4
  <2>2. QED
    BY <1>u, <1>2, <1>4, <2>1
<1>7. ASSUME NEW m \in 1 .. QUEUES, NEW k \in 1 .. Len(N[m])
      PROVE  k \in Int /\ \/ m # l /\ k \in 1 .. Len(Q[m]) /\ N[m][k] = Q[m][k]
                          \/ m = l /\ k + 1 \in 1 .. Len(Q[m]) /\ k + 1 # 1 /\ N[m][k] = Q[m][k + 1]
  <2>1. CASE m # l
    BY <1>5, <2>1
  <2>2. CASE m = l
    <3>1. k \in 1 .. Len(s) - 1
      BY <1>4, <1>5, <2>2
    <3>2. k + 1 \in 1 .. Len(s) /\ k + 1 # 1 /\ k \in Int
      BY <1>4, <3>1
    <3>3. t[k] = s[k + 1]
      BY <1>4, <3>1
    <3>4. QED
      BY <1>2, <1>5, <2>2, <3>2, <3>3
  <2>3. QED
    BY <2>1, <2>2
<1>8. ASSUME NEW m \in 1 .. QUEUES, NEW k \in 1 .. Len(N[m]) PROVE N[m][k] \in W \ {x}
  <2>2. CASE m # l /\ k \in 1 .. Len(Q[m]) /\ N[m][k] = Q[m][k]
    <3>1. Q[m][k] \in W
      BY <1>u, <2>2
    <3>2. Q[m][k] # Q[l][1]
      BY <1>v, <1>6, <2>2
    <3>3. QED
      BY <1>6, <2>2, <3>1, <3>2
  <2>3. CASE m = l /\ k + 1 \in 1 .. Len(Q[m]) /\ k + 1 # 1 /\ N[m][k] = Q[m][k + 1]
    <3>1. Q[l][k + 1] \in W
      BY <1>u, <2>3
    <3>2. Q[l][k + 1] # Q[l][1]
      BY <1>v, <1>6, <2>3
    <3>3. QED
      BY <1>6, <2>3, <3>1, <3>2
  <2>4. QED
    BY <1>7, <2>2, <2>3
<1>9. ASSUME NEW m \in 1 .. QUEUES, NEW h \in 1 .. QUEUES,
             NEW k \in 1 .. Len(N[m]), NEW n \in 1 .. Len(N[h]), N[m][k] = N[h][n]
      PROVE  m = h /\ k = n
  <2>1. k \in Int /\ \/ m # l /\ k \in 1 .. Len(Q[m]) /\ N[m][k] = Q[m][k]
                     \/ m = l /\ k + 1 \in 1 .. Len(Q[m]) /\ N[m][k] = Q[m][k + 1]
    BY <1>7
  <2>2. n \in Int /\ \/ h # l /\ n \in 1 .. Len(Q[h]) /\ N[h][n] = Q[h][n]
                     \/ h = l /\ n + 1 \in 1 .. Len(Q[h]) /\ N[h][n] = Q[h][n + 1]
    BY <1>7
  <2>3. CASE m # l /\ h # l
    BY <1>v, <1>9, <2>1, <2>2, <2>3
  <2>4. CASE m = l /\ h = l
    <3>1. Q[l][k + 1] = Q[l][n + 1] /\ k + 1 \in 1 .. Len(Q[l]) /\ n + 1 \in 1 .. Len(Q[l])
      BY <1>9, <2>1, <2>2, <2>4
    <3>2. k + 1 = n + 1
      BY <1>v, <3>1
    <3>3. QED
      BY <2>1, <2>2, <2>4, <3>2
  <2>5. CASE m # l /\ h = l
    BY <1>v, <1>9, <2>1, <2>2, <2>5
  <2>6. CASE m = l /\ h # l
    BY <1>v, <1>9, <2>1, <2>2, <2>6
  <2>7. QED
    BY <2>3, <2>4, <2>5, <2>6
<1>10. ASSUME NEW y \in W \ {x} PROVE \E m \in 1 .. QUEUES : \E k \in 1 .. Len(N[m]) : N[m][k] = y
  <2>1. PICK m \in 1 .. QUEUES : \E k \in 1 .. Len(Q[m]) : Q[m][k] = y
    BY <1>w
  <2>2. PICK k \in 1 .. Len(Q[m]) : Q[m][k] = y
    BY <2>1
  <2>3. CASE m # l
    BY <1>5, <2>2, <2>3
  <2>4. CASE m = l
    <3>1. k \in 1 .. Len(s) /\ s[k] = y /\ k # 1
      BY <1>2, <1>4, <2>2, <2>4
    <3>2. k - 1 \in 1 .. Len(s) - 1 /\ (k - 1) + 1 = k
      BY <1>4, <3>1
    <3>3. t[k - 1] = y
      BY <1>4, <3>1, <3>2
    <3>4. QED
      BY <1>4, <1>5, <3>2, <3>3
  <2>5. QED
    BY <2>3, <2>4
<1>11. Listed(N, S, W \ {x})
  BY <1>5, <1>8, <1>9, <1>10 DEF Listed
<1>12. QED
  BY <1>2, <1>3, <1>6, <1>11 DEF N

(* A list is put at the end of the first queue. *)
LEMMA ListedJoin ==
  ASSUME NEW S, NEW Q, NEW W, Listed(Q, S, W), NEW A \in SUBSET S, A \cap W = {}, NEW a \in Seq(A),
         \A k, n \in 1 .. Len(a) : a[k] = a[n] => k = n,
         \A x \in A : \E k \in 1 .. Len(a) : a[k] = x
  PROVE  Listed([Q EXCEPT ![1] = Q[1] \o a], S, W \cup A)
<1> DEFINE N == [Q EXCEPT ![1] = Q[1] \o a]
<1>0. 1 \in 1 .. QUEUES
  BY DEF QUEUES
<1>1. Q \in [1 .. QUEUES -> Seq(S)]
  BY DEF Listed
<1>u. \A m \in 1 .. QUEUES : \A k \in 1 .. Len(Q[m]) : Q[m][k] \in W
  BY DEF Listed
<1>v. \A m, h \in 1 .. QUEUES : \A k \in 1 .. Len(Q[m]), n \in 1 .. Len(Q[h]) :
        Q[m][k] = Q[h][n] => m = h /\ k = n
  BY DEF Listed
<1>w. \A y \in W : \E m \in 1 .. QUEUES : \E k \in 1 .. Len(Q[m]) : Q[m][k] = y
  BY DEF Listed
<1>a. a \in Seq(S) /\ Len(a) \in Nat /\ \A k \in 1 .. Len(a) : a[k] \in A
  <2>1. Len(a) \in Nat /\ a \in [1 .. Len(a) -> A]
    OBVIOUS
  <2>2. a \in [1 .. Len(a) -> S]
    BY <2>1
  <2>3. QED
    BY <2>1, <2>2
<1>s. PICK s \in Seq(S) : s = Q[1]
  BY <1>0, <1>1
<1>t. s \o a \in Seq(S)
  BY <1>a
<1>2. PICK t \in Seq(S) : s = Q[1] /\ t = s \o a
  BY <1>s, <1>t
<1>3. /\ Len(s) \in Nat /\ Len(t) = Len(s) + Len(a)
      /\ \A k \in 1 .. Len(s) : t[k] = s[k]
      /\ \A k \in 1 .. Len(a) : t[Len(s) + k] = a[k]
  <2>1. Len(s) \in Nat /\ Len(t) = Len(s) + Len(a)
    BY <1>2, <1>a
  <2>2. \A k \in 1 .. Len(t) : t[k] = IF k <= Len(s) THEN s[k] ELSE a[k - Len(s)]
    BY <1>2, <1>a
  <2>3. \A k \in 1 .. Len(s) : k \in 1 .. Len(t) /\ k <= Len(s)
    BY <1>a, <2>1
  <2>4. \A k \in 1 .. Len(a) : Len(s) + k \in 1 .. Len(t) /\ ~(Len(s) + k <= Len(s)) /\ (Len(s) + k) - Len(s) = k
    BY <1>a, <2>1
  <2>5. \A k \in 1 .. Len(s) : t[k] = s[k]
    BY <2>2, <2>3
  <2>6. \A k \in 1 .. Len(a) : t[Len(s) + k] = a[k]
    BY <2>2, <2>4
  <2>7. QED
    BY <2>1, <2>5, <2>6
<1>4. N \in [1 .. QUEUES -> Seq(S)] /\ N[1] = t /\ \A m \in 1 .. QUEUES : m # 1 => N[m] = Q[m]
  BY <1>0, <1>1, <1>2
<1> HIDE DEF N
<1>5. ASSUME NEW m \in 1 .. QUEUES, NEW k \in 1 .. Len(N[m])
      PROVE  \/ m = 1 /\ \E j \in 1 .. Len(a) : k = Len(s) + j /\ N[m][k] = a[j]
             \/ k \in 1 .. Len(Q[m]) /\ N[m][k] = Q[m][k]
  <2>1. CASE m # 1
    BY <1>4, <2>1
  <2>2. CASE m = 1
    <3>1. k \in 1 .. Len(s) + Len(a)
      BY <1>3, <1>4, <2>2
    <3>2. k \in 1 .. Len(s) \/ (k - Len(s) \in 1 .. Len(a) /\ k = Len(s) + (k - Len(s)))
      BY <1>3, <1>a, <3>1
    <3>3. CASE k \in 1 .. Len(s)
      BY <1>2, <1>3, <1>4, <2>2, <3>3
    <3>4. CASE k - Len(s) \in 1 .. Len(a) /\ k = Len(s) + (k - Len(s))
      <4>1. PICK j \in 1 .. Len(a) : k = Len(s) + j
        BY <3>4
      <4>2. N[m][k] = a[j]
        BY <1>3, <1>4, <2>2, <4>1
      <4>3. QED
        BY <2>2, <4>1, <4>2
    <3>5. QED
      BY <3>2, <3>3, <3>4
  <2>3. QED
    BY <2>1, <2>2
<1>6. ASSUME NEW m \in 1 .. QUEUES, NEW k \in 1 .. Len(N[m]) PROVE N[m][k] \in W \cup A
  <2>1. CASE \E j \in 1 .. Len(a) : k = Len(s) + j /\ N[m][k] = a[j]
    BY <1>a, <2>1
  <2>2. CASE k \in 1 .. Len(Q[m]) /\ N[m][k] = Q[m][k]
    BY <1>u, <2>2
  <2>3. QED
    BY <1>5, <2>1, <2>2
<1>7. ASSUME NEW m \in 1 .. QUEUES, NEW h \in 1 .. QUEUES,
             NEW k \in 1 .. Len(N[m]), NEW n \in 1 .. Len(N[h]), N[m][k] = N[h][n]
      PROVE  m = h /\ k = n
  <2>1. \/ m = 1 /\ \E j \in 1 .. Len(a) : k = Len(s) + j /\ N[m][k] = a[j]
        \/ k \in 1 .. Len(Q[m]) /\ N[m][k] = Q[m][k]
    BY <1>5
  <2>2. \/ h = 1 /\ \E j \in 1 .. Len(a) : n = Len(s) + j /\ N[h][n] = a[j]
        \/ n \in 1 .. Len(Q[h]) /\ N[h][n] = Q[h][n]
    BY <1>5
  <2>3. CASE N[m][k] \in A
    <3>1. PICK j \in 1 .. Len(a) : m = 1 /\ k = Len(s) + j /\ N[m][k] = a[j]
      BY <1>u, <2>1, <2>3
    <3>2. PICK i \in 1 .. Len(a) : h = 1 /\ n = Len(s) + i /\ N[h][n] = a[i]
      BY <1>u, <1>7, <2>2, <2>3
    <3>3. i = j
      BY <1>7, <3>1, <3>2
    <3>4. QED
      BY <3>1, <3>2, <3>3
  <2>4. CASE N[m][k] \notin A
    <3>1. k \in 1 .. Len(Q[m]) /\ N[m][k] = Q[m][k]
      BY <1>a, <2>1, <2>4
    <3>2. n \in 1 .. Len(Q[h]) /\ N[h][n] = Q[h][n]
      BY <1>7, <1>a, <2>2, <2>4
    <3>3. Q[m][k] = Q[h][n]
      BY <1>7, <3>1, <3>2
    <3>4. QED
      BY <1>v, <3>1, <3>2, <3>3
  <2>5. QED
    BY <2>3, <2>4
<1>8. ASSUME NEW y \in W \cup A PROVE \E m \in 1 .. QUEUES : \E k \in 1 .. Len(N[m]) : N[m][k] = y
  <2>1. CASE y \in A
    <3>1. PICK j \in 1 .. Len(a) : a[j] = y
      BY <2>1
    <3>2. Len(s) + j \in 1 .. Len(s) + Len(a)
      BY <1>3, <1>a
    <3>5. Len(s) + j \in 1 .. Len(N[1])
      BY <1>3, <1>4, <3>2
    <3>3. N[1][Len(s) + j] = y
      BY <1>3, <1>4, <3>1
    <3>4. QED
      BY <1>0, <3>3, <3>5
  <2>2. CASE y \in W
    <3>1. PICK m \in 1 .. QUEUES : \E k \in 1 .. Len(Q[m]) : Q[m][k] = y
      BY <1>w, <2>2
    <3>2. PICK k \in 1 .. Len(Q[m]) : Q[m][k] = y
      BY <3>1
    <3>3. k \in 1 .. Len(N[m]) /\ N[m][k] = y
      <4>1. CASE m # 1
        BY <1>4, <3>2, <4>1
      <4>2. CASE m = 1
        <5>1. k \in 1 .. Len(s) + Len(a) /\ k \in 1 .. Len(s)
          BY <1>2, <1>3, <1>a, <3>2, <4>2
        <5>2. QED
          BY <1>2, <1>3, <1>4, <3>2, <4>2, <5>1
      <4>3. QED
        BY <4>1, <4>2
    <3>4. QED
      BY <3>3
  <2>3. QED
    BY <2>1, <2>2
<1>9. Listed(N, S, W \cup A)
  BY <1>4, <1>6, <1>7, <1>8 DEF Listed
<1>10. QED
  BY <1>9 DEF N

(* The entries of the queues are counted. *)
LEMMA ListedPlaces ==
  ASSUME NEW S, NEW W, Listed(queues, S, W), NEW i
  PROVE  Cardinality(UNION {{l} \X {k \in DOMAIN queues[l] : queues[l][k] = i} : l \in 1 .. QUEUES})
           = IF i \in W THEN 1 ELSE 0
<1> DEFINE P == UNION {{l} \X {k \in DOMAIN queues[l] : queues[l][k] = i} : l \in 1 .. QUEUES}
<1>1. \A l \in 1 .. QUEUES : DOMAIN queues[l] = 1 .. Len(queues[l])
  <2>1. ASSUME NEW l \in 1 .. QUEUES PROVE DOMAIN queues[l] = 1 .. Len(queues[l])
    <3>1. queues[l] \in Seq(S)
      BY DEF Listed
    <3>2. QED
      BY <3>1
  <2>2. QED
    BY <2>1
<1>2. \A x \in P : \E l \in 1 .. QUEUES : \E k \in 1 .. Len(queues[l]) : x = <<l, k>> /\ queues[l][k] = i
  BY <1>1
<1>3. \A l \in 1 .. QUEUES : \A k \in 1 .. Len(queues[l]) : queues[l][k] = i => <<l, k>> \in P
  BY <1>1
<1> HIDE DEF P
<1>4. CASE i \in W
  <2>1. PICK l \in 1 .. QUEUES : \E k \in 1 .. Len(queues[l]) : queues[l][k] = i
    BY <1>4 DEF Listed
  <2>2. PICK k \in 1 .. Len(queues[l]) : queues[l][k] = i
    BY <2>1
  <2>3. <<l, k>> \in P
    BY <1>3, <2>2
  <2>4. ASSUME NEW x \in P PROVE x = <<l, k>>
    <3>1. PICK m \in 1 .. QUEUES : \E n \in 1 .. Len(queues[m]) : x = <<m, n>> /\ queues[m][n] = i
      BY <1>2
    <3>2. PICK n \in 1 .. Len(queues[m]) : x = <<m, n>> /\ queues[m][n] = i
      BY <3>1
    <3>3. m = l /\ n = k
      <4>1. queues[m][n] = queues[l][k]
        BY <2>2, <3>2
      <4>2. QED
        BY <4>1 DEF Listed
    <3>4. QED
      BY <3>2, <3>3
  <2>5. P = {<<l, k>>}
    BY <2>3, <2>4
  <2>6. QED
    BY <1>4, <2>5, FS_Singleton DEF P
<1>5. CASE i \notin W
  <2>1. P = {}
    BY <1>2, <1>5 DEF Listed
  <2>2. QED
    BY <1>5, <2>1, FS_EmptySet DEF P
<1>6. QED
  BY <1>4, <1>5

-----------------------------------------------------------------------------

(* Types *)
UsTypeOK ==
  /\ input \in Inputs
  /\ left \in [Js -> Int] /\ ended \in [Js -> Nat] /\ delayed \in [Js -> Nat]
  /\ next_deadline \in [Js -> Int] /\ arrived \in SUBSET Js
  /\ job \in [idx : Js \cup {0}, level : 1 .. QUEUES, ran : Nat] /\ tick \in Nat

(* Where the program is *)
PlaceInv ==
  /\ doing = "slice" => input.program = "shajith_mlfq" /\ job.idx # 0
  /\ doing # "slice" => job.idx = 0
  /\ doing = "end" /\ input.program \in ShowsWaits => all_done

(* The waiting times that are shown are those that were waited. *)
ShownInv == \A i \in Js : ended[i] > 0 => delayed[i] = Waits(i)

(* The ticks that i waited or ran *)
Served(i) == delayed[i] + input.table[i].burst - left[i]

(* Those who are to be in a queue *)
Queued == {i \in arrived : ended[i] = 0 /\ i # job.idx}

(* shajith's MLFQ: who has arrived and is not done is in one queue, once, or
   runs, and has waited or run in every tick. *)
QueueInv ==
  /\ \A i \in Js : input.table[i].arrival < tick => i \in arrived
  /\ \A i \in arrived : input.table[i].arrival <= tick
  /\ doing = "slice" /\ job.ran = 0 => \A i \in Js : input.table[i].arrival <= tick => i \in arrived
  /\ job.idx # 0 => job.idx \in arrived /\ ended[job.idx] = 0 /\ left[job.idx] >= 0
  /\ Listed(queues, Js, Queued)
  /\ \A i \in Js \ arrived : ended[i] = 0 /\ delayed[i] = 0 /\ left[i] = input.table[i].burst
  /\ \A i \in arrived : ended[i] = 0 => Served(i) = tick - input.table[i].arrival
  /\ \A i \in Js : ended[i] = 0 /\ i # job.idx => left[i] > 0

(* shajith's lottery: who is not done has waited or run in every tick. *)
DrawInv == \A i \in Js : ended[i] = 0 => left[i] > 0 /\ Served(i) = tick

(* Vijay's lottery: so has who has arrived. *)
DrawArrivedInv ==
  \A i \in Js :
    /\ ended[i] = 0 <=> left[i] > 0
    /\ ended[i] = 0 /\ input.table[i].arrival <= tick => Served(i) = tick - input.table[i].arrival
    /\ input.table[i].arrival > tick => ended[i] = 0 /\ delayed[i] = 0 /\ left[i] = input.table[i].burst

(* Vijay's RMS: the clock is in the period of everybody who has arrived. *)
PeriodInv ==
  \A i \in Js :
    /\ ended[i] = 0 /\ left[i] <= input.table[i].burst
    /\ input.table[i].arrival < tick =>
         tick <= next_deadline[i] /\ next_deadline[i] - input.table[i].key < tick
    /\ input.table[i].arrival >= tick => next_deadline[i] = input.table[i].arrival + input.table[i].key

(* The invariant of the simulators for one CPU *)
UsInv ==
  /\ UsTypeOK /\ PlaceInv /\ ShownInv
  /\ input.program = "shajith_mlfq" => QueueInv
  /\ input.program = "shajith_lottery" => DrawInv
  /\ input.program = "vijay_lottery" => DrawArrivedInv
  /\ input.program = "vijay_rms" => PeriodInv

(* The table that was typed in *)
LEMMA InputFacts ==
  ASSUME input \in Inputs
  PROVE  /\ IsFiniteSet(Js)
         /\ \A i \in Js : /\ i \in Nat /\ i # 0 /\ input.table[i].arrival \in Nat
                          /\ input.table[i].burst \in Nat /\ input.table[i].burst # 0
                          /\ input.table[i].key \in Nat /\ input.table[i].key # 0
<1> DEFINE T == [arrival : Nat, burst : Nat \ {0}, key : Nat \ {0}]
<1>1. input.table \in Seq(T)
  BY UsAssumption
<1>a. \A x \in T : x.arrival \in Nat /\ x.burst \in Nat /\ x.burst # 0 /\ x.key \in Nat /\ x.key # 0
  OBVIOUS
<1> HIDE DEF T
<1>2. PICK t \in Seq(T) : t = input.table
  BY <1>1
<1>3. DOMAIN t = 1 .. Len(t) /\ Len(t) \in Nat /\ \A i \in 1 .. Len(t) : t[i] \in T
  BY <1>2
<1>4. \A i \in 1 .. Len(t) : /\ t[i].arrival \in Nat /\ t[i].burst \in Nat /\ t[i].burst # 0
                             /\ t[i].key \in Nat /\ t[i].key # 0
  BY <1>3, <1>a
<1>b. \A n \in Nat : IsFiniteSet(1 .. n)
  BY FS_Interval
<1>5. IsFiniteSet(1 .. Len(t))
  BY <1>3, <1>b
<1>6. Js = 1 .. Len(t)
  BY <1>2, <1>3 DEF Js
<1>7. QED
  BY <1>2, <1>3, <1>4, <1>5, <1>6

(* The numbers of a process *)
LEMMA JobInts ==
  ASSUME UsTypeOK, NEW i \in Js
  PROVE  /\ delayed[i] \in Nat /\ left[i] \in Int /\ ended[i] \in Nat /\ tick \in Nat /\ next_deadline[i] \in Int
         /\ input.table[i].arrival \in Nat /\ input.table[i].burst \in Nat /\ input.table[i].burst # 0
         /\ input.table[i].key \in Nat /\ input.table[i].key # 0 /\ i # 0
<1>1. delayed[i] \in Nat /\ left[i] \in Int /\ ended[i] \in Nat /\ tick \in Nat /\ next_deadline[i] \in Int
  BY DEF UsTypeOK
<1>2. /\ input.table[i].arrival \in Nat /\ input.table[i].burst \in Nat /\ input.table[i].burst # 0
      /\ input.table[i].key \in Nat /\ input.table[i].key # 0 /\ i # 0
  BY InputFacts DEF UsTypeOK
<1>3. QED
  BY <1>1, <1>2

(* A program begins in the invariant. *)
LEMMA UsInitInv == UsInit => UsInv
<1> SUFFICES ASSUME UsInit PROVE UsInv
  OBVIOUS
<1>1. /\ input \in Inputs /\ left = [i \in Js |-> input.table[i].burst] /\ ended = [i \in Js |-> 0]
      /\ arrived = {} /\ job = NoJob /\ tick = 0 /\ doing = "menu" /\ delayed = [i \in Js |-> 0]
      /\ next_deadline = [i \in Js |-> input.table[i].arrival + input.table[i].key]
      /\ queues = [l \in 1 .. QUEUES |-> <<>>]
  BY DEF UsInit
<1>2. \A i \in Js : /\ input.table[i].arrival \in Nat /\ input.table[i].burst \in Nat /\ input.table[i].burst # 0
                    /\ input.table[i].key \in Nat /\ input.table[i].key # 0
  BY <1>1, InputFacts
<1>3. UsTypeOK
  <2>1. left \in [Js -> Int] /\ next_deadline \in [Js -> Int]
    BY <1>1, <1>2
  <2>2. job \in [idx : Js \cup {0}, level : 1 .. QUEUES, ran : Nat]
    BY <1>1 DEF NoJob, QUEUES
  <2>3. QED
    BY <1>1, <2>1, <2>2 DEF UsTypeOK
<1>4. PlaceInv /\ ShownInv
  BY <1>1 DEF PlaceInv, ShownInv, NoJob
<1>5. ASSUME NEW i \in Js
      PROVE  /\ ended[i] = 0 /\ delayed[i] = 0 /\ left[i] = input.table[i].burst /\ left[i] > 0
             /\ next_deadline[i] = input.table[i].arrival + input.table[i].key
             /\ Served(i) = 0 /\ ~(input.table[i].arrival < tick)
             /\ input.table[i].arrival <= tick => tick - input.table[i].arrival = 0
  <2>1. PICK a \in Nat, b \in Nat : a = input.table[i].arrival /\ b = input.table[i].burst /\ b # 0
    BY <1>2
  <2>2. ended[i] = 0 /\ delayed[i] = 0 /\ left[i] = b /\ next_deadline[i] = input.table[i].arrival + input.table[i].key
    BY <1>1, <2>1
  <2>3. Served(i) = 0
    BY <2>1, <2>2 DEF Served
  <2>4. ~(a < 0) /\ b > 0 /\ (a <= 0 => 0 - a = 0)
    BY <2>1
  <2>5. QED
    BY <1>1, <2>1, <2>2, <2>3, <2>4
<1>6. QueueInv
  <2>1. Queued = {}
    BY <1>1 DEF Queued
  <2>2. Listed(queues, Js, Queued)
    <3>1. <<>> \in Seq(Js) /\ Len(<<>>) = 0
      OBVIOUS
    <3>2. \A l \in 1 .. QUEUES : queues[l] = <<>> /\ Len(queues[l]) = 0
      BY <1>1, <3>1
    <3>3. queues \in [1 .. QUEUES -> Seq(Js)]
      BY <1>1, <3>1
    <3>4. QED
      BY <2>1, <3>2, <3>3 DEF Listed
  <2>3. QED
    BY <1>1, <1>5, <2>2 DEF QueueInv, NoJob
<1>7. DrawInv
  BY <1>1, <1>5 DEF DrawInv
<1>8. DrawArrivedInv
  BY <1>1, <1>5 DEF DrawArrivedInv
<1>9. PeriodInv
  BY <1>2, <1>5 DEF PeriodInv
<1>10. QED
  BY <1>3, <1>4, <1>6, <1>7, <1>8, <1>9 DEF UsInv

(* One tick more *)
LEMMA Ticks ==
  ASSUME UsTypeOK, NEW i, NEW W, Tick(i, W)
  PROVE  /\ tick' = tick + 1 /\ tick' \in Nat /\ delayed' \in [Js -> Nat]
         /\ \A j \in Js : delayed'[j] = IF j \in W /\ j # i THEN delayed[j] + 1 ELSE delayed[j]
<1>1. tick \in Nat /\ delayed \in [Js -> Nat]
  BY DEF UsTypeOK
<1>2. tick' = tick + 1 /\ delayed' = [j \in Js |-> IF j \in W \ {i} THEN delayed[j] + 1 ELSE delayed[j]]
  BY DEF Tick
<1>3. tick' \in Nat
  BY <1>1, <1>2
<1>4. delayed' \in [Js -> Nat]
  BY <1>1, <1>2
<1>5. QED
  BY <1>2, <1>3, <1>4

(* The queues with the new arrivals *)
LEMMA Arrive ==
  ASSUME UsTypeOK, QueueInv
  PROVE  /\ Listed(check_arrivals, Js, Queued \cup Arriving)
         /\ Arriving \in SUBSET Js
         /\ Queued \cup Arriving = {i \in arrived \cup Arriving : ended[i] = 0 /\ i # job.idx}
         /\ \A i \in Js : input.table[i].arrival <= tick => i \in arrived \cup Arriving
         /\ \A i \in Arriving : i \notin arrived /\ input.table[i].arrival = tick
<1>1. Arriving \in SUBSET Js /\ \A i \in Arriving : i \notin arrived /\ input.table[i].arrival = tick
  BY DEF Arriving
<1>2. IsFiniteSet(Js) /\ \A i \in Js : i \in Nat /\ i # 0 /\ input.table[i].arrival \in Nat
  BY InputFacts DEF UsTypeOK
<1>3. IsFiniteSet(Arriving)
  BY <1>1, <1>2, FS_Subset
<1>4. Ordered(Arriving, ByNumber)
  <2>1. \A x, y \in Js : <<x, y>> \in ByNumber <=> x < y
    BY DEF ByNumber
  <2>2. \A x \in Arriving : x \in Js /\ x \in Int
    BY <1>1, <1>2
  <2>3. \A x, y \in Arriving : <<x, y>> \in ByNumber <=> x < y
    BY <2>1, <2>2
  <2>4. \A x, y \in Arriving : x = y \/ x < y \/ y < x
    BY <2>2
  <2>5. \A x, y, z \in Arriving : x < y /\ y < z => x < z
    BY <2>2
  <2>6. \A x \in Arriving : ~(x < x)
    BY <2>2
  <2>7. QED
    BY <2>3, <2>4, <2>5, <2>6 DEF Ordered
<1>5. PICK a : a = InOrder(Arriving, ByNumber)
  OBVIOUS
<1>6. /\ a \in Seq(Arriving)
      /\ \A k, n \in 1 .. Len(a) : a[k] = a[n] => k = n
      /\ \A x \in Arriving : \E k \in 1 .. Len(a) : a[k] = x
  BY <1>3, <1>4, <1>5, InOrderLists
<1>7. Listed(queues, Js, Queued) /\ Arriving \cap Queued = {}
  BY <1>1 DEF QueueInv, Queued
<1>8. Listed([queues EXCEPT ![1] = queues[1] \o a], Js, Queued \cup Arriving)
  BY <1>1, <1>6, <1>7, ListedJoin
<1>9. check_arrivals = [queues EXCEPT ![1] = queues[1] \o a]
  BY <1>5 DEF check_arrivals, Put
<1>10. \A i \in Arriving : ended[i] = 0 /\ i # job.idx
  <2>1. \A i \in Arriving : i \in Js \ arrived
    BY <1>1
  <2>2. job.idx # 0 => job.idx \in arrived
    BY DEF QueueInv
  <2>3. \A i \in Js \ arrived : ended[i] = 0
    BY DEF QueueInv
  <2>4. QED
    BY <1>2, <2>1, <2>2, <2>3
<1>11. Queued \cup Arriving = {i \in arrived \cup Arriving : ended[i] = 0 /\ i # job.idx}
  BY <1>10 DEF Queued
<1>12. ASSUME NEW i \in Js, input.table[i].arrival <= tick PROVE i \in arrived \cup Arriving
  <2>1. PICK c \in Nat, d \in Nat : c = input.table[i].arrival /\ d = tick
    BY <1>2 DEF UsTypeOK
  <2>2. c < d \/ c = d
    BY <1>12, <2>1
  <2>3. QED
    BY <2>1, <2>2 DEF QueueInv, Arriving
<1>13. QED
  BY <1>1, <1>8, <1>9, <1>11, <1>12

(* A process is taken from the first queue that is not empty. *)
LEMMA PopSteps ==
  ASSUME UsInv, input.program = "shajith_mlfq", Pop PROVE UsInv'
<1> USE DEF UsInv
<1>1. PICK l \in 1 .. QUEUES :
        /\ check_arrivals[l] # <<>>
        /\ job' = [idx |-> Head(check_arrivals[l]), level |-> l, ran |-> 0]
        /\ queues' = Put(check_arrivals, l, Tail(check_arrivals[l]))
  BY DEF Pop
<1>2. /\ doing \in {"menu", "loop"} /\ arrived' = arrived \cup Arriving /\ doing' = "slice"
      /\ UNCHANGED <<input, left, ended, tick, next_deadline, delayed>>
  BY DEF Pop, Loops, Is
<1>3. Js' = Js /\ job.idx = 0
  BY <1>2 DEF Js, PlaceInv
<1>4. /\ Listed(check_arrivals, Js, Queued \cup Arriving) /\ Arriving \in SUBSET Js
      /\ Queued \cup Arriving = {i \in arrived \cup Arriving : ended[i] = 0 /\ i # job.idx}
      /\ \A i \in Js : input.table[i].arrival <= tick => i \in arrived \cup Arriving
      /\ \A i \in Arriving : i \notin arrived /\ input.table[i].arrival = tick
  BY Arrive
<1>5. PICK Q : Q = check_arrivals
  OBVIOUS
<1>6. PICK W : W = Queued \cup Arriving
  OBVIOUS
<1>7. Listed(Q, Js, W) /\ Q[l] # <<>>
  BY <1>1, <1>4, <1>5, <1>6
<1>8. Head(Q[l]) \in W /\ Listed([Q EXCEPT ![l] = Tail(Q[l])], Js, W \ {Head(Q[l])})
  BY <1>7, ListedPop
<1>9. PICK x : x = Head(Q[l])
  OBVIOUS
<1>10. x \in W /\ job' = [idx |-> x, level |-> l, ran |-> 0] /\ job'.idx = x /\ Listed(queues', Js, W \ {x})
  BY <1>1, <1>5, <1>8, <1>9 DEF Put
<1>11. x \in arrived' /\ ended[x] = 0 /\ x \in Js /\ x # 0
  <2>1. x \in Js /\ x \in arrived' /\ ended[x] = 0
    BY <1>2, <1>4, <1>6, <1>10 DEF UsTypeOK
  <2>2. QED
    BY <2>1, JobInts
<1>12. UsTypeOK'
  BY <1>2, <1>3, <1>4, <1>10, <1>11 DEF UsTypeOK
<1>13. PlaceInv'
  BY <1>2, <1>10, <1>11 DEF PlaceInv
<1>14. ShownInv'
  BY <1>2, <1>3 DEF ShownInv, Waits
<1>15. QueueInv'
  <2>1. Queued' = W \ {x}
    BY <1>2, <1>3, <1>4, <1>6, <1>10, JobInts DEF Queued, UsTypeOK
  <2>2. Listed(queues, Js, Queued)'
    BY <1>3, <1>10, <2>1 DEF Listed
  <2>3. \A i \in Js : input.table[i].arrival < tick => i \in arrived'
    BY <1>2 DEF QueueInv
  <2>4. \A i \in arrived' : input.table[i].arrival <= tick
    <3>1. tick <= tick
      BY DEF UsTypeOK
    <3>2. QED
      BY <1>2, <1>4, <3>1 DEF QueueInv
  <2>5. left[x] >= 0
    <3>1. left[x] > 0 /\ left[x] \in Int
      BY <1>3, <1>11, JobInts DEF QueueInv
    <3>2. QED
      BY <3>1
  <2>6. \A i \in Js \ arrived' : ended[i] = 0 /\ delayed[i] = 0 /\ left[i] = input.table[i].burst
    BY <1>2 DEF QueueInv
  <2>7. ASSUME NEW i \in arrived', ended[i] = 0 PROVE Served(i) = tick - input.table[i].arrival
    <3>1. CASE i \in arrived
      BY <2>7, <3>1 DEF QueueInv
    <3>2. CASE i \in Arriving
      <4>1. i \in Js \ arrived
        BY <1>4, <3>2
      <4>2. PICK b \in Nat, d \in Nat : b = input.table[i].burst /\ d = tick
        BY <4>1, JobInts
      <4>3. delayed[i] = 0 /\ left[i] = b
        BY <4>1, <4>2 DEF QueueInv
      <4>4. 0 + b - b = d - d
        BY <4>2
      <4>5. input.table[i].arrival = d
        BY <1>4, <3>2, <4>2
      <4>6. QED
        BY <4>2, <4>3, <4>4, <4>5 DEF Served
    <3>3. QED
      BY <1>2, <2>7, <3>1, <3>2
  <2>8. \A i : Served(i)' = Served(i)
    BY <1>2 DEF Served
  <2>9. \A i \in Js : ended[i] = 0 => left[i] > 0
    BY <1>3, JobInts DEF QueueInv
  <2>10. QED
    BY <1>2, <1>3, <1>4, <1>10, <1>11, <2>2, <2>3, <2>4, <2>5, <2>6, <2>7, <2>8, <2>9 DEF QueueInv
<1>16. QED
  BY <1>2, <1>12, <1>13, <1>14, <1>15

(* No process is in a queue: nobody who has arrived waits. *)
LEMMA NoneReadySteps ==
  ASSUME UsInv, input.program = "shajith_mlfq", NoneReady PROVE UsInv'
<1> USE DEF UsInv
<1>1. /\ doing \in {"menu", "loop"} /\ doing' = "loop" /\ Tick(0, {})
      /\ UNCHANGED <<input, left, ended, arrived, queues, job, next_deadline>>
      /\ \A l \in 1 .. QUEUES : check_arrivals[l] = <<>>
  BY DEF NoneReady, Loops, Is
<1>2. Js' = Js /\ job.idx = 0
  BY <1>1 DEF Js, PlaceInv
<1>3. /\ tick' = tick + 1 /\ tick' \in Nat /\ delayed' \in [Js -> Nat]
      /\ \A j \in Js : delayed'[j] = delayed[j]
  BY <1>1, Ticks
<1>4. /\ Listed(check_arrivals, Js, Queued \cup Arriving)
      /\ \A i \in Js : input.table[i].arrival <= tick => i \in arrived \cup Arriving
  BY Arrive
<1>5. Queued = {} /\ Arriving = {}
  <2>1. \A l \in 1 .. QUEUES : ~\E k \in 1 .. Len(check_arrivals[l]) : TRUE
    BY <1>1
  <2>2. QED
    BY <1>4, <2>1 DEF Listed
<1>6. \A i \in arrived : ended[i] # 0
  BY <1>2, <1>5, JobInts DEF Queued, UsTypeOK
<1>7. UsTypeOK'
  BY <1>1, <1>2, <1>3 DEF UsTypeOK
<1>8. PlaceInv'
  BY <1>1, <1>2 DEF PlaceInv
<1>9. ShownInv'
  BY <1>1, <1>2, <1>3 DEF ShownInv, Waits
<1>10. QueueInv'
  <2>1. Queued' = Queued
    BY <1>1 DEF Queued
  <2>2. Listed(queues, Js, Queued)'
    <3>1. Listed(queues, Js, Queued)
      BY DEF QueueInv
    <3>2. queues' = queues /\ Js' = Js /\ Queued' = Queued
      BY <1>1, <1>2, <2>1
    <3>3. QED
      BY <3>1, <3>2 DEF Listed
  <2>3. ASSUME NEW i \in Js, input.table[i].arrival < tick' PROVE i \in arrived
    <3>1. input.table[i].arrival <= tick
      <4>1. PICK c \in Nat, d \in Nat : c = input.table[i].arrival /\ d = tick
        BY JobInts
      <4>2. c < d + 1
        BY <1>3, <2>3, <4>1
      <4>3. QED
        BY <4>1, <4>2
    <3>2. QED
      BY <1>4, <1>5, <3>1
  <2>4. ASSUME NEW i \in arrived PROVE input.table[i].arrival <= tick'
    <3>1. PICK c \in Nat, d \in Nat : c = input.table[i].arrival /\ d = tick
      BY JobInts DEF UsTypeOK
    <3>2. c <= d
      BY <3>1 DEF QueueInv
    <3>3. QED
      BY <1>3, <3>1, <3>2
  <2>5. QED
    BY <1>1, <1>2, <1>3, <1>6, <2>2, <2>3, <2>4 DEF QueueInv
<1>11. QED
  BY <1>1, <1>7, <1>8, <1>9, <1>10

(* All are done. *)
LEMMA FinishSteps ==
  ASSUME UsInv, input.program = "shajith_mlfq", Finish PROVE UsInv'
<1> USE DEF UsInv
<1>1. /\ doing \in {"menu", "loop"} /\ doing' = "end" /\ all_done
      /\ UNCHANGED <<input, left, ended, arrived, queues, job, tick, next_deadline, delayed>>
  BY DEF Finish, Loops, Is, Leaves
<1>2. Js' = Js /\ job.idx = 0
  BY <1>1 DEF Js, PlaceInv
<1>3. UsTypeOK'
  BY <1>1, <1>2 DEF UsTypeOK
<1>4. PlaceInv'
  BY <1>1, <1>2 DEF PlaceInv, all_done
<1>5. ShownInv'
  BY <1>1, <1>2 DEF ShownInv, Waits
<1>6. QueueInv'
  <2>1. Queued' = Queued /\ \A i : Served(i)' = Served(i)
    BY <1>1 DEF Queued, Served
  <2>2. Listed(queues, Js, Queued)'
    BY <1>1, <1>2, <2>1 DEF Listed, QueueInv
  <2>3. QED
    BY <1>1, <1>2, <2>1, <2>2 DEF QueueInv
<1>7. QED
  BY <1>1, <1>3, <1>4, <1>5, <1>6

(* A tick of a slice: those who have arrived by then wait. *)
LEMMA RunSliceSteps ==
  ASSUME UsInv, RunSlice PROVE UsInv'
<1> USE DEF UsInv
<1>1. /\ doing = "slice" /\ doing' = "slice" /\ InSlice /\ UNCHANGED <<input, ended, next_deadline>>
      /\ queues' = IF job.ran > 0 THEN check_arrivals ELSE queues
      /\ arrived' = IF job.ran > 0 THEN arrived \cup Arriving ELSE arrived
      /\ left' = Decr(left, job.idx) /\ job' = [job EXCEPT !.ran = @ + 1]
      /\ Tick(job.idx, {j \in Js : input.table[j].arrival <= tick /\ ended[j] = 0})
  BY DEF RunSlice
<1>2. Js' = Js /\ input.program = "shajith_mlfq"
  BY <1>1 DEF Js, PlaceInv
<1>3. PICK x \in Js : x = job.idx /\ x \in arrived /\ ended[x] = 0 /\ left[x] > 0
  BY <1>1, <1>2 DEF PlaceInv, QueueInv, UsTypeOK, InSlice
<1>4. /\ job'.idx = x /\ job'.ran = job.ran + 1 /\ job.ran \in Nat
      /\ job' \in [idx : Js \cup {0}, level : 1 .. QUEUES, ran : Nat]
  BY <1>1, <1>3 DEF UsTypeOK
<1>5. /\ tick' = tick + 1 /\ tick' \in Nat /\ delayed' \in [Js -> Nat]
      /\ \A j \in Js : delayed'[j] =
           IF j \in {i \in Js : input.table[i].arrival <= tick /\ ended[i] = 0} /\ j # x
           THEN delayed[j] + 1 ELSE delayed[j]
  BY <1>1, <1>3, Ticks
<1>6. /\ left' \in [Js -> Int] /\ left'[x] = left[x] - 1
      /\ \A j \in Js : j # x => left'[j] = left[j]
  <2>1. left \in [Js -> Int] /\ left' = [left EXCEPT ![x] = left[x] - 1]
    BY <1>1, <1>3 DEF UsTypeOK, Decr
  <2>2. QED
    BY <1>3, <2>1
<1>7. /\ Listed(check_arrivals, Js, Queued \cup Arriving) /\ Arriving \in SUBSET Js
      /\ Queued \cup Arriving = {i \in arrived \cup Arriving : ended[i] = 0 /\ i # job.idx}
      /\ \A i \in Js : input.table[i].arrival <= tick => i \in arrived \cup Arriving
      /\ \A i \in Arriving : i \notin arrived /\ input.table[i].arrival = tick
  BY <1>2, Arrive
<1>8. arrived' = arrived \cup Arriving /\ Listed(queues', Js, Queued \cup Arriving)
  <2>1. CASE job.ran > 0
    BY <1>1, <1>7, <2>1
  <2>2. CASE ~(job.ran > 0)
    <3>1. job.ran = 0
      BY <1>4, <2>2
    <3>2. Arriving = {}
      <4>1. \A i \in Js : input.table[i].arrival <= tick => i \in arrived
        BY <1>1, <1>2, <3>1 DEF QueueInv
      <4>2. tick <= tick
        BY DEF UsTypeOK
      <4>3. QED
        BY <1>7, <4>1, <4>2
    <3>3. QED
      BY <1>1, <1>2, <2>2, <3>2 DEF QueueInv
  <2>3. QED
    BY <2>1, <2>2
<1>9. UsTypeOK'
  <2>1. arrived' \in SUBSET Js
    BY <1>7, <1>8 DEF UsTypeOK
  <2>2. QED
    BY <1>1, <1>2, <1>4, <1>5, <1>6, <2>1 DEF UsTypeOK
<1>10. PlaceInv'
  BY <1>1, <1>2, <1>3, <1>4, JobInts DEF PlaceInv
<1>11. ShownInv'
  <2>1. \A i \in Js : ended[i] > 0 => delayed'[i] = delayed[i]
    BY <1>5
  <2>2. QED
    BY <1>1, <1>2, <2>1 DEF ShownInv, Waits
<1>12. ASSUME NEW i \in Js
       PROVE  /\ i \in arrived' => input.table[i].arrival <= tick
              /\ input.table[i].arrival <= tick => i \in arrived'
  <2>1. tick <= tick
    BY DEF UsTypeOK
  <2>2. QED
    BY <1>2, <1>7, <1>8, <2>1 DEF QueueInv
<1>13. ASSUME NEW i \in arrived', ended[i] = 0 PROVE Served(i)' = tick' - input.table[i].arrival
  <2>1. i \in Js /\ input.table[i].arrival <= tick
    BY <1>9, <1>12, <1>2 DEF UsTypeOK
  <2>2. PICK b \in Nat, d \in Nat, c \in Nat, w \in Nat, r \in Int :
          b = input.table[i].burst /\ d = tick /\ c = input.table[i].arrival /\ w = delayed[i] /\ r = left[i]
    BY <2>1, JobInts
  <2>3. w + b - r = d - c
    <3>1. CASE i \in arrived
      <4>1. Served(i) = tick - input.table[i].arrival
        BY <1>2, <1>13, <3>1 DEF QueueInv
      <4>2. QED
        BY <2>2, <4>1 DEF Served
    <3>2. CASE i \notin arrived
      <4>1. i \in Arriving /\ i \in Js \ arrived
        BY <1>8, <2>1, <3>2
      <4>2. w = 0 /\ r = b /\ c = d
        BY <1>2, <1>7, <2>2, <4>1 DEF QueueInv
      <4>3. QED
        BY <2>2, <4>2
    <3>3. QED
      BY <3>1, <3>2
  <2>4. Served(i)' = delayed'[i] + b - left'[i]
    BY <1>1, <2>2 DEF Served
  <2>5. CASE i = x
    <3>1. delayed'[i] = w /\ left'[i] = r - 1
      BY <1>5, <1>6, <2>1, <2>2, <2>5
    <3>2. w + b - (r - 1) = (d + 1) - c
      BY <2>2, <2>3
    <3>3. QED
      BY <1>5, <2>2, <2>4, <3>1, <3>2
  <2>6. CASE i # x
    <3>1. delayed'[i] = w + 1 /\ left'[i] = r
      BY <1>5, <1>6, <1>13, <2>1, <2>2, <2>6
    <3>2. (w + 1) + b - r = (d + 1) - c
      BY <2>2, <2>3
    <3>3. QED
      BY <1>5, <2>2, <2>4, <3>1, <3>2
  <2>7. QED
    BY <2>5, <2>6
<1>14. QueueInv'
  <2>1. Queued' = Queued \cup Arriving
    BY <1>1, <1>3, <1>4, <1>7, <1>8 DEF Queued
  <2>2. Listed(queues, Js, Queued)'
    BY <1>2, <1>8, <2>1 DEF Listed
  <2>3. ASSUME NEW i \in Js
        PROVE  /\ input.table[i].arrival < tick' => i \in arrived'
               /\ i \in arrived' => input.table[i].arrival <= tick'
    <3>1. PICK c \in Nat, d \in Nat : c = input.table[i].arrival /\ d = tick
      BY JobInts
    <3>2. (c < d + 1 => c <= d) /\ (c <= d => c <= d + 1)
      BY <3>1
    <3>3. QED
      BY <1>5, <1>12, <3>1, <3>2
  <2>4. ASSUME NEW i \in Js \ arrived'
        PROVE  ended[i] = 0 /\ delayed'[i] = 0 /\ left'[i] = input.table[i].burst
    <3>1. i \in Js \ arrived /\ i # x /\ ~(input.table[i].arrival <= tick)
      BY <1>3, <1>8, <1>12, <2>4
    <3>2. delayed'[i] = delayed[i] /\ left'[i] = left[i]
      BY <1>5, <1>6, <3>1
    <3>3. QED
      BY <1>2, <3>1, <3>2 DEF QueueInv
  <2>5. left'[x] >= 0
    <3>1. left[x] \in Int
      BY <1>3 DEF UsTypeOK
    <3>2. QED
      BY <1>3, <1>6, <3>1
  <2>6. \A i \in Js : ended[i] = 0 /\ i # x => left'[i] > 0
    BY <1>2, <1>3, <1>6 DEF QueueInv
  <2>7. job'.ran # 0
    BY <1>4
  <2>8. x \in arrived'
    BY <1>3, <1>8
  <2>9. arrived' \in SUBSET Js
    BY <1>9, <1>2 DEF UsTypeOK
  <2>10. QED
    BY <1>1, <1>2, <1>3, <1>4, <1>13, <2>2, <2>3, <2>4, <2>5, <2>6, <2>7, <2>8, <2>9 DEF QueueInv
<1>15. QED
  BY <1>1, <1>2, <1>9, <1>10, <1>11, <1>14

(* The slice is over: the process is done or in a queue again. *)
LEMMA SliceEndsSteps ==
  ASSUME UsInv, SliceEnds PROVE UsInv'
<1> USE DEF UsInv
<1>0. PICK m \in 1 .. QUEUES : m = IF job.level = QUEUES THEN QUEUES ELSE job.level + 1
  <2>1. job.level \in 1 .. QUEUES
    BY DEF UsTypeOK
  <2>2. QED
    BY <2>1 DEF QUEUES
<1>1. /\ doing = "slice" /\ doing' = "loop" /\ job' = NoJob
      /\ UNCHANGED <<input, left, arrived, tick, next_deadline, delayed>>
      /\ \/ left[job.idx] = 0 /\ ended' = Put(ended, job.idx, tick) /\ UNCHANGED queues
         \/ left[job.idx] # 0 /\ queues' = Put(queues, m, Append(queues[m], job.idx)) /\ UNCHANGED ended
  BY <1>0 DEF SliceEnds
<1>2. Js' = Js /\ input.program = "shajith_mlfq"
  BY <1>1 DEF Js, PlaceInv
<1>3. PICK x \in Js : x = job.idx /\ x \in arrived /\ ended[x] = 0 /\ left[x] >= 0
  BY <1>1, <1>2 DEF PlaceInv, QueueInv, UsTypeOK
<1>4. job'.idx = 0 /\ job' \in [idx : Js \cup {0}, level : 1 .. QUEUES, ran : Nat]
  BY <1>1 DEF NoJob, QUEUES
<1>5. \A i \in Js : i # 0
  BY JobInts
<1>6. PICK b \in Nat, d \in Nat, c \in Nat, w \in Nat, r \in Int :
        b = input.table[x].burst /\ d = tick /\ c = input.table[x].arrival /\ w = delayed[x] /\ r = left[x] /\ b # 0
  BY <1>3, JobInts
<1>7. w + b - r = d - c
  <2>1. Served(x) = tick - input.table[x].arrival
    BY <1>2, <1>3 DEF QueueInv
  <2>2. QED
    BY <1>6, <2>1 DEF Served
<1>8. \A i : Served(i)' = Served(i)
  BY <1>1 DEF Served
<1>9. PlaceInv'
  BY <1>1, <1>4 DEF PlaceInv
<1>10. /\ \A i \in Js : input.table[i].arrival < tick => i \in arrived
       /\ \A i \in arrived : input.table[i].arrival <= tick
       /\ Listed(queues, Js, Queued)
       /\ \A i \in Js \ arrived : ended[i] = 0 /\ delayed[i] = 0 /\ left[i] = input.table[i].burst
       /\ \A i \in arrived : ended[i] = 0 => Served(i) = tick - input.table[i].arrival
       /\ \A i \in Js : ended[i] = 0 /\ i # x => left[i] > 0
  BY <1>2, <1>3 DEF QueueInv
<1>11. CASE left[x] = 0
  <2>1. ended' = [ended EXCEPT ![x] = tick] /\ UNCHANGED queues
    BY <1>1, <1>3, <1>11 DEF Put
  <2>2. ended'[x] = tick /\ ended' \in [Js -> Nat] /\ \A i \in Js : i # x => ended'[i] = ended[i]
    <3>1. ended \in [Js -> Nat] /\ tick \in Nat
      BY DEF UsTypeOK
    <3>2. QED
      BY <2>1, <3>1
  <2>3. UsTypeOK'
    BY <1>1, <1>2, <1>4, <2>2 DEF UsTypeOK
  <2>4. d # 0 /\ w = d - b - c
    BY <1>6, <1>7, <1>11
  <2>5. ShownInv'
    <3>1. ASSUME NEW i \in Js, ended'[i] > 0 PROVE delayed[i] = Waits(i)'
      <4>1. CASE i # x
        BY <1>1, <2>2, <3>1, <4>1 DEF ShownInv, Waits
      <4>2. CASE i = x
        <5>1. Waits(x)' = d - b - c
          BY <1>1, <1>2, <1>6, <2>2 DEF Waits
        <5>2. QED
          BY <1>6, <2>4, <4>2, <5>1
      <4>3. QED
        BY <4>1, <4>2
    <3>2. QED
      BY <1>1, <1>2, <3>1 DEF ShownInv
  <2>6. Queued' = Queued
    <3>1. \A i \in arrived : ended'[i] = 0 /\ i # 0 <=> ended[i] = 0 /\ i # x
      BY <1>5, <1>6, <2>2, <2>4 DEF UsTypeOK
    <3>2. QED
      BY <1>1, <1>3, <1>4, <3>1 DEF Queued
  <2>7. Listed(queues, Js, Queued)'
    BY <1>2, <1>10, <2>1, <2>6 DEF Listed
  <2>8. \A i \in Js : ended'[i] = 0 => ended[i] = 0 /\ i # x
    BY <1>6, <2>2, <2>4
  <2>9. \A i \in Js \ arrived : ended'[i] = 0
    BY <1>3, <1>10, <2>2
  <2>10. QueueInv'
    <3>1. arrived \in SUBSET Js
      BY DEF UsTypeOK
    <3>2. QED
      BY <1>1, <1>2, <1>4, <1>8, <1>10, <2>7, <2>8, <2>9, <3>1 DEF QueueInv
  <2>11. QED
    BY <1>1, <1>2, <1>9, <2>3, <2>5, <2>10
<1>12. CASE left[x] # 0
  <2>1. queues' = [queues EXCEPT ![m] = Append(queues[m], x)] /\ UNCHANGED ended
    BY <1>1, <1>3, <1>12 DEF Put
  <2>2. UsTypeOK'
    BY <1>1, <1>2, <1>4, <2>1 DEF UsTypeOK
  <2>3. ShownInv'
    BY <1>1, <1>2, <2>1 DEF ShownInv, Waits
  <2>4. x \notin Queued
    BY <1>3 DEF Queued
  <2>5. Listed(queues', Js, Queued \cup {x})
    BY <1>3, <1>10, <2>1, <2>4, ListedPush
  <2>6. Queued' = Queued \cup {x}
    BY <1>1, <1>3, <1>4, <1>5, <2>1 DEF Queued, UsTypeOK
  <2>7. Listed(queues, Js, Queued)'
    BY <1>2, <2>5, <2>6 DEF Listed
  <2>8. \A i \in Js : ended[i] = 0 => left[i] > 0
    <3>1. left[x] > 0
      BY <1>3, <1>6, <1>12
    <3>2. QED
      BY <1>10, <3>1
  <2>9. QueueInv'
    BY <1>1, <1>2, <1>4, <1>8, <1>10, <2>1, <2>7, <2>8 DEF QueueInv
  <2>10. QED
    BY <1>1, <1>2, <1>9, <2>2, <2>3, <2>9
<1>13. QED
  BY <1>11, <1>12

(* A lottery is left. *)
LEMMA LeaveSteps ==
  ASSUME UsInv, doing \in {"menu", "loop"}, Leaves, UNCHANGED input, input.program # "shajith_mlfq",
         input.program \in ShowsWaits => all_done
  PROVE  UsInv'
<1> USE DEF UsInv
<1>1. /\ doing' = "end"
      /\ UNCHANGED <<input, left, ended, arrived, queues, job, tick, next_deadline, delayed>>
  BY DEF Leaves
<1>2. Js' = Js /\ job.idx = 0 /\ \A i : Served(i)' = Served(i)
  BY <1>1 DEF Js, PlaceInv, Served
<1>3. UsTypeOK' /\ ShownInv'
  BY <1>1, <1>2 DEF UsTypeOK, ShownInv, Waits
<1>4. PlaceInv'
  BY <1>1, <1>2 DEF PlaceInv, all_done
<1>5. (DrawInv => DrawInv') /\ (DrawArrivedInv => DrawArrivedInv') /\ (PeriodInv => PeriodInv')
  BY <1>1, <1>2 DEF DrawInv, DrawArrivedInv, PeriodInv
<1>6. QED
  BY <1>1, <1>3, <1>4, <1>5

(* What a winner and the others have after the tick *)
LEMMA Won ==
  ASSUME UsTypeOK, NEW i \in Js, NEW W, Wins(i, W), input.program # "shajith_mlfq",
         PlaceInv, ended[i] = 0
  PROVE  /\ Js' = Js /\ UsTypeOK' /\ PlaceInv' /\ UNCHANGED input
         /\ tick' = tick + 1 /\ doing' = "loop"
         /\ left'[i] = left[i] - 1 /\ delayed'[i] = delayed[i]
         /\ ended'[i] = IF left[i] = 1 THEN tick + 1 ELSE 0
         /\ \A j \in Js : j # i => left'[j] = left[j] /\ ended'[j] = ended[j]
         /\ \A j \in Js : j # i => delayed'[j] = IF j \in W THEN delayed[j] + 1 ELSE delayed[j]
<1>1. /\ left' = [left EXCEPT ![i] = left[i] - 1] /\ doing' = "loop" /\ Tick(i, W)
      /\ ended' = IF left[i] = 1 THEN [ended EXCEPT ![i] = tick + 1] ELSE ended
      /\ UNCHANGED <<input, arrived, queues, job, next_deadline>>
  BY DEF Wins, Put, Decr
<1>2. Js' = Js
  BY <1>1 DEF Js
<1>3. /\ tick' = tick + 1 /\ tick' \in Nat /\ delayed' \in [Js -> Nat]
      /\ \A j \in Js : delayed'[j] = IF j \in W /\ j # i THEN delayed[j] + 1 ELSE delayed[j]
  BY <1>1, Ticks
<1>4. left \in [Js -> Int] /\ ended \in [Js -> Nat] /\ tick \in Nat
  BY DEF UsTypeOK
<1>5. left' \in [Js -> Int] /\ left'[i] = left[i] - 1 /\ \A j \in Js : j # i => left'[j] = left[j]
  BY <1>1, <1>4
<1>6. /\ ended' \in [Js -> Nat] /\ ended'[i] = IF left[i] = 1 THEN tick + 1 ELSE 0
      /\ \A j \in Js : j # i => ended'[j] = ended[j]
  <2>1. CASE left[i] = 1
    BY <1>1, <1>3, <1>4, <2>1
  <2>2. CASE left[i] # 1
    BY <1>1, <1>4, <2>2
  <2>3. QED
    BY <2>1, <2>2
<1>7. UsTypeOK'
  BY <1>1, <1>2, <1>3, <1>5, <1>6 DEF UsTypeOK
<1>8. job.idx = 0
  BY DEF PlaceInv
<1>9. PlaceInv'
  BY <1>1, <1>2, <1>8 DEF PlaceInv
<1>10. QED
  BY <1>1, <1>2, <1>3, <1>5, <1>6, <1>7, <1>9

(* shajith's lottery: a winner runs a tick and the others wait. *)
LEMMA DrawSteps ==
  ASSUME UsInv, Draw PROVE UsInv'
<1> USE DEF UsInv
<1> DEFINE W == {j \in Js : ended[j] = 0}
<1>1. input.program = "shajith_lottery" /\ doing \in {"menu", "loop"}
  BY DEF Draw, Is
<1>2. DrawInv
  BY <1>1
<1>3. Holders(W) = W
  BY JobInts DEF Holders
<1>4. (\E i \in Holders(W) : Wins(i, W)) \/ (Holders(W) = {} /\ Leaves /\ UNCHANGED input)
  BY DEF Draw
<1>5. CASE Holders(W) = {} /\ Leaves /\ UNCHANGED input
  <2>1. ASSUME NEW i \in Js PROVE ended[i] > 0
    <3>1. ended[i] # 0 /\ ended[i] \in Nat
      BY <1>3, <1>5, JobInts
    <3>2. QED
      BY <3>1
  <2>2. QED
    BY <1>1, <1>5, <2>1, LeaveSteps DEF all_done
<1>6. CASE \E i \in Holders(W) : Wins(i, W)
  <2>1. PICK i \in Js : ended[i] = 0 /\ Wins(i, W)
    BY <1>3, <1>6
  <2>2. /\ Js' = Js /\ UsTypeOK' /\ PlaceInv' /\ UNCHANGED input
        /\ tick' = tick + 1 /\ doing' = "loop"
        /\ left'[i] = left[i] - 1 /\ delayed'[i] = delayed[i]
        /\ ended'[i] = IF left[i] = 1 THEN tick + 1 ELSE 0
        /\ \A j \in Js : j # i => left'[j] = left[j] /\ ended'[j] = ended[j]
        /\ \A j \in Js : j # i => delayed'[j] = IF j \in W THEN delayed[j] + 1 ELSE delayed[j]
    BY <1>1, <2>1, Won
  <2>3. PICK b \in Nat, d \in Nat, w \in Nat, r \in Int :
          b = input.table[i].burst /\ d = tick /\ w = delayed[i] /\ r = left[i]
    BY JobInts
  <2>4. r > 0 /\ w + b - r = d
    BY <1>2, <2>1, <2>3 DEF DrawInv, Served
  <2>5. ended'[i] = 0 => left'[i] > 0 /\ Served(i)' = tick'
    <3>1. ASSUME ended'[i] = 0 PROVE r # 1
      BY <2>2, <2>3, <3>1
    <3>2. r # 1 => r - 1 > 0 /\ w + b - (r - 1) = d + 1
      BY <2>3, <2>4
    <3>3. Served(i)' = w + b - (r - 1)
      BY <2>2, <2>3 DEF Served
    <3>4. QED
      BY <2>2, <2>3, <3>1, <3>2, <3>3
  <2>6. ASSUME NEW j \in Js, j # i, ended'[j] = 0 PROVE left'[j] > 0 /\ Served(j)' = tick'
    <3>1. ended[j] = 0 /\ left'[j] = left[j] /\ delayed'[j] = delayed[j] + 1
      BY <2>2, <2>6
    <3>2. PICK jb \in Nat, jw \in Nat, jr \in Int :
            jb = input.table[j].burst /\ jw = delayed[j] /\ jr = left[j]
      BY JobInts
    <3>3. jr > 0 /\ jw + jb - jr = d
      BY <1>2, <2>3, <3>1, <3>2 DEF DrawInv, Served
    <3>4. (jw + 1) + jb - jr = d + 1
      BY <2>3, <3>2, <3>3
    <3>5. Served(j)' = (jw + 1) + jb - jr
      BY <2>2, <3>1, <3>2 DEF Served
    <3>6. QED
      BY <2>2, <2>3, <3>1, <3>2, <3>3, <3>4, <3>5
  <2>7. DrawInv'
    BY <2>2, <2>5, <2>6 DEF DrawInv
  <2>8. ShownInv'
    <3>1. ASSUME NEW j \in Js, ended'[j] > 0 PROVE delayed'[j] = Waits(j)'
      <4>1. CASE j = i
        <5>1. r = 1 /\ ended'[i] = d + 1
          BY <2>2, <2>3, <3>1, <4>1
        <5>2. Waits(i)' = (d + 1) - b - 0
          BY <1>1, <2>2, <2>3, <5>1 DEF Waits
        <5>3. w = (d + 1) - b - 0
          BY <2>3, <2>4, <5>1
        <5>4. QED
          BY <2>2, <2>3, <4>1, <5>2, <5>3
      <4>2. CASE j # i
        <5>1. ended'[j] = ended[j] /\ ended[j] > 0 /\ delayed'[j] = delayed[j]
          BY <2>2, <3>1, <4>2
        <5>2. QED
          BY <2>2, <5>1 DEF ShownInv, Waits
      <4>3. QED
        BY <4>1, <4>2
    <3>2. QED
      BY <2>2, <3>1 DEF ShownInv
  <2>9. QED
    BY <1>1, <2>2, <2>7, <2>8
<1>7. QED
  BY <1>4, <1>5, <1>6

(* Vijay's lottery: so do those who have arrived. *)
LEMMA DrawArrivedSteps ==
  ASSUME UsInv, DrawArrived PROVE UsInv'
<1> USE DEF UsInv
<1> DEFINE W == {j \in Js : left[j] > 0 /\ input.table[j].arrival <= tick}
<1>1. input.program = "vijay_lottery" /\ doing \in {"menu", "loop"}
  BY DEF DrawArrived, Is
<1>2. DrawArrivedInv
  BY <1>1
<1>3. Holders(W) = W
  BY JobInts DEF Holders
<1>4. \/ \E i \in Holders(W) : Wins(i, W)
      \/ (tick = input.total_time \/ Holders(W) = {}) /\ Leaves /\ UNCHANGED input
  BY DEF DrawArrived
<1>5. CASE (tick = input.total_time \/ Holders(W) = {}) /\ Leaves /\ UNCHANGED input
  BY <1>1, <1>5, LeaveSteps DEF ShowsWaits
<1>6. CASE \E i \in Holders(W) : Wins(i, W)
  <2>1. PICK i \in Js : left[i] > 0 /\ input.table[i].arrival <= tick /\ ended[i] = 0 /\ Wins(i, W)
    BY <1>2, <1>3, <1>6 DEF DrawArrivedInv
  <2>2. /\ Js' = Js /\ UsTypeOK' /\ PlaceInv' /\ UNCHANGED input
        /\ tick' = tick + 1 /\ doing' = "loop"
        /\ left'[i] = left[i] - 1 /\ delayed'[i] = delayed[i]
        /\ ended'[i] = IF left[i] = 1 THEN tick + 1 ELSE 0
        /\ \A j \in Js : j # i => left'[j] = left[j] /\ ended'[j] = ended[j]
        /\ \A j \in Js : j # i => delayed'[j] = IF j \in W THEN delayed[j] + 1 ELSE delayed[j]
    BY <1>1, <2>1, Won
  <2>3. PICK b \in Nat, d \in Nat, c \in Nat, w \in Nat, r \in Int :
          b = input.table[i].burst /\ d = tick /\ c = input.table[i].arrival /\ w = delayed[i] /\ r = left[i]
    BY JobInts
  <2>4. r > 0 /\ c <= d /\ w + b - r = d - c
    BY <1>2, <2>1, <2>3 DEF DrawArrivedInv, Served
  <2>5. /\ ended'[i] = 0 <=> left'[i] > 0
        /\ Served(i)' = tick' - input.table[i].arrival /\ ~(input.table[i].arrival > tick')
    <3>0. b \in Int /\ d \in Int /\ c \in Int /\ w \in Int /\ r \in Int /\ d >= 0
      BY <2>3
    <3>a. w + b - (r - 1) = (d + 1) - c
      BY <2>4, <3>0
    <3>b. (r = 1 <=> ~(r - 1 > 0)) /\ ~(c > d + 1) /\ d + 1 # 0
      BY <2>4, <3>0
    <3>1. (r = 1 <=> ~(r - 1 > 0)) /\ w + b - (r - 1) = (d + 1) - c /\ ~(c > d + 1) /\ d + 1 # 0
      BY <3>a, <3>b
    <3>2. Served(i)' = w + b - (r - 1)
      BY <2>2, <2>3 DEF Served
    <3>3. ended'[i] = 0 <=> r # 1
      BY <2>2, <2>3, <3>1
    <3>4. QED
      BY <2>2, <2>3, <3>1, <3>2, <3>3
  <2>6. ASSUME NEW j \in Js, j # i
        PROVE  /\ ended'[j] = 0 <=> left'[j] > 0
               /\ ended'[j] = 0 /\ input.table[j].arrival <= tick' => Served(j)' = tick' - input.table[j].arrival
               /\ input.table[j].arrival > tick' => ended'[j] = 0 /\ delayed'[j] = 0 /\ left'[j] = input.table[j].burst
    <3>1. ended'[j] = ended[j] /\ left'[j] = left[j]
      BY <2>2, <2>6
    <3>2. PICK jb \in Nat, jc \in Nat, jw \in Nat, jr \in Int :
            jb = input.table[j].burst /\ jc = input.table[j].arrival /\ jw = delayed[j] /\ jr = left[j]
      BY JobInts
    <3>3. /\ ended[j] = 0 <=> jr > 0
          /\ ended[j] = 0 /\ jc <= d => jw + jb - jr = d - jc
          /\ jc > d => ended[j] = 0 /\ jw = 0 /\ jr = jb
      BY <1>2, <2>3, <3>2 DEF DrawArrivedInv, Served
    <3>4. delayed'[j] = IF jr > 0 /\ jc <= d THEN jw + 1 ELSE jw
      BY <2>2, <2>3, <2>6, <3>2
    <3>5. Served(j)' = delayed'[j] + jb - jr
      BY <2>2, <3>1, <3>2 DEF Served
    <3>6. CASE jc <= d
      <4>1. ~(jc > d + 1)
        BY <2>3, <3>2, <3>6
      <4>2. ASSUME ended[j] = 0 PROVE Served(j)' = (d + 1) - jc
        <5>1. delayed'[j] = jw + 1
          BY <3>3, <3>4, <3>6, <4>2
        <5>2. (jw + 1) + jb - jr = (d + 1) - jc
          BY <2>3, <3>2, <3>3, <3>6, <4>2
        <5>3. QED
          BY <3>5, <5>1, <5>2
      <4>3. QED
        BY <2>2, <2>3, <3>1, <3>2, <3>3, <4>1, <4>2
    <3>7. CASE jc > d
      <4>1. ended[j] = 0 /\ jw = 0 /\ jr = jb /\ ~(jc <= d)
        BY <2>3, <3>2, <3>3, <3>7
      <4>2. delayed'[j] = 0
        BY <3>4, <4>1
      <4>3. Served(j)' = 0
        BY <3>2, <3>5, <4>1, <4>2
      <4>4. jc <= d + 1 => (d + 1) - jc = 0
        BY <2>3, <3>2, <3>7
      <4>5. QED
        BY <2>2, <2>3, <3>1, <3>2, <3>3, <4>1, <4>2, <4>3, <4>4
    <3>8. QED
      BY <2>3, <3>2, <3>6, <3>7
  <2>7. DrawArrivedInv'
    <3>1. ASSUME NEW j \in Js
          PROVE  /\ ended'[j] = 0 <=> left'[j] > 0
                 /\ ended'[j] = 0 /\ input.table[j].arrival <= tick' => Served(j)' = tick' - input.table[j].arrival
                 /\ input.table[j].arrival > tick' => ended'[j] = 0 /\ delayed'[j] = 0 /\ left'[j] = input.table[j].burst
      <4>1. CASE j = i
        BY <2>5, <4>1
      <4>2. CASE j # i
        BY <2>6, <4>2
      <4>3. QED
        BY <4>1, <4>2
    <3>2. QED
      BY <2>2, <3>1 DEF DrawArrivedInv
  <2>8. ShownInv'
    <3>1. ASSUME NEW j \in Js, ended'[j] > 0 PROVE delayed'[j] = Waits(j)'
      <4>1. CASE j = i
        <5>1. r = 1 /\ ended'[i] = d + 1
          BY <2>2, <2>3, <3>1, <4>1
        <5>2. Waits(i)' = (d + 1) - b - c
          BY <1>1, <2>2, <2>3, <5>1 DEF Waits
        <5>3. w = (d + 1) - b - c
          BY <2>3, <2>4, <5>1
        <5>4. QED
          BY <2>2, <2>3, <4>1, <5>2, <5>3
      <4>2. CASE j # i
        <5>1. ended'[j] = ended[j] /\ ended[j] > 0 /\ ended[j] # 0
          BY <2>2, <3>1, <4>2
        <5>2. ~(left[j] > 0)
          BY <1>2, <5>1 DEF DrawArrivedInv
        <5>3. delayed'[j] = delayed[j]
          BY <2>2, <4>2, <5>2
        <5>4. QED
          BY <2>2, <5>1, <5>3 DEF ShownInv, Waits
      <4>3. QED
        BY <4>1, <4>2
    <3>2. QED
      BY <2>2, <3>1 DEF ShownInv
  <2>9. QED
    BY <1>1, <2>2, <2>7, <2>8
<1>7. QED
  BY <1>4, <1>5, <1>6

(* Vijay's RMS: what a new period gives back is counted from its start. *)
LEMMA RateSteps ==
  ASSUME UsInv, RateMonotonic PROVE UsInv'
<1> USE DEF UsInv
<1> DEFINE work == [i \in Js |-> IF Released(i) THEN input.table[i].burst ELSE left[i]]
           W == {i \in Js : work[i] > 0 /\ input.table[i].arrival <= tick}
           shortest == {i \in W : \A j \in W : input.table[i].key <= input.table[j].key}
           selected == IF W = {} THEN 0 ELSE CHOOSE i \in shortest : \A j \in shortest : i <= j
<1>1. input.program = "vijay_rms" /\ doing \in {"menu", "loop"} /\ UNCHANGED input
  BY DEF RateMonotonic, Is
<1>2. PeriodInv
  BY <1>1
<1>3. CASE tick = input.total_time
  <2>1. Leaves
    BY <1>3 DEF RateMonotonic
  <2>2. QED
    BY <1>1, <1>3, <2>1, LeaveSteps DEF ShowsWaits
<1>4. CASE tick # input.total_time
  <2>1. /\ next_deadline' = [i \in Js |-> IF Released(i) THEN next_deadline[i] + input.table[i].key
                                          ELSE next_deadline[i]]
        /\ left' = IF W = {} THEN work ELSE Decr(work, selected)
        /\ Tick(selected, W) /\ doing' = "loop" /\ UNCHANGED <<ended, arrived, queues, job>>
    BY <1>4 DEF RateMonotonic
  <2> HIDE DEF W, shortest, selected
  <2>a. PICK s : s = selected
    OBVIOUS
  <2>b. PICK V : V = W
    OBVIOUS
  <2>2. s = selected /\ V = W
    BY <2>a, <2>b
  <2>3. PICK g : g = work
    OBVIOUS
  <2>4. left' = g \/ left' = [g EXCEPT ![s] = g[s] - 1]
    BY <2>1, <2>2, <2>3 DEF Decr
  <2>5. Tick(s, V)
    BY <2>1, <2>2
  <2>6. g = [i \in Js |-> IF Released(i) THEN input.table[i].burst ELSE left[i]]
    BY <2>3
  <2> HIDE DEF work
  <2>7. Js' = Js
    BY <1>1 DEF Js
  <2>8. g \in [Js -> Int] /\ \A i \in Js : g[i] <= input.table[i].burst
    <3>1. ASSUME NEW i \in Js PROVE g[i] \in Int /\ g[i] <= input.table[i].burst
      <4>1. left[i] \in Int /\ input.table[i].burst \in Int /\ left[i] <= input.table[i].burst
        BY <1>2, JobInts DEF PeriodInv
      <4>2. g[i] = input.table[i].burst \/ g[i] = left[i]
        BY <2>6
      <4>3. QED
        BY <4>1, <4>2
    <3>2. QED
      BY <2>6, <3>1
  <2>9. left' \in [Js -> Int] /\ \A i \in Js : left'[i] <= input.table[i].burst
    <3>1. left' \in [Js -> Int]
      <4>1. ASSUME s \in Js PROVE g[s] - 1 \in Int
        BY <2>8, <4>1
      <4>2. QED
        BY <2>4, <2>8, <4>1
    <3>2. ASSUME NEW i \in Js PROVE left'[i] <= input.table[i].burst
      <4>1. g[i] \in Int /\ g[i] <= input.table[i].burst /\ input.table[i].burst \in Int
        BY <2>8, JobInts
      <4>2. left'[i] = g[i] \/ left'[i] = g[i] - 1
        BY <2>4, <2>8
      <4>3. QED
        BY <4>1, <4>2
    <3>3. QED
      BY <3>1, <3>2
  <2>10. /\ tick' = tick + 1 /\ tick' \in Nat /\ delayed' \in [Js -> Nat]
    BY <2>5, Ticks
  <2>11. next_deadline' \in [Js -> Int]
    <3>1. \A i \in Js : next_deadline[i] \in Int /\ next_deadline[i] + input.table[i].key \in Int
      BY JobInts
    <3>2. QED
      BY <2>1, <3>1
  <2>12. UsTypeOK'
    BY <1>1, <2>1, <2>7, <2>9, <2>10, <2>11 DEF UsTypeOK
  <2>13. PlaceInv'
    BY <1>1, <2>1 DEF PlaceInv
  <2>14. ShownInv'
    <3>1. \A i \in Js : ended'[i] = 0
      BY <1>2, <2>1 DEF PeriodInv
    <3>2. QED
      BY <2>7, <3>1 DEF ShownInv
  <2>15. ASSUME NEW i \in Js
         PROVE  /\ input.table[i].arrival < tick' =>
                     tick' <= next_deadline'[i] /\ next_deadline'[i] - input.table[i].key < tick'
                /\ input.table[i].arrival >= tick' =>
                     next_deadline'[i] = input.table[i].arrival + input.table[i].key
    <3>1. PICK c \in Nat, d \in Nat, k \in Nat, n \in Int :
            c = input.table[i].arrival /\ d = tick /\ k = input.table[i].key /\ k # 0 /\ n = next_deadline[i]
      BY JobInts
    <3>2. (c < d => d <= n /\ n - k < d) /\ (c >= d => n = c + k)
      BY <1>2, <3>1 DEF PeriodInv
    <3>3. PICK m \in Int : m = next_deadline'[i]
      BY <2>11
    <3>4. m = IF d >= n /\ c <= d THEN n + k ELSE n
      BY <2>1, <3>1, <3>3 DEF Released
    <3>5. CASE c < d
      <4>1. c < d + 1 /\ ~(c >= d + 1) /\ d + 1 <= m /\ m - k < d + 1
        <5>1. CASE d >= n
          <6>1. m = n + k /\ n = d
            BY <3>1, <3>2, <3>4, <3>5, <5>1
          <6>2. QED
            BY <3>1, <3>5, <6>1
        <5>2. CASE ~(d >= n)
          <6>1. m = n
            BY <3>4, <5>2
          <6>2. QED
            BY <3>1, <3>2, <3>5, <5>2, <6>1
        <5>3. QED
          BY <5>1, <5>2
      <4>2. QED
        BY <2>10, <3>1, <3>3, <4>1
    <3>6. CASE c >= d
      <4>1. n = c + k /\ ~(d >= n)
        BY <3>1, <3>2, <3>6
      <4>2. m = n
        BY <3>4, <4>1
      <4>3. /\ c < d + 1 => d + 1 <= m /\ m - k < d + 1
            /\ c >= d + 1 => m = c + k
        BY <3>1, <3>6, <4>1, <4>2
      <4>4. QED
        BY <2>10, <3>1, <3>3, <4>3
    <3>7. QED
      BY <3>1, <3>5, <3>6
  <2>16. PeriodInv'
    <3>1. \A i \in Js : ended'[i] = 0
      BY <1>2, <2>1 DEF PeriodInv
    <3>2. QED
      BY <1>1, <2>7, <2>9, <2>15, <3>1 DEF PeriodInv
  <2>17. QED
    BY <1>1, <2>12, <2>13, <2>14, <2>16
<1>5. QED
  BY <1>3, <1>4

(* A step of the other kind of simulator changes nothing. *)
LEMMA UsStill == ASSUME UsInv, UNCHANGED usVars PROVE UsInv'
<1> USE DEF UsInv
<1>1. UNCHANGED <<input, left, ended, arrived, queues, job, tick, next_deadline, doing, delayed>>
  BY DEF usVars
<1>2. Js' = Js /\ Queued' = Queued /\ \A i : Served(i)' = Served(i)
  BY <1>1 DEF Js, Queued, Served
<1>3. UsTypeOK' /\ ShownInv' /\ PlaceInv'
  <2>1. UsTypeOK'
    BY <1>1, <1>2 DEF UsTypeOK
  <2>2. ShownInv'
    BY <1>1, <1>2 DEF ShownInv, Waits
  <2>3. PlaceInv'
    BY <1>1, <1>2 DEF PlaceInv, all_done, ShowsWaits
  <2>4. QED
    BY <2>1, <2>2, <2>3
<1>4. QueueInv => QueueInv'
  <2>1. Listed(queues, Js, Queued) => Listed(queues, Js, Queued)'
    BY <1>1, <1>2 DEF Listed
  <2>2. QED
    BY <1>1, <1>2, <2>1 DEF QueueInv
<1>5. (DrawInv => DrawInv') /\ (DrawArrivedInv => DrawArrivedInv') /\ (PeriodInv => PeriodInv')
  BY <1>1, <1>2 DEF DrawInv, DrawArrivedInv, PeriodInv
<1>6. QED
  BY <1>1, <1>3, <1>4, <1>5

(* Every step keeps the invariant. *)
LEMMA UsKeeps == ASSUME UsInv, [UsNext]_usVars PROVE UsInv'
<1>1. CASE UNCHANGED usVars
  BY <1>1, UsStill
<1>2. CASE Finish
  BY <1>2, FinishSteps DEF Finish, Loops, Is
<1>3. CASE NoneReady
  BY <1>3, NoneReadySteps DEF NoneReady, Loops, Is
<1>4. CASE Pop
  BY <1>4, PopSteps DEF Pop, Loops, Is
<1>5. CASE RunSlice
  BY <1>5, RunSliceSteps
<1>6. CASE SliceEnds
  BY <1>6, SliceEndsSteps
<1>7. CASE Draw
  BY <1>7, DrawSteps
<1>8. CASE DrawArrived
  BY <1>8, DrawArrivedSteps
<1>9. CASE RateMonotonic
  BY <1>9, RateSteps
<1>10. QED
  BY <1>1, <1>2, <1>3, <1>4, <1>5, <1>6, <1>7, <1>8, <1>9 DEF UsNext, QuantumByQuantum

(* The invariant is enough. *)
LEMMA UsSafe == ASSUME UsInv PROVE InOnePlace /\ WaitIsDelay
<1> USE DEF UsInv
<1>1. ASSUME input.program = "shajith_mlfq", NEW i \in Js
      PROVE  Places(i) = IF i \in arrived /\ ended[i] = 0 THEN 1 ELSE 0
  <2>1. Listed(queues, Js, Queued)
    BY <1>1 DEF QueueInv
  <2>2. PICK n : n = Cardinality(UNION {{l} \X {k \in DOMAIN queues[l] : queues[l][k] = i} : l \in 1 .. QUEUES})
    OBVIOUS
  <2>3. n = IF i \in Queued THEN 1 ELSE 0
    BY <2>1, <2>2, ListedPlaces
  <2>4. Places(i) = n + (IF job.idx = i THEN 1 ELSE 0)
    BY <2>2 DEF Places
  <2>5. job.idx = i => i \in arrived /\ ended[i] = 0
    BY <1>1, JobInts DEF QueueInv
  <2>6. CASE job.idx = i
    <3>1. n = 0
      BY <2>3, <2>6 DEF Queued
    <3>2. QED
      BY <2>4, <2>5, <2>6, <3>1
  <2>7. CASE job.idx # i
    <3>1. n = IF i \in arrived /\ ended[i] = 0 THEN 1 ELSE 0
      BY <2>3, <2>7 DEF Queued
    <3>2. n + 0 = n
      BY <3>1
    <3>3. QED
      BY <2>4, <2>7, <3>1, <3>2
  <2>8. QED
    BY <2>6, <2>7
<1>2. InOnePlace
  BY <1>1 DEF InOnePlace, QueueInv, PeriodInv
<1>3. WaitIsDelay
  BY DEF WaitIsDelay, ShownInv, PlaceInv
<1>4. QED
  BY <1>2, <1>3

(* The four programs for one CPU lose no process between arrival, queues and
   slice, keep a period's work within the period, and show the waiting times
   as they were. *)
THEOREM UniSafe == UsSpec => [](InOnePlace /\ WaitIsDelay)
<1>1. UsInit => UsInv
  BY UsInitInv
<1>2. UsInv /\ [UsNext]_usVars => UsInv'
  BY UsKeeps
<1>3. UsInv => InOnePlace /\ WaitIsDelay
  BY UsSafe
<1>4. QED
  BY <1>1, <1>2, <1>3, PTL DEF UsSpec

-----------------------------------------------------------------------------
(* All simulators *)

(* A step of one simulator leaves the others alone. *)
LEMMA SimsSteps ==
  ASSUME SimsNext PROVE (MsStep /\ UNCHANGED usVars) \/ (UsNext /\ UNCHANGED msVars)
BY SMT DEF SimsNext, Multi, Uni, MsStep, UsNext, QuantumByQuantum

(* Both invariants hold of every simulator. *)
LEMMA SimsKeep ==
  ASSUME MsInv, UsInv, [SimsNext]_simVars PROVE MsInv' /\ UsInv'
<1>1. [MsStep]_msVars /\ [UsNext]_usVars
  <2>1. CASE SimsNext
    BY <2>1, SimsSteps
  <2>2. CASE UNCHANGED simVars
    BY <2>2 DEF simVars
  <2>3. QED
    BY <2>1, <2>2
<1>2. QED
  BY <1>1, MsKeeps, UsKeeps

(* Every step of a simulator goes from good states to good states. *)
LEMMA SimsInvariant == SimsInit /\ [][SimsNext]_simVars => [](MsInv /\ UsInv)
<1>1. SimsInit => MsInv /\ UsInv
  BY MsInitInv, UsInitInv DEF SimsInit
<1>2. MsInv /\ UsInv /\ [SimsNext]_simVars => (MsInv /\ UsInv)'
  BY SimsKeep
<1>3. QED
  BY <1>1, <1>2, PTL

(* While a tick is run, no CPU is idle with a process ready, no process is  *)
(* on two CPUs and, under a preemptive policy, nobody better waits, although *)
(* the loops compare each CPU or process with the best of that moment only. *)
THEOREM SimsBest == SimsSpec => []BestRun
<1>1. MsInv /\ UsInv => BestRun
  BY MsSafe
<1>2. QED
  BY <1>1, SimsInvariant, PTL DEF SimsSpec

(* In shajith's MLFQ who has arrived and is not done is in one queue, once, *)
(* or runs; in Vijay's RMS what is left belongs to the period of the clock. *)
THEOREM SimsPlaces == SimsSpec => []InOnePlace
<1>1. MsInv /\ UsInv => InOnePlace
  BY UsSafe
<1>2. QED
  BY <1>1, SimsInvariant, PTL DEF SimsSpec

(* In the final tables of the nine simulators that show waiting times (all *)
(* but Vijay's two) each is the number of ticks that the process was ready *)
(* without a CPU, and shajith's tables leave no process out.               *)
THEOREM SimsWaits == SimsSpec => []WaitingShown
<1>1. MsInv /\ UsInv => WaitingShown
  BY MsSafe, UsSafe DEF WaitingShown
<1>2. QED
  BY <1>1, SimsInvariant, PTL DEF SimsSpec
=============================================================================
