--------------------------- MODULE Dashboard_proofs ---------------------------
(***************************************************************************)
(* Theorems of Dashboard, for every number of queues and tasks, every page  *)
(* size and all thresholds.                                                 *)
(***************************************************************************)
EXTENDS Dashboard, FiniteSetTheorems, WellFoundedInduction, TLAPS

-----------------------------------------------------------------------------
(* Sums over finite sets, as the folds of the model take them; the same     *)
(* lemmas as in Presence_proofs, whose variables are others.                *)

AnyOf(s) == CHOOSE x \in s : TRUE

Unfolds(f, S, g) ==
    g = [s \in SUBSET S |-> IF s = {} THEN 0 ELSE f[AnyOf(s)] + g[s \ {AnyOf(s)}]]

Sum(f, S) == (CHOOSE g : Unfolds(f, S, g))[S]

(* A set of numbers that has a member has a least one.                      *)
LEMMA LeastNumber ==
    ASSUME NEW T \in SUBSET Nat, T # {}
    PROVE  \E m \in T : \A n \in T : m <= n
<1> DEFINE R == OpToRel(<, Nat)
<1>1. IsWellFoundedOn(R, Nat)
  BY NatLessThanWellFounded
<1>2. \A x, y \in Nat : x < y => <<x, y>> \in R
  BY DEF OpToRel
<1> HIDE DEF R
<1>3. PICK m \in T : \A n \in T : <<n, m>> \notin R
  BY <1>1, WFMin
<1>4. ASSUME NEW n \in T PROVE m <= n
  <2>1. ~(n < m)
    BY <1>2, <1>3
  <2> QED
    BY <2>1, SMT
<1> QED
  BY <1>4

LEMMA SmallestSet ==
    ASSUME NEW S, IsFiniteSet(S), NEW B \in SUBSET SUBSET S, B # {}
    PROVE  \E s \in B : /\ IsFiniteSet(s)
                        /\ \A x \in s : s \ {x} \notin B
<1> DEFINE Sizes == {Cardinality(s) : s \in B}
<1>1. \A s \in B : IsFiniteSet(s) /\ Cardinality(s) \in Nat
  BY FS_Subset, FS_CardinalityType
<1>2. PICK m \in Sizes : \A n \in Sizes : m <= n
  <2>1. Sizes \subseteq Nat /\ Sizes # {}
    BY <1>1
  <2> QED
    BY <2>1, LeastNumber
<1>3. PICK s \in B : m = Cardinality(s)
  BY <1>2
<1>4. ASSUME NEW x \in s, s \ {x} \in B PROVE FALSE
  <2>1. Cardinality(s \ {x}) = Cardinality(s) - 1
    BY <1>1, FS_RemoveElement
  <2>2. Cardinality(s) <= Cardinality(s \ {x})
    BY <1>2, <1>3, <1>4
  <2> QED
    BY <1>1, <2>1, <2>2
<1> QED
  BY <1>1, <1>4

(* The recursion has at most one solution. *)
LEMMA UnfoldsOnce ==
    ASSUME NEW f, NEW S, IsFiniteSet(S), NEW T \in SUBSET S,
           NEW g, Unfolds(f, S, g), NEW h, Unfolds(f, T, h)
    PROVE  \A s \in SUBSET T : g[s] = h[s]
<1> DEFINE B == {s \in SUBSET T : g[s] # h[s]}
<1>1. IsFiniteSet(T)
  BY FS_Subset
<1> SUFFICES ASSUME B # {} PROVE FALSE
  OBVIOUS
<1>2. PICK s \in B : \A x \in s : s \ {x} \notin B
  BY <1>1, SmallestSet
<1>3. g[s] = IF s = {} THEN 0 ELSE f[AnyOf(s)] + g[s \ {AnyOf(s)}]
  BY DEF Unfolds
<1>4. h[s] = IF s = {} THEN 0 ELSE f[AnyOf(s)] + h[s \ {AnyOf(s)}]
  BY DEF Unfolds
<1>5. s # {} => AnyOf(s) \in s
  BY DEF AnyOf
<1>6. s # {} => g[s \ {AnyOf(s)}] = h[s \ {AnyOf(s)}]
  BY <1>2, <1>5
<1> QED
  BY <1>3, <1>4, <1>6

(* The sums over the subsets of S are what a solution for S says.          *)
LEMMA SumIsSolution ==
    ASSUME NEW f, NEW S, IsFiniteSet(S), NEW g, Unfolds(f, S, g), NEW T \in SUBSET S
    PROVE  Sum(f, T) = g[T]
<1> DEFINE k == [s \in SUBSET T |-> g[s]]
<1>1. Unfolds(f, T, k)
  <2>1. ASSUME NEW s \in SUBSET T PROVE k[s] = IF s = {} THEN 0 ELSE f[AnyOf(s)] + k[s \ {AnyOf(s)}]
    <3>1. g[s] = IF s = {} THEN 0 ELSE f[AnyOf(s)] + g[s \ {AnyOf(s)}]
      BY DEF Unfolds
    <3>2. k[s \ {AnyOf(s)}] = g[s \ {AnyOf(s)}] /\ k[s] = g[s]
      OBVIOUS
    <3> QED
      BY <3>1, <3>2
  <2> QED
    BY <2>1 DEF Unfolds
<1> DEFINE h == CHOOSE e : Unfolds(f, T, e)
<1>2. Unfolds(f, T, h)
  BY <1>1, Zenon
<1>3. Sum(f, T) = h[T]
  BY DEF Sum
<1> HIDE DEF h, k
<1>4. g[T] = h[T]
  BY <1>2, UnfoldsOnce
<1> QED
  BY <1>3, <1>4

(* The recursion has a solution for every finite set.                       *)
LEMMA UnfoldsExists ==
    ASSUME NEW f, NEW S, IsFiniteSet(S)
    PROVE  \E g : Unfolds(f, S, g)
<1> DEFINE B == {T \in SUBSET S : ~\E g : Unfolds(f, T, g)}
<1> SUFFICES ASSUME B # {} PROVE FALSE
  BY DEF B
<1>1. PICK T \in B : IsFiniteSet(T) /\ \A x \in T : T \ {x} \notin B
  BY SmallestSet
<1> DEFINE g == [s \in SUBSET T |-> IF s = {} THEN 0 ELSE f[AnyOf(s)] + Sum(f, s \ {AnyOf(s)})]
<1>2. ASSUME NEW s \in SUBSET T, s # {} PROVE g[s \ {AnyOf(s)}] = Sum(f, s \ {AnyOf(s)})
  <2> DEFINE x == AnyOf(s)
             t == s \ {x}
  <2>1. x \in s
    BY <1>2 DEF AnyOf
  <2>2. PICK h : Unfolds(f, T \ {x}, h)
    BY <1>1, <2>1
  <2>3. IsFiniteSet(T \ {x}) /\ t \in SUBSET (T \ {x})
    BY <1>1, FS_Subset
  <2>4. Sum(f, t) = h[t]
    BY <2>2, <2>3, SumIsSolution
  <2>5. h[t] = IF t = {} THEN 0 ELSE f[AnyOf(t)] + h[t \ {AnyOf(t)}]
    BY <2>2, <2>3 DEF Unfolds
  <2>6. Sum(f, t \ {AnyOf(t)}) = h[t \ {AnyOf(t)}]
    BY <2>2, <2>3, SumIsSolution
  <2>7. g[t] = IF t = {} THEN 0 ELSE f[AnyOf(t)] + Sum(f, t \ {AnyOf(t)})
    BY <2>3
  <2> QED
    BY <2>4, <2>5, <2>6, <2>7
<1>3. Unfolds(f, T, g)
  <2> SUFFICES g = [s \in SUBSET T |-> IF s = {} THEN 0 ELSE f[AnyOf(s)] + g[s \ {AnyOf(s)}]]
    BY DEF Unfolds
  <2> HIDE DEF g
  <2>1. \A s \in SUBSET T : g[s] = IF s = {} THEN 0 ELSE f[AnyOf(s)] + Sum(f, s \ {AnyOf(s)})
    BY DEF g
  <2>2. g = [s \in SUBSET T |-> g[s]]
    BY DEF g
  <2> QED
    BY <1>2, <2>1, <2>2
<1> QED
  BY <1>1, <1>3 DEF B

(* What the sum over a finite set is.                                       *)
LEMMA SumUnfolds ==
    ASSUME NEW f, NEW S, IsFiniteSet(S)
    PROVE  Sum(f, S) = IF S = {} THEN 0 ELSE f[AnyOf(S)] + Sum(f, S \ {AnyOf(S)})
<1>1. PICK g : Unfolds(f, S, g)
  BY UnfoldsExists
<1>2. g[S] = IF S = {} THEN 0 ELSE f[AnyOf(S)] + g[S \ {AnyOf(S)}]
  BY <1>1 DEF Unfolds
<1>3. Sum(f, S) = g[S] /\ Sum(f, S \ {AnyOf(S)}) = g[S \ {AnyOf(S)}]
  BY <1>1, SumIsSolution
<1> QED
  BY <1>2, <1>3

(* The sum of natural numbers is one.                                       *)
LEMMA SumType ==
    ASSUME NEW f, NEW S, IsFiniteSet(S), \A x \in S : f[x] \in Nat
    PROVE  Sum(f, S) \in Nat
<1> DEFINE B == {s \in SUBSET S : Sum(f, s) \notin Nat}
<1> SUFFICES ASSUME B # {} PROVE FALSE
  BY DEF B
<1>1. PICK s \in B : IsFiniteSet(s) /\ \A x \in s : s \ {x} \notin B
  BY SmallestSet
<1>2. s # {} => AnyOf(s) \in s
  BY DEF AnyOf
<1>3. s # {} => Sum(f, s \ {AnyOf(s)}) \in Nat /\ f[AnyOf(s)] \in Nat
  BY <1>1, <1>2
<1>4. Sum(f, s) = IF s = {} THEN 0 ELSE f[AnyOf(s)] + Sum(f, s \ {AnyOf(s)})
  BY <1>1, SumUnfolds
<1> QED
  BY <1>3, <1>4

(* AnyOf element can be taken out first.                                     *)
LEMMA SumTakesOut ==
    ASSUME NEW f, NEW S, IsFiniteSet(S), \A x \in S : f[x] \in Nat, NEW e \in S
    PROVE  Sum(f, S) = Sum(f, S \ {e}) + f[e]
<1> DEFINE B == {s \in SUBSET S : \E x \in s : Sum(f, s) # Sum(f, s \ {x}) + f[x]}
<1> SUFFICES ASSUME B # {} PROVE FALSE
  BY DEF B
<1>1. PICK s \in B : IsFiniteSet(s) /\ \A x \in s : s \ {x} \notin B
  BY SmallestSet
<1>2. PICK x \in s : Sum(f, s) # Sum(f, s \ {x}) + f[x]
  OBVIOUS
<1> DEFINE y == AnyOf(s)
<1>3. y \in s
  BY DEF AnyOf
<1>4. Sum(f, s) = Sum(f, s \ {y}) + f[y]
  <2>1. IsFiniteSet(s \ {y})
    BY <1>1, FS_RemoveElement
  <2>2. Sum(f, s \ {y}) \in Nat /\ f[y] \in Nat
    BY <1>3, <2>1, SumType
  <2>3. Sum(f, s) = f[y] + Sum(f, s \ {y})
    BY <1>1, <1>2, SumUnfolds
  <2> HIDE DEF y
  <2> QED
    BY <2>2, <2>3
<1>5. x # y
  BY <1>2, <1>4
<1>6. Sum(f, s \ {y}) = Sum(f, (s \ {y}) \ {x}) + f[x]
  BY <1>1, <1>3, <1>5
<1>7. Sum(f, s \ {x}) = Sum(f, (s \ {x}) \ {y}) + f[y]
  BY <1>1, <1>3, <1>5
<1>8. (s \ {y}) \ {x} = (s \ {x}) \ {y}
  OBVIOUS
<1>9. Sum(f, (s \ {x}) \ {y}) \in Nat /\ f[x] \in Nat /\ f[y] \in Nat
  <2>1. IsFiniteSet((s \ {x}) \ {y})
    BY <1>1, FS_RemoveElement
  <2> QED
    BY <1>3, <2>1, SumType
<1> HIDE DEF y, B
<1> QED
  BY <1>2, <1>4, <1>6, <1>7, <1>8, <1>9

(* A sum of lesser numbers is less, or the same.                            *)
LEMMA SumGrows ==
    ASSUME NEW f, NEW g, NEW S, IsFiniteSet(S),
           \A x \in S : f[x] \in Nat /\ g[x] \in Nat /\ f[x] <= g[x]
    PROVE  Sum(f, S) <= Sum(g, S)
<1> DEFINE B == {s \in SUBSET S : ~(Sum(f, s) <= Sum(g, s))}
<1> SUFFICES ASSUME B # {} PROVE FALSE
  BY DEF B
<1>1. PICK s \in B : IsFiniteSet(s) /\ \A x \in s : s \ {x} \notin B
  BY SmallestSet
<1>2. CASE s = {}
  <2>1. Sum(f, s) = 0 /\ Sum(g, s) = 0
    BY <1>1, <1>2, SumUnfolds
  <2> QED
    BY <2>1
<1>3. ASSUME NEW x \in s PROVE FALSE
  <2>1. Sum(f, s) = Sum(f, s \ {x}) + f[x] /\ Sum(g, s) = Sum(g, s \ {x}) + g[x]
    BY <1>1, SumTakesOut
  <2>2. IsFiniteSet(s \ {x})
    BY <1>1, FS_RemoveElement
  <2>3. /\ Sum(f, s \ {x}) \in Nat /\ Sum(g, s \ {x}) \in Nat
        /\ f[x] \in Nat /\ g[x] \in Nat /\ f[x] <= g[x]
    BY <2>2, SumType
  <2>4. Sum(f, s \ {x}) <= Sum(g, s \ {x})
    BY <1>1
  <2>5. ~(Sum(f, s) <= Sum(g, s))
    OBVIOUS
  <2> HIDE DEF B
  <2> QED
    BY <2>1, <2>3, <2>4, <2>5
<1> QED
  BY <1>2, <1>3

(* What the folds of the model are.                                         *)
LEMMA FoldIsSum ==
    ASSUME NEW f, NEW S
    PROVE  MapThenSumSet(LAMBDA q : f[q], S) = Sum(f, S)
  BY Zenon DEF MapThenSumSet, MapThenFoldSet, Sum, Unfolds, AnyOf

-----------------------------------------------------------------------------
(* The totals of a refresh are sums over the queues, and tasks counted queue *)
(* by queue are counted once.                                               *)

(* The total of one count over the queues that answered.                    *)
LEMMA TotalReadIsSum ==
    ASSUME NEW p, Answered \subseteq Queues
    PROVE  TotalRead(p) = Sum([q \in Queues |-> read[q].stats[p]], Answered)
<1> DEFINE f == [q \in Queues |-> read[q].stats[p]]
           Q(g) == g = [s \in SUBSET Answered |->
                           IF s = {} THEN 0 ELSE read[AnyOf(s)].stats[p] + g[s \ {AnyOf(s)}]]
           h == CHOOSE g : Q(g)
<1>1. TotalRead(p) = h[Answered]
  BY Zenon DEF TotalRead, MapThenSumSet, MapThenFoldSet, AnyOf
<1>2. IsFiniteSet(Answered)
  BY DashboardAssumption, FS_Subset
<1>3. ASSUME NEW s \in SUBSET Answered, s # {} PROVE f[AnyOf(s)] = read[AnyOf(s)].stats[p]
  <2>1. AnyOf(s) \in Queues
    BY <1>3 DEF AnyOf
  <2> QED
    BY <2>1
<1>4. ASSUME NEW g PROVE Q(g) <=> Unfolds(f, Answered, g)
  <2> DEFINE a == [s \in SUBSET Answered |->
                      IF s = {} THEN 0 ELSE read[AnyOf(s)].stats[p] + g[s \ {AnyOf(s)}]]
             b == [s \in SUBSET Answered |->
                      IF s = {} THEN 0 ELSE f[AnyOf(s)] + g[s \ {AnyOf(s)}]]
  <2>1. a = b
    <3>1. ASSUME NEW s \in SUBSET Answered PROVE a[s] = b[s]
      BY <1>3
    <3> QED
      BY <3>1
  <2> QED
    BY <2>1 DEF Unfolds
<1>5. \E g : Q(g)
  <2>1. PICK g : Unfolds(f, Answered, g)
    BY <1>2, UnfoldsExists
  <2> QED
    BY <1>4, <2>1
<1>6. Q(h)
  <2> HIDE DEF Q
  <2> QED
    BY <1>5
<1>7. Unfolds(f, Answered, h)
  BY <1>4, <1>6
<1> HIDE DEF f, Q, h
<1>8. Sum(f, Answered) = h[Answered]
  BY <1>2, <1>7, SumIsSolution
<1> QED
  BY <1>1, <1>8 DEF f

(* The members of a set of tasks that belong to a queue.                    *)
Part(X, q) == {t \in X : QueueOf[t] = q}

(* Nothing is in both of two sets.                                          *)
LEMMA Disjoint ==
    ASSUME NEW S, IsFiniteSet(S), NEW T, IsFiniteSet(T), S \cap T = {}
    PROVE  Cardinality(S \cup T) = Cardinality(S) + Cardinality(T)
<1>1. Cardinality(S) \in Nat /\ Cardinality(T) \in Nat
  BY FS_CardinalityType
<1>2. Cardinality(S \cup T) = Cardinality(S) + Cardinality(T) - Cardinality(S \cap T)
  BY FS_Union
<1> QED
  BY <1>1, <1>2, FS_EmptySet

(* Counted queue by queue, the tasks of a set are counted once.             *)
LEMMA SumOfParts ==
    ASSUME NEW X \in SUBSET Tasks, NEW N \in SUBSET Queues
    PROVE  Sum([q \in Queues |-> Cardinality(Part(X, q))], N) = Cardinality({t \in X : QueueOf[t] \in N})
<1> DEFINE f == [q \in Queues |-> Cardinality(Part(X, q))]
           In(s) == {t \in X : QueueOf[t] \in s}
           B == {s \in SUBSET N : Sum(f, s) # Cardinality(In(s))}
<1>0. IsFiniteSet(N) /\ IsFiniteSet(X) /\ \A s : IsFiniteSet(In(s)) /\ \A q : IsFiniteSet(Part(X, q))
  <2>1. IsFiniteSet(N) /\ IsFiniteSet(X)
    BY DashboardAssumption, FS_Subset
  <2>2. ASSUME NEW s PROVE IsFiniteSet(In(s))
    <3>1. In(s) \in SUBSET X
      OBVIOUS
    <3> HIDE DEF In
    <3> QED
      BY <2>1, <3>1, FS_Subset
  <2>3. ASSUME NEW q PROVE IsFiniteSet(Part(X, q))
    <3>1. Part(X, q) \in SUBSET X
      BY DEF Part
    <3> QED
      BY <2>1, <3>1, FS_Subset
  <2> QED
    BY <2>1, <2>2, <2>3
<1>1. \A q \in N : f[q] = Cardinality(Part(X, q)) /\ f[q] \in Nat
  BY <1>0, FS_CardinalityType
<1> HIDE DEF f
<1> SUFFICES ASSUME B # {} PROVE FALSE
  BY DEF B, f
<1>2. PICK s \in B : IsFiniteSet(s) /\ \A x \in s : s \ {x} \notin B
  BY <1>0, SmallestSet
<1>3. CASE s = {}
  <2>1. Sum(f, s) = 0
    BY <1>2, <1>3, SumUnfolds
  <2>2. In(s) = {}
    BY <1>3
  <2> QED
    BY <2>1, <2>2, FS_EmptySet
<1>4. ASSUME NEW x \in s PROVE FALSE
  <2>1. Sum(f, s) = Sum(f, s \ {x}) + f[x]
    BY <1>1, <1>2, SumTakesOut
  <2>2. Sum(f, s \ {x}) = Cardinality(In(s \ {x}))
    BY <1>2, <1>4
  <2>3. /\ {t \in X : QueueOf[t] \in s} = {t \in X : QueueOf[t] \in s \ {x}} \cup Part(X, x)
        /\ {t \in X : QueueOf[t] \in s \ {x}} \cap Part(X, x) = {}
    BY DEF Part
  <2>4. /\ IsFiniteSet({t \in X : QueueOf[t] \in s \ {x}}) /\ IsFiniteSet(Part(X, x))
    BY <1>0
  <2>5. Cardinality({t \in X : QueueOf[t] \in s})
          = Cardinality({t \in X : QueueOf[t] \in s \ {x}}) + Cardinality(Part(X, x))
    BY <2>3, <2>4, Disjoint
  <2>6. Sum(f, s) # Cardinality({t \in X : QueueOf[t] \in s})
    OBVIOUS
  <2> QED
    BY <1>1, <1>4, <2>1, <2>2, <2>5, <2>6
<1> QED
  BY <1>3, <1>4

-----------------------------------------------------------------------------
(* Types.                                                                   *)

AlertRecords == [dead : BOOLEAN, error_rate : BOOLEAN]
Stats == [Counts \cup {"completed"} -> Nat]

(* The types, but for the upper bound of the selected row.                  *)
RedisTypes ==
    /\ settings \in Settings
    /\ place \in [Tasks -> Counts \cup {"none"}]
    /\ listed \subseteq Queues
    /\ completed \in [Queues -> Nat] /\ floor \in [Queues -> Nat]
    /\ moved \subseteq Tasks

RefreshTypes ==
    /\ found \subseteq listed
    /\ read \in [Queues -> [at : 0 .. Failed, stats : Stats]]
    /\ alerts \in AlertRecords /\ verdict \in AlertRecords
    /\ truth \in [must : AlertRecords, may : AlertRecords]
    /\ trend \in Seq(Nat)

ScreenTypes ==
    /\ pc \in {"list", "stats", "draw", "keys", "check", "over"} /\ periodic \in BOOLEAN
    /\ view \in {"Main", "TaskList", "Help"}
    /\ queues \in Seq(listed) /\ Len(queues) <= Cardinality(Queues)
    /\ selected \in Nat \ {0}
    /\ list \in Lists \cup {NoList} /\ (list # NoList <=> view = "TaskList")
    /\ shown \in Queues \cup {NoQueue} /\ target \in Queues \cup {NoQueue}

DashTypes == RedisTypes /\ RefreshTypes /\ ScreenTypes

(* What the bounds are.                                                     *)
LEMMA SettingsAreNat ==
    ASSUME settings \in Settings
    PROVE  /\ settings.dead_threshold \in Nat /\ settings.error_rate_threshold \in Nat
           /\ settings.max_points \in Nat /\ settings.queues \subseteq Queues
  BY DashboardAssumption

(* The five counts are read one after the other, each for itself.           *)
LEMMA CountsAre ==
    /\ Counts = {"pending", "active", "delayed", "retry", "dead"}
    /\ Len(Counted) = 5 /\ LastRead = 6 /\ Finished = 7 /\ Failed = 8
    /\ \A i \in 1 .. 5 : Counted[i] \in Counts
    /\ \A i, j \in 1 .. 5 : Counted[i] = Counted[j] => i = j
<1>1. Len(Counted) = 5 /\ DOMAIN Counted = 1 .. 5
  BY DEF Counted
<1>2. LastRead = 6 /\ Finished = 7 /\ Failed = 8
  BY <1>1 DEF LastRead, Finished, Failed
<1>3. \A i \in 1 .. 5 : i = 1 \/ i = 2 \/ i = 3 \/ i = 4 \/ i = 5
  OBVIOUS
<1>4. /\ Counted[1] = "pending" /\ Counted[2] = "active" /\ Counted[3] = "delayed"
      /\ Counted[4] = "retry" /\ Counted[5] = "dead"
  BY DEF Counted
<1>5. Counts = {Counted[i] : i \in 1 .. 5}
  BY <1>1 DEF Counts, Range
<1>6. Counts = {"pending", "active", "delayed", "retry", "dead"}
  BY <1>3, <1>4, <1>5
<1>7. \A i \in 1 .. 5 : Counted[i] \in Counts
  BY <1>5
<1>8. \A i, j \in 1 .. 5 : Counted[i] = Counted[j] => i = j
  BY <1>3, <1>4
<1> QED
  BY <1>1, <1>2, <1>6, <1>7, <1>8

(* Counting the tasks of a queue gives a natural number.                    *)
LEMMA CountIsNat ==
    ASSUME NEW X \in SUBSET Tasks
    PROVE  IsFiniteSet(X) /\ Cardinality(X) \in Nat
  BY DashboardAssumption, FS_Subset, FS_CardinalityType

(* The totals of a refresh are natural numbers.                             *)
LEMMA TotalsAreNat ==
    ASSUME DashTypes, NEW p \in Counts \cup {"completed"}
    PROVE  TotalRead(p) \in Nat
<1>1. Answered \in SUBSET Queues /\ IsFiniteSet(Answered)
  BY DashboardAssumption, FS_Subset DEF DashTypes, RefreshTypes, RedisTypes, Answered
<1>2. \A q \in Answered : [r \in Queues |-> read[r].stats[p]][q] \in Nat
  BY <1>1 DEF DashTypes, RefreshTypes, Stats
<1> QED
  BY <1>1, <1>2, TotalReadIsSum, SumType

(* A list shows at most a page.                                             *)
LEMMA FoundAtMostPage ==
    ASSUME NEW q, NEW n \in Found(q)
    PROVE  n \in 0 .. PageSize
<1> DEFINE c == Cardinality(TasksAt(q, "pending"))
           m == Min({PageSize, c})
<1>1. PageSize \in Nat /\ c \in Nat
  BY DashboardAssumption, CountIsNat DEF TasksAt
<1>2. m <= PageSize /\ m \in Nat
  <2> HIDE DEF c
  <2>1. \E x \in {PageSize, c} : \A y \in {PageSize, c} : x <= y
    BY <1>1
  <2>2. m \in {PageSize, c} /\ \A y \in {PageSize, c} : m <= y
    BY <2>1 DEF Min
  <2> HIDE DEF m
  <2> QED
    BY <1>1, <2>2
<1>3. n \in 0 .. m
  BY DEF Found
<1> QED
  BY <1>1, <1>2, <1>3

(* Reloading keeps a list a list, with its marked task in it.               *)
LEMMA ReloadFits ==
    ASSUME NEW l \in Lists, NEW k \in RefreshList(l)
    PROVE  /\ k \in Lists
           /\ (l.n > 0 => l.task < l.n) => (k.n > 0 => k.task < k.n)
<1>1. CASE k = l
  BY <1>1
<1>2. ASSUME NEW n \in Found(l.queue), k = Loaded(l, n)
      PROVE  k \in Lists /\ (k.n > 0 => k.task < k.n)
  <2>1. n \in 0 .. PageSize /\ PageSize \in Nat \ {0}
    BY <1>2, FoundAtMostPage, DashboardAssumption
  <2>2. l.task \in 0 .. PageSize - 1 /\ l.queue \in Queues
    BY DEF Lists
  <2>3. k = [queue |-> l.queue, n |-> n, task |-> IF n > 0 /\ l.task >= n THEN n - 1 ELSE l.task]
    BY <1>2 DEF Loaded, Lists
  <2> QED
    BY <2>1, <2>2, <2>3 DEF Lists
<1> QED
  BY <1>1, <1>2 DEF RefreshList

(* A sequence with every member of a set once.                              *)
LEMMA RowsFacts ==
    ASSUME NEW N \in SUBSET Queues, NEW s \in SetToSeqs(N)
    PROVE  /\ s \in Seq(N) /\ Len(s) = Cardinality(N)
           /\ Len(s) <= Cardinality(Queues) /\ (s = <<>> <=> Cardinality(N) = 0)
<1>1. /\ Cardinality(N) \in Nat /\ Cardinality(Queues) \in Nat
      /\ Cardinality(N) <= Cardinality(Queues)
  BY DashboardAssumption, FS_Subset, FS_CardinalityType
<1>2. s \in [1 .. Cardinality(N) -> N]
  BY DEF SetToSeqs
<1> QED
  BY <1>1, <1>2

LEMMA DashTypesInit == Init => DashTypes
<1> SUFFICES ASSUME Init PROVE DashTypes
  OBVIOUS
<1>1. NoAlert \in AlertRecords /\ NoTruth \in [must : AlertRecords, may : AlertRecords]
  BY DEF NoAlert, NoTruth, AlertRecords
<1>2. NoRead \in [at : 0 .. Failed, stats : Stats]
  BY CountsAre DEF NoRead, Stats
<1>3. Cardinality(Queues) \in Nat
  BY DashboardAssumption, FS_CardinalityType
<1>4. RedisTypes
  BY DEF Init, RedisTypes, NoFloor
<1>5. RefreshTypes
  BY <1>1, <1>2 DEF Init, RefreshTypes
<1>6. ScreenTypes
  <2>1. queues \in Seq(listed) /\ Len(queues) = 0
    BY DEF Init
  <2>2. /\ selected = 1 /\ view = "Main" /\ list = NoList /\ pc = "list" /\ periodic = FALSE
        /\ shown = NoQueue /\ target = NoQueue
    BY DEF Init
  <2>3. Len(queues) <= Cardinality(Queues)
    BY <1>3, <2>1
  <2>4. list \in Lists \cup {NoList} /\ (list # NoList <=> view = "TaskList")
    BY <2>2
  <2>5. pc \in {"list", "stats", "draw", "keys", "check", "over"} /\ periodic \in BOOLEAN
        /\ view \in {"Main", "TaskList", "Help"}
    BY <2>2
  <2>6. selected \in Nat \ {0} /\ shown \in Queues \cup {NoQueue} /\ target \in Queues \cup {NoQueue}
    BY <2>2
  <2> QED
    BY <2>1, <2>3, <2>4, <2>5, <2>6 DEF ScreenTypes
<1> QED
  BY <1>4, <1>5, <1>6 DEF DashTypes

(* Clients, workers and schedulers.                                        *)
LEMMA OutsideTypes ==
    ASSUME DashTypes, (\E t \in Tasks : MoveTask(t)) \/ (\E q \in Queues : ListQueue(q))
    PROVE  DashTypes'
<1>1. ASSUME NEW t \in Tasks, MoveTask(t) PROVE DashTypes'
  <2>1. PICK m \in Moves : place[t] = m[1] /\ place' = [place EXCEPT ![t] = m[2]] /\ CountCompleted(t, m)
    BY <1>1 DEF MoveTask
  <2>2. m[2] \in Counts \cup {"none"}
    BY CountsAre DEF Moves
  <2>3. QueueOf[t] \in Queues
    BY DashboardAssumption
  <2>4. completed' \in [Queues -> Nat]
    BY <2>1, <2>3 DEF CountCompleted, DashTypes, RedisTypes
  <2>5. moved' \subseteq Tasks
    BY <1>1 DEF MoveTask, DashTypes, RedisTypes
  <2>6. UNCHANGED <<settings, listed, pc, periodic, stateVars, refreshVars, alertVars, floor, shown, target>>
    BY <1>1 DEF MoveTask
  <2>7. RedisTypes'
    BY <2>1, <2>2, <2>4, <2>5, <2>6 DEF DashTypes, RedisTypes
  <2> QED
    BY <2>6, <2>7 DEF DashTypes, RefreshTypes, ScreenTypes, stateVars, refreshVars, alertVars
<1>2. ASSUME NEW q \in Queues, ListQueue(q) PROVE DashTypes'
  <2>1. listed' = listed \cup {q}
    BY <1>2 DEF ListQueue
  <2>2. UNCHANGED <<settings, place, completed, pc, periodic, stateVars, refreshVars, alertVars,
                    floor, shown, moved, target>>
    BY <1>2 DEF ListQueue
  <2>3. queues' \in Seq(listed')
    BY <2>1, <2>2 DEF DashTypes, ScreenTypes, stateVars
  <2> QED
    BY <2>1, <2>2, <2>3 DEF DashTypes, RedisTypes, RefreshTypes, ScreenTypes, stateVars, refreshVars, alertVars
<1> QED
  BY <1>1, <1>2

(* A point more in the history.                                            *)
LEMMA PointAdded ==
    ASSUME settings \in Settings, NEW r \in Seq(Nat), NEW n \in Nat
    PROVE  /\ AddPoint(r, n) \in Seq(Nat)
           /\ AddPoint(r, n) # <<>> => Last(AddPoint(r, n)) = n
<1> DEFINE l == Append(r, n)
<1>1. l \in Seq(Nat) /\ Len(l) = Len(r) + 1 /\ l[Len(l)] = n /\ Len(r) \in Nat
  OBVIOUS
<1>2. CASE Len(l) > settings.max_points
  <2>1. AddPoint(r, n) = Tail(l)
    BY <1>2 DEF AddPoint
  <2>2. /\ Tail(l) \in Seq(Nat) /\ Len(Tail(l)) = Len(l) - 1
        /\ \A i \in 1 .. Len(l) - 1 : Tail(l)[i] = l[i + 1]
    <3> HIDE DEF l
    <3> QED
      BY <1>1
  <2>3. Tail(l) # <<>> => Len(l) - 1 \in 1 .. Len(l) - 1
    <3> HIDE DEF l
    <3> QED
      BY <1>1, <2>2
  <2> HIDE DEF l
  <2>4. Tail(l) # <<>> => Tail(l)[Len(Tail(l))] = n
    BY <1>1, <2>2, <2>3
  <2> QED
    BY <2>1, <2>2, <2>4 DEF Last
<1>3. CASE ~(Len(l) > settings.max_points)
  <2>1. AddPoint(r, n) = l
    BY <1>3 DEF AddPoint
  <2> HIDE DEF l
  <2> QED
    BY <1>1, <2>1 DEF Last
<1> QED
  BY <1>2, <1>3

(* The alerts asked for are alerts.                                        *)
LEMMA AlertTypes ==
    /\ \A d, f, n : Alerts(d, f, n) \in AlertRecords
    /\ Asked \in AlertRecords
    /\ Truth \in [must : AlertRecords, may : AlertRecords]
<1>1. \A d, f, n : Alerts(d, f, n) \in AlertRecords
  BY DEF Alerts, AlertRecords
<1> QED
  BY <1>1 DEF Asked, Truth

(* One count more is read of a queue.                                       *)
LEMMA CountRead ==
    ASSUME RefreshTypes, NEW q \in Queues, ReadCount(q)
    PROVE  LET p == Counted[read[q].at]
               n == Cardinality(TasksAt(q, p))
           IN  /\ n \in Nat /\ read[q].at \in 0 .. 5
               /\ [read[q].stats EXCEPT ![p] = n] \in Stats
               /\ read' = [read EXCEPT ![q] = [at |-> read[q].at + 1,
                                              stats |-> [read[q].stats EXCEPT ![p] = n]]]
<1> DEFINE p == Counted[read[q].at]
           n == Cardinality(TasksAt(q, p))
           d == [read[q] EXCEPT !.at = @ + 1]
           e == [d EXCEPT !.stats = [d.stats EXCEPT ![p] = n]]
<1>1. n \in Nat
  BY CountIsNat DEF TasksAt
<1>2. read[q].at \in 0 .. 8 /\ read[q].stats \in Stats /\ DOMAIN read = Queues
      /\ read[q] \in [at : 0 .. Failed, stats : Stats]
  BY CountsAre DEF RefreshTypes
<1>3. read[q].at < 6
  BY CountsAre DEF ReadCount
<1>4. d = [at |-> read[q].at + 1, stats |-> read[q].stats]
  BY <1>2
<1>5. read' = [read EXCEPT ![q].at = @ + 1, ![q].stats[p] = n]
  BY DEF ReadCount
<1> HIDE DEF n, p
<1>6. read' = [read EXCEPT ![q] = e]
  BY <1>2, <1>5
<1> HIDE DEF d
<1>7. e = [at |-> read[q].at + 1, stats |-> [read[q].stats EXCEPT ![p] = n]]
  BY <1>4
<1>8. [read[q].stats EXCEPT ![p] = n] \in Stats
  BY <1>1, <1>2 DEF Stats
<1> HIDE DEF e
<1> QED
  BY <1>1, <1>2, <1>3, <1>6, <1>7, <1>8 DEF n, p

(* The completed tasks of a queue are read, or nothing is.                   *)
LEMMA CompletedRead ==
    ASSUME RefreshTypes, RedisTypes, NEW q \in Queues, ReadCompleted(q)
    PROVE  \E s \in Stats :
              /\ \/ s = [read[q].stats EXCEPT !["completed"] = completed[q]] /\ floor' = floor
                 \/ s = read[q].stats /\ floor' = [floor EXCEPT ![q] = 0]
              /\ read' = [read EXCEPT ![q] = [at |-> Finished, stats |-> s]]
<1> DEFINE d == [read[q] EXCEPT !.at = Finished]
<1>1. completed[q] \in Nat
  BY DEF RedisTypes
<1>2. read[q].stats \in Stats /\ DOMAIN read = Queues /\ read[q] \in [at : 0 .. Failed, stats : Stats]
  BY DEF RefreshTypes
<1>3. d = [at |-> Finished, stats |-> read[q].stats]
  BY <1>2
<1>4. CASE read' = [read EXCEPT ![q].at = Finished] /\ floor' = [floor EXCEPT ![q] = 0]
  <2>1. read' = [read EXCEPT ![q] = d]
    BY <1>4
  <2> HIDE DEF d
  <2> QED
    BY <1>2, <1>3, <1>4, <2>1
<1>5. CASE /\ read' = [read EXCEPT ![q].at = Finished, ![q].stats["completed"] = completed[q]]
           /\ floor' = floor
  <2> DEFINE k == [read[q].stats EXCEPT !["completed"] = completed[q]]
             e == [d EXCEPT !.stats = [d.stats EXCEPT !["completed"] = completed[q]]]
  <2>1. read' = [read EXCEPT ![q] = e]
    BY <1>2, <1>5
  <2>2. k \in Stats
    BY <1>1, <1>2 DEF Stats
  <2> HIDE DEF d
  <2>3. e = [at |-> Finished, stats |-> k]
    BY <1>3
  <2> HIDE DEF e
  <2>4. read' = [read EXCEPT ![q] = [at |-> Finished, stats |-> k]] /\ k = [read[q].stats EXCEPT !["completed"] = completed[q]]
    BY <2>1, <2>3
  <2> HIDE DEF k
  <2> QED
    BY <1>5, <2>2, <2>4
<1> QED
  BY <1>4, <1>5 DEF ReadCompleted

(* A refresh.                                                              *)
LEMMA RefreshKeepsTypes ==
    ASSUME DashTypes, Refresh
    PROVE  DashTypes'
<1> USE DEF DashTypes
<1>0. NoRead \in [at : 0 .. Failed, stats : Stats] /\ NoAlert \in AlertRecords
      /\ NoTruth \in [must : AlertRecords, may : AlertRecords]
  BY CountsAre DEF NoRead, Stats, NoAlert, NoTruth, AlertRecords
<1>1. CASE ListQueues
  <2>1. RedisTypes'
    BY <1>1 DEF ListQueues, RedisTypes, redisVars
  <2>2. read' \in [Queues -> [at : 0 .. Failed, stats : Stats]]
    BY <1>0, <1>1, CountsAre DEF ListQueues
  <2>3. RefreshTypes'
    BY <1>0, <1>1, <2>2 DEF ListQueues, RefreshTypes, redisVars
  <2> QED
    BY <1>1, <2>1, <2>3 DEF ListQueues, GoTo, ScreenTypes, stateVars, redisVars
<1>2. CASE ListFails
  <2>1. trend' \in Seq(Nat)
    <3>1. ASSUME trend # <<>> PROVE Last(trend) \in Nat
      BY <3>1 DEF Last, RefreshTypes
    <3> QED
      BY <1>2, <3>1, PointAdded DEF ListFails, RefreshTypes, RedisTypes
  <2>2. alerts' \in AlertRecords
    BY <1>2 DEF ListFails, UpdateAlerts, RefreshTypes
  <2>3. UNCHANGED <<settings, redisVars, periodic, stateVars, refreshVars, verdict, truth, floor, shown, moved, target>>
    BY <1>2 DEF ListFails
  <2>4. RefreshTypes'
    BY <2>1, <2>2, <2>3 DEF RefreshTypes, refreshVars, redisVars
  <2> QED
    BY <1>2, <2>3, <2>4 DEF ListFails, GoTo, RedisTypes, ScreenTypes, redisVars, stateVars
<1>3. ASSUME NEW q \in Queues, ReadCount(q) \/ ReadCompleted(q) \/ ReadFails(q) PROVE DashTypes'
  <2>0. read[q].at \in 0 .. 8 /\ read[q].stats \in Stats /\ DOMAIN read = Queues
        /\ read[q] \in [at : 0 .. Failed, stats : Stats]
    BY CountsAre DEF RefreshTypes
  <2>1. read' \in [Queues -> [at : 0 .. Failed, stats : Stats]]
    <3>1. CASE ReadCount(q)
      <4> DEFINE p == Counted[read[q].at]
                 k == [read[q].stats EXCEPT ![p] = Cardinality(TasksAt(q, p))]
      <4>1. /\ read[q].at \in 0 .. 5 /\ k \in Stats
            /\ read' = [read EXCEPT ![q] = [at |-> read[q].at + 1, stats |-> k]]
        BY <3>1, CountRead
      <4> HIDE DEF k
      <4>2. [at |-> read[q].at + 1, stats |-> k] \in [at : 0 .. Failed, stats : Stats]
        BY <4>1, CountsAre
      <4> QED
        BY <4>1, <4>2 DEF RefreshTypes
    <3>2. CASE ReadCompleted(q)
      <4>1. PICK s \in Stats : read' = [read EXCEPT ![q] = [at |-> Finished, stats |-> s]]
        BY <3>2, CompletedRead
      <4>2. [at |-> Finished, stats |-> s] \in [at : 0 .. Failed, stats : Stats]
        BY CountsAre
      <4> QED
        BY <4>1, <4>2 DEF RefreshTypes
    <3>3. CASE ReadFails(q)
      <4> DEFINE e == [NoRead EXCEPT !.at = Failed]
      <4>1. e \in [at : 0 .. Failed, stats : Stats]
        BY <1>0, CountsAre
      <4>2. read' = [read EXCEPT ![q] = e]
        BY <3>3 DEF ReadFails
      <4> HIDE DEF e
      <4> QED
        BY <4>1, <4>2 DEF RefreshTypes
    <3> QED
      BY <1>3, <3>1, <3>2, <3>3
  <2>2. floor' \in [Queues -> Nat]
    BY <1>3 DEF ReadCount, ReadCompleted, ReadFails, RedisTypes
  <2>3. UNCHANGED <<settings, redisVars, pc, periodic, stateVars, found, alertVars, shown, moved, target>>
    BY <1>3 DEF ReadCount, ReadCompleted, ReadFails
  <2> QED
    BY <2>1, <2>2, <2>3 DEF RedisTypes, RefreshTypes, ScreenTypes, redisVars, stateVars, alertVars
<1>4. CASE EndRefresh
  <2>0. Answered \in SUBSET Queues /\ Answered \subseteq listed
    BY DEF Answered, RefreshTypes, RedisTypes
  <2>1. /\ queues' \in Seq(Answered) /\ Len(queues') <= Cardinality(Queues)
        /\ Cardinality(Answered) \in Nat
    <3>1. queues' \in SetToSeqs(Answered)
      BY <1>4 DEF EndRefresh
    <3>2. IsFiniteSet(Answered)
      BY <2>0, DashboardAssumption, FS_Subset
    <3> QED
      BY <2>0, <3>1, <3>2, RowsFacts, FS_CardinalityType
  <2>2. selected' \in Nat \ {0}
    BY <1>4, <2>1 DEF EndRefresh, ScreenTypes
  <2>3. trend' \in Seq(Nat)
    <3>1. TotalRead("dead") \in Nat
      BY TotalsAreNat, CountsAre
    <3> QED
      BY <1>4, <3>1, PointAdded DEF EndRefresh, RefreshTypes, RedisTypes
  <2>4. alerts' \in AlertRecords /\ verdict' \in AlertRecords
        /\ truth' \in [must : AlertRecords, may : AlertRecords]
    BY <1>4, AlertTypes DEF EndRefresh, UpdateAlerts, RefreshTypes
  <2>5. /\ found' = {} /\ read' = [q \in Queues |-> NoRead] /\ moved' = {} /\ floor' = NoFloor /\ pc' = "draw"
        /\ UNCHANGED <<settings, redisVars, periodic, view, list, shown, target>>
    BY <1>4 DEF EndRefresh, GoTo
  <2>6. RedisTypes'
    BY <2>5 DEF RedisTypes, redisVars, NoFloor
  <2>7. RefreshTypes'
    BY <1>0, <2>3, <2>4, <2>5 DEF RefreshTypes, redisVars
  <2>8. queues' \in Seq(listed')
    BY <2>0, <2>1, <2>5 DEF redisVars
  <2>9. ScreenTypes'
    BY <2>1, <2>2, <2>5, <2>8 DEF ScreenTypes
  <2> QED
    BY <2>6, <2>7, <2>9
<1> QED
  BY <1>1, <1>2, <1>3, <1>4 DEF Refresh

-----------------------------------------------------------------------------
(* The marked row and the marked task.                                      *)

(* A row or a list is marked, a key acts on it.                             *)
LEMMA RowInQueues ==
    ASSUME DashTypes, queues # <<>>, selected <= Len(queues)
    PROVE  Row \in Queues
<1>1. queues \in Seq(listed) /\ listed \subseteq Queues /\ selected \in Nat \ {0}
  BY DEF DashTypes, ScreenTypes, RedisTypes
<1>2. selected \in 1 .. Len(queues)
  BY <1>1
<1>3. queues[selected] \in listed
  BY <1>1, <1>2
<1> QED
  BY <1>1, <1>3 DEF Row

(* The marked row and the marked task; a key finds the row on the screen, and *)
(* no target is left over from an earlier key.                              *)
RowInv ==
    /\ MarkedRow
    /\ pc \in {"list", "stats", "draw", "keys", "over"} => target = NoQueue
    /\ pc = "keys" /\ queues # <<>> => shown = Row

(* The loop without its refresh.                                           *)
LEMMA ScreenKeeps ==
    ASSUME DashTypes, RowInv, Draw \/ NoKey \/ Check \/ Quit \/ MainKey \/ ListKey \/ HideHelp
    PROVE  DashTypes' /\ RowInv'
<1> USE DEF DashTypes, RowInv
<1>1. CASE Draw
  <2>1. /\ pc = "draw" /\ pc' = "keys"
        /\ UNCHANGED <<settings, redisVars, periodic, stateVars, refreshVars, alertVars, floor, moved, target>>
        /\ shown' = IF queues = <<>> THEN NoQueue ELSE Row
    BY <1>1 DEF Draw, GoTo
  <2>2. shown' \in Queues \cup {NoQueue}
    BY <2>1, RowInQueues DEF MarkedRow
  <2>3. DashTypes'
    BY <2>1, <2>2 DEF RedisTypes, RefreshTypes, ScreenTypes, redisVars, stateVars, refreshVars, alertVars
  <2>4. Row' = Row
    BY <2>1 DEF Row, stateVars
  <2> QED
    BY <2>1, <2>3, <2>4 DEF MarkedRow, stateVars
<1>2. CASE NoKey
  <2>1. /\ pc = "keys" /\ pc' = "check"
        /\ UNCHANGED <<settings, redisVars, periodic, stateVars, refreshVars, alertVars, floor, shown, moved, target>>
    BY <1>2 DEF NoKey, GoTo
  <2>3. DashTypes'
    BY <2>1 DEF RedisTypes, RefreshTypes, ScreenTypes, redisVars, stateVars, refreshVars, alertVars
  <2> QED
    BY <2>1, <2>3 DEF MarkedRow, stateVars
<1>3. CASE Check
  <2>1. /\ pc = "check" /\ pc' \in {"list", "draw"} /\ periodic' \in {TRUE, periodic}
        /\ shown' = NoQueue /\ target' = NoQueue
        /\ UNCHANGED <<settings, redisVars, stateVars, refreshVars, alertVars, floor, moved>>
    BY <1>3 DEF Check, GoTo
  <2>3. DashTypes'
    BY <2>1 DEF RedisTypes, RefreshTypes, ScreenTypes, redisVars, stateVars, refreshVars, alertVars
  <2> QED
    BY <2>1, <2>3 DEF MarkedRow, stateVars
<1>4. CASE Quit
  <2>1. /\ pc = "keys" /\ pc' = "over"
        /\ UNCHANGED <<settings, redisVars, periodic, stateVars, refreshVars, alertVars, floor, shown, moved, target>>
    BY <1>4 DEF Quit, GoTo
  <2>3. DashTypes'
    BY <2>1 DEF RedisTypes, RefreshTypes, ScreenTypes, redisVars, stateVars, refreshVars, alertVars
  <2> QED
    BY <2>1, <2>3 DEF MarkedRow, stateVars
<1>5. ASSUME NEW v \in {"Main", "TaskList", "Help"}, Key(v),
             place' \in [Tasks -> Counts \cup {"none"}],
             view' \in {"Main", "TaskList", "Help"},
             list' \in Lists \cup {NoList}, list' # NoList <=> view' = "TaskList",
             list' # NoList /\ list'.n > 0 => list'.task < list'.n,
             selected' \in Nat \ {0}, queues # <<>> => selected' <= Len(queues),
             \/ target' = target
             \/ queues # <<>> /\ target' = Row
      PROVE  DashTypes' /\ RowInv'
  <2>1. /\ pc = "keys" /\ pc' = "check"
        /\ UNCHANGED <<settings, listed, completed, periodic, queues, refreshVars, alertVars, floor, shown, moved>>
    BY <1>5 DEF Key, GoTo
  <2>2. target' = NoQueue \/ (target' = shown /\ target' \in Queues)
    BY <1>5, <2>1, RowInQueues DEF MarkedRow
  <2>3. RedisTypes'
    BY <1>5, <2>1 DEF RedisTypes
  <2>4. RefreshTypes'
    BY <2>1 DEF RefreshTypes, refreshVars, alertVars
  <2>5. ScreenTypes'
    BY <1>5, <2>1, <2>2 DEF ScreenTypes
  <2>6. MarkedRow'
    BY <1>5, <2>1, <2>2 DEF MarkedRow
  <2> QED
    BY <2>1, <2>3, <2>4, <2>5, <2>6
<1>6. ScreenTypes /\ RedisTypes /\ MarkedRow
  OBVIOUS
<1>7. CASE MoveRow
  <2>1. /\ Key("Main") /\ UNCHANGED <<place, target, view, list>> /\ pc = "keys"
        /\ \/ selected > 1 /\ selected' = selected - 1
           \/ selected < Len(queues) /\ selected' = selected + 1
    BY <1>7 DEF MoveRow, Key
  <2>2. queues \in Seq(listed) /\ selected \in Nat \ {0}
    BY <1>6 DEF ScreenTypes
  <2>3. Len(queues) \in Nat
    BY <2>2
  <2>4. selected' \in Nat \ {0} /\ (queues # <<>> => selected' <= Len(queues))
    BY <1>6, <2>1, <2>2, <2>3 DEF MarkedRow
  <2>5. /\ view \in {"Main", "TaskList", "Help"} /\ list \in Lists \cup {NoList}
        /\ (list # NoList <=> view = "TaskList") /\ (list # NoList /\ list.n > 0 => list.task < list.n)
        /\ place \in [Tasks -> Counts \cup {"none"}]
    BY <1>6 DEF ScreenTypes, RedisTypes, MarkedRow
  <2> QED
    BY <1>5, <2>1, <2>4, <2>5
<1>8. CASE PauseOrResumeRow \/ FlushRow
  <2>1. /\ Key("Main") /\ UNCHANGED <<view, selected, list>>
        /\ queues # <<>> /\ target' = Row
        /\ \/ place' = place
           \/ place' = [t \in Tasks |-> IF t \in TasksAt(Row, "pending") THEN "none" ELSE place[t]]
    BY <1>8 DEF PauseOrResumeRow, FlushRow
  <2>2. place' \in [Tasks -> Counts \cup {"none"}]
    BY <1>6, <2>1 DEF RedisTypes
  <2> QED
    BY <1>5, <1>6, <2>1, <2>2 DEF ScreenTypes, MarkedRow
<1>9. CASE ShowHelp \/ HideHelp
  <2>1. /\ UNCHANGED <<place, target, selected, list>>
        /\ \/ Key("Main") /\ view = "Main" /\ view' = "Help"
           \/ Key("Help") /\ view = "Help" /\ view' = "Main"
    BY <1>9 DEF ShowHelp, HideHelp, Key
  <2> QED
    BY <1>5, <1>6, <2>1 DEF ScreenTypes, RedisTypes, MarkedRow
<1>10. CASE EnterList
  <2> DEFINE l == [queue |-> Row, n |-> 0, task |-> 0]
  <2>1. /\ Key("Main") /\ queues # <<>> /\ view' = "TaskList"
        /\ list' \in RefreshList(l) /\ UNCHANGED <<place, target, selected>>
    BY <1>10 DEF EnterList
  <2>2. Row \in Queues
    BY <1>6, <2>1, RowInQueues DEF MarkedRow
  <2>3. l \in Lists
    BY <2>2, DashboardAssumption DEF Lists
  <2>4. l.n = 0
    OBVIOUS
  <2> HIDE DEF l
  <2>5. list' \in Lists /\ (list'.n > 0 => list'.task < list'.n)
    BY <2>1, <2>3, <2>4, ReloadFits
  <2>6. list' # NoList
    BY <2>5, DashboardAssumption
  <2> QED
    BY <1>5, <1>6, <2>1, <2>5, <2>6 DEF ScreenTypes, RedisTypes, MarkedRow
<1>11. CASE LeaveList
  <2>1. Key("TaskList") /\ view' = "Main" /\ list' = NoList /\ UNCHANGED <<place, target, selected>>
    BY <1>11 DEF LeaveList
  <2> QED
    BY <1>5, <1>6, <2>1 DEF ScreenTypes, RedisTypes, MarkedRow
<1>12. CASE PreviousTask \/ NextTask \/ ReloadList
  <2>1. /\ Key("TaskList") /\ view = "TaskList" /\ UNCHANGED <<place, target, view, selected>>
        /\ \/ list.task > 0 /\ list' = [list EXCEPT !.task = @ - 1]
           \/ list.task < list.n - 1 /\ list' = [list EXCEPT !.task = @ + 1]
           \/ list' \in RefreshList(list)
    BY <1>12 DEF PreviousTask, NextTask, ReloadList, Key
  <2>2. list # NoList /\ list \in Lists /\ (list.n > 0 => list.task < list.n)
    BY <1>6, <2>1 DEF ScreenTypes, MarkedRow
  <2>3. /\ list.n \in 0 .. PageSize /\ list.task \in 0 .. PageSize - 1 /\ list.queue \in Queues
        /\ PageSize \in Nat \ {0}
    BY <2>2, DashboardAssumption DEF Lists
  <2>4. list' \in Lists /\ (list'.n > 0 => list'.task < list'.n)
    <3>1. CASE list.task > 0 /\ list' = [list EXCEPT !.task = @ - 1]
      <4>1. list' = [queue |-> list.queue, n |-> list.n, task |-> list.task - 1]
        BY <2>2, <3>1 DEF Lists
      <4> QED
        BY <2>2, <2>3, <3>1, <4>1 DEF Lists
    <3>2. CASE list.task < list.n - 1 /\ list' = [list EXCEPT !.task = @ + 1]
      <4>1. list' = [queue |-> list.queue, n |-> list.n, task |-> list.task + 1]
        BY <2>2, <3>2 DEF Lists
      <4> QED
        BY <2>2, <2>3, <3>2, <4>1 DEF Lists
    <3>3. CASE list' \in RefreshList(list)
      BY <2>2, <3>3, ReloadFits
    <3> QED
      BY <2>1, <3>1, <3>2, <3>3
  <2>5. list' # NoList
    BY <2>4, DashboardAssumption
  <2> QED
    BY <1>5, <1>6, <2>1, <2>4, <2>5 DEF ScreenTypes, RedisTypes, MarkedRow
<1> QED
  BY <1>1, <1>2, <1>3, <1>4, <1>7, <1>8, <1>9, <1>10, <1>11, <1>12 DEF MainKey, ListKey

(* A refresh leaves the list and the key alone, and moves the row into the   *)
(* new table.                                                              *)
LEMMA RefreshKeepsRow ==
    ASSUME DashTypes, RowInv, Refresh
    PROVE  RowInv'
<1>1. CASE EndRefresh
  <2>1. /\ queues' \in SetToSeqs(Answered) /\ pc = "stats" /\ pc' = "draw"
        /\ selected' = IF Cardinality(Answered) > 0 /\ selected > Cardinality(Answered)
                       THEN Cardinality(Answered) ELSE selected
        /\ UNCHANGED <<list, shown, target>>
    BY <1>1 DEF EndRefresh, GoTo
  <2>2. Answered \in SUBSET Queues
    BY DEF Answered, DashTypes, RefreshTypes, RedisTypes
  <2>3. /\ Len(queues') = Cardinality(Answered) /\ Cardinality(Answered) \in Nat
        /\ (queues' = <<>> <=> Cardinality(Answered) = 0)
    BY <2>1, <2>2, RowsFacts, DashboardAssumption, FS_Subset, FS_CardinalityType
  <2>4. selected \in Nat
    BY DEF DashTypes, ScreenTypes
  <2> QED
    BY <2>1, <2>3, <2>4 DEF RowInv, MarkedRow
<1>2. CASE ListQueues \/ ListFails \/ (\E q \in Queues : ReadCount(q) \/ ReadCompleted(q) \/ ReadFails(q))
  <2>1. /\ UNCHANGED <<stateVars, shown, target>> /\ pc \in {"list", "stats"} /\ pc' \in {"stats", "draw"}
    BY <1>2 DEF ListQueues, ListFails, ReadCount, ReadCompleted, ReadFails, GoTo
  <2> QED
    BY <2>1 DEF RowInv, MarkedRow, stateVars
<1> QED
  BY <1>1, <1>2 DEF Refresh

(* The row and the types hold always.                                      *)
LEMMA RowHolds == Spec => [](DashTypes /\ RowInv)
<1>1. Init => DashTypes /\ RowInv
  BY DashTypesInit DEF Init, RowInv, MarkedRow
<1>2. ASSUME DashTypes, RowInv, [Next]_vars PROVE DashTypes' /\ RowInv'
  <2>1. CASE Refresh
    BY <1>2, <2>1, RefreshKeepsTypes, RefreshKeepsRow
  <2>2. CASE Draw \/ NoKey \/ Check \/ Quit \/ MainKey \/ ListKey \/ HideHelp
    BY <1>2, <2>2, ScreenKeeps
  <2>3. CASE (\E t \in Tasks : MoveTask(t)) \/ (\E q \in Queues : ListQueue(q))
    <3>1. DashTypes'
      BY <1>2, <2>3, OutsideTypes
    <3>2. UNCHANGED <<pc, stateVars, shown, target>>
      BY <2>3 DEF MoveTask, ListQueue
    <3> QED
      BY <1>2, <3>1, <3>2 DEF RowInv, MarkedRow, Row, stateVars
  <2>4. CASE UNCHANGED vars
    BY <1>2, <2>4 DEF DashTypes, RedisTypes, RefreshTypes, ScreenTypes, RowInv, MarkedRow, Row,
                      vars, stateVars, redisVars, refreshVars, alertVars
  <2> QED
    BY <1>2, <2>1, <2>2, <2>3, <2>4 DEF Next, Loop
<1> QED
  BY <1>1, <1>2, PTL DEF Spec

(* Whatever a refresh makes of the table and of its order, the marked row    *)
(* and the marked task exist, and a key acts on the queue that is marked on  *)
(* the screen.                                                             *)
THEOREM MarkedRowHolds == Spec => []MarkedRow
<1>1. DashTypes /\ RowInv => MarkedRow
  BY DEF RowInv
<1> QED
  BY <1>1, RowHolds, PTL

-----------------------------------------------------------------------------
(* Counts that are read while tasks move.                                   *)

(* The marked row never gets beyond the queues there are.                   *)
LEMMA SelectedFits ==
    ASSUME DashTypes, RowInv, selected <= Cardinality(Queues), [Next]_vars
    PROVE  selected' <= Cardinality(Queues)
<1>1. /\ Len(queues) <= Cardinality(Queues) /\ selected \in Nat \ {0} /\ Len(queues) \in Nat
      /\ Cardinality(Queues) \in Nat
  BY DashboardAssumption, FS_CardinalityType DEF DashTypes, ScreenTypes
<1>2. CASE MoveRow
  BY <1>1, <1>2 DEF MoveRow
<1>3. CASE EndRefresh
  <2>1. Answered \in SUBSET Queues
    BY DEF Answered, DashTypes, RefreshTypes, RedisTypes
  <2>2. Cardinality(Answered) <= Cardinality(Queues) /\ Cardinality(Answered) \in Nat
    BY <2>1, DashboardAssumption, FS_Subset, FS_CardinalityType
  <2>3. selected' = IF Cardinality(Answered) > 0 /\ selected > Cardinality(Answered)
                    THEN Cardinality(Answered) ELSE selected
    BY <1>3 DEF EndRefresh
  <2> QED
    BY <1>1, <2>2, <2>3
<1>4. CASE selected' = selected
  BY <1>4
<1>5. MoveRow \/ EndRefresh \/ selected' = selected
  <2>1. CASE Refresh
    BY <2>1 DEF Refresh, ListQueues, ListFails, ReadCount, ReadCompleted, ReadFails, stateVars
  <2>2. CASE MainKey \/ ListKey \/ HideHelp
    BY <2>2 DEF MainKey, ListKey, HideHelp, PauseOrResumeRow, FlushRow, ShowHelp, EnterList, LeaveList,
                PreviousTask, NextTask, ReloadList
  <2>3. CASE Draw \/ NoKey \/ Check \/ Quit \/ UNCHANGED vars
    BY <2>3 DEF Draw, NoKey, Check, Quit, vars, stateVars
  <2>4. CASE (\E t \in Tasks : MoveTask(t)) \/ (\E q \in Queues : ListQueue(q))
    BY <2>4 DEF MoveTask, ListQueue, stateVars
  <2> QED
    BY <2>1, <2>2, <2>3, <2>4 DEF Next, Loop
<1> QED
  BY <1>2, <1>3, <1>4, <1>5

(* The variables keep their types; the marked row is one of those that there *)
(* could be, for which there has to be a queue at all.                       *)
THEOREM DashboardTypes ==
    ASSUME Queues # {}
    PROVE  Spec => []TypeOK
<1>1. Init => selected <= Cardinality(Queues)
  <2>1. Cardinality(Queues) \in Nat /\ Cardinality(Queues) # 0
    BY DashboardAssumption, FS_CardinalityType, FS_EmptySet
  <2> QED
    BY <2>1 DEF Init
<1>2. DashTypes /\ RowInv /\ selected <= Cardinality(Queues) /\ [Next]_vars
         => (selected <= Cardinality(Queues))'
  BY SelectedFits
<1>3. ASSUME DashTypes, selected <= Cardinality(Queues) PROVE TypeOK
  <2>1. Cardinality(Queues) \in Nat
    BY DashboardAssumption, FS_CardinalityType
  <2>2. selected \in 1 .. Cardinality(Queues)
    BY <1>3, <2>1 DEF DashTypes, ScreenTypes
  <2>3. {alerts, verdict, truth.must, truth.may} \subseteq [dead : BOOLEAN, error_rate : BOOLEAN]
    BY <1>3 DEF DashTypes, RefreshTypes, AlertRecords
  <2>4. {completed, floor} \subseteq [Queues -> Nat] /\ {shown, target} \subseteq Queues \cup {NoQueue}
    BY <1>3 DEF DashTypes, RedisTypes, ScreenTypes
  <2> QED
    BY <1>3, <2>2, <2>3, <2>4 DEF DashTypes, RedisTypes, RefreshTypes, ScreenTypes, TypeOK, Stats
<1> QED
  BY <1>1, <1>2, <1>3, RowHolds, PTL DEF Spec

(* What the invariants of a refresh in progress speak of.                   *)
seenVars == <<place, moved, read, completed, floor>>

(* What a step does to the refresh in progress: it starts it, reads on, ends *)
(* it, or a task moves meanwhile.                                          *)
LEMMA WhileReading ==
    ASSUME [Next]_vars, pc' = "stats"
    PROVE  \/ ListQueues
           \/ \E t \in Tasks : MoveTask(t) /\ pc = "stats"
           \/ \E q \in Queues : ReadCount(q) \/ ReadCompleted(q) \/ ReadFails(q)
           \/ pc = "stats" /\ UNCHANGED seenVars
<1>1. CASE Refresh
  BY <1>1 DEF Refresh, ListFails, EndRefresh, GoTo
<1>2. CASE MainKey \/ ListKey \/ HideHelp
  BY <1>2 DEF MainKey, ListKey, HideHelp, MoveRow, PauseOrResumeRow, FlushRow, ShowHelp, EnterList, LeaveList,
              PreviousTask, NextTask, ReloadList, Key, GoTo, seenVars
<1>3. CASE Draw \/ NoKey \/ Check \/ Quit
  BY <1>3 DEF Draw, NoKey, Check, Quit, GoTo, seenVars
<1>4. ASSUME NEW t \in Tasks, MoveTask(t) PROVE pc = "stats"
  BY <1>4 DEF MoveTask
<1>5. CASE (\E q \in Queues : ListQueue(q)) \/ UNCHANGED vars
  BY <1>5 DEF ListQueue, vars, refreshVars, redisVars, seenVars
<1> QED
  BY <1>1, <1>2, <1>3, <1>4, <1>5 DEF Next, Loop

(* A set of tasks seen partly before and partly after some of them moved.    *)
LEMMA NearSet ==
    ASSUME NEW A \in SUBSET Tasks, NEW M \in SUBSET Tasks, NEW q,
           \A t \in A : QueueOf[t] = q
    PROVE  Cardinality(A) \in Cardinality(A \ M) .. Cardinality(A \ M) + Cardinality(Part(M, q))
<1> DEFINE S == A \ M
           O == Part(M, q)
<1>1. S \in SUBSET Tasks /\ O \in SUBSET Tasks /\ S \in SUBSET A /\ A \ S \in SUBSET O
  BY DEF Part
<1>2. /\ A = S \cup (A \ S) /\ S \cap (A \ S) = {} /\ A \ S \in SUBSET Tasks
  OBVIOUS
<1> HIDE DEF S, O
<1>3. /\ IsFiniteSet(S) /\ IsFiniteSet(O) /\ IsFiniteSet(A) /\ IsFiniteSet(A \ S)
      /\ Cardinality(S) \in Nat /\ Cardinality(O) \in Nat /\ Cardinality(A) \in Nat /\ Cardinality(A \ S) \in Nat
  BY <1>1, <1>2, CountIsNat
<1>4. Cardinality(A) = Cardinality(S) + Cardinality(A \ S)
  BY <1>2, <1>3, Disjoint
<1>5. Cardinality(A \ S) <= Cardinality(O)
  BY <1>1, <1>3, FS_Subset
<1> QED
  BY <1>3, <1>4, <1>5 DEF S, O

(* When a task moves, a count that was near stays near.                     *)
LEMMA StaysNear ==
    ASSUME NEW A \in SUBSET Tasks, NEW O \in SUBSET Tasks, NEW n \in Nat, NEW t,
           n \in Cardinality(A) .. Cardinality(A) + Cardinality(O), t \in Tasks, t \notin O
    PROVE  n \in Cardinality(A \ {t}) .. Cardinality(A \ {t}) + Cardinality(O \cup {t})
<1>1. A \ {t} \in SUBSET Tasks /\ O \cup {t} \in SUBSET Tasks
  OBVIOUS
<1>2. /\ IsFiniteSet(A) /\ IsFiniteSet(O)
      /\ Cardinality(A) \in Nat /\ Cardinality(O) \in Nat /\ Cardinality(A \ {t}) \in Nat
  BY <1>1, CountIsNat
<1>3. Cardinality(O \cup {t}) = Cardinality(O) + 1
  BY <1>2, FS_AddElement
<1>4. Cardinality(A \ {t}) = IF t \in A THEN Cardinality(A) - 1 ELSE Cardinality(A)
  BY <1>2, FS_RemoveElement
<1> QED
  BY <1>2, <1>3, <1>4

(* CountsNearTruth with the counts named.                                  *)
Near(q, i) ==
    read[q].stats[Counted[i]]
      \in Cardinality(TasksAt(q, Counted[i]) \ moved) ..
            Cardinality(TasksAt(q, Counted[i]) \ moved) + Cardinality(Part(moved, q))

AllNear ==
    pc = "stats" => \A q \in Queues, i \in 1 .. 5 : i < read[q].at /\ read[q].at <= 7 => Near(q, i)

LEMMA NearStep ==
    ASSUME DashTypes, AllNear, [Next]_vars
    PROVE  AllNear'
<1> SUFFICES ASSUME pc' = "stats", NEW v \in Queues, NEW i \in 1 .. 5,
                    i < read'[v].at, read'[v].at <= 7
             PROVE  Near(v, i)'
  BY DEF AllNear
<1>0. /\ RefreshTypes /\ RedisTypes /\ moved \in SUBSET Tasks
      /\ \A q \in Queues : read[q].at \in 0 .. 8 /\ read[q].stats \in Stats
      /\ read \in [Queues -> [at : 0 .. Failed, stats : Stats]]
  BY CountsAre DEF DashTypes, RefreshTypes, RedisTypes
<1>a. Counted[i] \in Counts /\ Counted' = Counted
  BY CountsAre
<1>1. CASE ListQueues
  <2>1. read' = [q \in Queues |-> [NoRead EXCEPT !.at = IF q \in listed THEN 1 ELSE Failed]]
    BY <1>1 DEF ListQueues
  <2>2. read'[v].at = 1 \/ read'[v].at = 8
    BY <2>1, CountsAre DEF NoRead
  <2> QED
    BY <2>2
<1>2. ASSUME NEW t \in Tasks, MoveTask(t), pc = "stats" PROVE Near(v, i)'
  <2> DEFINE A == TasksAt(v, Counted[i]) \ moved
             O == Part(moved, v)
  <2>1. /\ read' = read /\ moved' = moved \cup {t}
        /\ \A s \in Tasks : s # t => place'[s] = place[s]
    BY <1>0, <1>2 DEF MoveTask, refreshVars, RedisTypes
  <2>2. Near(v, i)
    BY <1>2, <2>1 DEF AllNear
  <2>3. CASE t \in moved \/ QueueOf[t] # v
    <3>1. A' = A
      BY <2>1, <2>3 DEF TasksAt
    <3>2. O' = O
      BY <2>1, <2>3 DEF Part
    <3> QED
      BY <2>1, <2>2, <3>1, <3>2 DEF Near
  <2>4. CASE t \notin moved /\ QueueOf[t] = v
    <3>1. A' = A \ {t}
      BY <2>1, <2>4 DEF TasksAt
    <3>2. O' = O \cup {t} /\ t \notin O
      BY <2>1, <2>4 DEF Part
    <3>3. A \in SUBSET Tasks /\ O \in SUBSET Tasks
      BY <1>0 DEF TasksAt, Part
    <3>4. read[v].stats[Counted[i]] \in Nat
      BY <1>0, <1>a DEF Stats
    <3>5. read[v].stats[Counted[i]] \in Cardinality(A) .. Cardinality(A) + Cardinality(O)
      BY <2>2 DEF Near
    <3> HIDE DEF A, O
    <3>6. read[v].stats[Counted[i]] \in Cardinality(A \ {t}) .. Cardinality(A \ {t}) + Cardinality(O \cup {t})
      BY <3>2, <3>3, <3>4, <3>5, StaysNear
    <3>7. read'[v].stats[Counted[i]] \in Cardinality(A') .. Cardinality(A') + Cardinality(O')
      BY <2>1, <3>1, <3>2, <3>6
    <3> QED
      BY <3>7 DEF A, O, Near
  <2> QED
    BY <2>3, <2>4
<1>3. ASSUME NEW q \in Queues, ReadCount(q) \/ ReadCompleted(q) \/ ReadFails(q) PROVE Near(v, i)'
  <2>1. pc = "stats" /\ UNCHANGED <<place, moved>>
    BY <1>3 DEF ReadCount, ReadCompleted, ReadFails, redisVars
  <2>2. CASE read'[v].at = read[v].at /\ read'[v].stats[Counted[i]] = read[v].stats[Counted[i]]
    <3>1. Near(v, i)
      BY <2>1, <2>2 DEF AllNear
    <3> QED
      BY <2>1, <2>2, <3>1 DEF Near, TasksAt, Part
  <2>3. CASE v # q
    <3>1. read'[v] = read[v]
      <4>1. CASE ReadCount(q)
        BY <1>0, <2>3, <4>1, CountRead
      <4>2. CASE ReadCompleted(q)
        BY <1>0, <2>3, <4>2, CompletedRead
      <4>3. CASE ReadFails(q)
        BY <1>0, <2>3, <4>3 DEF ReadFails
      <4> QED
        BY <1>3, <4>1, <4>2, <4>3
    <3> QED
      BY <2>2, <3>1
  <2>4. CASE v = q /\ ReadCount(q)
    <3> DEFINE p == Counted[read[q].at]
               n == Cardinality(TasksAt(q, p))
               k == [read[q].stats EXCEPT ![p] = n]
    <3>1. /\ read[q].at \in 0 .. 5 /\ k \in Stats
          /\ read' = [read EXCEPT ![q] = [at |-> read[q].at + 1, stats |-> k]]
      BY <1>0, <2>4, CountRead
    <3>2. read'[v].at = read[q].at + 1 /\ read'[v].stats = k
      BY <1>0, <2>4, <3>1
    <3>3. CASE i = read[q].at
      <4>1. p \in Counts /\ Counted[i] = p
        BY <1>a, <3>3
      <4>2. k[p] = n
        BY <1>0, <4>1 DEF Stats
      <4>3. TasksAt(q, p) \in SUBSET Tasks /\ \A t \in TasksAt(q, p) : QueueOf[t] = q
        BY DEF TasksAt
      <4>4. n \in Cardinality(TasksAt(q, p) \ moved) .. Cardinality(TasksAt(q, p) \ moved) + Cardinality(Part(moved, q))
        BY <1>0, <4>3, NearSet
      <4>5. TasksAt(v, Counted[i])' = TasksAt(q, p) /\ moved' = moved
        BY <2>1, <2>4, <4>1 DEF TasksAt
      <4>6. read'[v].stats[Counted[i]] = n
        BY <3>2, <4>1, <4>2
      <4> HIDE DEF n, p
      <4> QED
        BY <2>4, <4>4, <4>5, <4>6 DEF Near, Part
    <3>4. CASE i # read[q].at
      <4>1. i < read[q].at
        BY <2>4, <3>1, <3>2, <3>4
      <4>2. Counted[i] # p
        BY <3>1, <3>4, <4>1, CountsAre
      <4>3. k[Counted[i]] = read[q].stats[Counted[i]]
        BY <1>0, <1>a, <4>2 DEF Stats
      <4>4. Near(v, i)
        BY <2>1, <2>4, <3>1, <4>1 DEF AllNear
      <4> QED
        BY <2>1, <2>4, <3>2, <4>3, <4>4 DEF Near, TasksAt, Part
    <3> QED
      BY <3>3, <3>4
  <2>5. CASE v = q /\ ReadCompleted(q)
    <3>1. PICK s \in Stats :
              /\ s = [read[q].stats EXCEPT !["completed"] = completed[q]] \/ s = read[q].stats
              /\ read' = [read EXCEPT ![q] = [at |-> Finished, stats |-> s]]
      BY <1>0, <2>5, CompletedRead
    <3>2. read'[v].stats = s
      BY <1>0, <2>5, <3>1
    <3>3. Counted[i] # "completed"
      BY <1>a, CountsAre
    <3>4. s[Counted[i]] = read[q].stats[Counted[i]]
      BY <1>0, <1>a, <3>1, <3>3 DEF Stats
    <3>5. read[q].at = 6
      BY <2>5, CountsAre DEF ReadCompleted
    <3>6. Near(v, i)
      BY <2>1, <2>5, <3>5 DEF AllNear
    <3> QED
      BY <2>1, <2>5, <3>2, <3>4, <3>6 DEF Near, TasksAt, Part
  <2>6. CASE v = q /\ ReadFails(q)
    <3>1. read'[v].at = 8
      BY <1>0, <2>6, CountsAre DEF ReadFails, NoRead
    <3> QED
      BY <3>1
  <2> QED
    BY <1>3, <2>3, <2>4, <2>5, <2>6
<1>4. CASE pc = "stats" /\ UNCHANGED seenVars
  <2>1. Near(v, i)
    BY <1>4 DEF AllNear, seenVars
  <2> QED
    BY <1>4, <2>1 DEF Near, TasksAt, Part, seenVars
<1> QED
  BY <1>1, <1>2, <1>3, <1>4, WhileReading

LEMMA NearHolds == Spec => []AllNear
<1>1. Init => AllNear
  BY DEF Init, AllNear
<1>2. DashTypes /\ AllNear /\ [Next]_vars => AllNear'
  BY NearStep
<1> QED
  BY <1>1, <1>2, RowHolds, PTL DEF Spec

(* However the reads of a refresh and the moves of tasks interleave, a count  *)
(* is wrong by no more than the tasks of the queue that moved meanwhile.      *)
THEOREM CountsAreNear == Spec => []CountsNearTruth
<1>1. AllNear => CountsNearTruth
  BY CountsAre DEF AllNear, CountsNearTruth, Near, Part
<1> QED
  BY <1>1, NearHolds, PTL

-----------------------------------------------------------------------------
(* The alerts.                                                              *)

(* Numbers that are bounded by two others one by one are in sum.            *)
LEMMA SumBounded ==
    ASSUME NEW f, NEW g, NEW h, NEW S, IsFiniteSet(S),
           \A x \in S : f[x] \in Nat /\ g[x] \in Nat /\ h[x] \in Nat /\ f[x] <= g[x] + h[x]
    PROVE  Sum(f, S) <= Sum(g, S) + Sum(h, S)
<1> DEFINE B == {s \in SUBSET S : ~(Sum(f, s) <= Sum(g, s) + Sum(h, s))}
<1> SUFFICES ASSUME B # {} PROVE FALSE
  BY DEF B
<1>1. PICK s \in B : IsFiniteSet(s) /\ \A x \in s : s \ {x} \notin B
  BY SmallestSet
<1>2. CASE s = {}
  <2>1. Sum(f, s) = 0 /\ Sum(g, s) = 0 /\ Sum(h, s) = 0
    BY <1>1, <1>2, SumUnfolds
  <2> QED
    BY <2>1
<1>3. ASSUME NEW x \in s PROVE FALSE
  <2>1. /\ Sum(f, s) = Sum(f, s \ {x}) + f[x] /\ Sum(g, s) = Sum(g, s \ {x}) + g[x]
        /\ Sum(h, s) = Sum(h, s \ {x}) + h[x]
    BY <1>1, SumTakesOut
  <2>2. IsFiniteSet(s \ {x})
    BY <1>1, FS_RemoveElement
  <2>3. /\ Sum(f, s \ {x}) \in Nat /\ Sum(g, s \ {x}) \in Nat /\ Sum(h, s \ {x}) \in Nat
        /\ f[x] \in Nat /\ g[x] \in Nat /\ h[x] \in Nat /\ f[x] <= g[x] + h[x]
    BY <2>2, SumType
  <2>4. Sum(f, s \ {x}) <= Sum(g, s \ {x}) + Sum(h, s \ {x})
    BY <1>1
  <2>5. ~(Sum(f, s) <= Sum(g, s) + Sum(h, s))
    OBVIOUS
  <2> HIDE DEF B
  <2> QED
    BY <2>1, <2>3, <2>4, <2>5
<1> QED
  BY <1>2, <1>3

(* More failures, and no more tasks that completed, do not lower the rate.   *)
LEMMA RateGrows ==
    ASSUME NEW r \in Nat, NEW f \in Nat, NEW F \in Nat, NEW c \in Nat, NEW C \in Nat,
           f <= F, C <= c, 100 * f > r * (f + c)
    PROVE  100 * F > r * (F + C)
<1>1. \A a, b, k \in Nat : a <= b => k * a <= k * b
  OBVIOUS
<1>2. r * C <= r * c /\ r * c \in Nat /\ r * C \in Nat
  BY <1>1
<1>3. r * (f + c) = r * f + r * c /\ r * (F + C) = r * F + r * C
  OBVIOUS
<1>4. r <= 100
  <2>1. CASE r > 100
    <3>1. f * 100 <= f * r
      BY <1>1, <2>1
    <3>2. f * 100 = 100 * f /\ f * r = r * f /\ r * f \in Nat
      OBVIOUS
    <3> QED
      BY <1>2, <1>3, <3>1, <3>2
  <2> QED
    BY <2>1
<1>5. PICK d \in Nat : 100 = r + d
  <2>1. 100 - r \in Nat /\ 100 = r + (100 - r)
    BY <1>4
  <2> QED
    BY <2>1
<1>6. d * f <= d * F
  BY <1>1
<1>7. 100 * f = r * f + d * f /\ 100 * F = r * F + d * F
  BY <1>5
<1>8. r * f \in Nat /\ r * F \in Nat /\ d * f \in Nat /\ d * F \in Nat
  OBVIOUS
<1> QED
  BY <1>2, <1>3, <1>6, <1>7, <1>8

(* So what asks for an alert still does with more dead and failed tasks, and *)
(* with no more completed ones.                                             *)
LEMMA AlertsGrow ==
    ASSUME settings \in Settings,
           NEW d \in Nat, NEW D \in Nat, NEW f \in Nat, NEW F \in Nat, NEW c \in Nat, NEW C \in Nat,
           d <= D, f <= F, C <= c, NEW a \in {"dead", "error_rate"}, Alerts(d, f, c)[a]
    PROVE  Alerts(D, F, C)[a]
<1>1. settings.dead_threshold \in Nat /\ settings.error_rate_threshold \in Nat
  BY SettingsAreNat
<1>2. CASE a = "dead"
  <2>1. d > settings.dead_threshold
    BY <1>2 DEF Alerts
  <2>2. D > settings.dead_threshold
    BY <1>1, <2>1
  <2> QED
    BY <1>2, <2>2 DEF Alerts
<1>3. CASE a = "error_rate"
  <2>1. 100 * f > settings.error_rate_threshold * (f + c)
    BY <1>3 DEF Alerts
  <2>2. 100 * F > settings.error_rate_threshold * (F + C)
    BY <1>1, <2>1, RateGrows
  <2> QED
    BY <1>3, <2>2 DEF Alerts
<1> QED
  BY <1>2, <1>3

(* What is read as completed is no less than what was completed before the   *)
(* refresh, or the error that hid it is on record, and no more than is now.  *)
DoneRead(q) ==
    /\ read[q].at >= 1
    /\ read[q].at <= 6 => read[q].stats["completed"] = 0 /\ floor[q] <= completed[q]
    /\ read[q].at = 7 => /\ floor[q] <= read[q].stats["completed"]
                         /\ read[q].stats["completed"] <= completed[q]

FloorInv == pc = "stats" => \A q \in Queues : DoneRead(q)

LEMMA FloorStep ==
    ASSUME DashTypes, FloorInv, [Next]_vars
    PROVE  FloorInv'
<1> SUFFICES ASSUME pc' = "stats", NEW v \in Queues
             PROVE  DoneRead(v)'
  BY DEF FloorInv
<1>0. /\ RefreshTypes /\ RedisTypes /\ completed \in [Queues -> Nat] /\ floor \in [Queues -> Nat]
      /\ \A q \in Queues : read[q].at \in 0 .. 8 /\ read[q].stats \in Stats
      /\ read \in [Queues -> [at : 0 .. Failed, stats : Stats]]
  BY CountsAre DEF DashTypes, RefreshTypes, RedisTypes
<1>1. CASE ListQueues
  <2>1. /\ read' = [q \in Queues |-> [NoRead EXCEPT !.at = IF q \in listed THEN 1 ELSE Failed]]
        /\ floor' = completed /\ completed' = completed
    BY <1>1 DEF ListQueues, redisVars
  <2>2. (read'[v].at = 1 \/ read'[v].at = 8) /\ read'[v].stats["completed"] = 0
    BY <2>1, CountsAre DEF NoRead
  <2> QED
    BY <1>0, <2>1, <2>2 DEF DoneRead
<1>2. ASSUME NEW t \in Tasks, MoveTask(t), pc = "stats" PROVE DoneRead(v)'
  <2>1. read' = read /\ floor' = floor
    BY <1>2 DEF MoveTask, refreshVars
  <2>2. \/ completed' = completed
        \/ completed' = [completed EXCEPT ![QueueOf[t]] = @ + 1]
    BY <1>2 DEF MoveTask, CountCompleted
  <2>3. completed[v] <= completed'[v] /\ completed'[v] \in Nat
    BY <1>0, <2>2
  <2>4. DoneRead(v)
    BY <1>2 DEF FloorInv
  <2>5. read[v].stats["completed"] \in Nat /\ floor[v] \in Nat /\ completed[v] \in Nat
    BY <1>0 DEF Stats
  <2> QED
    BY <2>1, <2>3, <2>4, <2>5 DEF DoneRead
<1>3. ASSUME NEW q \in Queues, ReadCount(q) \/ ReadCompleted(q) \/ ReadFails(q) PROVE DoneRead(v)'
  <2>1. pc = "stats" /\ completed' = completed
    BY <1>3 DEF ReadCount, ReadCompleted, ReadFails, redisVars
  <2>2. DoneRead(v)
    BY <2>1 DEF FloorInv
  <2>3. CASE ReadCount(q)
    <3> DEFINE p == Counted[read[q].at]
               k == [read[q].stats EXCEPT ![p] = Cardinality(TasksAt(q, p))]
    <3>1. /\ read[q].at \in 0 .. 5 /\ k \in Stats
          /\ read' = [read EXCEPT ![q] = [at |-> read[q].at + 1, stats |-> k]]
      BY <1>0, <2>3, CountRead
    <3>2. floor' = floor
      BY <2>3 DEF ReadCount
    <3>3. CASE v = q
      <4>1. read'[v].at = read[q].at + 1 /\ read'[v].stats = k /\ read'[v].at <= 6
        BY <1>0, <3>1, <3>3
      <4>2. read[q].at \in 1 .. 5 /\ read[q].stats["completed"] = 0
        BY <2>2, <3>1, <3>3 DEF DoneRead
      <4>3. p # "completed"
        BY <4>2, CountsAre
      <4>4. k["completed"] = 0
        BY <1>0, <4>2, <4>3 DEF Stats
      <4> HIDE DEF k
      <4> QED
        BY <2>1, <2>2, <3>1, <3>2, <3>3, <4>1, <4>2, <4>4 DEF DoneRead
    <3>4. CASE v # q
      BY <1>0, <2>1, <2>2, <3>1, <3>2, <3>4 DEF DoneRead
    <3> QED
      BY <3>3, <3>4
  <2>4. CASE ReadCompleted(q)
    <3>1. PICK s \in Stats :
              /\ \/ s = [read[q].stats EXCEPT !["completed"] = completed[q]] /\ floor' = floor
                 \/ s = read[q].stats /\ floor' = [floor EXCEPT ![q] = 0]
              /\ read' = [read EXCEPT ![q] = [at |-> Finished, stats |-> s]]
      BY <1>0, <2>4, CompletedRead
    <3>2. CASE v = q
      <4>1. read'[v].at = 7 /\ read'[v].stats = s /\ read[v].at = 6
        BY <1>0, <2>4, <3>1, <3>2, CountsAre DEF ReadCompleted
      <4>2. read[q].stats["completed"] = 0 /\ floor[q] <= completed[q] /\ completed[q] \in Nat /\ floor[q] \in Nat
        BY <1>0, <2>2, <3>2, <4>1 DEF DoneRead
      <4>3. CASE s = [read[q].stats EXCEPT !["completed"] = completed[q]] /\ floor' = floor
        <5>1. s["completed"] = completed[q]
          BY <1>0, <4>3 DEF Stats
        <5> QED
          BY <2>1, <3>2, <4>1, <4>2, <4>3, <5>1 DEF DoneRead
      <4>4. CASE s = read[q].stats /\ floor' = [floor EXCEPT ![q] = 0]
        <5>1. floor'[v] = 0 /\ s["completed"] = 0
          BY <1>0, <3>2, <4>2, <4>4
        <5> QED
          BY <2>1, <3>2, <4>1, <4>2, <5>1 DEF DoneRead
      <4> QED
        BY <3>1, <4>3, <4>4
    <3>3. CASE v # q
      <4>1. read'[v] = read[v] /\ floor'[v] = floor[v]
        BY <1>0, <3>1, <3>3
      <4> QED
        BY <2>1, <2>2, <4>1 DEF DoneRead
    <3> QED
      BY <3>2, <3>3
  <2>5. CASE ReadFails(q)
    <3>1. /\ read' = [read EXCEPT ![q] = [NoRead EXCEPT !.at = Failed]] /\ floor' = floor
      BY <2>5 DEF ReadFails
    <3>2. CASE v = q
      <4>1. read'[v].at = 8
        BY <1>0, <3>1, <3>2, CountsAre DEF NoRead
      <4> QED
        BY <4>1 DEF DoneRead
    <3>3. CASE v # q
      BY <1>0, <2>1, <2>2, <3>1, <3>3 DEF DoneRead
    <3> QED
      BY <3>2, <3>3
  <2> QED
    BY <1>3, <2>3, <2>4, <2>5
<1>4. CASE pc = "stats" /\ UNCHANGED seenVars
  BY <1>4 DEF FloorInv, DoneRead, seenVars
<1> QED
  BY <1>1, <1>2, <1>3, <1>4, WhileReading

BothAlerts == {"dead", "error_rate"}

(* What the refresh has read of the dead, retried and completed tasks        *)
(* against what there was: the tasks that stayed are in it, and no others    *)
(* than those that moved.                                                   *)
LEMMA TotalsNear ==
    ASSUME DashTypes, AllNear, FloorInv, pc = "stats",
           NEW i \in {4, 5}
    PROVE  LET X == {t \in Tasks : place[t] = Counted[i] /\ t \notin moved}
               S == Cardinality({t \in X : QueueOf[t] \in Answered})
               M == Cardinality({t \in moved : QueueOf[t] \in Answered})
           IN  S <= TotalRead(Counted[i]) /\ TotalRead(Counted[i]) <= S + M
<1> DEFINE p == Counted[i]
           X == {t \in Tasks : place[t] = p /\ t \notin moved}
           N == Answered
           f == [q \in Queues |-> read[q].stats[p]]
           g == [q \in Queues |-> Cardinality(Part(X, q))]
           h == [q \in Queues |-> Cardinality(Part(moved, q))]
<1>1. /\ N \in SUBSET Queues /\ IsFiniteSet(N) /\ moved \in SUBSET Tasks /\ X \in SUBSET Tasks
      /\ p \in Counts /\ i \in 1 .. 5
  BY DashboardAssumption, FS_Subset, CountsAre DEF Answered, DashTypes, RefreshTypes, RedisTypes
<1>2. ASSUME NEW q \in N
      PROVE  f[q] \in Nat /\ g[q] \in Nat /\ h[q] \in Nat /\ g[q] <= f[q] /\ f[q] <= g[q] + h[q]
  <2>1. q \in Queues /\ read[q].at = 7
    BY <1>1, CountsAre DEF Answered
  <2>2. Near(q, i)
    BY <1>1, <2>1 DEF AllNear
  <2>3. TasksAt(q, p) \ moved = Part(X, q)
    BY DEF TasksAt, Part
  <2>4. /\ Cardinality(Part(X, q)) \in Nat /\ Cardinality(Part(moved, q)) \in Nat
        /\ read[q].stats[p] \in Nat
    <3>1. Part(X, q) \in SUBSET Tasks /\ Part(moved, q) \in SUBSET Tasks
      BY <1>1 DEF Part
    <3>2. read[q].stats[p] \in Nat
      BY <1>1, <2>1 DEF DashTypes, RefreshTypes, Stats
    <3> QED
      BY <3>1, <3>2, CountIsNat
  <2>5. read[q].stats[p] \in Cardinality(Part(X, q)) .. Cardinality(Part(X, q)) + Cardinality(Part(moved, q))
    BY <2>2, <2>3 DEF Near
  <2> QED
    BY <2>1, <2>4, <2>5
<1>3. /\ Sum(g, N) = Cardinality({t \in X : QueueOf[t] \in N})
      /\ Sum(h, N) = Cardinality({t \in moved : QueueOf[t] \in N})
  BY <1>1, SumOfParts
<1>4. TotalRead(p) = Sum(f, N)
  BY <1>1, TotalReadIsSum
<1> HIDE DEF f, g, h, X, N, p
<1>5. Sum(g, N) <= Sum(f, N)
  BY <1>1, <1>2, SumGrows
<1>6. Sum(f, N) <= Sum(g, N) + Sum(h, N)
  BY <1>1, <1>2, SumBounded
<1> QED
  BY <1>3, <1>4, <1>5, <1>6 DEF X, N, p

(* The same for the completed tasks.                                        *)
LEMMA CompletedNear ==
    ASSUME DashTypes, FloorInv, pc = "stats"
    PROVE  LET low == MapThenSumSet(LAMBDA q : floor[q], Answered)
               high == MapThenSumSet(LAMBDA q : completed[q], Answered)
           IN  /\ low \in Nat /\ high \in Nat
               /\ low <= TotalRead("completed") /\ TotalRead("completed") <= high
<1> DEFINE f == [q \in Queues |-> read[q].stats["completed"]]
<1>1. Answered \in SUBSET Queues /\ IsFiniteSet(Answered)
  BY DashboardAssumption, FS_Subset DEF Answered, DashTypes, RefreshTypes, RedisTypes
<1>2. ASSUME NEW q \in Answered
      PROVE  /\ f[q] \in Nat /\ floor[q] \in Nat /\ completed[q] \in Nat
             /\ floor[q] <= f[q] /\ f[q] <= completed[q]
  <2>1. q \in Queues /\ read[q].at = 7
    BY <1>1, CountsAre DEF Answered
  <2>2. floor[q] <= read[q].stats["completed"] /\ read[q].stats["completed"] <= completed[q]
    BY <2>1 DEF FloorInv, DoneRead
  <2>3. read[q].stats["completed"] \in Nat /\ floor[q] \in Nat /\ completed[q] \in Nat
    BY <2>1 DEF DashTypes, RefreshTypes, RedisTypes, Stats
  <2> QED
    BY <2>1, <2>2, <2>3
<1>3. TotalRead("completed") = Sum(f, Answered)
  BY <1>1, TotalReadIsSum
<1>4. /\ MapThenSumSet(LAMBDA q : floor[q], Answered) = Sum(floor, Answered)
      /\ MapThenSumSet(LAMBDA q : completed[q], Answered) = Sum(completed, Answered)
  BY FoldIsSum
<1> HIDE DEF f
<1>5. Sum(floor, Answered) <= Sum(f, Answered) /\ Sum(f, Answered) <= Sum(completed, Answered)
  BY <1>1, <1>2, SumGrows
<1>6. Sum(floor, Answered) \in Nat /\ Sum(completed, Answered) \in Nat
  BY <1>1, <1>2, SumType
<1> QED
  BY <1>3, <1>4, <1>5, <1>6

(* At the end of a refresh, what the table asks for lies between what the     *)
(* tasks that stayed ask for, and what they and those that moved do.         *)
LEMMA AskedIsHonest ==
    ASSUME DashTypes, AllNear, FloorInv, pc = "stats", NEW a \in BothAlerts
    PROVE  (Truth.must[a] => Asked[a]) /\ (Asked[a] => Truth.may[a])
<1> DEFINE N == Answered
           In(X) == {t \in X : QueueOf[t] \in N}
           D5 == {t \in Tasks : place[t] = "dead" /\ t \notin moved}
           D4 == {t \in Tasks : place[t] = "retry" /\ t \notin moved}
           d == Cardinality(In(D5))
           r == Cardinality(In(D4))
           m == Cardinality(In(moved))
           D == TotalRead("dead")
           R == TotalRead("retry")
           C == TotalRead("completed")
           low == MapThenSumSet(LAMBDA q : floor[q], Answered)
           high == MapThenSumSet(LAMBDA q : completed[q], Answered)
<1>1. Counted[4] = "retry" /\ Counted[5] = "dead"
  BY DEF Counted
<1>2. d <= D /\ D <= d + m /\ r <= R /\ R <= r + m
  BY <1>1, TotalsNear
<1>3. low \in Nat /\ high \in Nat /\ low <= C /\ C <= high
  BY CompletedNear
<1>4. D \in Nat /\ R \in Nat /\ C \in Nat
  BY TotalsAreNat, CountsAre
<1>5. moved \in SUBSET Tasks /\ settings \in Settings
  BY DEF DashTypes, RedisTypes
<1>6. /\ In(D5) \in SUBSET Tasks /\ In(D4) \in SUBSET Tasks /\ In(moved) \in SUBSET Tasks
      /\ In(D5) \cap In(D4) = {}
  BY <1>5
<1>7. d \in Nat /\ r \in Nat /\ m \in Nat /\ IsFiniteSet(In(D5)) /\ IsFiniteSet(In(D4))
  BY <1>6, CountIsNat
<1> DEFINE Stayed(ps) == {t \in Tasks \ moved : QueueOf[t] \in Answered /\ place[t] \in ps}
<1>8. /\ Stayed({"dead"}) = In(D5)
      /\ Stayed({"dead", "retry"}) = In(D5) \cup In(D4)
  OBVIOUS
<1>9. Cardinality(Stayed({"dead"})) = d /\ Cardinality(Stayed({"dead", "retry"})) = d + r
  <2> HIDE DEF Stayed, D5, D4
  <2>1. Cardinality(In(D5) \cup In(D4)) = d + r
    BY <1>6, <1>7, Disjoint
  <2> QED
    BY <1>8, <2>1
<1>10. Truth = [must |-> Alerts(d, d + r, high), may |-> Alerts(d + m, d + r + 2 * m, low)]
  <2> DEFINE u == Cardinality(Stayed({"dead"}))
             w == Cardinality(Stayed({"dead", "retry"}))
  <2>1. Truth = [must |-> Alerts(u, w, high), may |-> Alerts(u + m, w + 2 * m, low)]
    BY Zenon DEF Truth
  <2>2. u = d /\ w = d + r
    BY <1>9
  <2> HIDE DEF u, w, d, r, m, low, high
  <2> QED
    BY <2>1, <2>2
<1>11. Asked = Alerts(D, D + R, C)
  BY DEF Asked
<1> HIDE DEF d, r, m, D, R, C, low, high
<1>12. /\ d + r \in Nat /\ D + R \in Nat /\ d + m \in Nat /\ d + r + 2 * m \in Nat
       /\ d + r <= D + R /\ D + R <= d + r + 2 * m
  BY <1>2, <1>4, <1>7
<1>13. ASSUME Truth.must[a] PROVE Asked[a]
  <2>1. Alerts(d, d + r, high)[a]
    BY <1>10, <1>13
  <2>2. Alerts(D, D + R, C)[a]
    BY <1>2, <1>3, <1>4, <1>5, <1>7, <1>12, <2>1, AlertsGrow DEF BothAlerts
  <2> QED
    BY <1>11, <2>2
<1>14. ASSUME Asked[a] PROVE Truth.may[a]
  <2>1. Alerts(D, D + R, C)[a]
    BY <1>11, <1>14
  <2>2. Alerts(d + m, d + r + 2 * m, low)[a]
    BY <1>2, <1>3, <1>4, <1>5, <1>7, <1>12, <2>1, AlertsGrow DEF BothAlerts
  <2> QED
    BY <1>10, <2>2
<1> QED
  BY <1>13, <1>14

(* What holds between two refreshes: the verdict of the last one is honest,   *)
(* the trend ends where it says, and the periodic ones put it up.            *)
AlertInv ==
    /\ periodic /\ pc \in {"draw", "keys", "check"} => alerts = verdict
    /\ pc # "stats" => \A a \in BothAlerts : (truth.must[a] => verdict[a]) /\ (verdict[a] => truth.may[a])
    /\ pc # "stats" /\ queues # <<>> /\ trend # <<>> =>
          (verdict["dead"] <=> Last(trend) > settings.dead_threshold)

(* Only the end of a refresh, or one that could not begin, touches the alerts. *)
LEMMA AlertsLeftAlone ==
    ASSUME [Next]_vars, pc' # "stats"
    PROVE  \/ EndRefresh \/ ListFails
           \/ /\ UNCHANGED <<alerts, verdict, truth, trend, queues, settings>> /\ pc # "stats"
              /\ periodic' /\ pc' \in {"draw", "keys", "check"} => periodic /\ pc \in {"draw", "keys", "check"}
<1>1. CASE Refresh
  BY <1>1 DEF Refresh, ListQueues, ReadCount, ReadCompleted, ReadFails, GoTo
<1>2. CASE MainKey \/ ListKey \/ HideHelp
  <2>1. \E v \in {"Main", "TaskList", "Help"} : Key(v)
    BY <1>2 DEF MainKey, ListKey, HideHelp, MoveRow, PauseOrResumeRow, FlushRow, ShowHelp, EnterList, LeaveList,
                PreviousTask, NextTask, ReloadList
  <2> QED
    BY <2>1 DEF Key, GoTo, alertVars
<1>3. CASE Draw \/ NoKey \/ Quit
  BY <1>3 DEF Draw, NoKey, Quit, GoTo, alertVars, stateVars
<1>4. CASE Check
  BY <1>4 DEF Check, GoTo, alertVars, stateVars
<1>5. CASE (\E t \in Tasks : MoveTask(t)) \/ (\E q \in Queues : ListQueue(q)) \/ UNCHANGED vars
  BY <1>5 DEF MoveTask, ListQueue, vars, alertVars, stateVars
<1> QED
  BY <1>1, <1>2, <1>3, <1>4, <1>5 DEF Next, Loop

LEMMA AlertStep ==
    ASSUME DashTypes, AllNear, FloorInv, AlertInv, [Next]_vars
    PROVE  AlertInv'
<1>1. CASE pc' = "stats"
  BY <1>1 DEF AlertInv
<1>2. CASE EndRefresh
  <2>1. /\ pc = "stats" /\ verdict' = Asked /\ truth' = Truth /\ queues' \in SetToSeqs(Answered)
        /\ trend' = IF Cardinality(Answered) = 0 THEN trend ELSE AddPoint(trend, TotalRead("dead"))
        /\ (periodic => alerts' = Asked) /\ UNCHANGED <<settings, periodic>>
    BY <1>2 DEF EndRefresh, UpdateAlerts
  <2>2. \A a \in BothAlerts : (truth'.must[a] => verdict'[a]) /\ (verdict'[a] => truth'.may[a])
    BY <2>1, AskedIsHonest
  <2>3. ASSUME queues' # <<>>, trend' # <<>>
        PROVE  verdict'["dead"] <=> Last(trend') > settings'.dead_threshold
    <3>1. Answered \in SUBSET Queues
      BY DEF Answered, DashTypes, RefreshTypes, RedisTypes
    <3>2. Cardinality(Answered) # 0
      BY <2>1, <2>3, <3>1, RowsFacts
    <3>3. TotalRead("dead") \in Nat
      BY TotalsAreNat, CountsAre
    <3>4. Last(trend') = TotalRead("dead")
      BY <2>1, <2>3, <3>2, <3>3, PointAdded DEF DashTypes, RefreshTypes, RedisTypes
    <3>5. Asked["dead"] = (TotalRead("dead") > settings.dead_threshold)
      BY DEF Asked, Alerts
    <3> QED
      BY <2>1, <3>4, <3>5
  <2> QED
    BY <2>1, <2>2, <2>3 DEF AlertInv
<1>3. CASE ListFails
  <2>1. /\ pc = "list" /\ (periodic => alerts' = verdict)
        /\ trend' = IF queues # <<>> /\ trend # <<>> THEN AddPoint(trend, Last(trend)) ELSE trend
        /\ UNCHANGED <<settings, periodic, queues, verdict, truth>>
    BY <1>3 DEF ListFails, UpdateAlerts, stateVars
  <2>2. trend # <<>> => Last(trend) \in Nat
    BY DEF DashTypes, RefreshTypes, Last
  <2>3. queues # <<>> /\ trend' # <<>> => trend # <<>> /\ Last(trend') = Last(trend)
    BY <2>1, <2>2, PointAdded DEF DashTypes, RefreshTypes, RedisTypes
  <2> QED
    BY <2>1, <2>3 DEF AlertInv
<1>4. CASE /\ UNCHANGED <<alerts, verdict, truth, trend, queues, settings>> /\ pc # "stats"
           /\ periodic' /\ pc' \in {"draw", "keys", "check"} => periodic /\ pc \in {"draw", "keys", "check"}
  BY <1>4 DEF AlertInv
<1> QED
  BY <1>1, <1>2, <1>3, <1>4, AlertsLeftAlone

(* After a periodic refresh an alert is up if the tasks that stayed ask for   *)
(* it, only if they do together with those that moved, and the trend ends    *)
(* above the threshold just when the alert about dead tasks is up.           *)
THEOREM AlertsAreHonest == Spec => []AlertsHonest
<1>1. Init => FloorInv /\ AlertInv
  BY DEF Init, FloorInv, AlertInv, BothAlerts, NoTruth, NoAlert
<1>2. DashTypes /\ FloorInv /\ [Next]_vars => FloorInv'
  BY FloorStep
<1>3. DashTypes /\ AllNear /\ FloorInv /\ AlertInv /\ [Next]_vars => AlertInv'
  BY AlertStep
<1>4. ASSUME DashTypes, AlertInv PROVE AlertsHonest
  <2>1. alerts \in AlertRecords
    BY <1>4 DEF DashTypes, RefreshTypes
  <2>2. DOMAIN alerts = BothAlerts /\ alerts.dead = alerts["dead"]
    BY <2>1 DEF AlertRecords, BothAlerts
  <2> QED
    BY <1>4, <2>2 DEF AlertInv, AlertsHonest
<1> QED
  BY <1>1, <1>2, <1>3, <1>4, RowHolds, NearHolds, PTL DEF Spec
=============================================================================
