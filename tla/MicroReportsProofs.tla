---- MODULE MicroReportsProofs ----
(* The numbers and the marks of a report, for every environment file whose lists name  *)
(* nothing twice, every number of repetitions and whatever was throttled, silent or    *)
(* unreadable.                                                                          *)
EXTENDS MicroReports, FiniteSetTheorems, TLAPS

----------------------------------------------------------------------------
(* The repetitions of a plan. *)

\* Division with remainder, and that both are determined.
LEMMA Division ==
  ASSUME NEW n \in Nat \ {0}, NEW k \in Nat
  PROVE  k \div n \in Nat /\ k % n \in 0..(n - 1) /\ k = n * (k \div n) + (k % n)
OBVIOUS

\* Quotient and remainder are the only ones.
LEMMA DivisionIsUnique ==
  ASSUME NEW n \in Nat \ {0}, NEW q \in Nat, NEW r \in 0..(n - 1)
  PROVE  (n * q + r) \div n = q /\ (n * q + r) % n = r
<1> DEFINE k == n * q + r
<1>1. k \in Nat
  OBVIOUS
<1>2. k \div n \in Nat /\ k % n \in 0..(n - 1) /\ k = n * (k \div n) + (k % n)
  BY <1>1, Division
<1> DEFINE p == k \div n
           s == k % n
<1>3. n * p + s = n * q + r /\ p \in Nat /\ s \in 0..(n - 1)
  BY <1>2
<1> HIDE DEF k, p, s
<1>4. ~(p < q)
  <2> SUFFICES ASSUME p < q PROVE FALSE
    OBVIOUS
  <2>1. PICK d \in Nat : q = p + 1 + d
    BY <1>3
  <2>2. n * q = n * p + n + n * d /\ n * d \in Nat /\ n * p \in Nat
    BY <1>3, <2>1
  <2> QED BY <1>3, <2>2
<1>5. ~(q < p)
  <2> SUFFICES ASSUME q < p PROVE FALSE
    OBVIOUS
  <2>1. PICK d \in Nat : p = q + 1 + d
    BY <1>3
  <2>2. n * p = n * q + n + n * d /\ n * d \in Nat /\ n * q \in Nat
    BY <1>3, <2>1
  <2> QED BY <1>3, <2>2
<1>6. p = q
  BY <1>3, <1>4, <1>5
<1> QED BY <1>3, <1>6 DEF k, p, s

\* The block and the place in it of an entry of a list of blocks, and the other way.
BlockOf(i, size) == ((i - 1) \div size) + 1
PlaceOf(i, size) == ((i - 1) % size) + 1
EntryAt(block, place, size) == size * (block - 1) + place

Blocks(len, size) ==
  /\ len * size \in Nat
  /\ \A i \in 1..(len * size) :
       /\ BlockOf(i, size) \in 1..len /\ PlaceOf(i, size) \in 1..size
       /\ i = EntryAt(BlockOf(i, size), PlaceOf(i, size), size)
  /\ \A p \in 1..len : \A m \in 1..size :
       /\ EntryAt(p, m, size) \in 1..(len * size)
       /\ BlockOf(EntryAt(p, m, size), size) = p /\ PlaceOf(EntryAt(p, m, size), size) = m

\* Every entry of a list of blocks has its block and its place in it.
LEMMA BlockPlaces == \A len \in Nat, size \in Nat \ {0} : Blocks(len, size)
<1> SUFFICES ASSUME NEW len \in Nat, NEW size \in Nat \ {0} PROVE Blocks(len, size)
  OBVIOUS
<1> DEFINE total == len * size
<1>1. total \in Nat
  OBVIOUS
<1>2. ASSUME NEW i \in 1..total
      PROVE  /\ BlockOf(i, size) \in 1..len /\ PlaceOf(i, size) \in 1..size
             /\ i = EntryAt(BlockOf(i, size), PlaceOf(i, size), size)
  <2>1. i - 1 \in Nat
    BY <1>1
  <2> DEFINE q == (i - 1) \div size
             r == (i - 1) % size
  <2>2. q \in Nat /\ r \in 0..(size - 1) /\ i - 1 = size * q + r
    BY <2>1, Division
  <2> HIDE DEF q, r
  <2>3. q < len
    <3> SUFFICES ASSUME ~(q < len) PROVE FALSE
      OBVIOUS
    <3> DEFINE d == q - len
    <3>1. d \in Nat /\ q = len + d
      BY <2>2
    <3> HIDE DEF d
    <3>2. size * q = total + size * d /\ size * d \in Nat
      BY <3>1
    <3> QED BY <1>1, <2>2, <3>2
  <2>4. size * q \in Nat /\ i = size * q + r + 1 /\ (q + 1) - 1 = q
    BY <2>1, <2>2
  <2>5. q + 1 \in 1..len /\ r + 1 \in 1..size
    BY <2>2, <2>3
  <2>6. BlockOf(i, size) = q + 1 /\ PlaceOf(i, size) = r + 1
    BY DEF BlockOf, PlaceOf, q, r
  <2>7. EntryAt(q + 1, r + 1, size) = size * q + r + 1
    BY <2>2, <2>4 DEF EntryAt
  <2> QED BY <2>4, <2>5, <2>6, <2>7
<1>3. ASSUME NEW p \in 1..len, NEW m \in 1..size
      PROVE  /\ EntryAt(p, m, size) \in 1..total
             /\ BlockOf(EntryAt(p, m, size), size) = p /\ PlaceOf(EntryAt(p, m, size), size) = m
  <2> DEFINE i == size * (p - 1) + m
  <2>1. p - 1 \in Nat /\ m - 1 \in 0..(size - 1) /\ size * (p - 1) \in Nat
    OBVIOUS
  <2>2. (size * (p - 1) + (m - 1)) \div size = p - 1 /\ (size * (p - 1) + (m - 1)) % size = m - 1
    BY <2>1, DivisionIsUnique
  <2>3. i - 1 = size * (p - 1) + (m - 1)
    BY <2>1
  <2>4. ((i - 1) \div size) + 1 = p /\ ((i - 1) % size) + 1 = m
    BY <2>2, <2>3
  <2>5. i <= total
    <3> DEFINE d == len - p
    <3>1. d \in Nat /\ len = (p - 1) + 1 + d
      OBVIOUS
    <3> HIDE DEF d
    <3>2. total = size * (p - 1) + size + size * d /\ size * d \in Nat
      BY <2>1, <3>1
    <3> HIDE DEF total
    <3> QED BY <2>1, <3>2
  <2>6. i \in 1..total
    BY <1>1, <2>1, <2>5
  <2> QED BY <2>4, <2>6 DEF EntryAt, BlockOf, PlaceOf
<1> QED BY <1>1, <1>2, <1>3 DEF Blocks

\* The repetitions of a case come one after the other, and all of them.
Ordered(reps) ==
  /\ \A i, j \in DOMAIN reps : i < j /\ reps[i][1] = reps[j][1] => reps[i][2] < reps[j][2]
  /\ \A i \in DOMAIN reps : \A n \in 1..Runs : \E j \in DOMAIN reps : reps[j] = <<reps[i][1], n>>

\* Every entry of Repeated is a case of the plan with one of its repetitions.
LEMMA RepeatedPlaces ==
  ASSUME NEW S, NEW plan \in Seq(S)
  PROVE  /\ Repeated(plan) \in Seq(S \X (1..Runs))
         /\ \A i \in DOMAIN Repeated(plan) : \E p \in DOMAIN plan : \E m \in 1..Runs :
              i = EntryAt(p, m, Runs) /\ Repeated(plan)[i] = <<plan[p], m>>
         /\ \A p \in DOMAIN plan : \A m \in 1..Runs :
              EntryAt(p, m, Runs) \in DOMAIN Repeated(plan)
                /\ Repeated(plan)[EntryAt(p, m, Runs)] = <<plan[p], m>>
<1> DEFINE size == Len(plan) * Runs
<1>0. Runs \in Nat \ {0}
  BY MicroReportsAssumption
<1>1. Len(plan) \in Nat /\ DOMAIN plan = 1..Len(plan) /\ \A p \in DOMAIN plan : plan[p] \in S
  OBVIOUS
<1>2. Blocks(Len(plan), Runs)
  BY <1>0, <1>1, BlockPlaces
<1>3. Repeated(plan) = [i \in 1..size |-> <<plan[BlockOf(i, Runs)], PlaceOf(i, Runs)>>]
  BY DEF Repeated, BlockOf, PlaceOf
<1>4. /\ size \in Nat
      /\ \A i \in 1..size : /\ BlockOf(i, Runs) \in 1..Len(plan) /\ PlaceOf(i, Runs) \in 1..Runs
                            /\ i = EntryAt(BlockOf(i, Runs), PlaceOf(i, Runs), Runs)
      /\ \A p \in 1..Len(plan) : \A m \in 1..Runs :
           /\ EntryAt(p, m, Runs) \in 1..size
           /\ BlockOf(EntryAt(p, m, Runs), Runs) = p /\ PlaceOf(EntryAt(p, m, Runs), Runs) = m
  BY <1>2 DEF Blocks
<1> HIDE DEF size
<1>5. \A i \in 1..size : <<plan[BlockOf(i, Runs)], PlaceOf(i, Runs)>> \in S \X (1..Runs)
  BY <1>1, <1>4
<1>6. Repeated(plan) \in Seq(S \X (1..Runs))
  BY <1>3, <1>4, <1>5
<1> QED BY <1>1, <1>3, <1>4, <1>6

\* A plan that names nothing twice is repeated in order, all of it.
LEMMA RepeatedInOrder ==
  ASSUME NEW S, NEW plan \in Seq(S), Distinct(plan)
  PROVE  Ordered(Repeated(plan)) /\ Elements(Repeated(plan)) = Elements(plan) \X (1..Runs)
<1>1. ASSUME NEW i \in DOMAIN Repeated(plan), NEW j \in DOMAIN Repeated(plan), i < j,
             Repeated(plan)[i][1] = Repeated(plan)[j][1]
      PROVE  Repeated(plan)[i][2] < Repeated(plan)[j][2]
  <2>1. PICK p \in DOMAIN plan, m \in 1..Runs : i = EntryAt(p, m, Runs) /\ Repeated(plan)[i] = <<plan[p], m>>
    BY RepeatedPlaces
  <2>2. PICK q \in DOMAIN plan, n \in 1..Runs : j = EntryAt(q, n, Runs) /\ Repeated(plan)[j] = <<plan[q], n>>
    BY RepeatedPlaces
  <2>3. p = q
    BY <1>1, <2>1, <2>2 DEF Distinct
  <2>4. Runs * (p - 1) \in Int
    BY MicroReportsAssumption
  <2> QED BY <1>1, <2>1, <2>2, <2>3, <2>4 DEF EntryAt
<1>2. ASSUME NEW i \in DOMAIN Repeated(plan), NEW n \in 1..Runs
      PROVE  \E j \in DOMAIN Repeated(plan) : Repeated(plan)[j] = <<Repeated(plan)[i][1], n>>
  <2>1. PICK p \in DOMAIN plan, m \in 1..Runs : Repeated(plan)[i] = <<plan[p], m>>
    BY RepeatedPlaces
  <2>2. /\ EntryAt(p, n, Runs) \in DOMAIN Repeated(plan)
        /\ Repeated(plan)[EntryAt(p, n, Runs)] = <<plan[p], n>>
    BY RepeatedPlaces
  <2> QED BY <2>1, <2>2
<1>3. Elements(Repeated(plan)) \subseteq Elements(plan) \X (1..Runs)
  <2> SUFFICES ASSUME NEW i \in DOMAIN Repeated(plan)
               PROVE  Repeated(plan)[i] \in Elements(plan) \X (1..Runs)
    BY DEF Elements
  <2>1. PICK p \in DOMAIN plan, m \in 1..Runs : Repeated(plan)[i] = <<plan[p], m>>
    BY RepeatedPlaces
  <2> QED BY <2>1 DEF Elements
<1>4. Elements(plan) \X (1..Runs) \subseteq Elements(Repeated(plan))
  <2> SUFFICES ASSUME NEW p \in DOMAIN plan, NEW n \in 1..Runs
               PROVE  <<plan[p], n>> \in Elements(Repeated(plan))
    BY DEF Elements
  <2>1. /\ EntryAt(p, n, Runs) \in DOMAIN Repeated(plan)
        /\ Repeated(plan)[EntryAt(p, n, Runs)] = <<plan[p], n>>
    BY RepeatedPlaces
  <2> QED BY <2>1 DEF Elements
<1> QED BY <1>1, <1>2, <1>3, <1>4 DEF Ordered

----------------------------------------------------------------------------
(* The plans of the four scripts name every case once. *)

Numbers == Nat \cup {Environment.fixed}
CaseOf(algorithms, operations) == [algorithm : algorithms, operation : operations, value : Numbers]

\* The values by the kinds name nothing twice if neither list does.
LEMMA GridNamesOnce ==
  ASSUME NEW values \in Seq(Nat), Distinct(values), NEW X, NEW Y, NEW kinds \in Seq(X \X Y),
         Distinct(kinds), Len(kinds) > 0
  PROVE  Grid(values, kinds) \in Seq(CaseOf(X, Y)) /\ Distinct(Grid(values, kinds))
<1> DEFINE m == Len(kinds)
           size == Len(values) * m
           cell(i) == Case(kinds[PlaceOf(i, m)][1], kinds[PlaceOf(i, m)][2], values[BlockOf(i, m)])
<1>1. /\ m \in Nat \ {0} /\ Len(values) \in Nat /\ DOMAIN values = 1..Len(values) /\ DOMAIN kinds = 1..m
      /\ \A p \in 1..Len(values) : values[p] \in Nat
      /\ \A k \in 1..m : kinds[k] \in X \X Y
  OBVIOUS
<1>2. Blocks(Len(values), m)
  BY <1>1, BlockPlaces
<1>3. Grid(values, kinds) = [i \in 1..size |-> cell(i)]
  BY DEF Grid, BlockOf, PlaceOf
<1>4. /\ size \in Nat
      /\ \A i \in 1..size : /\ BlockOf(i, m) \in 1..Len(values) /\ PlaceOf(i, m) \in 1..m
                            /\ i = EntryAt(BlockOf(i, m), PlaceOf(i, m), m)
  BY <1>2 DEF Blocks
<1> HIDE DEF m, size
<1>5. ASSUME NEW i \in 1..size PROVE cell(i) \in CaseOf(X, Y)
  <2>1. kinds[PlaceOf(i, m)] \in X \X Y /\ values[BlockOf(i, m)] \in Nat
    BY <1>1, <1>4
  <2> QED BY <2>1 DEF Case, CaseOf, Numbers
<1>6. ASSUME NEW i \in 1..size, NEW j \in 1..size, cell(i) = cell(j) PROVE i = j
  <2>1. /\ PlaceOf(i, m) \in 1..m /\ PlaceOf(j, m) \in 1..m
        /\ BlockOf(i, m) \in 1..Len(values) /\ BlockOf(j, m) \in 1..Len(values)
    BY <1>4
  <2>2. kinds[PlaceOf(i, m)] \in X \X Y /\ kinds[PlaceOf(j, m)] \in X \X Y
    BY <1>1, <2>1
  <2>3. /\ kinds[PlaceOf(i, m)][1] = kinds[PlaceOf(j, m)][1]
        /\ kinds[PlaceOf(i, m)][2] = kinds[PlaceOf(j, m)][2]
        /\ values[BlockOf(i, m)] = values[BlockOf(j, m)]
    BY <1>6 DEF Case
  <2>4. kinds[PlaceOf(i, m)] = kinds[PlaceOf(j, m)]
    <3>1. \A p, q \in X \X Y : p[1] = q[1] /\ p[2] = q[2] => p = q
      OBVIOUS
    <3> QED BY <2>2, <2>3, <3>1
  <2>5. PlaceOf(i, m) = PlaceOf(j, m) /\ BlockOf(i, m) = BlockOf(j, m)
    BY <1>1, <2>1, <2>3, <2>4 DEF Distinct
  <2> QED BY <1>4, <2>5
<1> HIDE DEF cell
<1>7. Grid(values, kinds) \in Seq(CaseOf(X, Y))
  BY <1>3, <1>4, <1>5
<1> QED BY <1>3, <1>6, <1>7 DEF Distinct

\* Two lists of different things, one after the other, name nothing twice.
LEMMA ConcatenationNamesOnce ==
  ASSUME NEW S, NEW T, NEW a \in Seq(S), NEW b \in Seq(T), Distinct(a), Distinct(b), S \cap T = {}
  PROVE  a \o b \in Seq(S \cup T) /\ Distinct(a \o b)
<1>1. a \in Seq(S \cup T) /\ b \in Seq(S \cup T)
  OBVIOUS
<1>2. /\ a \o b \in Seq(S \cup T) /\ Len(a) \in Nat /\ Len(b) \in Nat /\ Len(a \o b) = Len(a) + Len(b)
      /\ \A i \in 1..(Len(a) + Len(b)) : (a \o b)[i] = IF i <= Len(a) THEN a[i] ELSE b[i - Len(a)]
  BY <1>1
<1>3. /\ DOMAIN a = 1..Len(a) /\ DOMAIN b = 1..Len(b) /\ DOMAIN (a \o b) = 1..(Len(a) + Len(b))
      /\ \A i \in 1..Len(a) : a[i] \in S
      /\ \A i \in 1..Len(b) : b[i] \in T
  BY <1>2
<1>4. ASSUME NEW i \in DOMAIN (a \o b), NEW j \in DOMAIN (a \o b), (a \o b)[i] = (a \o b)[j] PROVE i = j
  <2>1. CASE i <= Len(a) /\ j <= Len(a)
    BY <1>2, <1>3, <1>4, <2>1 DEF Distinct
  <2>2. CASE i <= Len(a) /\ ~(j <= Len(a))
    <3>1. a[i] \in S /\ j - Len(a) \in 1..Len(b)
      BY <1>2, <1>3, <2>2
    <3> QED BY <1>2, <1>3, <1>4, <2>2, <3>1
  <2>3. CASE ~(i <= Len(a)) /\ j <= Len(a)
    <3>1. a[j] \in S /\ i - Len(a) \in 1..Len(b)
      BY <1>2, <1>3, <2>3
    <3> QED BY <1>2, <1>3, <1>4, <2>3, <3>1
  <2>4. CASE ~(i <= Len(a)) /\ ~(j <= Len(a))
    <3>1. i - Len(a) \in DOMAIN b /\ j - Len(a) \in DOMAIN b /\ b[i - Len(a)] = b[j - Len(a)]
      BY <1>2, <1>3, <1>4, <2>4
    <3>2. i - Len(a) = j - Len(a)
      BY <3>1 DEF Distinct
    <3> QED BY <1>2, <1>3, <3>2
  <2> QED BY <2>1, <2>2, <2>3, <2>4
<1> QED BY <1>2, <1>4 DEF Distinct

\* Nor does a list of one.
LEMMA OneNamesOnce == \A S : \A x \in S : <<x>> \in Seq(S) /\ Distinct(<<x>>)
<1> TAKE S
<1> TAKE x \in S
<1>1. <<x>> \in Seq(S) /\ DOMAIN <<x>> = {1}
  OBVIOUS
<1> QED BY <1>1 DEF Distinct

Algorithms == {"AES-GCM", "ASCON", "JSON", "CBOR", "CBORKeyAsInt", "PSKStandard", "PSKLightweight",
               "RSAStandard", "RSALightweight", "CPABEStandard", "CPABELightweight",
               "CPABEAttributes", "RSASubscribers", "RSAKeyBits"}

\* The cases a script may plan, its memory stage with the runtime alone before them.
Planned == CaseOf(Algorithms, {"Encrypt", "Decrypt", "Serialize", "Deserialize"})
MemoryPlanned == CaseOf(Algorithms, {"Encrypt", "Decrypt"})

IsPlan(plan, cases) == plan \in Seq(cases) /\ Distinct(plan)

\* The attributes and the subscribers of scenario 3 are a plan.
LEMMA ScalingIsPlan ==
  LET cases == CaseOf({"CPABEAttributes", "RSASubscribers"}, {"Encrypt", "Decrypt"}) IN
  IsPlan(C!Scaling(Environment), cases)
<1> DEFINE attributes == CaseOf({"CPABEAttributes"}, {"Encrypt", "Decrypt"})
           subscribers == CaseOf({"RSASubscribers"}, {"Encrypt", "Decrypt"})
           cases == CaseOf({"CPABEAttributes", "RSASubscribers"}, {"Encrypt", "Decrypt"})
<1>1. /\ Environment.attributes \in Seq(Nat) /\ Distinct(Environment.attributes)
      /\ Environment.subscribers \in Seq(Nat) /\ Distinct(Environment.subscribers)
  BY MicroReportsAssumption DEF NamesOnce, IsList
<1>2. \A v, k : C!Grid(v, k) = Grid(v, k)
  BY DEF C!Grid, Grid, C!Case, Case
<1>3. C!CPABE \in Seq({"CPABEAttributes"} \X {"Encrypt", "Decrypt"}) /\ Distinct(C!CPABE) /\ Len(C!CPABE) > 0
  BY DEF C!CPABE, Distinct
<1>4. /\ C!Subscribers \in Seq({"RSASubscribers"} \X {"Encrypt", "Decrypt"})
      /\ Distinct(C!Subscribers) /\ Len(C!Subscribers) > 0
  BY DEF C!Subscribers, Distinct
<1>5. IsPlan(Grid(Environment.attributes, C!CPABE), attributes)
  BY <1>1, <1>3, GridNamesOnce DEF IsPlan
<1>6. IsPlan(Grid(Environment.subscribers, C!Subscribers), subscribers)
  BY <1>1, <1>4, GridNamesOnce DEF IsPlan
<1>7. attributes \cap subscribers = {} /\ attributes \cup subscribers = cases
  BY DEF CaseOf
<1> HIDE DEF attributes, subscribers, cases
<1>8. IsPlan(Grid(Environment.attributes, C!CPABE) \o Grid(Environment.subscribers, C!Subscribers),
             attributes \cup subscribers)
  BY <1>5, <1>6, <1>7, ConcatenationNamesOnce DEF IsPlan
<1> QED BY <1>2, <1>7, <1>8 DEF C!Scaling, cases

\* A plan is also one of more cases, and may have others before or behind it.
LEMMA IsPlanOfMore ==
  ASSUME NEW S, NEW T, S \subseteq T, NEW plan, IsPlan(plan, S)
  PROVE  IsPlan(plan, T)
BY DEF IsPlan

\* A plan with one more case at an end is a plan.
LEMMA OneMore ==
  ASSUME NEW S, NEW plan, IsPlan(plan, S), NEW x, x \notin S
  PROVE  IsPlan(<<x>> \o plan, S \cup {x}) /\ IsPlan(plan \o <<x>>, S \cup {x})
<1>1. <<x>> \in Seq({x}) /\ Distinct(<<x>>)
  BY OneNamesOnce
<1>2. S \cap {x} = {} /\ {x} \cap S = {} /\ {x} \cup S = S \cup {x}
  OBVIOUS
<1>3. plan \in Seq(S) /\ Distinct(plan)
  BY DEF IsPlan
<1>4. <<x>> \o plan \in Seq({x} \cup S) /\ Distinct(<<x>> \o plan)
  BY <1>1, <1>2, <1>3, ConcatenationNamesOnce
<1>5. plan \o <<x>> \in Seq(S \cup {x}) /\ Distinct(plan \o <<x>>)
  BY <1>1, <1>2, <1>3, ConcatenationNamesOnce
<1> QED BY <1>2, <1>4, <1>5 DEF IsPlan

\* The idle device and the empty process are no planned cases.
LEMMA NothingElseIsPlanned == Baseline \notin Planned /\ Baseline \notin MemoryPlanned /\ Idle \notin Planned
BY DEF Baseline, Idle, Case, Planned, MemoryPlanned, CaseOf

\* The kinds that the scripts loop over, each once.
LEMMA KindsAreDistinct ==
  /\ A!Kinds \in Seq(Algorithms \X {"Encrypt", "Decrypt"}) /\ Distinct(A!Kinds) /\ Len(A!Kinds) > 0
  /\ J!Kinds \in Seq(Algorithms \X {"Serialize", "Deserialize"}) /\ Distinct(J!Kinds) /\ Len(J!Kinds) > 0
  /\ F!Kinds \in Seq(Algorithms \X {"Encrypt", "Decrypt"}) /\ Distinct(F!Kinds) /\ Len(F!Kinds) > 0
  /\ C!KeyBits \in Seq({"RSAKeyBits"} \X {"Encrypt", "Decrypt"}) /\ Distinct(C!KeyBits) /\ Len(C!KeyBits) > 0
<1>1. A!Kinds \in Seq(Algorithms \X {"Encrypt", "Decrypt"}) /\ Distinct(A!Kinds) /\ Len(A!Kinds) > 0
  BY DEF A!Kinds, Algorithms, Distinct
<1>2. J!Kinds \in Seq(Algorithms \X {"Serialize", "Deserialize"}) /\ Distinct(J!Kinds) /\ Len(J!Kinds) > 0
  <2>1. J!Kinds \in Seq(Algorithms \X {"Serialize", "Deserialize"}) /\ Len(J!Kinds) > 0
    BY DEF J!Kinds, Algorithms
  <2>2. Distinct(J!Kinds)
    BY SMTT(60) DEF J!Kinds, Distinct
  <2> QED BY <2>1, <2>2
<1>3. F!Kinds \in Seq(Algorithms \X {"Encrypt", "Decrypt"}) /\ Distinct(F!Kinds) /\ Len(F!Kinds) > 0
  <2>1. F!Kinds \in Seq(Algorithms \X {"Encrypt", "Decrypt"}) /\ Len(F!Kinds) > 0
    BY DEF F!Kinds, Algorithms
  <2>2. Distinct(F!Kinds)
    BY SMTT(60) DEF F!Kinds, Distinct
  <2> QED BY <2>1, <2>2
<1>4. C!KeyBits \in Seq({"RSAKeyBits"} \X {"Encrypt", "Decrypt"}) /\ Distinct(C!KeyBits) /\ Len(C!KeyBits) > 0
  BY DEF C!KeyBits, Distinct
<1> QED BY <1>1, <1>2, <1>3, <1>4

\* No script asks for a case twice.
LEMMA PlansNameOnce ==
  ASSUME NEW s \in Scenarios
  PROVE  /\ IsPlan(MemoryPlans[s], MemoryPlanned \cup {Baseline})
         /\ IsPlan(EnergyPlans[s], Planned) /\ IsPlan(TimingPlans[s], Planned)
<1> DEFINE encrypted == CaseOf(Algorithms, {"Encrypt", "Decrypt"})
           serialized == CaseOf(Algorithms, {"Serialize", "Deserialize"})
           cpabe == CaseOf({"CPABEAttributes", "RSASubscribers"}, {"Encrypt", "Decrypt"})
           rsa == CaseOf({"RSAKeyBits"}, {"Encrypt", "Decrypt"})
<1>1. /\ Environment.payloads \in Seq(Nat) /\ Distinct(Environment.payloads)
      /\ Environment.schemaPayloads \in Seq(Nat) /\ Distinct(Environment.schemaPayloads)
      /\ Environment.keyBits \in Seq(Nat) /\ Distinct(Environment.keyBits)
  BY MicroReportsAssumption DEF NamesOnce, IsList
<1>2. /\ encrypted \subseteq Planned /\ encrypted = MemoryPlanned /\ serialized \subseteq Planned
      /\ cpabe \subseteq encrypted /\ rsa \subseteq encrypted /\ cpabe \cap rsa = {}
      /\ C!FixedDecrypt(Environment) \in rsa
  <2>1. encrypted \subseteq Planned /\ encrypted = MemoryPlanned /\ serialized \subseteq Planned
    BY DEF CaseOf, Planned, MemoryPlanned
  <2>2. cpabe \subseteq encrypted /\ rsa \subseteq encrypted
    BY DEF CaseOf, Algorithms
  <2>3. cpabe \cap rsa = {}
    BY DEF CaseOf
  <2>4. C!FixedDecrypt(Environment) \in rsa
    BY DEF CaseOf, Numbers, C!FixedDecrypt, C!Case
  <2> QED BY <2>1, <2>2, <2>3, <2>4
<1>3. /\ MemoryPlans[s] = MemoryPlan(s) /\ EnergyPlans[s] = EnergyPlan(s) /\ TimingPlans[s] = TimingPlan(s)
  BY DEF MemoryPlans, EnergyPlans, TimingPlans
<1>4. /\ \A v, k : A!Grid(v, k) = Grid(v, k) /\ J!Grid(v, k) = Grid(v, k) /\ C!Grid(v, k) = Grid(v, k)
                     /\ F!Grid(v, k) = Grid(v, k)
      /\ A!Baseline = Baseline /\ C!Baseline = Baseline /\ F!Baseline = Baseline
  BY DEF A!Grid, J!Grid, C!Grid, F!Grid, Grid, A!Case, J!Case, C!Case, F!Case, Case,
     A!Baseline, C!Baseline, F!Baseline, Baseline
<1> HIDE DEF encrypted, serialized, cpabe, rsa
<1>5. IsPlan(Grid(Environment.payloads, A!Kinds), encrypted)
  BY <1>1, KindsAreDistinct, GridNamesOnce DEF IsPlan, encrypted
<1>6. IsPlan(Grid(Environment.payloads, J!Kinds), serialized)
  BY <1>1, KindsAreDistinct, GridNamesOnce DEF IsPlan, serialized
<1>7. IsPlan(Grid(Environment.schemaPayloads, F!Kinds), encrypted)
  BY <1>1, KindsAreDistinct, GridNamesOnce DEF IsPlan, encrypted
<1>8. IsPlan(Grid(Environment.keyBits, C!KeyBits), rsa)
  BY <1>1, KindsAreDistinct, GridNamesOnce DEF IsPlan, rsa
<1>9. IsPlan(C!Scaling(Environment), cpabe)
  BY ScalingIsPlan DEF cpabe
<1>10. CASE s = "aes_ascon"
  <2>1. IsPlan(<<Baseline>> \o Grid(Environment.payloads, A!Kinds), MemoryPlanned \cup {Baseline})
    BY <1>2, <1>5, OneMore, NothingElseIsPlanned
  <2>2. IsPlan(Grid(Environment.payloads, A!Kinds), Planned)
    BY <1>2, <1>5, IsPlanOfMore
  <2> QED BY <1>3, <1>4, <1>10, <2>1, <2>2
          DEF MemoryPlan, EnergyPlan, TimingPlan, A!MemoryPlan, A!EnergyPlan, A!TimingPlan
<1>11. CASE s = "full_schema"
  <2>1. IsPlan(<<Baseline>> \o Grid(Environment.schemaPayloads, F!Kinds), MemoryPlanned \cup {Baseline})
    BY <1>2, <1>7, OneMore, NothingElseIsPlanned
  <2>2. IsPlan(Grid(Environment.schemaPayloads, F!Kinds), Planned)
    BY <1>2, <1>7, IsPlanOfMore
  <2> QED BY <1>3, <1>4, <1>11, <2>1, <2>2
          DEF MemoryPlan, EnergyPlan, TimingPlan, F!MemoryPlan, F!EnergyPlan, F!TimingPlan
<1>12. CASE s = "json_cbor"
  <2>1. IsPlan(<<>>, MemoryPlanned \cup {Baseline})
    BY DEF IsPlan, Distinct
  <2>2. IsPlan(Grid(Environment.payloads, J!Kinds), Planned)
    BY <1>2, <1>6, IsPlanOfMore
  <2> QED BY <1>3, <1>4, <1>12, <2>1, <2>2
          DEF MemoryPlan, EnergyPlan, TimingPlan, J!EnergyPlan, J!TimingPlan
<1>13. CASE s = "cpabe_rsa"
  <2>1. IsPlan(C!Scaling(Environment) \o Grid(Environment.keyBits, C!KeyBits), Planned)
    <3>1. IsPlan(C!Scaling(Environment) \o Grid(Environment.keyBits, C!KeyBits), cpabe \cup rsa)
      BY <1>2, <1>8, <1>9, ConcatenationNamesOnce DEF IsPlan
    <3>2. cpabe \cup rsa \subseteq Planned
      BY <1>2
    <3> QED BY <3>1, <3>2, IsPlanOfMore
  <2> DEFINE fixed == C!FixedDecrypt(Environment)
  <2>2. fixed \notin cpabe /\ cpabe \cup {fixed} \subseteq encrypted
    BY <1>2
  <2> HIDE DEF fixed
  <2>3. IsPlan(C!Scaling(Environment) \o <<fixed>>, cpabe \cup {fixed})
    BY <1>9, <2>2, OneMore
  <2>4. IsPlan(C!Scaling(Environment) \o <<fixed>>, encrypted)
    BY <2>2, <2>3, IsPlanOfMore
  <2>5. IsPlan(C!Scaling(Environment) \o <<fixed>>, Planned)
    BY <1>2, <2>4, IsPlanOfMore
  <2>6. IsPlan(<<Baseline>> \o (C!Scaling(Environment) \o <<fixed>>), MemoryPlanned \cup {Baseline})
    BY <1>2, <2>4, OneMore, NothingElseIsPlanned
  <2>7. <<Baseline>> \o C!Scaling(Environment) \o <<fixed>> = <<Baseline>> \o (C!Scaling(Environment) \o <<fixed>>)
    <3>1. C!Scaling(Environment) \in Seq(encrypted) /\ <<fixed>> \in Seq(encrypted)
      BY <1>2, <1>9, <2>2 DEF IsPlan
    <3> QED BY <3>1
  <2> QED BY <1>3, <1>4, <1>13, <2>1, <2>5, <2>6, <2>7
          DEF MemoryPlan, EnergyPlan, TimingPlan, C!MemoryPlan, C!EnergyPlan, C!TimingPlan, fixed
<1> QED BY <1>10, <1>11, <1>12, <1>13 DEF Scenarios

IsSeq(x) == x \in Seq(Elements(x))

\* What is known of every sequence.
LEMMA SequenceFacts ==
  ASSUME NEW x, IsSeq(x)
  PROVE  Len(x) \in Nat /\ DOMAIN x = 1..Len(x) /\ x = [i \in 1..Len(x) |-> x[i]]
<1>1. \A S : \A y \in Seq(S) : Len(y) \in Nat /\ DOMAIN y = 1..Len(y) /\ y = [i \in 1..Len(y) |-> y[i]]
  OBVIOUS
<1> QED BY <1>1 DEF IsSeq

\* A sequence over any set is one over its elements.
LEMMA IsSequence ==
  ASSUME NEW S, NEW x \in Seq(S)
  PROVE  IsSeq(x)
<1>1. \A i \in DOMAIN x : x[i] \in Elements(x)
  BY DEF Elements
<1>2. Len(x) \in Nat /\ DOMAIN x = 1..Len(x) /\ x = [i \in 1..Len(x) |-> x[i]]
  OBVIOUS
<1>3. x \in [1..Len(x) -> Elements(x)]
  BY <1>1, <1>2
<1> QED BY <1>2, <1>3 DEF IsSeq

\* The empty sequence.
LEMMA EmptySequence == IsSeq(<<>>) /\ Len(<<>>) = 0 /\ DOMAIN <<>> = {}
<1>1. <<>> \in Seq({})
  OBVIOUS
<1>2. IsSeq(<<>>)
  BY <1>1, IsSequence
<1> QED BY <1>2

\* A sequence with one entry more.
LEMMA AppendedSequence ==
  ASSUME NEW x, IsSeq(x), NEW e
  PROVE  /\ IsSeq(Append(x, e)) /\ Len(Append(x, e)) = Len(x) + 1
         /\ DOMAIN Append(x, e) = 1..(Len(x) + 1)
         /\ \A i \in 1..Len(x) : Append(x, e)[i] = x[i]
         /\ Append(x, e)[Len(x) + 1] = e
<1> DEFINE S == Elements(x) \cup {e}
<1>1. x \in Seq(S) /\ e \in S
  <2>1. x \in Seq(Elements(x)) /\ Elements(x) \subseteq S
    BY DEF IsSeq
  <2> HIDE DEF S
  <2> QED BY <2>1 DEF S
<1> HIDE DEF S
<1>2. Append(x, e) \in Seq(S)
  BY <1>1
<1>3. IsSeq(Append(x, e))
  BY <1>2, IsSequence
<1> QED BY <1>1, <1>2, <1>3

\* A sequence with one entry changed.
LEMMA ChangedSequence ==
  ASSUME NEW x, IsSeq(x), NEW k \in DOMAIN x, NEW e
  PROVE  /\ IsSeq([x EXCEPT ![k] = e]) /\ Len([x EXCEPT ![k] = e]) = Len(x)
         /\ DOMAIN [x EXCEPT ![k] = e] = DOMAIN x
<1> DEFINE y == [x EXCEPT ![k] = e]
           S == Elements(x) \cup {e}
<1>1. Len(x) \in Nat /\ DOMAIN x = 1..Len(x) /\ DOMAIN y = DOMAIN x
  BY SequenceFacts
<1>2. \A i \in 1..Len(x) : y[i] \in S
  BY <1>1 DEF Elements
<1>3. y = [i \in 1..Len(x) |-> y[i]]
  BY <1>1
<1> HIDE DEF y, S
<1>4. y \in Seq(S)
  BY <1>1, <1>2, <1>3
<1>5. Len(y) = Len(x)
  BY <1>1, <1>4
<1> QED BY <1>1, <1>4, <1>5, IsSequence DEF y

\* A function on 1..n is a sequence.
LEMMA ListedSequence ==
  ASSUME NEW n \in Nat, NEW y, y = [i \in 1..n |-> y[i]]
  PROVE  IsSeq(y) /\ Len(y) = n
<1>1. \A i \in 1..n : y[i] \in Elements(y)
  BY DEF Elements
<1>2. y \in [1..n -> Elements(y)]
  BY <1>1
<1>3. y \in Seq(Elements(y))
  BY <1>2
<1> QED BY <1>2, <1>3 DEF IsSeq

\* As many repetitions of a case come before one as its number says.
LEMMA NumbersBefore ==
  ASSUME NEW reps, IsSeq(reps), Ordered(reps), \A i \in DOMAIN reps : reps[i][2] \in 1..Runs,
         NEW i \in DOMAIN reps
  PROVE  /\ Cardinality({j \in 1..(i - 1) : reps[j][1] = reps[i][1]}) = reps[i][2] - 1
         /\ Cardinality({j \in 1..i : reps[j][1] = reps[i][1]}) = reps[i][2]
<1> DEFINE N(j) == reps[j][2]
           before == {j \in 1..(i - 1) : reps[j][1] = reps[i][1]}
           numbers == 1..(N(i) - 1)
           number == [j \in before |-> N(j)]
<1>1. /\ Len(reps) \in Nat /\ DOMAIN reps = 1..Len(reps) /\ i \in 1..Len(reps)
      /\ Runs \in Nat /\ \A j \in DOMAIN reps : N(j) \in Int /\ 1 <= N(j) /\ N(j) <= Runs
  BY SequenceFacts, MicroReportsAssumption
<1>2. /\ \A j, k \in DOMAIN reps : j < k /\ reps[j][1] = reps[k][1] => N(j) < N(k)
      /\ \A n \in 1..Runs : \E j \in DOMAIN reps : reps[j][1] = reps[i][1] /\ N(j) = n
  <2>1. \A n \in 1..Runs : \E j \in DOMAIN reps : reps[j] = <<reps[i][1], n>>
    BY DEF Ordered
  <2>2. \A j, k \in DOMAIN reps : j < k /\ reps[j][1] = reps[k][1] => N(j) < N(k)
    BY DEF Ordered
  <2> QED BY <2>1, <2>2
<1> HIDE DEF N
<1>3. \A j \in before : j \in DOMAIN reps /\ j < i /\ N(j) \in numbers
  <2> SUFFICES ASSUME NEW j \in before PROVE j \in DOMAIN reps /\ j < i /\ N(j) \in numbers
    OBVIOUS
  <2>1. j \in DOMAIN reps /\ j < i /\ reps[j][1] = reps[i][1]
    BY <1>1
  <2>2. N(j) < N(i) /\ N(j) \in Int /\ N(i) \in Int /\ 1 <= N(j)
    BY <1>1, <1>2, <2>1
  <2> QED BY <2>1, <2>2
<1>4. ASSUME NEW j \in before, NEW k \in before, number[j] = number[k] PROVE j = k
  <2>1. j \in Int /\ k \in Int /\ N(j) = N(k) /\ N(j) \in Int /\ N(k) \in Int
    BY <1>1, <1>3, <1>4
  <2>2. reps[j][1] = reps[k][1] /\ j \in DOMAIN reps /\ k \in DOMAIN reps
    BY <1>3
  <2> QED BY <1>2, <2>1, <2>2
<1>5. ASSUME NEW n \in numbers PROVE \E j \in before : number[j] = n
  <2>1. N(i) \in Int /\ N(i) <= Runs /\ i \in Int
    BY <1>1
  <2>2. n \in 1..Runs /\ n < N(i)
    BY <1>1, <2>1
  <2>3. PICK j \in DOMAIN reps : reps[j][1] = reps[i][1] /\ N(j) = n
    BY <1>2, <2>2
  <2>4. j \in Int /\ i \in DOMAIN reps /\ n \in Int
    BY <1>1
  <2>5. ~(i < j) /\ i # j
    BY <1>2, <2>1, <2>2, <2>3, <2>4
  <2>6. j \in before
    BY <1>1, <2>1, <2>3, <2>4, <2>5
  <2> QED BY <2>3, <2>6
<1>6. number \in [before -> numbers]
  BY <1>3
<1> HIDE DEF number
<1>7. number \in Bijection(before, numbers)
  BY <1>4, <1>5, <1>6 DEF Bijection, Injection, Surjection, IsInjective
<1>8. IsFiniteSet(before)
  <2>1. i - 1 \in Int /\ 1 \in Int
    BY <1>1
  <2>2. IsFiniteSet(1..(i - 1))
    BY <2>1, FS_Interval
  <2> QED BY <2>2, FS_Subset
<1>9. N(i) \in Int /\ 1 <= N(i)
  BY <1>1
<1>10. Cardinality(numbers) = N(i) - 1
  <2>1. N(i) - 1 \in Int /\ 1 \in Int
    BY <1>9
  <2>2. Cardinality(1..(N(i) - 1)) = IF 1 > N(i) - 1 THEN 0 ELSE (N(i) - 1) - 1 + 1
    BY <2>1, FS_Interval
  <2> QED BY <1>9, <2>2
<1>11. ExistsBijection(before, numbers)
  BY <1>7 DEF ExistsBijection
<1> HIDE DEF before, numbers
<1>12. Cardinality(before) = N(i) - 1
  BY <1>8, <1>10, <1>11, FS_Bijection
<1>13. {j \in 1..i : reps[j][1] = reps[i][1]} = before \cup {i} /\ i \notin before
  BY <1>1 DEF before
<1>14. Cardinality(before \cup {i}) = Cardinality(before) + 1
  BY <1>8, <1>13, FS_AddElement
<1>15. Cardinality(before \cup {i}) = N(i)
  BY <1>9, <1>12, <1>14
<1> QED BY <1>12, <1>13, <1>15 DEF before, N

----------------------------------------------------------------------------
(* The rows of the tables.  Names below that take the scenario and the world are those *)
(* of the module at them, so that a step that changes neither leaves them alone.       *)

Who(s, case) ==
  [algorithm |-> case.algorithm, operation |-> case.operation,
   parameter |-> IF case = Baseline THEN "" ELSE Parameter(s, case.algorithm), value |-> case.value]

\* A planned case is its three fields, and only the empty process is called Runtime.
LEMMA CasesAreRecords ==
  /\ \A c \in Planned \cup MemoryPlanned \cup {Baseline} :
       c = [algorithm |-> c.algorithm, operation |-> c.operation, value |-> c.value]
  /\ \A c \in Planned \cup MemoryPlanned : c.algorithm # "Runtime" /\ c # Baseline
  /\ \A c \in Planned : c.operation \in {"Encrypt", "Decrypt", "Serialize", "Deserialize"}
  /\ \A c \in MemoryPlanned : c.operation \in {"Encrypt", "Decrypt"} /\ c \in Planned
  /\ Baseline.algorithm = "Runtime" /\ Baseline.operation = "MemoryBaseline" /\ Baseline.value = 0
<1>1. \A c \in Planned \cup MemoryPlanned : c.algorithm # "Runtime"
  BY DEF Planned, MemoryPlanned, CaseOf, Algorithms
<1> QED BY <1>1 DEF Planned, MemoryPlanned, CaseOf, Baseline, Case

\* csv.py makes of the name of a case who it is.
LEMMA IdentityOfACase ==
  ASSUME NEW s, NEW c \in Planned
  PROVE  Identity(s, c) = Who(s, c) /\ ~IsBaseline(c)
<1>1. Operation(c.operation) = c.operation
  BY CasesAreRecords DEF Operation
<1> QED BY <1>1, CasesAreRecords DEF Identity, Who, IsBaseline

\* And of the name of a Memory benchmark, whose prefix it drops.
LEMMA IdentityOfAMemoryCase ==
  ASSUME NEW s, NEW c \in MemoryPlanned \cup {Baseline}
  PROVE  Identity(s, MemoryName(c)) = Who(s, c) /\ (IsBaseline(MemoryName(c)) <=> c = Baseline)
<1>1. CASE c = Baseline
  <2>1. MemoryName(c) = Baseline /\ Operation("MemoryBaseline") = "MemoryBaseline"
    BY <1>1 DEF MemoryName, Operation
  <2> QED BY <1>1, <2>1, CasesAreRecords DEF Identity, Who, IsBaseline
<1>2. CASE c \in MemoryPlanned
  <2> DEFINE named == MemoryName(c)
  <2>1. /\ named = [c EXCEPT !.operation = IF @ = "Encrypt" THEN "MemoryEncrypt" ELSE "MemoryDecrypt"]
        /\ c = [algorithm |-> c.algorithm, operation |-> c.operation, value |-> c.value]
        /\ c.operation \in {"Encrypt", "Decrypt"} /\ c.algorithm # "Runtime" /\ c # Baseline
    BY <1>2, CasesAreRecords DEF MemoryName
  <2> HIDE DEF named
  <2>2. /\ named.algorithm = c.algorithm /\ named.value = c.value
        /\ named.operation = IF c.operation = "Encrypt" THEN "MemoryEncrypt" ELSE "MemoryDecrypt"
    BY <2>1
  <2>3. Operation(named.operation) = c.operation
    BY <2>1, <2>2 DEF Operation
  <2>4. Identity(s, named) = Who(s, c) /\ ~IsBaseline(named)
    BY <2>1, <2>2, <2>3 DEF Identity, Who, IsBaseline
  <2> QED BY <2>1, <2>4 DEF named
<1> QED BY <1>1, <1>2

\* Two cases are not the same one.
LEMMA WhoIsOne ==
  ASSUME NEW s, NEW c \in Planned \cup MemoryPlanned \cup {Baseline},
         NEW d \in Planned \cup MemoryPlanned \cup {Baseline}, Who(s, c) = Who(s, d)
  PROVE  c = d
<1>1. c.algorithm = d.algorithm /\ c.operation = d.operation /\ c.value = d.value
  BY DEF Who
<1> QED BY <1>1, CasesAreRecords

\* The repetitions that a table has rows of, the row of one, and the rows of the first k.
Reps(s, t) == IF t = "memory" THEN Repeated(MemoryPlans[s]) ELSE Repeated(TimingPlans[s])

Marked(w, t, rep) == <<t, rep>> \in w.throttled

RowOf(s, w, t, rep) ==
  [of |-> Who(s, rep[1]), baseline |-> rep[1] = Baseline, run |-> rep[2],
   measurements |-> [m \in Columns(t, s, Who(s, rep[1])) |->
                       IF m # "throttled" THEN Datum(m, rep[1], rep[2])
                       ELSE IF Marked(w, "timing", rep) THEN 1 ELSE 0]]

\* Whose row it is.
LEMMA RowFields ==
  ASSUME NEW s, NEW w, NEW t, NEW rep
  PROVE  /\ RowOf(s, w, t, rep).of = Who(s, rep[1]) /\ RowOf(s, w, t, rep).baseline = (rep[1] = Baseline)
         /\ RowOf(s, w, t, rep).run = rep[2]
BY DEF RowOf

\* What is in it.
LEMMA RowMeasurements ==
  ASSUME NEW s, NEW w, NEW t, NEW rep
  PROVE  /\ DOMAIN RowOf(s, w, t, rep).measurements = Columns(t, s, Who(s, rep[1]))
         /\ \A m \in Columns(t, s, Who(s, rep[1])) :
              RowOf(s, w, t, rep).measurements[m] =
                IF m # "throttled" THEN Datum(m, rep[1], rep[2])
                ELSE IF Marked(w, "timing", rep) THEN 1 ELSE 0
BY DEF RowOf

First(s, w, t, k) == [i \in 1..k |-> RowOf(s, w, t, Reps(s, t)[i])]

Tables == {"memory", "timing"}

\* The cases of a table.
CasesIn(t) == IF t = "memory" THEN MemoryPlanned \cup {Baseline} ELSE Planned

\* The repetitions that a text file reports, in their order.
LEMMA RepsFacts ==
  ASSUME NEW s \in Scenarios, NEW t \in Tables
  PROVE  /\ IsSeq(Reps(s, t)) /\ Ordered(Reps(s, t))
         /\ \A i \in DOMAIN Reps(s, t) :
              /\ Reps(s, t)[i] = <<Reps(s, t)[i][1], Reps(s, t)[i][2]>>
              /\ Reps(s, t)[i][1] \in CasesIn(t) /\ Reps(s, t)[i][2] \in 1..Runs
<1> DEFINE plan == IF t = "memory" THEN MemoryPlans[s] ELSE TimingPlans[s]
<1>1. plan \in Seq(CasesIn(t)) /\ Distinct(plan)
  BY PlansNameOnce DEF IsPlan, CasesIn
<1>2. Reps(s, t) = Repeated(plan)
  BY DEF Reps
<1> HIDE DEF plan
<1>3. Ordered(Repeated(plan)) /\ Repeated(plan) \in Seq(CasesIn(t) \X (1..Runs))
  BY <1>1, RepeatedInOrder, RepeatedPlaces
<1>4. IsSeq(Reps(s, t))
  BY <1>2, <1>3, IsSequence
<1>5. \A i \in DOMAIN Repeated(plan) : Repeated(plan)[i] \in CasesIn(t) \X (1..Runs)
  BY <1>3
<1> QED BY <1>2, <1>3, <1>4, <1>5

\* A repetition is where it is, and only there.
LEMMA OnePlace ==
  ASSUME NEW reps, IsSeq(reps), Ordered(reps), NEW i \in DOMAIN reps, NEW j \in DOMAIN reps,
         \A k \in DOMAIN reps : reps[k][2] \in 1..Runs, reps[i] = reps[j]
  PROVE  i = j
<1>1. Len(reps) \in Nat /\ DOMAIN reps = 1..Len(reps) /\ Runs \in Nat
  BY SequenceFacts, MicroReportsAssumption
<1>2. i \in Int /\ j \in Int /\ reps[i][2] \in Int
  BY <1>1
<1>3. /\ \A k, l \in DOMAIN reps : k < l /\ reps[k][1] = reps[l][1] => reps[k][2] < reps[l][2]
      /\ reps[i][1] = reps[j][1] /\ reps[i][2] = reps[j][2]
  BY DEF Ordered
<1>4. ~(i < j) /\ ~(j < i)
  BY <1>2, <1>3
<1> QED BY <1>2, <1>4

----------------------------------------------------------------------------
(* csv.py: another line of a file, another row of its table. *)

\* The first rows are those of the first repetitions.
LEMMA FirstRows ==
  ASSUME NEW s \in Scenarios, NEW w, NEW t \in Tables, NEW k \in 0..Len(Reps(s, t))
  PROVE  /\ IsSeq(First(s, w, t, k)) /\ DOMAIN First(s, w, t, k) = 1..k /\ Len(First(s, w, t, k)) = k
         /\ \A i \in 1..k : i \in DOMAIN Reps(s, t) /\ First(s, w, t, k)[i] = RowOf(s, w, t, Reps(s, t)[i])
<1>1. Len(Reps(s, t)) \in Nat /\ DOMAIN Reps(s, t) = 1..Len(Reps(s, t)) /\ k \in Nat
  BY RepsFacts, SequenceFacts
<1>2. First(s, w, t, k) = [i \in 1..k |-> First(s, w, t, k)[i]]
  BY DEF First
<1>3. IsSeq(First(s, w, t, k)) /\ Len(First(s, w, t, k)) = k
  BY <1>1, <1>2, ListedSequence
<1> QED BY <1>1, <1>3 DEF First

\* The run of the next row.
LEMMA NextRun ==
  ASSUME NEW s \in Scenarios, NEW w, NEW t \in Tables, NEW k \in DOMAIN Reps(s, t)
  PROVE  Run(First(s, w, t, k - 1), Who(s, Reps(s, t)[k][1])) = Reps(s, t)[k][2]
<1> DEFINE reps == Reps(s, t)
           rows == First(s, w, t, k - 1)
<1>1. /\ IsSeq(reps) /\ Ordered(reps) /\ Len(reps) \in Nat /\ DOMAIN reps = 1..Len(reps)
      /\ \A i \in DOMAIN reps : reps[i][1] \in CasesIn(t) /\ reps[i][2] \in 1..Runs
  BY RepsFacts, SequenceFacts
<1>2. k - 1 \in 0..Len(reps) /\ k \in 1..Len(reps)
  BY <1>1
<1>3. DOMAIN rows = 1..(k - 1) /\ \A i \in 1..(k - 1) : i \in DOMAIN reps /\ rows[i] = RowOf(s, w, t, reps[i])
  BY <1>2, FirstRows
<1>4. \A i \in DOMAIN reps : Who(s, reps[i][1]) = Who(s, reps[k][1]) <=> reps[i][1] = reps[k][1]
  BY <1>1, <1>2, WhoIsOne DEF CasesIn
<1> HIDE DEF reps, rows
<1>5. ASSUME NEW i \in 1..(k - 1) PROVE RowOf(s, w, t, reps[i]).of = Who(s, reps[i][1])
  BY RowFields
<1>9. \A i \in 1..(k - 1) : rows[i].of = Who(s, reps[k][1]) <=> reps[i][1] = reps[k][1]
  BY <1>3, <1>4, <1>5
<1>6. {i \in DOMAIN rows : rows[i].of = Who(s, reps[k][1])} = {i \in 1..(k - 1) : reps[i][1] = reps[k][1]}
  BY <1>3, <1>9
<1>7. Cardinality({i \in 1..(k - 1) : reps[i][1] = reps[k][1]}) = reps[k][2] - 1
  BY <1>1, <1>2, NumbersBefore
<1>8. reps[k][2] \in Int
  BY <1>1, MicroReportsAssumption DEF reps
<1>10. Run(rows, Who(s, reps[k][1])) = Cardinality({i \in 1..(k - 1) : reps[i][1] = reps[k][1]}) + 1
  BY <1>6 DEF Run
<1>11. Run(rows, Who(s, reps[k][1])) = (reps[k][2] - 1) + 1
  BY <1>7, <1>10
<1>12. Run(rows, Who(s, reps[k][1])) = reps[k][2]
  BY <1>8, <1>11
<1> QED BY <1>12 DEF reps, rows

\* What the line of a repetition says, as the table keeps it.
LineOf(t, rep) == IF t = "memory" THEN MemoryLine(rep) ELSE TimingLine(rep)

\* What csv.py reads in the line of a repetition.
LEMMA LineOfARepetition ==
  ASSUME scenario \in Scenarios, NEW t \in Tables, NEW k \in DOMAIN Reps(scenario, t),
         Convertible(t, scenario, LineOf(t, Reps(scenario, t)[k]))
  PROVE  LET rep == Reps(scenario, t)[k]
             line == LineOf(t, rep)
         IN /\ line.kind = "result" /\ Identity(scenario, line.name) = Who(scenario, rep[1])
            /\ IsBaseline(line.name) <=> rep[1] = Baseline
            /\ \A m \in Columns(t, scenario, Who(scenario, rep[1])) :
                 line.measurements[m] = IF m # "throttled" THEN Datum(m, rep[1], rep[2])
                                        ELSE IF Marked(world, "timing", rep) THEN 1 ELSE 0
<1> DEFINE rep == Reps(scenario, t)[k]
           line == LineOf(t, rep)
<1>1. rep = <<rep[1], rep[2]>> /\ rep[1] \in CasesIn(t)
  BY RepsFacts
<1>2. CASE t = "memory"
  <2> DEFINE measurements == [m \in {"ns/op"} \cup (IF rep \in world.unreadable THEN {} ELSE {"peak_rss_bytes"}) |->
                                Datum(m, rep[1], rep[2])]
  <2>1. line.kind = "result" /\ line.name = MemoryName(rep[1]) /\ line.measurements = measurements
    BY <1>2 DEF LineOf, MemoryLine, Line
  <2>2. Identity(scenario, line.name) = Who(scenario, rep[1]) /\ (IsBaseline(line.name) <=> rep[1] = Baseline)
    BY <1>1, <1>2, <2>1, IdentityOfAMemoryCase DEF CasesIn
  <2>3. Columns(t, scenario, Who(scenario, rep[1])) = {"peak_rss_bytes"}
    BY <1>2 DEF Columns
  <2>4. {"peak_rss_bytes"} \subseteq DOMAIN line.measurements
    BY <2>1, <2>2, <2>3 DEF Convertible
  <2> HIDE DEF rep, line
  <2>5. line.measurements["peak_rss_bytes"] = Datum("peak_rss_bytes", rep[1], rep[2])
    BY <2>1, <2>4
  <2> QED BY <2>1, <2>2, <2>3, <2>5 DEF rep, line
<1>3. CASE t = "timing"
  <2> DEFINE metrics == Reported(scenario, rep[1]) \cup {"throttled"}
             measurements == [m \in metrics |->
                                IF m # "throttled" THEN Datum(m, rep[1], rep[2])
                                ELSE IF <<"timing", rep>> \in world.throttled THEN 1 ELSE 0]
  <2>1. line.kind = "result" /\ line.name = rep[1] /\ line.measurements = measurements
    BY <1>3 DEF LineOf, TimingLine, Line
  <2>2. rep[1] \in Planned
    BY <1>1, <1>3 DEF CasesIn
  <2>3. Identity(scenario, line.name) = Who(scenario, rep[1]) /\ ~IsBaseline(line.name) /\ rep[1] # Baseline
    BY <2>1, <2>2, IdentityOfACase, CasesAreRecords
  <2>4. Columns(t, scenario, Who(scenario, rep[1])) \subseteq DOMAIN line.measurements
    BY <2>1, <2>3 DEF Convertible
  <2> HIDE DEF rep, line, metrics
  <2>5. \A m \in metrics : line.measurements[m] = IF m # "throttled" THEN Datum(m, rep[1], rep[2])
                                                  ELSE IF Marked(world, "timing", rep) THEN 1 ELSE 0
    BY <2>1 DEF Marked
  <2>6. DOMAIN line.measurements = metrics
    BY <2>1
  <2> QED BY <2>1, <2>3, <2>4, <2>5, <2>6 DEF rep, line
<1> QED BY <1>2, <1>3 DEF Tables

\* One more line is one more row.
LEMMA ConvertedLine ==
  ASSUME scenario \in Scenarios, NEW t \in Tables, NEW k \in DOMAIN Reps(scenario, t),
         Convertible(t, scenario, LineOf(t, Reps(scenario, t)[k]))
  PROVE  Convert(t, scenario, First(scenario, world, t, k - 1), LineOf(t, Reps(scenario, t)[k]))
           = First(scenario, world, t, k)
<1> DEFINE rep == Reps(scenario, t)[k]
           line == LineOf(t, rep)
           rows == First(scenario, world, t, k - 1)
           row == [of |-> Identity(scenario, line.name), baseline |-> IsBaseline(line.name),
                   run |-> Run(rows, Identity(scenario, line.name)),
                   measurements |-> [m \in Columns(t, scenario, Identity(scenario, line.name)) |->
                                       line.measurements[m]]]
<1>1. /\ line.kind = "result" /\ Identity(scenario, line.name) = Who(scenario, rep[1])
      /\ IsBaseline(line.name) <=> rep[1] = Baseline
      /\ \A m \in Columns(t, scenario, Who(scenario, rep[1])) :
           line.measurements[m] = IF m # "throttled" THEN Datum(m, rep[1], rep[2])
                                  ELSE IF Marked(world, "timing", rep) THEN 1 ELSE 0
  BY LineOfARepetition
<1>2. Run(rows, Who(scenario, rep[1])) = rep[2]
  BY NextRun
<1>3. Convert(t, scenario, rows, line) = Append(rows, row)
  BY <1>1 DEF Convert
<1>4. IsBaseline(line.name) \in BOOLEAN /\ IsBaseline(line.name) = (rep[1] = Baseline)
  BY <1>1 DEF IsBaseline
<1> HIDE DEF rep, line, rows
<1>5. row = RowOf(scenario, world, t, rep)
  <2>1. [m \in Columns(t, scenario, Who(scenario, rep[1])) |-> line.measurements[m]]
          = [m \in Columns(t, scenario, Who(scenario, rep[1])) |->
               IF m # "throttled" THEN Datum(m, rep[1], rep[2])
               ELSE IF Marked(world, "timing", rep) THEN 1 ELSE 0]
    BY <1>1
  <2> QED BY <1>1, <1>2, <1>4, <2>1 DEF RowOf
<1> HIDE DEF row
<1>6. /\ Len(Reps(scenario, t)) \in Nat /\ k \in 1..Len(Reps(scenario, t))
      /\ k - 1 \in 0..Len(Reps(scenario, t)) /\ k \in 0..Len(Reps(scenario, t))
  BY RepsFacts, SequenceFacts
<1>7. /\ IsSeq(rows) /\ DOMAIN rows = 1..(k - 1) /\ Len(rows) = k - 1
      /\ \A i \in 1..(k - 1) : rows[i] = RowOf(scenario, world, t, Reps(scenario, t)[i])
  BY <1>6, FirstRows DEF rows
<1> DEFINE more == Append(rows, row)
<1>8. /\ DOMAIN more = 1..((k - 1) + 1) /\ more[(k - 1) + 1] = row
      /\ \A i \in 1..(k - 1) : more[i] = rows[i]
  BY <1>7, AppendedSequence
<1>9. (k - 1) + 1 = k
  BY <1>6
<1>10. \A i \in 1..k : more[i] = RowOf(scenario, world, t, Reps(scenario, t)[i])
  BY <1>5, <1>6, <1>7, <1>8, <1>9 DEF rep
<1>11. more = [i \in 1..k |-> more[i]]
  <2>1. IsSeq(more)
    BY <1>7, AppendedSequence
  <2>2. Len(more) = k
    BY <1>7, <1>9, AppendedSequence
  <2> HIDE DEF more
  <2> QED BY <2>1, <2>2, SequenceFacts
<1> HIDE DEF more
<1>12. more = First(scenario, world, t, k)
  BY <1>10, <1>11 DEF First
<1> QED BY <1>3, <1>12 DEF more, rows, line, rep

----------------------------------------------------------------------------
(* The energy stage: another window, none or two more rows. *)

\* A window without readings adds nothing,
LEMMA NothingMore == ASSUME NEW x, IsSeq(x) PROVE x \o <<>> = x
BY DEF IsSeq

\* and one with readings adds two rows.
LEMMA TwoMore ==
  ASSUME NEW x, IsSeq(x), NEW a, NEW b
  PROVE  /\ IsSeq(x \o <<a, b>>) /\ Len(x \o <<a, b>>) = Len(x) + 2
         /\ \A i \in 1..Len(x) : (x \o <<a, b>>)[i] = x[i]
         /\ (x \o <<a, b>>)[Len(x) + 1] = a /\ (x \o <<a, b>>)[Len(x) + 2] = b
<1> DEFINE S == Elements(x) \cup {a, b}
<1>1. x \in Seq(S) /\ <<a, b>> \in Seq(S)
  <2>1. x \in Seq(Elements(x)) /\ Elements(x) \subseteq S /\ a \in S /\ b \in S
    BY DEF IsSeq
  <2> HIDE DEF S
  <2> QED BY <2>1
<1> HIDE DEF S
<1>2. x \o <<a, b>> \in Seq(S) /\ Len(<<a, b>>) = 2 /\ Len(x) \in Nat
  BY <1>1
<1>3. IsSeq(x \o <<a, b>>)
  BY <1>2, IsSequence
<1> QED BY <1>1, <1>2, <1>3

Listening(s) == Repeated(<<Idle>> \o EnergyPlans[s])

\* The windows of the energy stage, in their order.
LEMMA ListeningFacts ==
  ASSUME NEW s \in Scenarios
  PROVE  /\ IsSeq(Listening(s)) /\ Ordered(Listening(s))
         /\ \A k \in DOMAIN Listening(s) :
              /\ Listening(s)[k] = <<Listening(s)[k][1], Listening(s)[k][2]>>
              /\ Listening(s)[k][1] \in Planned \cup {Idle} /\ Listening(s)[k][2] \in 1..Runs
<1> DEFINE plan == <<Idle>> \o EnergyPlans[s]
<1>1. plan \in Seq(Planned \cup {Idle}) /\ Distinct(plan)
  <2>1. IsPlan(EnergyPlans[s], Planned) /\ Idle \notin Planned
    BY PlansNameOnce, NothingElseIsPlanned
  <2> QED BY <2>1, OneMore DEF IsPlan
<1> HIDE DEF plan
<1>2. Ordered(Repeated(plan)) /\ Repeated(plan) \in Seq((Planned \cup {Idle}) \X (1..Runs))
  BY <1>1, RepeatedInOrder, RepeatedPlaces
<1>3. IsSeq(Repeated(plan))
  BY <1>2, IsSequence
<1>4. \A k \in DOMAIN Repeated(plan) : Repeated(plan)[k] \in (Planned \cup {Idle}) \X (1..Runs)
  BY <1>2
<1>5. Listening(s) = Repeated(plan)
  BY DEF Listening, plan
<1> QED BY <1>2, <1>3, <1>4, <1>5

Tag(s, case) == IF case = Idle THEN Idle ELSE Who(s, case)
Sample(window, half) == Datum(IF half = 1 THEN "power" ELSE "power later", window[1], window[2])
SampleRow(s, w, window, half) ==
  [of |-> Tag(s, window[1]), baseline |-> window[1] = Idle, run |-> window[2],
   throttled |-> Marked(w, "energy", window), sample |-> Sample(window, half)]

\* The numbers of the windows among the first n in which the meter answered, in order,
\* and the rows there are of them.
IsHeard(s, w, heard, n) ==
  /\ IsSeq(heard)
  /\ \A b \in DOMAIN heard : heard[b] \in 1..n /\ Listening(s)[heard[b]] \notin w.silent
  /\ \A b, d \in DOMAIN heard : b < d => heard[b] < heard[d]
  /\ \A k \in 1..n : Listening(s)[k] \notin w.silent => \E b \in DOMAIN heard : heard[b] = k

WindowOf(s, heard, i) == Listening(s)[heard[BlockOf(i, 2)]]
RowsOf(s, w, heard) ==
  [i \in 1..(2 * Len(heard)) |-> SampleRow(s, w, WindowOf(s, heard, i), PlaceOf(i, 2))]

EnergyMeasured(s, w, rows, n) == \E heard : IsHeard(s, w, heard, n) /\ rows = RowsOf(s, w, heard)

\* The rows of the windows come in pairs.
LEMMA HalvesOfABlock ==
  ASSUME NEW n \in Nat
  PROVE  /\ \A i \in 1..(2 * n) : BlockOf(i, 2) \in 1..n /\ PlaceOf(i, 2) \in {1, 2}
                                    /\ i = 2 * (BlockOf(i, 2) - 1) + PlaceOf(i, 2)
         /\ BlockOf(2 * n + 1, 2) = n + 1 /\ PlaceOf(2 * n + 1, 2) = 1
         /\ BlockOf(2 * n + 2, 2) = n + 1 /\ PlaceOf(2 * n + 2, 2) = 2
BY DEF BlockOf, PlaceOf

\* The rows of the windows that were heard.
LEMMA RowsOfHeard ==
  ASSUME NEW s, NEW w, NEW heard, IsSeq(heard)
  PROVE  /\ IsSeq(RowsOf(s, w, heard)) /\ Len(RowsOf(s, w, heard)) = 2 * Len(heard)
         /\ DOMAIN RowsOf(s, w, heard) = 1..(2 * Len(heard))
         /\ \A i \in 1..(2 * Len(heard)) :
              RowsOf(s, w, heard)[i] = SampleRow(s, w, WindowOf(s, heard, i), PlaceOf(i, 2))
<1>1. Len(heard) \in Nat /\ 2 * Len(heard) \in Nat
  BY SequenceFacts
<1>2. RowsOf(s, w, heard) = [i \in 1..(2 * Len(heard)) |-> RowsOf(s, w, heard)[i]]
  BY DEF RowsOf
<1>3. IsSeq(RowsOf(s, w, heard)) /\ Len(RowsOf(s, w, heard)) = 2 * Len(heard)
  BY <1>1, <1>2, ListedSequence
<1> QED BY <1>3 DEF RowsOf

\* write_samples: two rows for a window, or none.
LEMMA RowsOfAWindow ==
  ASSUME scenario \in Scenarios, NEW k \in DOMAIN Listening(scenario)
  PROVE  EnergyRows(Listening(scenario)[k]) =
           IF Listening(scenario)[k] \in world.silent THEN <<>>
           ELSE <<SampleRow(scenario, world, Listening(scenario)[k], 1),
                  SampleRow(scenario, world, Listening(scenario)[k], 2)>>
<1> DEFINE window == Listening(scenario)[k]
<1>1. window = <<window[1], window[2]>> /\ window[1] \in Planned \cup {Idle}
  BY ListeningFacts
<1>2. Label(window[1]) = Tag(scenario, window[1])
  <2>1. window[1] # Idle => window[1] # Baseline
    BY <1>1, CasesAreRecords
  <2> QED BY <2>1 DEF Label, EnergyLabel, Tag, Who
<1> HIDE DEF window
<1>3. CASE window \in world.silent
  <2>1. Samples(window) = <<>>
    BY <1>3 DEF Samples
  <2>2. EnergyRows(window) = [i \in {} |-> <<>>[i]]
    BY <2>1 DEF EnergyRows, WriteSamples
  <2>3. EnergyRows(window) = <<>>
    BY <2>1 DEF EnergyRows, WriteSamples
  <2> QED BY <1>3, <2>3 DEF window
<1>4. CASE window \notin world.silent
  <2>1. Samples(window) = <<Sample(window, 1), Sample(window, 2)>>
    <3>1. /\ Sample(window, 1) = Datum("power", window[1], window[2])
          /\ Sample(window, 2) = Datum("power later", window[1], window[2])
      BY DEF Sample
    <3> QED BY <1>4, <3>1 DEF Samples, Readings
  <2> DEFINE rows == [i \in DOMAIN Samples(window) |->
                        [of |-> Tag(scenario, window[1]), baseline |-> window[1] = Idle, run |-> window[2],
                         throttled |-> Marked(world, "energy", window), sample |-> Samples(window)[i]]]
  <2>2. EnergyRows(window) = rows
    BY <1>2 DEF EnergyRows, WriteSamples, Marked
  <2>3. DOMAIN Samples(window) = 1..2 /\ Samples(window)[1] = Sample(window, 1)
          /\ Samples(window)[2] = Sample(window, 2)
    BY <2>1
  <2>4. rows[1] = SampleRow(scenario, world, window, 1) /\ rows[2] = SampleRow(scenario, world, window, 2)
          /\ rows = [i \in 1..2 |-> rows[i]]
    BY <2>3 DEF SampleRow
  <2> HIDE DEF rows
  <2>5. rows = <<SampleRow(scenario, world, window, 1), SampleRow(scenario, world, window, 2)>>
    BY <2>4
  <2> QED BY <1>4, <2>2, <2>5 DEF window
<1> QED BY <1>3, <1>4

\* One more window, heard or not.
LEMMA MeasuredWindow ==
  ASSUME scenario \in Scenarios, NEW n \in Nat, n + 1 \in DOMAIN Listening(scenario),
         NEW rows, EnergyMeasured(scenario, world, rows, n)
  PROVE  EnergyMeasured(scenario, world, rows \o EnergyRows(Listening(scenario)[n + 1]), n + 1)
<1> DEFINE window == Listening(scenario)[n + 1]
           Row(half) == SampleRow(scenario, world, window, half)
<1>1. PICK heard : IsHeard(scenario, world, heard, n) /\ rows = RowsOf(scenario, world, heard)
  BY DEF EnergyMeasured
<1>2. /\ IsSeq(heard) /\ Len(heard) \in Nat /\ DOMAIN heard = 1..Len(heard)
      /\ \A b \in DOMAIN heard : heard[b] \in 1..n /\ Listening(scenario)[heard[b]] \notin world.silent
      /\ \A b, d \in DOMAIN heard : b < d => heard[b] < heard[d]
      /\ \A k \in 1..n : Listening(scenario)[k] \notin world.silent => \E b \in DOMAIN heard : heard[b] = k
  BY <1>1, SequenceFacts DEF IsHeard
<1>3. /\ IsSeq(rows) /\ Len(rows) = 2 * Len(heard)
      /\ \A i \in 1..(2 * Len(heard)) :
           rows[i] = SampleRow(scenario, world, WindowOf(scenario, heard, i), PlaceOf(i, 2))
  BY <1>1, <1>2, RowsOfHeard
<1>4. EnergyRows(window) = IF window \in world.silent THEN <<>> ELSE <<Row(1), Row(2)>>
  BY RowsOfAWindow
<1>5. CASE window \in world.silent
  <2>1. rows \o EnergyRows(window) = rows
    BY <1>3, <1>4, <1>5, NothingMore
  <2>2. IsHeard(scenario, world, heard, n + 1)
    <3>1. \A b \in DOMAIN heard : heard[b] \in 1..(n + 1)
      BY <1>2
    <3>2. \A k \in 1..(n + 1) : k = n + 1 \/ k \in 1..n
      OBVIOUS
    <3> QED BY <1>2, <1>5, <3>1, <3>2 DEF IsHeard
  <2> QED BY <1>1, <2>1, <2>2 DEF EnergyMeasured
<1>6. CASE window \notin world.silent
  <2> DEFINE more == Append(heard, n + 1)
             len == Len(heard)
  <2>1. /\ IsSeq(more) /\ Len(more) = len + 1 /\ DOMAIN more = 1..(len + 1)
        /\ \A b \in 1..len : more[b] = heard[b]
        /\ more[len + 1] = n + 1
    BY <1>2, AppendedSequence
  <2>2. len \in Nat /\ \A b \in 1..(len + 1) : b \in 1..len \/ b = len + 1
    BY <1>2
  <2> HIDE DEF more, len, window
  <2>3. IsHeard(scenario, world, more, n + 1)
    <3>1. \A b \in DOMAIN more : more[b] \in 1..(n + 1) /\ Listening(scenario)[more[b]] \notin world.silent
      <4> SUFFICES ASSUME NEW b \in 1..(len + 1)
                   PROVE  more[b] \in 1..(n + 1) /\ Listening(scenario)[more[b]] \notin world.silent
        BY <2>1
      <4>1. CASE b \in 1..len
        <5>1. more[b] = heard[b] /\ heard[b] \in 1..n /\ Listening(scenario)[heard[b]] \notin world.silent
          BY <1>2, <2>1, <4>1 DEF len
        <5> QED BY <5>1
      <4>2. CASE b = len + 1
        BY <1>6, <2>1, <4>2 DEF window
      <4> QED BY <2>2, <4>1, <4>2
    <3>2. ASSUME NEW b \in DOMAIN more, NEW d \in DOMAIN more, b < d PROVE more[b] < more[d]
      <4>1. b \in 1..len
        BY <2>1, <2>2, <3>2
      <4>2. more[b] = heard[b] /\ heard[b] \in 1..n
        BY <1>2, <2>1, <4>1 DEF len
      <4>3. CASE d \in 1..len
        BY <1>2, <2>1, <3>2, <4>1, <4>2, <4>3 DEF len
      <4>4. CASE d = len + 1
        BY <2>1, <4>2, <4>4
      <4> QED BY <2>1, <2>2, <4>3, <4>4
    <3>3. ASSUME NEW k \in 1..(n + 1), Listening(scenario)[k] \notin world.silent
          PROVE  \E b \in DOMAIN more : more[b] = k
      <4>1. CASE k = n + 1
        BY <2>1, <2>2, <4>1
      <4>2. CASE k \in 1..n
        <5>1. PICK b \in 1..len : heard[b] = k
          BY <1>2, <3>3, <4>2 DEF len
        <5>2. b \in DOMAIN more /\ more[b] = k
          BY <2>1, <2>2, <5>1
        <5> QED BY <5>2
      <4> QED BY <4>1, <4>2
    <3> QED BY <2>1, <3>1, <3>2, <3>3 DEF IsHeard
  <2>4. rows \o EnergyRows(window) = RowsOf(scenario, world, more)
    <3> DEFINE longer == rows \o <<Row(1), Row(2)>>
    <3>1. /\ IsSeq(longer) /\ Len(longer) = 2 * len + 2
          /\ \A i \in 1..(2 * len) : longer[i] = rows[i]
          /\ longer[2 * len + 1] = Row(1) /\ longer[2 * len + 2] = Row(2)
      BY <1>3, TwoMore DEF len
    <3>2. /\ \A i \in 1..(2 * len) : BlockOf(i, 2) \in 1..len
          /\ BlockOf(2 * len + 1, 2) = len + 1 /\ PlaceOf(2 * len + 1, 2) = 1
          /\ BlockOf(2 * len + 2, 2) = len + 1 /\ PlaceOf(2 * len + 2, 2) = 2
      BY <2>2, HalvesOfABlock
    <3> HIDE DEF longer, Row
    <3>3. ASSUME NEW i \in 1..(2 * len + 2)
          PROVE  longer[i] = SampleRow(scenario, world, WindowOf(scenario, more, i), PlaceOf(i, 2))
      <4>1. CASE i \in 1..(2 * len)
        <5>1. WindowOf(scenario, more, i) = WindowOf(scenario, heard, i)
          BY <2>1, <3>2, <4>1 DEF WindowOf
        <5> QED BY <1>3, <3>1, <4>1, <5>1 DEF len
      <4>2. CASE i = 2 * len + 1
        BY <2>1, <3>1, <3>2, <4>2 DEF WindowOf, Row, window
      <4>3. CASE i = 2 * len + 2
        BY <2>1, <3>1, <3>2, <4>3 DEF WindowOf, Row, window
      <4> QED BY <2>2, <4>1, <4>2, <4>3
    <3>4. longer = [i \in 1..(2 * len + 2) |-> longer[i]]
      BY <3>1, SequenceFacts
    <3>5. 2 * Len(more) = 2 * len + 2
      BY <2>1, <2>2
    <3>6. longer = RowsOf(scenario, world, more)
      BY <3>3, <3>4, <3>5 DEF RowsOf
    <3> QED BY <1>4, <1>6, <3>6 DEF longer
  <2> QED BY <2>3, <2>4 DEF EnergyMeasured, window
<1> QED BY <1>5, <1>6

\* Nothing is measured before the first window.
LEMMA NothingMeasured == \A s, w : EnergyMeasured(s, w, <<>>, 0)
<1> SUFFICES ASSUME NEW s, NEW w PROVE EnergyMeasured(s, w, <<>>, 0)
  OBVIOUS
<1>1. IsHeard(s, w, <<>>, 0)
  BY EmptySequence DEF IsHeard
<1>2. RowsOf(s, w, <<>>) = <<>>
  <2>1. IsSeq(RowsOf(s, w, <<>>)) /\ Len(RowsOf(s, w, <<>>)) = 0
    BY EmptySequence, RowsOfHeard
  <2>2. \A S : \A x \in Seq(S) : Len(x) = 0 => x = <<>>
    OBVIOUS
  <2> QED BY <2>1, <2>2 DEF IsSeq
<1> QED BY <1>1, <1>2 DEF EnergyMeasured

----------------------------------------------------------------------------
(* load_summary.py: another row of timing.csv or memory.csv. *)

\* The cases that the first m rows make of the repetitions of a case.
CasesOf(s, w, t, cases, c, m) ==
  /\ IsSeq(cases)
  /\ \A n \in DOMAIN cases : /\ cases[n] = MeasuredCase(RowOf(s, w, t, <<c, n>>))
                             /\ \E i \in 1..m : Reps(s, t)[i] = <<c, n>>
  /\ \A i \in 1..m : Reps(s, t)[i][1] = c => Reps(s, t)[i][2] \in DOMAIN cases

\* A case of which no row has been loaded.
LEMMA NoCase ==
  ASSUME NEW s, NEW w, NEW t, NEW c, NEW m, \A i \in 1..m : Reps(s, t)[i][1] # c
  PROVE  CasesOf(s, w, t, <<>>, c, m)
BY EmptySequence DEF CasesOf

\* A row of another case leaves the cases alone.
LEMMA CasesOfOthers ==
  ASSUME NEW s, NEW w, NEW t, NEW cases, NEW c, NEW m \in Nat, CasesOf(s, w, t, cases, c, m),
         Reps(s, t)[m + 1][1] # c
  PROVE  CasesOf(s, w, t, cases, c, m + 1)
<1>1. \A i \in 1..(m + 1) : i \in 1..m \/ i = m + 1
  OBVIOUS
<1>2. \A i \in 1..m : i \in 1..(m + 1)
  OBVIOUS
<1> QED BY <1>1, <1>2 DEF CasesOf

\* The next row of a case is of its next repetition.
LEMMA AnotherCase ==
  ASSUME NEW s \in Scenarios, NEW w, NEW t \in Tables, NEW cases, NEW c, NEW m \in Nat,
         CasesOf(s, w, t, cases, c, m), m + 1 \in DOMAIN Reps(s, t), Reps(s, t)[m + 1][1] = c
  PROVE  CasesOf(s, w, t, Append(cases, MeasuredCase(RowOf(s, w, t, Reps(s, t)[m + 1]))), c, m + 1)
<1> DEFINE reps == Reps(s, t)
           r == reps[m + 1][2]
           len == Len(cases)
           case == MeasuredCase(RowOf(s, w, t, reps[m + 1]))
           more == Append(cases, case)
<1>1. /\ IsSeq(reps) /\ Ordered(reps) /\ Len(reps) \in Nat /\ DOMAIN reps = 1..Len(reps)
      /\ \A i \in DOMAIN reps : reps[i] = <<reps[i][1], reps[i][2]>> /\ reps[i][2] \in 1..Runs
  BY RepsFacts, SequenceFacts
<1>2. /\ IsSeq(cases) /\ len \in Nat /\ DOMAIN cases = 1..len
      /\ \A n \in DOMAIN cases : /\ cases[n] = MeasuredCase(RowOf(s, w, t, <<c, n>>))
                                 /\ \E i \in 1..m : reps[i] = <<c, n>>
      /\ \A i \in 1..m : reps[i][1] = c => reps[i][2] \in DOMAIN cases
  BY SequenceFacts DEF CasesOf
<1>3. reps[m + 1] = <<c, r>> /\ r \in 1..Runs /\ m + 1 \in 1..Len(reps)
  BY <1>1
<1> HIDE DEF reps
<1>4. Runs \in Nat /\ r \in Nat /\ 1 <= r /\ r <= Runs
  BY <1>3, MicroReportsAssumption
<1>5. r \notin DOMAIN cases
  <2> SUFFICES ASSUME r \in DOMAIN cases PROVE FALSE
    OBVIOUS
  <2>1. PICK i \in 1..m : reps[i] = <<c, r>>
    BY <1>2
  <2>2. i \in DOMAIN reps /\ m + 1 \in DOMAIN reps /\ reps[i] = reps[m + 1] /\ i # m + 1
    BY <1>1, <1>3, <2>1
  <2> QED BY <1>1, <2>2, OnePlace
<1>6. ~(len + 1 < r)
  <2> SUFFICES ASSUME len + 1 < r PROVE FALSE
    OBVIOUS
  <2>1. len + 1 \in 1..Runs /\ m + 1 \in DOMAIN reps
    BY <1>1, <1>2, <1>3, <1>4
  <2>2. \A n \in 1..Runs : \E j \in DOMAIN reps : reps[j] = <<reps[m + 1][1], n>>
    BY <1>1, <2>1 DEF Ordered
  <2>3. PICK j \in DOMAIN reps : reps[j] = <<c, len + 1>>
    BY <1>3, <2>1, <2>2
  <2>4. reps[j][1] = c /\ reps[j][2] = len + 1 /\ reps[m + 1][1] = c /\ reps[m + 1][2] = r
    BY <1>3, <2>3
  <2>5. \A i, k \in DOMAIN reps : i < k /\ reps[i][1] = reps[k][1] => reps[i][2] < reps[k][2]
    BY <1>1 DEF Ordered
  <2>6. m + 1 < j => r < len + 1
    BY <2>1, <2>4, <2>5
  <2>7. j \in 1..m
    <3>1. j \in Int /\ 1 <= j /\ j <= Len(reps)
      BY <1>1
    <3>2. j # m + 1
      BY <1>2, <1>4, <2>4
    <3> QED BY <1>2, <1>4, <2>6, <3>1, <3>2
  <2>8. len + 1 \in DOMAIN cases
    BY <1>2, <2>4, <2>7
  <2> QED BY <1>2, <2>8
<1>7. r = len + 1
  BY <1>2, <1>4, <1>5, <1>6
<1>8. /\ IsSeq(more) /\ DOMAIN more = 1..(len + 1) /\ more[len + 1] = case
      /\ \A n \in 1..len : more[n] = cases[n]
  BY <1>2, AppendedSequence
<1>9. case = MeasuredCase(RowOf(s, w, t, <<c, len + 1>>))
  BY <1>3, <1>7
<1> HIDE DEF more, case, len, r
<1>10. \A n \in DOMAIN more : /\ more[n] = MeasuredCase(RowOf(s, w, t, <<c, n>>))
                              /\ \E i \in 1..(m + 1) : reps[i] = <<c, n>>
  <2> SUFFICES ASSUME NEW n \in 1..(len + 1)
               PROVE  /\ more[n] = MeasuredCase(RowOf(s, w, t, <<c, n>>))
                      /\ \E i \in 1..(m + 1) : reps[i] = <<c, n>>
    BY <1>8
  <2>1. CASE n \in 1..len
    <3>1. more[n] = cases[n] /\ cases[n] = MeasuredCase(RowOf(s, w, t, <<c, n>>))
      BY <1>2, <1>8, <2>1
    <3>2. PICK i \in 1..m : reps[i] = <<c, n>>
      BY <1>2, <2>1
    <3>3. i \in 1..(m + 1)
      OBVIOUS
    <3> QED BY <3>1, <3>2, <3>3
  <2>2. CASE n = len + 1
    <3>1. m + 1 \in 1..(m + 1)
      OBVIOUS
    <3> QED BY <1>3, <1>7, <1>8, <1>9, <2>2, <3>1
  <2>3. n \in 1..len \/ n = len + 1
    BY <1>2
  <2> QED BY <2>1, <2>2, <2>3
<1>11. \A i \in 1..(m + 1) : reps[i][1] = c => reps[i][2] \in DOMAIN more
  <2> SUFFICES ASSUME NEW i \in 1..(m + 1), reps[i][1] = c PROVE reps[i][2] \in DOMAIN more
    OBVIOUS
  <2>1. CASE i \in 1..m
    <3>1. reps[i][2] \in 1..len
      BY <1>2, <2>1
    <3> QED BY <1>2, <1>8, <3>1
  <2>2. CASE i = m + 1
    <3>1. reps[i][2] = len + 1
      BY <1>3, <1>7, <2>2
    <3> QED BY <1>2, <1>8, <3>1
  <2> QED BY <2>1, <2>2
<1> QED BY <1>8, <1>10, <1>11 DEF CasesOf, reps, more, case

\* What the first m rows make of a table.
Loaded(s, w, t, list, m) ==
  /\ IsSeq(list)
  /\ \A a \in DOMAIN list : /\ list[a] = [of |-> list[a].of, cases |-> list[a].cases]
                            /\ \E c \in Planned : list[a].of = Who(s, c) /\ CasesOf(s, w, t, list[a].cases, c, m)
  /\ \A a \in DOMAIN list : DOMAIN list[a].cases # {}
  /\ \A a, b \in DOMAIN list : list[a].of = list[b].of => a = b
  /\ \A i \in 1..m : Reps(s, t)[i][1] # Baseline => \E a \in DOMAIN list : list[a].of = Who(s, Reps(s, t)[i][1])

\* No row, no aggregation.
LEMMA NothingLoaded == \A s, w, t : Loaded(s, w, t, <<>>, 0)
BY EmptySequence DEF Loaded

\* Find has the only aggregation of an identity, if there is one.
LEMMA FindIsTheOne ==
  ASSUME NEW list, IsSeq(list), \A a, b \in DOMAIN list : list[a].of = list[b].of => a = b, NEW of
  PROVE  /\ Find(list, of) = 0 => \A a \in DOMAIN list : list[a].of # of
         /\ Find(list, of) # 0 => Find(list, of) \in DOMAIN list /\ list[Find(list, of)].of = of
<1> DEFINE found == {a \in DOMAIN list : list[a].of = of}
<1>1. Len(list) \in Nat /\ DOMAIN list = 1..Len(list)
  BY SequenceFacts
<1>2. CASE found = {}
  BY <1>2 DEF Find
<1>3. CASE found # {}
  <2>1. PICK a \in DOMAIN list : list[a].of = of
    BY <1>3
  <2>2. found = {a} /\ a \in Nat /\ a # 0
    BY <1>1, <2>1
  <2>3. \A i \in found : i = a
    BY <2>2
  <2>4. a \in found /\ \A j \in found : a <= j
    BY <2>2
  <2> DEFINE at == CHOOSE i \in found : \A j \in found : i <= j
  <2>5. at \in found
    BY <2>4
  <2>6. Find(list, of) = at
    BY <1>3 DEF Find
  <2> QED BY <2>1, <2>2, <2>3, <2>5, <2>6
<1> QED BY <1>2, <1>3

\* A row of the runtime alone is not among them.
LEMMA LoadedBesides ==
  ASSUME NEW s, NEW w, NEW t, NEW list, NEW m \in Nat, Loaded(s, w, t, list, m),
         Reps(s, t)[m + 1][1] = Baseline
  PROVE  Loaded(s, w, t, list, m + 1)
<1>1. \A i \in 1..(m + 1) : i \in 1..m \/ i = m + 1
  OBVIOUS
<1>2. ASSUME NEW a \in DOMAIN list
      PROVE  \E c \in Planned : list[a].of = Who(s, c) /\ CasesOf(s, w, t, list[a].cases, c, m + 1)
  <2>1. PICK c \in Planned : list[a].of = Who(s, c) /\ CasesOf(s, w, t, list[a].cases, c, m)
    BY DEF Loaded
  <2>2. c # Baseline
    BY CasesAreRecords
  <2> QED BY <2>1, <2>2, CasesOfOthers
<1> QED BY <1>1, <1>2 DEF Loaded

\* A row of a case joins the aggregation of its case.
LEMMA LoadedRow ==
  ASSUME NEW s \in Scenarios, NEW w, NEW t \in Tables, NEW list, NEW m \in Nat, Loaded(s, w, t, list, m),
         m + 1 \in DOMAIN Reps(s, t), Reps(s, t)[m + 1][1] # Baseline
  PROVE  Loaded(s, w, t, AddCase(list, Who(s, Reps(s, t)[m + 1][1]),
                                 MeasuredCase(RowOf(s, w, t, Reps(s, t)[m + 1]))), m + 1)
<1> DEFINE reps == Reps(s, t)
           c == reps[m + 1][1]
           case == MeasuredCase(RowOf(s, w, t, reps[m + 1]))
           at == Find(list, Who(s, c))
           more == AddCase(list, Who(s, c), case)
<1>1. /\ IsSeq(list) /\ Len(list) \in Nat /\ DOMAIN list = 1..Len(list)
      /\ \A a \in DOMAIN list : /\ list[a] = [of |-> list[a].of, cases |-> list[a].cases]
                                /\ \E d \in Planned : list[a].of = Who(s, d)
                                                        /\ CasesOf(s, w, t, list[a].cases, d, m)
      /\ \A a \in DOMAIN list : DOMAIN list[a].cases # {}
      /\ \A a, b \in DOMAIN list : list[a].of = list[b].of => a = b
      /\ \A i \in 1..m : reps[i][1] # Baseline => \E a \in DOMAIN list : list[a].of = Who(s, reps[i][1])
  BY SequenceFacts DEF Loaded
<1>2. c \in Planned /\ \A i \in DOMAIN reps : reps[i][1] \in Planned \cup {Baseline}
  <2>1. \A i \in DOMAIN reps : reps[i][1] \in CasesIn(t)
    BY RepsFacts
  <2> QED BY <2>1, CasesAreRecords DEF CasesIn
<1>3. /\ at = 0 => \A a \in DOMAIN list : list[a].of # Who(s, c)
      /\ at # 0 => at \in DOMAIN list /\ list[at].of = Who(s, c)
  BY <1>1, FindIsTheOne
<1>4. \A i \in 1..(m + 1) : i \in 1..m \/ i = m + 1
  OBVIOUS
<1>5. ASSUME NEW a \in DOMAIN list, list[a].of # Who(s, c)
      PROVE  \E d \in Planned : list[a].of = Who(s, d) /\ CasesOf(s, w, t, list[a].cases, d, m + 1)
  <2>1. PICK d \in Planned : list[a].of = Who(s, d) /\ CasesOf(s, w, t, list[a].cases, d, m)
    BY <1>1
  <2>2. d # c
    BY <1>5, <2>1
  <2> QED BY <2>1, <2>2, CasesOfOthers
<1>6. more = IF at = 0 THEN Append(list, [of |-> Who(s, c), cases |-> <<case>>])
             ELSE [list EXCEPT ![at].cases = Append(@, case)]
  BY DEF AddCase
<1> HIDE DEF reps, at, case, c, more
<1>7. CASE at = 0
  <2> DEFINE new == [of |-> Who(s, c), cases |-> <<case>>]
  <2>1. /\ IsSeq(more) /\ Len(more) = Len(list) + 1 /\ DOMAIN more = 1..(Len(list) + 1)
        /\ \A a \in 1..Len(list) : more[a] = list[a]
        /\ more[Len(list) + 1] = new
    BY <1>1, <1>6, <1>7, AppendedSequence
  <2>2. \A a \in DOMAIN more : a \in 1..Len(list) \/ a = Len(list) + 1
    BY <1>1, <2>1
  <2>3. CasesOf(s, w, t, new.cases, c, m + 1)
    <3>1. m \in 0..Len(Reps(s, t))
      BY RepsFacts, SequenceFacts
    <3>2. \A i \in 1..m : reps[i][1] # c
      <4> SUFFICES ASSUME NEW i \in 1..m, reps[i][1] = c PROVE FALSE
        OBVIOUS
      <4>1. c # Baseline
        BY DEF c, reps
      <4> QED BY <1>1, <1>3, <1>7, <4>1
    <3>3. CasesOf(s, w, t, <<>>, c, m)
      BY <3>2, NoCase DEF reps
    <3>4. CasesOf(s, w, t, Append(<<>>, case), c, m + 1)
      BY <3>3, AnotherCase DEF case, c, reps
    <3>5. Append(<<>>, case) = <<case>>
      OBVIOUS
    <3> QED BY <3>4, <3>5
  <2>8. DOMAIN new.cases # {}
    OBVIOUS
  <2>4. new = [of |-> new.of, cases |-> new.cases] /\ new.of = Who(s, c)
    OBVIOUS
  <2> HIDE DEF new
  <2>5. \A a \in DOMAIN more :
           /\ more[a] = [of |-> more[a].of, cases |-> more[a].cases]
           /\ \E d \in Planned : more[a].of = Who(s, d) /\ CasesOf(s, w, t, more[a].cases, d, m + 1)
    <3> SUFFICES ASSUME NEW a \in DOMAIN more
                 PROVE  /\ more[a] = [of |-> more[a].of, cases |-> more[a].cases]
                        /\ \E d \in Planned : more[a].of = Who(s, d) /\ CasesOf(s, w, t, more[a].cases, d, m + 1)
      OBVIOUS
    <3>1. CASE a \in 1..Len(list)
      <4>1. more[a] = list[a] /\ a \in DOMAIN list
        BY <1>1, <2>1, <3>1
      <4> QED BY <1>1, <1>3, <1>5, <1>7, <4>1
    <3>2. CASE a = Len(list) + 1
      BY <1>2, <2>1, <2>3, <2>4, <3>2
    <3> QED BY <2>2, <3>1, <3>2
  <2>6. ASSUME NEW a \in DOMAIN more, NEW b \in DOMAIN more, more[a].of = more[b].of PROVE a = b
    <3>1. \A e \in 1..Len(list) : more[e].of = list[e].of /\ list[e].of # Who(s, c) /\ e \in DOMAIN list
      BY <1>1, <1>3, <1>7, <2>1
    <3>2. more[Len(list) + 1].of = Who(s, c)
      BY <2>1, <2>4
    <3> QED BY <1>1, <2>2, <2>6, <3>1, <3>2
  <2>7. ASSUME NEW i \in 1..(m + 1), reps[i][1] # Baseline PROVE \E a \in DOMAIN more : more[a].of = Who(s, reps[i][1])
    <3>1. CASE i \in 1..m
      <4>1. PICK a \in DOMAIN list : list[a].of = Who(s, reps[i][1])
        BY <1>1, <2>7, <3>1
      <4>2. a \in DOMAIN more /\ more[a] = list[a]
        BY <1>1, <2>1
      <4> QED BY <4>1, <4>2
    <3>2. CASE i = m + 1
      <4>1. Len(list) + 1 \in DOMAIN more
        BY <1>1, <2>1
      <4> QED BY <2>1, <2>4, <3>2, <4>1 DEF c
    <3> QED BY <1>4, <3>1, <3>2
  <2>9. \A a \in DOMAIN more : DOMAIN more[a].cases # {}
    BY <1>1, <2>1, <2>2, <2>8
  <2> QED BY <2>1, <2>5, <2>6, <2>7, <2>9 DEF Loaded, more, case, c, reps
<1>8. CASE at # 0
  <2> DEFINE new == [of |-> list[at].of, cases |-> Append(list[at].cases, case)]
  <2>1. at \in DOMAIN list /\ list[at].of = Who(s, c)
    BY <1>3, <1>8
  <2>2. more = [list EXCEPT ![at] = new]
    <3>1. list[at] = [of |-> list[at].of, cases |-> list[at].cases]
      BY <1>1, <2>1
    <3>2. [list[at] EXCEPT !.cases = Append(list[at].cases, case)] = new
      <4> DEFINE x == list[at].of
                 y == list[at].cases
                 z == Append(list[at].cases, case)
                 record == list[at]
      <4>1. record = [of |-> x, cases |-> y]
        BY <3>1
      <4> HIDE DEF x, y, z, record
      <4>2. [record EXCEPT !.cases = z] = [of |-> x, cases |-> z]
        BY <4>1
      <4> QED BY <4>2 DEF x, z, record
    <3> HIDE DEF new
    <3>3. more = [list EXCEPT ![at] = [list[at] EXCEPT !.cases = Append(list[at].cases, case)]]
      BY <1>6, <1>8
    <3> QED BY <3>2, <3>3
  <2>3. CasesOf(s, w, t, new.cases, c, m + 1)
    <3>1. PICK d \in Planned : list[at].of = Who(s, d) /\ CasesOf(s, w, t, list[at].cases, d, m)
      BY <1>1, <2>1
    <3>2. d = c
      BY <1>2, <2>1, <3>1, WhoIsOne
    <3>3. CasesOf(s, w, t, Append(list[at].cases, case), c, m + 1)
      BY <3>1, <3>2, AnotherCase DEF case, c, reps
    <3> QED BY <3>3
  <2>9. DOMAIN new.cases # {}
    <3>1. IsSeq(list[at].cases)
      BY <1>1, <2>1 DEF CasesOf
    <3>2. new.cases = Append(list[at].cases, case)
      OBVIOUS
    <3> HIDE DEF new
    <3>3. Len(list[at].cases) + 1 \in DOMAIN new.cases
      BY <3>1, <3>2, AppendedSequence, SequenceFacts
    <3> QED BY <3>3
  <2>4. new = [of |-> new.of, cases |-> new.cases] /\ new.of = Who(s, c)
    BY <2>1
  <2> HIDE DEF new
  <2>5. /\ IsSeq(more) /\ DOMAIN more = DOMAIN list /\ more[at] = new
        /\ \A a \in DOMAIN list : a # at => more[a] = list[a]
    BY <1>1, <2>1, <2>2, ChangedSequence
  <2>6. \A a \in DOMAIN more : more[a].of = list[a].of
    BY <2>1, <2>4, <2>5
  <2>7. \A a \in DOMAIN more :
           /\ more[a] = [of |-> more[a].of, cases |-> more[a].cases]
           /\ \E d \in Planned : more[a].of = Who(s, d) /\ CasesOf(s, w, t, more[a].cases, d, m + 1)
    <3> SUFFICES ASSUME NEW a \in DOMAIN more
                 PROVE  /\ more[a] = [of |-> more[a].of, cases |-> more[a].cases]
                        /\ \E d \in Planned : more[a].of = Who(s, d) /\ CasesOf(s, w, t, more[a].cases, d, m + 1)
      OBVIOUS
    <3>1. CASE a = at
      BY <1>2, <2>3, <2>4, <2>5, <3>1
    <3>2. CASE a # at
      <4>1. more[a] = list[a] /\ a \in DOMAIN list
        BY <2>5, <3>2
      <4>2. list[a].of # Who(s, c)
        BY <1>1, <2>1, <3>2, <4>1
      <4> QED BY <1>1, <1>5, <4>1, <4>2
    <3> QED BY <3>1, <3>2
  <2>8. ASSUME NEW i \in 1..(m + 1), reps[i][1] # Baseline PROVE \E a \in DOMAIN more : more[a].of = Who(s, reps[i][1])
    <3>1. CASE i \in 1..m
      BY <1>1, <2>5, <2>6, <2>8, <3>1
    <3>2. CASE i = m + 1
      BY <2>1, <2>5, <2>6, <3>2 DEF c
    <3> QED BY <1>4, <3>1, <3>2
  <2>10. \A a \in DOMAIN more : DOMAIN more[a].cases # {}
    BY <1>1, <2>5, <2>9
  <2> QED BY <1>1, <2>5, <2>6, <2>7, <2>8, <2>10 DEF Loaded, more, case, c, reps
<1> QED BY <1>7, <1>8

----------------------------------------------------------------------------
(* load_summary.py: another row of energy.csv, of which two make the case of a window. *)

WindowAt(s, heard, b) == Listening(s)[heard[b]]
SamplesOf(window) == <<Sample(window, 1), Sample(window, 2)>>

CaseOfWindow(s, w, heard, b, m) ==
  [run |-> WindowAt(s, heard, b)[2], throttled |-> Marked(w, "energy", WindowAt(s, heard, b)),
   samples |-> IF 2 * b <= m THEN SamplesOf(WindowAt(s, heard, b)) ELSE <<Sample(WindowAt(s, heard, b), 1)>>]

Begun(s, heard, c, m) == {b \in DOMAIN heard : 2 * b - 1 <= m /\ WindowAt(s, heard, b)[1] = c}

WindowsOf(s, w, heard, cases, c, m) ==
  /\ IsSeq(cases)
  /\ \A e \in DOMAIN cases : \E b \in Begun(s, heard, c, m) : cases[e] = CaseOfWindow(s, w, heard, b, m)
  /\ \A e, f \in DOMAIN cases : e < f => cases[e].run < cases[f].run
  /\ \A b \in Begun(s, heard, c, m) : \E e \in DOMAIN cases : cases[e] = CaseOfWindow(s, w, heard, b, m)

\* A case of which no window has been loaded.
LEMMA NoWindow ==
  ASSUME NEW s, NEW w, NEW heard, NEW c, NEW m, Begun(s, heard, c, m) = {}
  PROVE  WindowsOf(s, w, heard, <<>>, c, m)
BY EmptySequence DEF WindowsOf

\* What is known of the windows that were heard.
LEMMA HeardFacts ==
  ASSUME NEW s \in Scenarios, NEW w, NEW heard, NEW n \in 0..Len(Listening(s)), IsHeard(s, w, heard, n)
  PROVE  /\ Len(heard) \in Nat /\ DOMAIN heard = 1..Len(heard) /\ Len(RowsOf(s, w, heard)) = 2 * Len(heard)
         /\ \A b \in DOMAIN heard :
              /\ heard[b] \in DOMAIN Listening(s) /\ heard[b] \in Nat
              /\ WindowAt(s, heard, b) \notin w.silent
              /\ WindowAt(s, heard, b) = <<WindowAt(s, heard, b)[1], WindowAt(s, heard, b)[2]>>
              /\ WindowAt(s, heard, b)[1] \in Planned \cup {Idle} /\ WindowAt(s, heard, b)[2] \in 1..Runs
              /\ WindowAt(s, heard, b)[2] \in Nat
         /\ \A b, d \in DOMAIN heard :
              b < d /\ WindowAt(s, heard, b)[1] = WindowAt(s, heard, d)[1]
                => WindowAt(s, heard, b)[2] < WindowAt(s, heard, d)[2]
<1>1. /\ IsSeq(heard)
      /\ \A b \in DOMAIN heard : heard[b] \in 1..n /\ Listening(s)[heard[b]] \notin w.silent
      /\ \A b, d \in DOMAIN heard : b < d => heard[b] < heard[d]
  BY DEF IsHeard
<1>2. Len(Listening(s)) \in Nat /\ DOMAIN Listening(s) = 1..Len(Listening(s)) /\ n <= Len(Listening(s))
  BY ListeningFacts, SequenceFacts
<1>3. \A b \in DOMAIN heard : heard[b] \in DOMAIN Listening(s) /\ heard[b] \in Nat
  BY <1>1, <1>2
<1>4. /\ \A k \in DOMAIN Listening(s) :
           /\ Listening(s)[k] = <<Listening(s)[k][1], Listening(s)[k][2]>>
           /\ Listening(s)[k][1] \in Planned \cup {Idle} /\ Listening(s)[k][2] \in 1..Runs
      /\ \A i, j \in DOMAIN Listening(s) :
           i < j /\ Listening(s)[i][1] = Listening(s)[j][1] => Listening(s)[i][2] < Listening(s)[j][2]
  BY ListeningFacts DEF Ordered
<1>5. \A b \in DOMAIN heard : WindowAt(s, heard, b) = Listening(s)[heard[b]]
  BY DEF WindowAt
<1>6. \A r \in 1..Runs : r \in Nat
  BY MicroReportsAssumption
<1>7. Len(heard) \in Nat /\ DOMAIN heard = 1..Len(heard) /\ Len(RowsOf(s, w, heard)) = 2 * Len(heard)
  BY <1>1, SequenceFacts, RowsOfHeard
<1>8. ASSUME NEW b \in DOMAIN heard
      PROVE  /\ heard[b] \in DOMAIN Listening(s) /\ heard[b] \in Nat
             /\ WindowAt(s, heard, b) \notin w.silent
             /\ WindowAt(s, heard, b) = <<WindowAt(s, heard, b)[1], WindowAt(s, heard, b)[2]>>
             /\ WindowAt(s, heard, b)[1] \in Planned \cup {Idle} /\ WindowAt(s, heard, b)[2] \in 1..Runs
             /\ WindowAt(s, heard, b)[2] \in Nat
  <2>1. heard[b] \in DOMAIN Listening(s) /\ WindowAt(s, heard, b) = Listening(s)[heard[b]]
    BY <1>3, <1>5
  <2>2. WindowAt(s, heard, b)[2] \in 1..Runs
    BY <1>4, <2>1
  <2> QED BY <1>1, <1>3, <1>4, <1>6, <2>1, <2>2
<1>9. ASSUME NEW b \in DOMAIN heard, NEW d \in DOMAIN heard, b < d,
             WindowAt(s, heard, b)[1] = WindowAt(s, heard, d)[1]
      PROVE  WindowAt(s, heard, b)[2] < WindowAt(s, heard, d)[2]
  <2>1. /\ heard[b] < heard[d] /\ heard[b] \in DOMAIN Listening(s) /\ heard[d] \in DOMAIN Listening(s)
        /\ WindowAt(s, heard, b) = Listening(s)[heard[b]] /\ WindowAt(s, heard, d) = Listening(s)[heard[d]]
    BY <1>1, <1>3, <1>5, <1>9
  <2> QED BY <1>4, <1>9, <2>1
<1> QED BY <1>7, <1>8, <1>9

\* The repetition that a case of windows is, and whether it is marked.
LEMMA CaseFields ==
  ASSUME NEW s, NEW w, NEW heard, NEW b, NEW m
  PROVE  /\ CaseOfWindow(s, w, heard, b, m).run = WindowAt(s, heard, b)[2]
         /\ CaseOfWindow(s, w, heard, b, m).throttled = Marked(w, "energy", WindowAt(s, heard, b))
BY DEF CaseOfWindow

\* Its readings: one after the first row, both after the second.
LEMMA CaseSamples ==
  ASSUME NEW s, NEW w, NEW heard, NEW b, NEW m
  PROVE  /\ 2 * b <= m => CaseOfWindow(s, w, heard, b, m).samples = SamplesOf(WindowAt(s, heard, b))
         /\ ~(2 * b <= m) => CaseOfWindow(s, w, heard, b, m).samples = <<Sample(WindowAt(s, heard, b), 1)>>
BY DEF CaseOfWindow

\* A row says nothing of the windows before and after its own.
LEMMA OtherWindow ==
  ASSUME NEW s, NEW w, NEW heard, NEW m \in Nat, NEW b \in Nat \ {0}, b # BlockOf(m + 1, 2)
  PROVE  /\ 2 * b - 1 <= m + 1 <=> 2 * b - 1 <= m
         /\ CaseOfWindow(s, w, heard, b, m + 1) = CaseOfWindow(s, w, heard, b, m)
<1>1. 2 * b <= m + 1 <=> 2 * b <= m
  BY DEF BlockOf
<1>2. 2 * b - 1 <= m + 1 <=> 2 * b - 1 <= m
  BY DEF BlockOf
<1> QED BY <1>1, <1>2 DEF CaseOfWindow

\* A row of another case leaves the windows alone.
LEMMA WindowsOfOthers ==
  ASSUME NEW s \in Scenarios, NEW w, NEW heard, NEW n \in 0..Len(Listening(s)), IsHeard(s, w, heard, n),
         NEW m \in Nat, NEW cases, NEW c, WindowsOf(s, w, heard, cases, c, m),
         WindowAt(s, heard, BlockOf(m + 1, 2))[1] # c
  PROVE  WindowsOf(s, w, heard, cases, c, m + 1)
<1>1. DOMAIN heard = 1..Len(heard) /\ Len(heard) \in Nat
  BY HeardFacts
<1>2. ASSUME NEW b \in DOMAIN heard, WindowAt(s, heard, b)[1] = c
      PROVE  /\ b \in Begun(s, heard, c, m + 1) <=> b \in Begun(s, heard, c, m)
             /\ CaseOfWindow(s, w, heard, b, m + 1) = CaseOfWindow(s, w, heard, b, m)
  <2>1. b \in Nat \ {0} /\ b # BlockOf(m + 1, 2)
    BY <1>1, <1>2
  <2> QED BY <2>1, OtherWindow DEF Begun
<1>3. \A b \in Begun(s, heard, c, m) \cup Begun(s, heard, c, m + 1) :
        b \in DOMAIN heard /\ WindowAt(s, heard, b)[1] = c
  BY DEF Begun
<1>4. Begun(s, heard, c, m + 1) = Begun(s, heard, c, m)
  <2>1. \A b : b \in Begun(s, heard, c, m + 1) => b \in Begun(s, heard, c, m)
    BY <1>2, <1>3
  <2>2. \A b : b \in Begun(s, heard, c, m) => b \in Begun(s, heard, c, m + 1)
    BY <1>2, <1>3
  <2> QED BY <2>1, <2>2
<1>5. \A b \in Begun(s, heard, c, m) : CaseOfWindow(s, w, heard, b, m + 1) = CaseOfWindow(s, w, heard, b, m)
  BY <1>2, <1>3
<1> QED BY <1>4, <1>5 DEF WindowsOf

\* The first row of a window begins a case, behind those of its earlier windows.
LEMMA FirstSample ==
  ASSUME NEW s \in Scenarios, NEW w, NEW heard, NEW n \in 0..Len(Listening(s)), IsHeard(s, w, heard, n),
         NEW b \in DOMAIN heard, NEW cases, WindowsOf(s, w, heard, cases, WindowAt(s, heard, b)[1], 2 * b - 2)
  PROVE  WindowsOf(s, w, heard, AddSample(cases, SampleRow(s, w, WindowAt(s, heard, b), 1)),
                   WindowAt(s, heard, b)[1], 2 * b - 1)
<1> DEFINE window == WindowAt(s, heard, b)
           c == window[1]
           m == 2 * b - 2
           row == SampleRow(s, w, window, 1)
           new == [run |-> row.run, throttled |-> row.throttled, samples |-> <<row.sample>>]
           more == Append(cases, new)
           found == {e \in DOMAIN cases : cases[e].run = row.run}
<1>1. /\ Len(heard) \in Nat /\ DOMAIN heard = 1..Len(heard) /\ b \in 1..Len(heard)
      /\ \A d \in DOMAIN heard : WindowAt(s, heard, d)[2] \in Nat
      /\ \A d, e \in DOMAIN heard : d < e /\ WindowAt(s, heard, d)[1] = WindowAt(s, heard, e)[1]
                                      => WindowAt(s, heard, d)[2] < WindowAt(s, heard, e)[2]
  BY HeardFacts
<1>2. /\ IsSeq(cases) /\ Len(cases) \in Nat /\ DOMAIN cases = 1..Len(cases)
      /\ \A e \in DOMAIN cases : \E d \in Begun(s, heard, c, m) : cases[e] = CaseOfWindow(s, w, heard, d, m)
      /\ \A e, f \in DOMAIN cases : e < f => cases[e].run < cases[f].run
      /\ \A d \in Begun(s, heard, c, m) : \E e \in DOMAIN cases : cases[e] = CaseOfWindow(s, w, heard, d, m)
  BY SequenceFacts DEF WindowsOf
<1>3. \A d \in Begun(s, heard, c, m) : d \in DOMAIN heard /\ d < b /\ WindowAt(s, heard, d)[1] = c
  BY <1>1 DEF Begun
<1>4. row.run = window[2] /\ row.throttled = Marked(w, "energy", window) /\ row.sample = Sample(window, 1)
  BY DEF SampleRow
<1> HIDE DEF row, m
<1>5. \A e \in DOMAIN cases : cases[e].run < row.run /\ cases[e].run # row.run
  <2> SUFFICES ASSUME NEW e \in DOMAIN cases PROVE cases[e].run < row.run /\ cases[e].run # row.run
    OBVIOUS
  <2>1. PICK d \in Begun(s, heard, c, m) : cases[e] = CaseOfWindow(s, w, heard, d, m)
    BY <1>2
  <2>2. d \in DOMAIN heard /\ d < b /\ WindowAt(s, heard, d)[1] = WindowAt(s, heard, b)[1]
    BY <1>3, <2>1
  <2>3. WindowAt(s, heard, d)[2] < WindowAt(s, heard, b)[2]
    BY <1>1, <2>2
  <2>4. CaseOfWindow(s, w, heard, d, m).run = WindowAt(s, heard, d)[2]
    BY CaseFields
  <2>5. WindowAt(s, heard, d)[2] \in Nat /\ WindowAt(s, heard, b)[2] \in Nat
    BY <1>1, <2>2
  <2> QED BY <1>4, <2>1, <2>3, <2>4, <2>5
<1>6. AddSample(cases, row) = more
  <2>1. found = {}
    BY <1>5
  <2> QED BY <2>1 DEF AddSample
<1>7. new = CaseOfWindow(s, w, heard, b, m + 1)
  <2>1. ~(2 * b <= m + 1)
    BY <1>1 DEF m
  <2> QED BY <1>4, <2>1 DEF CaseOfWindow
<1>8. new.run = row.run
  OBVIOUS
<1> HIDE DEF new
<1>9. /\ IsSeq(more) /\ DOMAIN more = 1..(Len(cases) + 1)
      /\ \A e \in 1..Len(cases) : more[e] = cases[e]
      /\ more[Len(cases) + 1] = new
  BY <1>2, AppendedSequence
<1> HIDE DEF more
<1>10. m \in Nat /\ m + 1 = 2 * b - 1 /\ BlockOf(m + 1, 2) = b
  <2>1. b \in Int /\ 1 <= b
    BY <1>1
  <2>2. m \in Nat /\ m + 1 = 2 * b - 1
    BY <2>1 DEF m
  <2>3. ((2 * b - 1) - 1) \div 2 = b - 1
    BY <2>1
  <2> QED BY <2>1, <2>2, <2>3 DEF BlockOf
<1>11. Begun(s, heard, c, m + 1) = Begun(s, heard, c, m) \cup {b}
  BY <1>1, <1>10 DEF Begun
<1>12. \A d \in Begun(s, heard, c, m) : CaseOfWindow(s, w, heard, d, m + 1) = CaseOfWindow(s, w, heard, d, m)
  <2> SUFFICES ASSUME NEW d \in Begun(s, heard, c, m)
               PROVE  CaseOfWindow(s, w, heard, d, m + 1) = CaseOfWindow(s, w, heard, d, m)
    OBVIOUS
  <2>1. d \in Nat \ {0} /\ d # BlockOf(m + 1, 2)
    BY <1>1, <1>3, <1>10
  <2> QED BY <1>10, <2>1, OtherWindow
<1>13. \A e \in DOMAIN more : e \in 1..Len(cases) \/ e = Len(cases) + 1
  BY <1>2, <1>9
<1>14. \A e \in 1..Len(cases) : e \in DOMAIN more
  BY <1>2, <1>9
<1>15. ASSUME NEW e \in DOMAIN more
       PROVE  \E d \in Begun(s, heard, c, m + 1) : more[e] = CaseOfWindow(s, w, heard, d, m + 1)
  <2>1. CASE e \in 1..Len(cases)
    BY <1>2, <1>9, <1>11, <1>12, <2>1
  <2>2. CASE e = Len(cases) + 1
    BY <1>7, <1>9, <1>11, <2>2
  <2> QED BY <1>13, <2>1, <2>2
<1>16. ASSUME NEW e \in DOMAIN more, NEW f \in DOMAIN more, e < f PROVE more[e].run < more[f].run
  <2>1. e \in 1..Len(cases)
    BY <1>2, <1>9, <1>16
  <2>2. CASE f \in 1..Len(cases)
    BY <1>2, <1>9, <1>16, <2>1, <2>2
  <2>3. CASE f = Len(cases) + 1
    BY <1>2, <1>5, <1>8, <1>9, <2>1, <2>3
  <2> QED BY <1>13, <2>2, <2>3
<1>17. ASSUME NEW d \in Begun(s, heard, c, m + 1)
       PROVE  \E e \in DOMAIN more : more[e] = CaseOfWindow(s, w, heard, d, m + 1)
  <2>1. CASE d = b
    <3>1. Len(cases) + 1 \in DOMAIN more
      BY <1>2, <1>9
    <3> QED BY <1>7, <1>9, <2>1, <3>1
  <2>2. CASE d \in Begun(s, heard, c, m)
    <3>1. PICK e \in DOMAIN cases : cases[e] = CaseOfWindow(s, w, heard, d, m)
      BY <1>2, <2>2
    <3>2. e \in DOMAIN more /\ more[e] = cases[e]
      BY <1>2, <1>9, <1>14
    <3> QED BY <1>12, <2>2, <3>1, <3>2
  <2> QED BY <1>11, <2>1, <2>2
<1>18. WindowsOf(s, w, heard, more, c, m + 1)
  BY <1>9, <1>15, <1>16, <1>17 DEF WindowsOf
<1> QED BY <1>6, <1>10, <1>18 DEF row

\* One and one more.
LEMMA TwoInAll == \A x, y : Append(<<x>>, y) = <<x, y>>
<1> SUFFICES ASSUME NEW x, NEW y PROVE Append(<<x>>, y) = <<x, y>>
  OBVIOUS
<1>1. <<x>> \in Seq({x, y}) /\ y \in {x, y} /\ Len(<<x>>) = 1
  OBVIOUS
<1>2. IsSeq(<<x>>)
  BY <1>1, IsSequence
<1>3. /\ IsSeq(Append(<<x>>, y)) /\ Len(Append(<<x>>, y)) = 2
      /\ Append(<<x>>, y)[1] = x /\ Append(<<x>>, y)[2] = y
  <2>1. 1 \in 1..Len(<<x>>) /\ <<x>>[1] = x
    OBVIOUS
  <2> QED BY <1>1, <1>2, <2>1, AppendedSequence
<1>4. Append(<<x>>, y) = [i \in 1..2 |-> Append(<<x>>, y)[i]]
  BY <1>3, SequenceFacts
<1>5. <<x, y>> = [i \in 1..2 |-> IF i = 1 THEN x ELSE y]
  OBVIOUS
<1> DEFINE z == Append(<<x>>, y)
<1> HIDE DEF z
<1>6. z = [i \in 1..2 |-> z[i]] /\ z[1] = x /\ z[2] = y
  BY <1>3, <1>4 DEF z
<1>7. z = <<x, y>>
  BY <1>5, <1>6
<1> QED BY <1>7 DEF z

\* The second joins the case that the first began.
LEMMA SecondSample ==
  ASSUME NEW s \in Scenarios, NEW w, NEW heard, NEW n \in 0..Len(Listening(s)), IsHeard(s, w, heard, n),
         NEW b \in DOMAIN heard, NEW cases, WindowsOf(s, w, heard, cases, WindowAt(s, heard, b)[1], 2 * b - 1)
  PROVE  WindowsOf(s, w, heard, AddSample(cases, SampleRow(s, w, WindowAt(s, heard, b), 2)),
                   WindowAt(s, heard, b)[1], 2 * b)
<1> DEFINE window == WindowAt(s, heard, b)
           c == window[1]
           m == 2 * b - 1
           row == SampleRow(s, w, window, 2)
           found == {e \in DOMAIN cases : cases[e].run = row.run}
<1>1. /\ Len(heard) \in Nat /\ DOMAIN heard = 1..Len(heard) /\ b \in 1..Len(heard)
      /\ \A d \in DOMAIN heard : WindowAt(s, heard, d)[2] \in Nat
      /\ \A d, e \in DOMAIN heard : d < e /\ WindowAt(s, heard, d)[1] = WindowAt(s, heard, e)[1]
                                      => WindowAt(s, heard, d)[2] < WindowAt(s, heard, e)[2]
  BY HeardFacts
<1>2. /\ IsSeq(cases) /\ Len(cases) \in Nat /\ DOMAIN cases = 1..Len(cases)
      /\ \A e \in DOMAIN cases : \E d \in Begun(s, heard, c, m) : cases[e] = CaseOfWindow(s, w, heard, d, m)
      /\ \A e, f \in DOMAIN cases : e < f => cases[e].run < cases[f].run
      /\ \A d \in Begun(s, heard, c, m) : \E e \in DOMAIN cases : cases[e] = CaseOfWindow(s, w, heard, d, m)
  BY SequenceFacts DEF WindowsOf
<1>3. \A d \in Begun(s, heard, c, m) : d \in DOMAIN heard /\ d <= b /\ WindowAt(s, heard, d)[1] = c
  BY <1>1 DEF Begun
<1>4. row.run = window[2] /\ row.sample = Sample(window, 2)
  BY DEF SampleRow
<1>5. b \in Begun(s, heard, c, m)
  BY <1>1 DEF Begun
<1>6. PICK at \in DOMAIN cases : cases[at] = CaseOfWindow(s, w, heard, b, m)
  BY <1>2, <1>5
<1>7. cases[at].run = row.run
  <2>1. CaseOfWindow(s, w, heard, b, m).run = window[2]
    BY CaseFields
  <2> HIDE DEF row
  <2> QED BY <1>4, <1>6, <2>1
<1> DEFINE changed == [cases[at] EXCEPT !.samples = Append(@, row.sample)]
           more == [cases EXCEPT ![at] = changed]
<1>8. changed = CaseOfWindow(s, w, heard, b, m + 1)
  <2>1. 2 * b <= m + 1 /\ ~(2 * b <= m)
    BY <1>1
  <2>2. CaseOfWindow(s, w, heard, b, m + 1)
          = [run |-> window[2], throttled |-> Marked(w, "energy", window), samples |-> SamplesOf(window)]
    BY <2>1 DEF CaseOfWindow
  <2>3. cases[at] = [run |-> window[2], throttled |-> Marked(w, "energy", window), samples |-> <<Sample(window, 1)>>]
    BY <1>6, <2>1 DEF CaseOfWindow
  <2>4. Append(<<Sample(window, 1)>>, row.sample) = SamplesOf(window)
    <3> HIDE DEF row
    <3> QED BY <1>4, TwoInAll DEF SamplesOf
  <2> DEFINE case == cases[at]
             one == <<Sample(window, 1)>>
             r == window[2]
             mark == Marked(w, "energy", window)
             sample == row.sample
             all == SamplesOf(window)
  <2> HIDE DEF case, one, r, mark, sample, all
  <2>5. case = [run |-> r, throttled |-> mark, samples |-> one] /\ Append(one, sample) = all
    BY <2>3, <2>4 DEF case, one, r, mark, sample, all
  <2> DEFINE longer == Append(case.samples, sample)
  <2>6. longer = all
    BY <2>5
  <2> HIDE DEF longer
  <2>7. [case EXCEPT !.samples = longer] = [run |-> r, throttled |-> mark, samples |-> all]
    BY <2>5, <2>6
  <2> QED BY <2>2, <2>7 DEF case, r, mark, sample, all, longer
<1> HIDE DEF row, m, changed
<1>19. \A d : /\ CaseOfWindow(s, w, heard, d, m).run = WindowAt(s, heard, d)[2]
              /\ CaseOfWindow(s, w, heard, d, m + 1).run = WindowAt(s, heard, d)[2]
  BY DEF CaseOfWindow
<1>9. AddSample(cases, row) = more
  <2>1. \A e \in DOMAIN cases : cases[e].run \in Nat
    <3> SUFFICES ASSUME NEW e \in DOMAIN cases PROVE cases[e].run \in Nat
      OBVIOUS
    <3>1. PICK d \in Begun(s, heard, c, m) : cases[e] = CaseOfWindow(s, w, heard, d, m)
      BY <1>2
    <3> QED BY <1>1, <1>3, <3>1, <1>19
  <2>2. \A e \in DOMAIN cases : cases[e].run = row.run => e = at
    <3> SUFFICES ASSUME NEW e \in DOMAIN cases, cases[e].run = row.run PROVE e = at
      OBVIOUS
    <3>1. e \in Int /\ at \in Int /\ cases[e].run = cases[at].run /\ cases[e].run \in Nat
      BY <1>2, <1>7, <2>1
    <3> QED BY <1>2, <3>1
  <2>3. found = {at}
    BY <1>7, <2>2
  <2>4. (CHOOSE e \in found : TRUE) = at
    BY <2>3
  <2>5. AddSample(cases, row) = [cases EXCEPT ![CHOOSE e \in found : TRUE].samples = Append(@, row.sample)]
    BY <2>3 DEF AddSample
  <2> HIDE DEF found
  <2> QED BY <2>4, <2>5 DEF changed
<1>10. IsSeq(more) /\ DOMAIN more = DOMAIN cases /\ more[at] = changed
         /\ \A e \in DOMAIN cases : e # at => more[e] = cases[e]
  BY <1>2, ChangedSequence
<1> HIDE DEF more
<1>11. m \in Nat /\ m + 1 = 2 * b /\ BlockOf(m + 1, 2) = b
  BY <1>1 DEF m, BlockOf
<1>12. Begun(s, heard, c, m + 1) = Begun(s, heard, c, m)
  BY <1>1, <1>11 DEF Begun
<1>13. \A d \in Begun(s, heard, c, m) :
         d # b => CaseOfWindow(s, w, heard, d, m + 1) = CaseOfWindow(s, w, heard, d, m)
  <2> SUFFICES ASSUME NEW d \in Begun(s, heard, c, m), d # b
               PROVE  CaseOfWindow(s, w, heard, d, m + 1) = CaseOfWindow(s, w, heard, d, m)
    OBVIOUS
  <2>1. d \in Nat \ {0} /\ d # BlockOf(m + 1, 2)
    BY <1>1, <1>3, <1>11
  <2> QED BY <1>11, <2>1, OtherWindow
<1>14. \A e \in DOMAIN cases : more[e].run = cases[e].run
  BY <1>6, <1>8, <1>10, <1>19
<1>15. ASSUME NEW e \in DOMAIN more
       PROVE  \E d \in Begun(s, heard, c, m + 1) : more[e] = CaseOfWindow(s, w, heard, d, m + 1)
  <2>1. CASE e = at
    BY <1>5, <1>8, <1>10, <1>12, <2>1
  <2>2. CASE e # at
    <3>1. PICK d \in Begun(s, heard, c, m) : cases[e] = CaseOfWindow(s, w, heard, d, m)
      BY <1>2, <1>10
    <3>2. d # b
      <4> SUFFICES ASSUME d = b PROVE FALSE
        OBVIOUS
      <4>1. cases[e].run = cases[at].run /\ cases[e].run \in Nat
        BY <1>1, <1>3, <1>6, <3>1, <1>19
      <4>2. e \in Int /\ at \in Int
        BY <1>2, <1>10
      <4> QED BY <1>2, <1>10, <2>2, <4>1, <4>2
    <3> QED BY <1>10, <1>12, <1>13, <2>2, <3>1, <3>2
  <2> QED BY <2>1, <2>2
<1>16. ASSUME NEW e \in DOMAIN more, NEW f \in DOMAIN more, e < f PROVE more[e].run < more[f].run
  BY <1>2, <1>10, <1>14, <1>16
<1>17. ASSUME NEW d \in Begun(s, heard, c, m + 1)
       PROVE  \E e \in DOMAIN more : more[e] = CaseOfWindow(s, w, heard, d, m + 1)
  <2>1. CASE d = b
    BY <1>8, <1>10, <2>1
  <2>2. CASE d # b
    <3>1. PICK e \in DOMAIN cases : cases[e] = CaseOfWindow(s, w, heard, d, m)
      BY <1>2, <1>12
    <3>2. e # at
      <4> SUFFICES ASSUME e = at PROVE FALSE
        OBVIOUS
      <4>1. WindowAt(s, heard, d)[2] = WindowAt(s, heard, b)[2]
        <5>1. CaseOfWindow(s, w, heard, d, m).run = CaseOfWindow(s, w, heard, b, m).run
          BY <1>6, <3>1
        <5> QED BY <1>19, <5>1
      <4>2. d \in DOMAIN heard /\ WindowAt(s, heard, d)[1] = WindowAt(s, heard, b)[1] /\ d \in Int /\ b \in Int
        BY <1>1, <1>3, <1>12
      <4> QED BY <1>1, <2>2, <4>1, <4>2
    <3> QED BY <1>10, <1>12, <1>13, <2>2, <3>1, <3>2
  <2> QED BY <2>1, <2>2
<1>18. WindowsOf(s, w, heard, more, c, m + 1)
  BY <1>10, <1>15, <1>16, <1>17 DEF WindowsOf
<1> QED BY <1>9, <1>11, <1>18 DEF row

\* A row joins the window of its repetition, or begins one.
LEMMA AnotherSample ==
  ASSUME NEW s \in Scenarios, NEW w, NEW heard, NEW n \in 0..Len(Listening(s)), IsHeard(s, w, heard, n),
         NEW m \in Nat, m + 1 \in 1..(2 * Len(heard)), NEW cases,
         WindowsOf(s, w, heard, cases, WindowAt(s, heard, BlockOf(m + 1, 2))[1], m)
  PROVE  WindowsOf(s, w, heard,
                   AddSample(cases, SampleRow(s, w, WindowAt(s, heard, BlockOf(m + 1, 2)), PlaceOf(m + 1, 2))),
                   WindowAt(s, heard, BlockOf(m + 1, 2))[1], m + 1)
<1> DEFINE b == BlockOf(m + 1, 2)
           half == PlaceOf(m + 1, 2)
<1>1. Len(heard) \in Nat /\ DOMAIN heard = 1..Len(heard)
  BY HeardFacts
<1>2. b \in DOMAIN heard /\ b \in Int /\ half \in {1, 2} /\ m + 1 = 2 * (b - 1) + half
  BY <1>1, HalvesOfABlock
<1> HIDE DEF b, half
<1>3. CASE half = 1
  <2>1. m = 2 * b - 2 /\ m + 1 = 2 * b - 1
    BY <1>2, <1>3
  <2> QED BY <1>2, <1>3, <2>1, FirstSample DEF b, half
<1>4. CASE half = 2
  <2>1. m = 2 * b - 1 /\ m + 1 = 2 * b
    BY <1>2, <1>4
  <2> QED BY <1>2, <1>4, <2>1, SecondSample DEF b, half
<1> QED BY <1>2, <1>3, <1>4

\* What the first m rows make of the windows of the workloads.
LoadedWindows(s, w, heard, list, m) ==
  /\ IsSeq(list)
  /\ \A a \in DOMAIN list : /\ list[a] = [of |-> list[a].of, cases |-> list[a].cases]
                            /\ \E c \in Planned : list[a].of = Who(s, c)
                                                    /\ WindowsOf(s, w, heard, list[a].cases, c, m)
  /\ \A a \in DOMAIN list : DOMAIN list[a].cases # {}
  /\ \A a, b \in DOMAIN list : list[a].of = list[b].of => a = b
  /\ \A c \in Planned : Begun(s, heard, c, m) # {} => \E a \in DOMAIN list : list[a].of = Who(s, c)

\* No row, no window.
LEMMA NoWindowsLoaded ==
  ASSUME NEW s \in Scenarios, NEW w, NEW heard, NEW n \in 0..Len(Listening(s)), IsHeard(s, w, heard, n)
  PROVE  LoadedWindows(s, w, heard, <<>>, 0) /\ WindowsOf(s, w, heard, <<>>, Idle, 0)
<1>1. DOMAIN heard = 1..Len(heard) /\ Len(heard) \in Nat
  BY HeardFacts
<1>2. \A c : Begun(s, heard, c, 0) = {}
  BY <1>1 DEF Begun
<1> QED BY <1>2, EmptySequence, NoWindow DEF LoadedWindows

\* Only the case of the row's window is one that the row may begin.
LEMMA BegunByARow ==
  ASSUME NEW s \in Scenarios, NEW w, NEW heard, NEW n \in 0..Len(Listening(s)), IsHeard(s, w, heard, n),
         NEW m \in Nat, NEW c, WindowAt(s, heard, BlockOf(m + 1, 2))[1] # c
  PROVE  Begun(s, heard, c, m + 1) = Begun(s, heard, c, m)
<1>1. DOMAIN heard = 1..Len(heard) /\ Len(heard) \in Nat
  BY HeardFacts
<1>2. ASSUME NEW b \in DOMAIN heard, WindowAt(s, heard, b)[1] = c
      PROVE  2 * b - 1 <= m + 1 <=> 2 * b - 1 <= m
  <2>1. b \in Nat \ {0} /\ b # BlockOf(m + 1, 2)
    BY <1>1, <1>2
  <2> QED BY <2>1, OtherWindow
<1> QED BY <1>2 DEF Begun

\* A row of the idle device leaves the aggregations alone.
LEMMA LoadedIdle ==
  ASSUME NEW s \in Scenarios, NEW w, NEW heard, NEW n \in 0..Len(Listening(s)), IsHeard(s, w, heard, n),
         NEW m \in Nat, NEW list, LoadedWindows(s, w, heard, list, m),
         WindowAt(s, heard, BlockOf(m + 1, 2))[1] = Idle
  PROVE  LoadedWindows(s, w, heard, list, m + 1)
<1>1. \A c \in Planned : c # Idle
  BY NothingElseIsPlanned
<1>2. ASSUME NEW a \in DOMAIN list
      PROVE  \E c \in Planned : list[a].of = Who(s, c) /\ WindowsOf(s, w, heard, list[a].cases, c, m + 1)
  <2>1. PICK c \in Planned : list[a].of = Who(s, c) /\ WindowsOf(s, w, heard, list[a].cases, c, m)
    BY DEF LoadedWindows
  <2> QED BY <1>1, <2>1, WindowsOfOthers
<1>3. \A c \in Planned : Begun(s, heard, c, m + 1) = Begun(s, heard, c, m)
  BY <1>1, BegunByARow
<1> QED BY <1>2, <1>3 DEF LoadedWindows

\* After AddSample there is a case.
LEMMA SampleIsAdded ==
  ASSUME NEW cases, IsSeq(cases), NEW row
  PROVE  DOMAIN AddSample(cases, row) # {}
<1> DEFINE found == {i \in DOMAIN cases : cases[i].run = row.run}
<1>1. CASE found = {}
  <2> DEFINE case == [run |-> row.run, throttled |-> row.throttled, samples |-> <<row.sample>>]
  <2>1. AddSample(cases, row) = Append(cases, case)
    BY <1>1 DEF AddSample
  <2> HIDE DEF case
  <2>2. DOMAIN Append(cases, case) = 1..(Len(cases) + 1) /\ Len(cases) \in Nat
    BY AppendedSequence, SequenceFacts
  <2>3. Len(cases) + 1 \in DOMAIN Append(cases, case)
    BY <2>2
  <2> QED BY <2>1, <2>3
<1>2. CASE found # {}
  <2>1. DOMAIN AddSample(cases, row) = DOMAIN cases
    BY <1>2 DEF AddSample
  <2> QED BY <1>2, <2>1
<1> QED BY <1>1, <1>2

\* A row of a workload joins the aggregation of its case.
LEMMA LoadedWorkload ==
  ASSUME NEW s \in Scenarios, NEW w, NEW heard, NEW n \in 0..Len(Listening(s)), IsHeard(s, w, heard, n),
         NEW m \in Nat, m + 1 \in 1..(2 * Len(heard)), NEW list, LoadedWindows(s, w, heard, list, m),
         WindowAt(s, heard, BlockOf(m + 1, 2))[1] # Idle
  PROVE  LET window == WindowAt(s, heard, BlockOf(m + 1, 2))
             row == SampleRow(s, w, window, PlaceOf(m + 1, 2))
             at == Find(list, Who(s, window[1]))
         IN LoadedWindows(s, w, heard,
                          IF at = 0 THEN Append(list, [of |-> Who(s, window[1]), cases |-> AddSample(<<>>, row)])
                          ELSE [list EXCEPT ![at].cases = AddSample(@, row)], m + 1)
<1> DEFINE window == WindowAt(s, heard, BlockOf(m + 1, 2))
           c == window[1]
           row == SampleRow(s, w, window, PlaceOf(m + 1, 2))
           at == Find(list, Who(s, c))
           more == IF at = 0 THEN Append(list, [of |-> Who(s, c), cases |-> AddSample(<<>>, row)])
                   ELSE [list EXCEPT ![at].cases = AddSample(@, row)]
<1>1. /\ IsSeq(list) /\ Len(list) \in Nat /\ DOMAIN list = 1..Len(list)
      /\ \A a \in DOMAIN list : /\ list[a] = [of |-> list[a].of, cases |-> list[a].cases]
                                /\ \E d \in Planned : list[a].of = Who(s, d)
                                                        /\ WindowsOf(s, w, heard, list[a].cases, d, m)
      /\ \A a \in DOMAIN list : DOMAIN list[a].cases # {}
      /\ \A a, b \in DOMAIN list : list[a].of = list[b].of => a = b
      /\ \A d \in Planned : Begun(s, heard, d, m) # {} => \E a \in DOMAIN list : list[a].of = Who(s, d)
  BY SequenceFacts DEF LoadedWindows
<1>2. c \in Planned
  <2>1. Len(heard) \in Nat /\ DOMAIN heard = 1..Len(heard)
    BY HeardFacts
  <2>2. BlockOf(m + 1, 2) \in DOMAIN heard
    BY <2>1, HalvesOfABlock
  <2> QED BY <2>2, HeardFacts
<1>3. /\ at = 0 => \A a \in DOMAIN list : list[a].of # Who(s, c)
      /\ at # 0 => at \in DOMAIN list /\ list[at].of = Who(s, c)
  BY <1>1, FindIsTheOne
<1>4. \A d : d # c => Begun(s, heard, d, m + 1) = Begun(s, heard, d, m)
  BY BegunByARow
<1>5. ASSUME NEW a \in DOMAIN list, list[a].of # Who(s, c)
      PROVE  \E d \in Planned : list[a].of = Who(s, d) /\ WindowsOf(s, w, heard, list[a].cases, d, m + 1)
  <2>1. PICK d \in Planned : list[a].of = Who(s, d) /\ WindowsOf(s, w, heard, list[a].cases, d, m)
    BY <1>1
  <2>2. d # c
    BY <1>5, <2>1
  <2> QED BY <2>1, <2>2, WindowsOfOthers
<1>6. \A cases : WindowsOf(s, w, heard, cases, c, m) => WindowsOf(s, w, heard, AddSample(cases, row), c, m + 1)
  BY AnotherSample
<1> HIDE DEF at, row, c, window, more
<1>7. CASE at = 0
  <2> DEFINE new == [of |-> Who(s, c), cases |-> AddSample(<<>>, row)]
  <2>1. /\ IsSeq(more) /\ Len(more) = Len(list) + 1 /\ DOMAIN more = 1..(Len(list) + 1)
        /\ \A a \in 1..Len(list) : more[a] = list[a]
        /\ more[Len(list) + 1] = new
    <3>1. more = Append(list, new)
      BY <1>7 DEF more
    <3> HIDE DEF new
    <3> QED BY <1>1, <3>1, AppendedSequence
  <2>2. \A a \in DOMAIN more : a \in 1..Len(list) \/ a = Len(list) + 1
    BY <1>1, <2>1
  <2>3. new.of = Who(s, c) /\ new.cases = AddSample(<<>>, row) /\ new = [of |-> new.of, cases |-> new.cases]
    OBVIOUS
  <2>4. WindowsOf(s, w, heard, new.cases, c, m + 1)
    <3>1. Begun(s, heard, c, m) = {}
      BY <1>1, <1>2, <1>3, <1>7
    <3>2. WindowsOf(s, w, heard, <<>>, c, m)
      BY <3>1, NoWindow
    <3> QED BY <1>6, <2>3, <3>2
  <2>9. DOMAIN new.cases # {}
    BY <2>3, EmptySequence, SampleIsAdded
  <2> HIDE DEF new
  <2>5. ASSUME NEW a \in DOMAIN more
        PROVE  /\ more[a] = [of |-> more[a].of, cases |-> more[a].cases]
               /\ \E d \in Planned : more[a].of = Who(s, d) /\ WindowsOf(s, w, heard, more[a].cases, d, m + 1)
    <3>1. CASE a \in 1..Len(list)
      <4>1. more[a] = list[a] /\ a \in DOMAIN list
        BY <1>1, <2>1, <3>1
      <4> QED BY <1>1, <1>3, <1>5, <1>7, <4>1
    <3>2. CASE a = Len(list) + 1
      BY <1>2, <2>1, <2>3, <2>4, <3>2
    <3> QED BY <2>2, <3>1, <3>2
  <2>6. ASSUME NEW a \in DOMAIN more, NEW b \in DOMAIN more, more[a].of = more[b].of PROVE a = b
    <3>1. \A e \in 1..Len(list) : more[e].of = list[e].of /\ list[e].of # Who(s, c) /\ e \in DOMAIN list
      BY <1>1, <1>3, <1>7, <2>1
    <3>2. more[Len(list) + 1].of = Who(s, c)
      BY <2>1, <2>3
    <3> QED BY <1>1, <2>2, <2>6, <3>1, <3>2
  <2>7. ASSUME NEW d \in Planned, Begun(s, heard, d, m + 1) # {} PROVE \E a \in DOMAIN more : more[a].of = Who(s, d)
    <3>1. CASE d = c
      <4>1. Len(list) + 1 \in DOMAIN more
        BY <1>1, <2>1
      <4> QED BY <2>1, <2>3, <3>1, <4>1
    <3>2. CASE d # c
      <4>1. PICK a \in DOMAIN list : list[a].of = Who(s, d)
        BY <1>1, <1>4, <2>7, <3>2
      <4>2. a \in DOMAIN more /\ more[a] = list[a]
        BY <1>1, <2>1
      <4> QED BY <4>1, <4>2
    <3> QED BY <3>1, <3>2
  <2>10. \A a \in DOMAIN more : DOMAIN more[a].cases # {}
    BY <1>1, <2>1, <2>2, <2>9
  <2>8. LoadedWindows(s, w, heard, more, m + 1)
    BY <2>1, <2>5, <2>6, <2>7, <2>10 DEF LoadedWindows
  <2> QED BY <2>8 DEF more, at, row, c, window
<1>8. CASE at # 0
  <2> DEFINE new == [of |-> list[at].of, cases |-> AddSample(list[at].cases, row)]
  <2>1. at \in DOMAIN list /\ list[at].of = Who(s, c)
    BY <1>3, <1>8
  <2>2. more = [list EXCEPT ![at] = new]
    <3>1. list[at] = [of |-> list[at].of, cases |-> list[at].cases]
      BY <1>1, <2>1
    <3>2. [list[at] EXCEPT !.cases = AddSample(list[at].cases, row)] = new
      <4> DEFINE x == list[at].of
                 y == list[at].cases
                 z == AddSample(list[at].cases, row)
                 record == list[at]
      <4>1. record = [of |-> x, cases |-> y]
        BY <3>1
      <4> HIDE DEF x, y, z, record
      <4>2. [record EXCEPT !.cases = z] = [of |-> x, cases |-> z]
        BY <4>1
      <4> QED BY <4>2 DEF x, z, record
    <3> HIDE DEF new
    <3>3. more = [list EXCEPT ![at] = [list[at] EXCEPT !.cases = AddSample(list[at].cases, row)]]
      BY <1>8 DEF more
    <3> QED BY <3>2, <3>3
  <2>3. WindowsOf(s, w, heard, new.cases, c, m + 1)
    <3>1. PICK d \in Planned : list[at].of = Who(s, d) /\ WindowsOf(s, w, heard, list[at].cases, d, m)
      BY <1>1, <2>1
    <3>2. d = c
      BY <1>2, <2>1, <3>1, WhoIsOne
    <3> QED BY <1>6, <3>1, <3>2
  <2>10. DOMAIN new.cases # {}
    <3>1. IsSeq(list[at].cases)
      BY <1>1, <2>1 DEF WindowsOf
    <3>2. new.cases = AddSample(list[at].cases, row)
      OBVIOUS
    <3> HIDE DEF new
    <3> QED BY <3>1, <3>2, SampleIsAdded
  <2>4. new = [of |-> new.of, cases |-> new.cases] /\ new.of = Who(s, c)
    BY <2>1
  <2> HIDE DEF new
  <2>5. /\ IsSeq(more) /\ DOMAIN more = DOMAIN list /\ more[at] = new
        /\ \A a \in DOMAIN list : a # at => more[a] = list[a]
    BY <1>1, <2>1, <2>2, ChangedSequence
  <2>6. \A a \in DOMAIN more : more[a].of = list[a].of
    BY <2>1, <2>4, <2>5
  <2>7. ASSUME NEW a \in DOMAIN more
        PROVE  /\ more[a] = [of |-> more[a].of, cases |-> more[a].cases]
               /\ \E d \in Planned : more[a].of = Who(s, d) /\ WindowsOf(s, w, heard, more[a].cases, d, m + 1)
    <3>1. CASE a = at
      BY <1>2, <2>3, <2>4, <2>5, <3>1
    <3>2. CASE a # at
      <4>1. more[a] = list[a] /\ a \in DOMAIN list
        BY <2>5, <3>2
      <4>2. list[a].of # Who(s, c)
        BY <1>1, <2>1, <3>2, <4>1
      <4> QED BY <1>1, <1>5, <4>1, <4>2
    <3> QED BY <3>1, <3>2
  <2>8. ASSUME NEW d \in Planned, Begun(s, heard, d, m + 1) # {} PROVE \E a \in DOMAIN more : more[a].of = Who(s, d)
    <3>1. CASE d = c
      BY <2>1, <2>5, <2>6, <3>1
    <3>2. CASE d # c
      <4>1. PICK a \in DOMAIN list : list[a].of = Who(s, d)
        BY <1>1, <1>4, <2>8, <3>2
      <4> QED BY <2>5, <2>6, <4>1
    <3> QED BY <3>1, <3>2
  <2>11. \A a \in DOMAIN more : DOMAIN more[a].cases # {}
    BY <1>1, <2>5, <2>10
  <2>9. LoadedWindows(s, w, heard, more, m + 1)
    BY <1>1, <2>5, <2>6, <2>7, <2>8, <2>11 DEF LoadedWindows
  <2> QED BY <2>9 DEF more, at, row, c, window
<1> QED BY <1>7, <1>8

----------------------------------------------------------------------------
(* Where the pipeline is: m rows of memory.csv, the readings of l windows and k rows   *)
(* of timing.csv are written, and the summary has what the rows before the next make.  *)

TablesOf(s, w, heard, m, k) ==
  [memory |-> First(s, w, "memory", m), timing |-> First(s, w, "timing", k), energy |-> RowsOf(s, w, heard)]

SummaryOf(a, b, c, d, e) ==
  [timing |-> a, memory |-> b, energy |-> c, memoryBaseline |-> d, energyBaseline |-> e]

LoadedSoFar(s, w, heard, sum, k, m, r) ==
  \E a, b, c, d, e :
    /\ sum = SummaryOf(a, b, c, d, e)
    /\ Loaded(s, w, "timing", a, k)
    /\ Loaded(s, w, "memory", b, m) /\ CasesOf(s, w, "memory", d, Baseline, m)
    /\ LoadedWindows(s, w, heard, c, r) /\ WindowsOf(s, w, heard, e, Idle, r)

\* The line after the k-th result, or after its process's header.
LineAfter(n, k, len) == n = 2 * k + 1 \/ (n = 2 * k + 2 /\ k < len)

At(s, w, heard, m, l, k, st, n, sum) ==
  LET memories == Len(Reps(s, "memory"))
      timings == Len(Reps(s, "timing"))
      windows == Len(Listening(s))
      rows == 2 * Len(heard)
  IN /\ st = "ConvertMemory" => LineAfter(n, m, memories) /\ l = 0 /\ k = 0 /\ sum = NoSummary
     /\ st = "MeasureEnergy" => m = memories /\ n = l + 1 /\ k = 0 /\ sum = NoSummary
     /\ st = "ConvertTiming" => m = memories /\ l = windows /\ LineAfter(n, k, timings) /\ sum = NoSummary
     /\ st \in {"LoadTiming", "LoadMemory", "LoadEnergy", "Analyze"} =>
          m = memories /\ l = windows /\ k = timings
     /\ st = "LoadTiming" => n \in 1..(timings + 1) /\ LoadedSoFar(s, w, heard, sum, n - 1, 0, 0)
     /\ st = "LoadMemory" => n \in 1..(memories + 1) /\ LoadedSoFar(s, w, heard, sum, timings, n - 1, 0)
     /\ st = "LoadEnergy" => n \in 1..(rows + 1) /\ LoadedSoFar(s, w, heard, sum, timings, memories, n - 1)
     /\ st = "Analyze" => LoadedSoFar(s, w, heard, sum, timings, memories, rows)

Progress(s, w, st, n, tab, sum) ==
  \E heard, m, l, k :
    /\ m \in 0..Len(Reps(s, "memory")) /\ l \in 0..Len(Listening(s)) /\ k \in 0..Len(Reps(s, "timing"))
    /\ IsHeard(s, w, heard, l) /\ tab = TablesOf(s, w, heard, m, k)
    /\ At(s, w, heard, m, l, k, st, n, sum)

WithRows(tab, t, rows) == [tab EXCEPT ![t] = rows]

Stages == {"ConvertMemory", "MeasureEnergy", "ConvertTiming", "LoadTiming", "LoadMemory", "LoadEnergy", "Analyze"}

\* The lengths of the three lists of repetitions.
LEMMA Lengths ==
  ASSUME NEW s \in Scenarios
  PROVE  /\ Len(Reps(s, "memory")) \in Nat /\ Len(Reps(s, "timing")) \in Nat /\ Len(Listening(s)) \in Nat
         /\ DOMAIN Reps(s, "memory") = 1..Len(Reps(s, "memory"))
         /\ DOMAIN Reps(s, "timing") = 1..Len(Reps(s, "timing"))
         /\ DOMAIN Listening(s) = 1..Len(Listening(s))
BY RepsFacts, ListeningFacts, SequenceFacts DEF Tables

\* A text file has two lines for each repetition.
LEMMA TextLines ==
  ASSUME scenario \in Scenarios, NEW t \in Tables
  PROVE  /\ Len(Text(t)) = 2 * Len(Reps(scenario, t)) /\ Len(Reps(scenario, t)) \in Nat
         /\ \A p \in 1..Len(Reps(scenario, t)) : /\ Text(t)[2 * p - 1] = OtherLine
                                                 /\ Text(t)[2 * p] = LineOf(t, Reps(scenario, t)[p])
<1> DEFINE reps == Reps(scenario, t)
           Said(i) == IF i % 2 = 1 THEN OtherLine ELSE LineOf(t, reps[i \div 2])
           text == Text(t)
<1>1. Len(reps) \in Nat
  BY RepsFacts, SequenceFacts
<1>2. text = [i \in 1..(2 * Len(reps)) |-> Said(i)]
  BY DEF Text, Reps, LineOf
<1> HIDE DEF reps, text
<1>3. text = [i \in 1..(2 * Len(reps)) |-> text[i]]
  BY <1>2
<1>4. 2 * Len(reps) \in Nat
  BY <1>1
<1>5. Len(text) = 2 * Len(reps)
  BY <1>3, <1>4, ListedSequence
<1>6. ASSUME NEW p \in 1..Len(reps)
      PROVE  text[2 * p - 1] = OtherLine /\ text[2 * p] = LineOf(t, reps[p])
  <2>1. /\ 2 * p - 1 \in 1..(2 * Len(reps)) /\ 2 * p \in 1..(2 * Len(reps))
        /\ (2 * p - 1) % 2 = 1 /\ (2 * p) % 2 = 0 /\ (2 * p) \div 2 = p
    BY <1>1
  <2> QED BY <1>2, <2>1
<1> QED BY <1>1, <1>5, <1>6 DEF reps, text

\* One line further.
LEMMA LineRead ==
  ASSUME scenario \in Scenarios, NEW t \in Tables, NEW k \in 0..Len(Reps(scenario, t)),
         LineAfter(next, k, Len(Reps(scenario, t))), table[t] = First(scenario, world, t, k),
         NEW following, ConvertLine(t, following)
  PROVE  \/ k = Len(Reps(scenario, t)) /\ table' = table /\ stage' = following /\ next' = 1
         \/ /\ table' = WithRows(table, t, First(scenario, world, t, k)) /\ stage' = stage
            /\ LineAfter(next', k, Len(Reps(scenario, t)))
         \/ /\ k < Len(Reps(scenario, t)) /\ stage' = stage /\ next' = 2 * (k + 1) + 1
            /\ table' = WithRows(table, t, First(scenario, world, t, k + 1))
         \/ table' = table /\ stage' = "Raised"
<1> DEFINE len == Len(Reps(scenario, t))
           line == Text(t)[next]
<1>1. /\ Len(Text(t)) = 2 * len /\ len \in Nat /\ DOMAIN Reps(scenario, t) = 1..len
      /\ \A p \in 1..len : Text(t)[2 * p - 1] = OtherLine /\ Text(t)[2 * p] = LineOf(t, Reps(scenario, t)[p])
  BY TextLines, RepsFacts, SequenceFacts
<1>2. IF next > Len(Text(t)) THEN table' = table /\ stage' = following /\ next' = 1
      ELSE IF Convertible(t, scenario, line)
           THEN /\ table' = WithRows(table, t, Convert(t, scenario, table[t], line))
                /\ stage' = stage /\ next' = next + 1
           ELSE table' = table /\ stage' = "Raised" /\ next' = next
  BY DEF ConvertLine, WithRows
<1>3. k \in Nat /\ k <= len /\ (next = 2 * k + 1 \/ (next = 2 * k + 2 /\ k < len))
  BY <1>1 DEF LineAfter
<1>4. CASE next > Len(Text(t))
  <2>1. k = len
    <3> HIDE DEF len
    <3> QED BY <1>1, <1>3, <1>4
  <2>2. table' = table /\ stage' = following /\ next' = 1
    BY <1>2, <1>4
  <2> QED BY <2>1, <2>2
<1>5. CASE ~(next > Len(Text(t))) /\ ~Convertible(t, scenario, line)
  BY <1>2, <1>5
<1>6. CASE ~(next > Len(Text(t))) /\ Convertible(t, scenario, line) /\ next = 2 * k + 1
  <2>1. k < len /\ k + 1 \in 1..len /\ 2 * (k + 1) - 1 = next
    BY <1>1, <1>3, <1>6
  <2>2. line = OtherLine
    BY <1>1, <2>1
  <2>3. line.kind = "other"
    BY <2>2 DEF OtherLine
  <2>4. Convert(t, scenario, table[t], line) = First(scenario, world, t, k)
    BY <2>3 DEF Convert
  <2>5. next' = 2 * k + 2 /\ table' = WithRows(table, t, First(scenario, world, t, k)) /\ stage' = stage
    BY <1>2, <1>3, <1>6, <2>4
  <2> QED BY <2>1, <2>5 DEF LineAfter
<1>7. CASE ~(next > Len(Text(t))) /\ Convertible(t, scenario, line) /\ next = 2 * k + 2 /\ k < len
  <2>1. k + 1 \in 1..len /\ 2 * (k + 1) = next /\ (k + 1) - 1 = k
    BY <1>1, <1>3, <1>7
  <2>2. line = LineOf(t, Reps(scenario, t)[k + 1])
    BY <1>1, <2>1
  <2>3. k + 1 \in DOMAIN Reps(scenario, t)
    BY <1>1, <2>1
  <2>4. Convert(t, scenario, First(scenario, world, t, (k + 1) - 1), LineOf(t, Reps(scenario, t)[k + 1]))
          = First(scenario, world, t, k + 1)
    BY <1>7, <2>2, <2>3, ConvertedLine
  <2>5. table' = WithRows(table, t, First(scenario, world, t, k + 1)) /\ stage' = stage /\ next' = next + 1
    BY <1>2, <1>7, <2>1, <2>2, <2>4
  <2> QED BY <1>3, <1>7, <2>5
<1> QED BY <1>3, <1>4, <1>5, <1>6, <1>7

\* Scenario 2 has no memory stage.
LEMMA NoMemoryPlanned ==
  ASSUME NEW s \in Scenarios, ~WithMemory(s)
  PROVE  Len(Reps(s, "memory")) = 0
<1>1. MemoryPlans[s] = <<>>
  BY DEF MemoryPlans, MemoryPlan, WithMemory
<1>2. Reps(s, "memory") = Repeated(<<>>)
  BY <1>1 DEF Reps
<1>3. \A i \in DOMAIN Repeated(<<>>) : FALSE
  <2>1. <<>> \in Seq({}) /\ DOMAIN <<>> = {}
    OBVIOUS
  <2> QED BY <2>1, RepeatedPlaces
<1>4. Len(Reps(s, "memory")) \in Nat /\ DOMAIN Reps(s, "memory") = 1..Len(Reps(s, "memory"))
  BY Lengths
<1>5. 1 \notin DOMAIN Reps(s, "memory")
  BY <1>2, <1>3
<1> QED BY <1>4, <1>5

\* The campaign has made nothing yet.
LEMMA InitialProgress ==
  ASSUME Init
  PROVE  scenario \in Scenarios /\ Progress(scenario, world, stage, next, table, summary)
<1>1. /\ scenario \in Scenarios /\ next = 1 /\ table = [memory |-> <<>>, timing |-> <<>>, energy |-> <<>>]
      /\ stage = (IF WithMemory(scenario) THEN "ConvertMemory" ELSE "MeasureEnergy") /\ summary = NoSummary
  BY DEF Init
<1>2. PICK heard : IsHeard(scenario, world, heard, 0) /\ <<>> = RowsOf(scenario, world, heard)
  BY NothingMeasured DEF EnergyMeasured
<1>3. \A t \in Tables : First(scenario, world, t, 0) = <<>>
  <2> SUFFICES ASSUME NEW t \in Tables PROVE First(scenario, world, t, 0) = <<>>
    OBVIOUS
  <2>1. 0 \in 0..Len(Reps(scenario, t))
    BY <1>1, Lengths DEF Tables
  <2>2. IsSeq(First(scenario, world, t, 0)) /\ Len(First(scenario, world, t, 0)) = 0
    BY <1>1, <2>1, FirstRows
  <2>3. \A S : \A x \in Seq(S) : Len(x) = 0 => x = <<>>
    OBVIOUS
  <2> QED BY <2>2, <2>3 DEF IsSeq
<1>4. table = TablesOf(scenario, world, heard, 0, 0)
  BY <1>1, <1>2, <1>3 DEF TablesOf, Tables
<1>5. /\ 0 \in 0..Len(Reps(scenario, "memory")) /\ 0 \in 0..Len(Listening(scenario))
      /\ 0 \in 0..Len(Reps(scenario, "timing"))
  BY <1>1, Lengths
<1>6. ~WithMemory(scenario) => Len(Reps(scenario, "memory")) = 0
  BY NoMemoryPlanned, <1>1
<1>7. At(scenario, world, heard, 0, 0, 0, stage, next, summary)
  <2>1. CASE WithMemory(scenario)
    BY <1>1, <2>1 DEF At, LineAfter
  <2>2. CASE ~WithMemory(scenario)
    BY <1>1, <1>6, <2>2 DEF At
  <2> QED BY <2>1, <2>2
<1> QED BY <1>1, <1>2, <1>4, <1>5, <1>7 DEF Progress

\* A stage about which nothing more is said.
LEMMA ProgressOtherwise ==
  ASSUME NEW s, NEW w, NEW st, NEW n, NEW tab, NEW sum, NEW to, to \notin Stages, NEW n2, NEW sum2,
         Progress(s, w, st, n, tab, sum)
  PROVE  Progress(s, w, to, n2, tab, sum2)
<1>1. PICK heard, m, l, k :
        /\ m \in 0..Len(Reps(s, "memory")) /\ l \in 0..Len(Listening(s)) /\ k \in 0..Len(Reps(s, "timing"))
        /\ IsHeard(s, w, heard, l) /\ tab = TablesOf(s, w, heard, m, k)
  BY DEF Progress
<1>2. At(s, w, heard, m, l, k, to, n2, sum2)
  BY DEF At, Stages
<1> QED BY <1>1, <1>2 DEF Progress

\* The tables with other rows in one of them.
LEMMA ChangedTables ==
  /\ \A s, w, heard, m, k, m2 :
       WithRows(TablesOf(s, w, heard, m, k), "memory", First(s, w, "memory", m2)) = TablesOf(s, w, heard, m2, k)
  /\ \A s, w, heard, m, k, k2 :
       WithRows(TablesOf(s, w, heard, m, k), "timing", First(s, w, "timing", k2)) = TablesOf(s, w, heard, m, k2)
  /\ \A s, w, heard, m, k, heard2 :
       WithRows(TablesOf(s, w, heard, m, k), "energy", RowsOf(s, w, heard2)) = TablesOf(s, w, heard2, m, k)
  /\ \A s, w, heard, m, k :
       /\ TablesOf(s, w, heard, m, k)["memory"] = First(s, w, "memory", m)
       /\ TablesOf(s, w, heard, m, k)["timing"] = First(s, w, "timing", k)
       /\ TablesOf(s, w, heard, m, k)["energy"] = RowsOf(s, w, heard)
<1> DEFINE Made(a, b, c) == [memory |-> a, timing |-> b, energy |-> c]
<1>1. \A a, b, c, a2 : WithRows(Made(a, b, c), "memory", a2) = Made(a2, b, c)
  BY DEF WithRows
<1>2. \A a, b, c, b2 : WithRows(Made(a, b, c), "timing", b2) = Made(a, b2, c)
  BY DEF WithRows
<1>3. \A a, b, c, c2 : WithRows(Made(a, b, c), "energy", c2) = Made(a, b, c2)
  BY DEF WithRows
<1>4. \A a, b, c : Made(a, b, c)["memory"] = a /\ Made(a, b, c)["timing"] = b /\ Made(a, b, c)["energy"] = c
  OBVIOUS
<1>5. \A s, w, heard, m, k :
        TablesOf(s, w, heard, m, k) = Made(First(s, w, "memory", m), First(s, w, "timing", k), RowsOf(s, w, heard))
  BY DEF TablesOf
<1> HIDE DEF Made
<1> QED BY <1>1, <1>2, <1>3, <1>4, <1>5

\* A step of convert_memory_results.
LEMMA ConvertingMemory ==
  ASSUME scenario \in Scenarios, Progress(scenario, world, stage, next, table, summary), ConvertMemory
  PROVE  Progress(scenario, world, stage', next', table', summary')
<1> DEFINE len == Len(Reps(scenario, "memory"))
<1>1. stage = "ConvertMemory" /\ ConvertLine("memory", "MeasureEnergy") /\ summary' = summary
  BY DEF ConvertMemory, ConvertLine
<1>2. PICK heard, m, l, k :
        /\ m \in 0..len /\ l \in 0..Len(Listening(scenario)) /\ k \in 0..Len(Reps(scenario, "timing"))
        /\ IsHeard(scenario, world, heard, l) /\ table = TablesOf(scenario, world, heard, m, k)
        /\ At(scenario, world, heard, m, l, k, stage, next, summary)
  BY DEF Progress
<1>3. LineAfter(next, m, len) /\ l = 0 /\ k = 0 /\ summary = NoSummary
  BY <1>1, <1>2 DEF At
<1>4. table["memory"] = First(scenario, world, "memory", m)
  BY <1>2, ChangedTables
<1>5. len \in Nat
  BY Lengths
<1> HIDE DEF len
<1>6. \/ m = len /\ table' = table /\ stage' = "MeasureEnergy" /\ next' = 1
      \/ table' = WithRows(table, "memory", First(scenario, world, "memory", m)) /\ stage' = stage
           /\ LineAfter(next', m, len)
      \/ m < len /\ stage' = stage /\ next' = 2 * (m + 1) + 1
           /\ table' = WithRows(table, "memory", First(scenario, world, "memory", m + 1))
      \/ table' = table /\ stage' = "Raised"
  <2>1. "memory" \in Tables
    BY DEF Tables
  <2> QED BY <1>1, <1>2, <1>3, <1>4, <2>1, LineRead DEF len
<1>7. CASE m = len /\ table' = table /\ stage' = "MeasureEnergy" /\ next' = 1
  <2>1. At(scenario, world, heard, m, l, k, stage', next', summary')
    BY <1>1, <1>3, <1>7 DEF At, len
  <2> QED BY <1>2, <1>7, <2>1 DEF Progress, len
<1>8. CASE table' = WithRows(table, "memory", First(scenario, world, "memory", m)) /\ stage' = stage
             /\ LineAfter(next', m, len)
  <2>1. At(scenario, world, heard, m, l, k, stage', next', summary')
    BY <1>1, <1>3, <1>8 DEF At, len
  <2>2. table' = TablesOf(scenario, world, heard, m, k)
    BY <1>2, <1>8, ChangedTables
  <2> QED BY <1>2, <2>1, <2>2 DEF Progress, len
<1>9. CASE m < len /\ stage' = stage /\ next' = 2 * (m + 1) + 1
             /\ table' = WithRows(table, "memory", First(scenario, world, "memory", m + 1))
  <2>1. m + 1 \in 0..len
    BY <1>2, <1>5, <1>9
  <2>2. At(scenario, world, heard, m + 1, l, k, stage', next', summary')
    BY <1>1, <1>3, <1>9 DEF At, len, LineAfter
  <2>3. table' = TablesOf(scenario, world, heard, m + 1, k)
    BY <1>2, <1>9, ChangedTables
  <2> QED BY <1>2, <2>1, <2>2, <2>3 DEF Progress, len
<1>10. CASE table' = table /\ stage' = "Raised"
  <2>1. stage' \notin Stages
    BY <1>10 DEF Stages
  <2> QED BY <1>10, <2>1, ProgressOtherwise
<1> QED BY <1>6, <1>7, <1>8, <1>9, <1>10

\* A window of orchestrate_energy.
LEMMA MeasuringEnergy ==
  ASSUME scenario \in Scenarios, Progress(scenario, world, stage, next, table, summary), MeasureEnergy
  PROVE  Progress(scenario, world, stage', next', table', summary')
<1> DEFINE len == Len(Listening(scenario))
           memories == Len(Reps(scenario, "memory"))
           timings == Len(Reps(scenario, "timing"))
<1>1. /\ stage = "MeasureEnergy" /\ summary' = summary
      /\ IF next > Len(Listening(scenario)) THEN table' = table /\ stage' = "ConvertTiming" /\ next' = 1
         ELSE /\ table' = WithRows(table, "energy", table["energy"] \o EnergyRows(Listening(scenario)[next]))
              /\ stage' = stage /\ next' = next + 1
  BY DEF MeasureEnergy, EnergyWindows, Listening, WithRows
<1>2. PICK heard, m, l, k :
        /\ m \in 0..memories /\ l \in 0..len /\ k \in 0..timings
        /\ IsHeard(scenario, world, heard, l) /\ table = TablesOf(scenario, world, heard, m, k)
        /\ At(scenario, world, heard, m, l, k, stage, next, summary)
  BY DEF Progress
<1>3. m = memories /\ next = l + 1 /\ k = 0 /\ summary = NoSummary
  BY <1>1, <1>2 DEF At
<1>4. len \in Nat /\ DOMAIN Listening(scenario) = 1..len
  BY Lengths
<1>5. CASE next > Len(Listening(scenario))
  <2>1. l = len
    <3>1. l \in 0..len /\ next = l + 1 /\ len \in Nat /\ next > len
      BY <1>2, <1>3, <1>4, <1>5
    <3> HIDE DEF len
    <3> QED BY <3>1
  <2>2. At(scenario, world, heard, m, l, k, stage', next', summary')
    BY <1>1, <1>3, <1>5, <2>1 DEF At, LineAfter
  <2> QED BY <1>1, <1>2, <1>5, <2>2 DEF Progress
<1>6. CASE ~(next > Len(Listening(scenario)))
  <2>1. l \in Nat /\ l + 1 \in DOMAIN Listening(scenario) /\ l + 1 \in 0..len
    BY <1>2, <1>3, <1>4, <1>6
  <2>2. EnergyMeasured(scenario, world, RowsOf(scenario, world, heard), l)
    BY <1>2 DEF EnergyMeasured
  <2>3. EnergyMeasured(scenario, world,
                       RowsOf(scenario, world, heard) \o EnergyRows(Listening(scenario)[l + 1]), l + 1)
    BY <2>1, <2>2, MeasuredWindow
  <2>4. PICK more : /\ IsHeard(scenario, world, more, l + 1)
                    /\ RowsOf(scenario, world, heard) \o EnergyRows(Listening(scenario)[l + 1])
                         = RowsOf(scenario, world, more)
    BY <2>3 DEF EnergyMeasured
  <2>5. table' = TablesOf(scenario, world, more, m, k)
    <3>1. table["energy"] = RowsOf(scenario, world, heard)
      BY <1>2, ChangedTables
    <3>2. table' = WithRows(table, "energy", RowsOf(scenario, world, more))
      BY <1>1, <1>3, <1>6, <2>4, <3>1
    <3> QED BY <1>2, <3>2, ChangedTables
  <2>6. At(scenario, world, more, m, l + 1, k, stage', next', summary')
    BY <1>1, <1>3, <1>6 DEF At
  <2> QED BY <1>2, <2>1, <2>4, <2>5, <2>6 DEF Progress
<1> QED BY <1>5, <1>6

\* The summary that load_summary begins with.
LEMMA NothingLoadedYet ==
  ASSUME NEW s \in Scenarios, NEW w, NEW heard, NEW n \in 0..Len(Listening(s)), IsHeard(s, w, heard, n)
  PROVE  LoadedSoFar(s, w, heard, NoSummary, 0, 0, 0)
<1>1. NoSummary = SummaryOf(<<>>, <<>>, <<>>, <<>>, <<>>)
  BY DEF NoSummary, SummaryOf
<1>2. CasesOf(s, w, "memory", <<>>, Baseline, 0)
  BY NoCase
<1>3. LoadedWindows(s, w, heard, <<>>, 0) /\ WindowsOf(s, w, heard, <<>>, Idle, 0)
  BY NoWindowsLoaded
<1> QED BY <1>1, <1>2, <1>3, NothingLoaded DEF LoadedSoFar

\* A step of convert_timing_results.
LEMMA ConvertingTiming ==
  ASSUME scenario \in Scenarios, Progress(scenario, world, stage, next, table, summary), ConvertTiming
  PROVE  Progress(scenario, world, stage', next', table', summary')
<1> DEFINE len == Len(Reps(scenario, "timing"))
<1>1. stage = "ConvertTiming" /\ ConvertLine("timing", "LoadTiming") /\ summary' = summary
  BY DEF ConvertTiming, ConvertLine
<1>2. PICK heard, m, l, k :
        /\ m \in 0..Len(Reps(scenario, "memory")) /\ l \in 0..Len(Listening(scenario)) /\ k \in 0..len
        /\ IsHeard(scenario, world, heard, l) /\ table = TablesOf(scenario, world, heard, m, k)
        /\ At(scenario, world, heard, m, l, k, stage, next, summary)
  BY DEF Progress
<1>3. /\ m = Len(Reps(scenario, "memory")) /\ l = Len(Listening(scenario)) /\ LineAfter(next, k, len)
      /\ summary = NoSummary
  BY <1>1, <1>2 DEF At
<1>4. table["timing"] = First(scenario, world, "timing", k)
  BY <1>2, ChangedTables
<1>5. len \in Nat
  BY Lengths
<1> HIDE DEF len
<1>6. \/ k = len /\ table' = table /\ stage' = "LoadTiming" /\ next' = 1
      \/ table' = WithRows(table, "timing", First(scenario, world, "timing", k)) /\ stage' = stage
           /\ LineAfter(next', k, len)
      \/ k < len /\ stage' = stage /\ next' = 2 * (k + 1) + 1
           /\ table' = WithRows(table, "timing", First(scenario, world, "timing", k + 1))
      \/ table' = table /\ stage' = "Raised"
  <2>1. "timing" \in Tables
    BY DEF Tables
  <2> QED BY <1>1, <1>2, <1>3, <1>4, <2>1, LineRead DEF len
<1>7. CASE k = len /\ table' = table /\ stage' = "LoadTiming" /\ next' = 1
  <2>1. LoadedSoFar(scenario, world, heard, summary', next' - 1, 0, 0)
    BY <1>1, <1>2, <1>3, <1>7, NothingLoadedYet
  <2>2. At(scenario, world, heard, m, l, k, stage', next', summary')
    BY <1>1, <1>3, <1>5, <1>7, <2>1 DEF At, len
  <2> QED BY <1>2, <1>7, <2>2 DEF Progress, len
<1>8. CASE table' = WithRows(table, "timing", First(scenario, world, "timing", k)) /\ stage' = stage
             /\ LineAfter(next', k, len)
  <2>1. At(scenario, world, heard, m, l, k, stage', next', summary')
    BY <1>1, <1>3, <1>8 DEF At, len
  <2>2. table' = TablesOf(scenario, world, heard, m, k)
    BY <1>2, <1>8, ChangedTables
  <2> QED BY <1>2, <2>1, <2>2 DEF Progress, len
<1>9. CASE k < len /\ stage' = stage /\ next' = 2 * (k + 1) + 1
             /\ table' = WithRows(table, "timing", First(scenario, world, "timing", k + 1))
  <2>1. k + 1 \in 0..len
    BY <1>2, <1>5, <1>9
  <2>2. At(scenario, world, heard, m, l, k + 1, stage', next', summary')
    BY <1>1, <1>3, <1>9 DEF At, len, LineAfter
  <2>3. table' = TablesOf(scenario, world, heard, m, k + 1)
    BY <1>2, <1>9, ChangedTables
  <2> QED BY <1>2, <2>1, <2>2, <2>3 DEF Progress, len
<1>10. CASE table' = table /\ stage' = "Raised"
  <2>1. stage' \notin Stages
    BY <1>10 DEF Stages
  <2> QED BY <1>10, <2>1, ProgressOtherwise
<1> QED BY <1>6, <1>7, <1>8, <1>9, <1>10

\* The aggregations of the windows, and a row of one of them more.
WindowsWith(list, row) ==
  IF Find(list, row.of) = 0 THEN Append(list, [of |-> row.of, cases |-> AddSample(<<>>, row)])
  ELSE [list EXCEPT ![Find(list, row.of)].cases = AddSample(@, row)]

\* What a row changes in the summary.
LEMMA RowsInTheSummary ==
  ASSUME NEW a, NEW b, NEW c, NEW d, NEW e, NEW row
  PROVE  /\ LoadTimingRow(SummaryOf(a, b, c, d, e), row)
               = SummaryOf(AddCase(a, row.of, MeasuredCase(row)), b, c, d, e)
         /\ row.baseline => LoadMemoryRow(SummaryOf(a, b, c, d, e), row)
                              = SummaryOf(a, b, c, Append(d, MeasuredCase(row)), e)
         /\ ~row.baseline => LoadMemoryRow(SummaryOf(a, b, c, d, e), row)
                               = SummaryOf(a, AddCase(b, row.of, MeasuredCase(row)), c, d, e)
         /\ row.baseline => LoadEnergyRow(SummaryOf(a, b, c, d, e), row)
                              = SummaryOf(a, b, c, d, AddSample(e, row))
         /\ ~row.baseline => LoadEnergyRow(SummaryOf(a, b, c, d, e), row)
                               = SummaryOf(a, b, WindowsWith(c, row), d, e)
<1> DEFINE sum == SummaryOf(a, b, c, d, e)
<1>1. sum = [timing |-> a, memory |-> b, energy |-> c, memoryBaseline |-> d, energyBaseline |-> e]
  BY DEF SummaryOf
<1>2. \A z : /\ [sum EXCEPT !.timing = z] = SummaryOf(z, b, c, d, e)
             /\ [sum EXCEPT !.memory = z] = SummaryOf(a, z, c, d, e)
             /\ [sum EXCEPT !.energy = z] = SummaryOf(a, b, z, d, e)
             /\ [sum EXCEPT !.memoryBaseline = z] = SummaryOf(a, b, c, z, e)
             /\ [sum EXCEPT !.energyBaseline = z] = SummaryOf(a, b, c, d, z)
  BY <1>1 DEF SummaryOf
<1>3. sum.timing = a /\ sum.memory = b /\ sum.energy = c /\ sum.memoryBaseline = d /\ sum.energyBaseline = e
  BY <1>1
<1> HIDE DEF sum
<1>4. LoadTimingRow(sum, row) = SummaryOf(AddCase(a, row.of, MeasuredCase(row)), b, c, d, e)
  <2> DEFINE z == AddCase(a, row.of, MeasuredCase(row))
  <2>1. LoadTimingRow(sum, row) = [sum EXCEPT !.timing = z]
    BY <1>3 DEF LoadTimingRow
  <2> HIDE DEF z
  <2>2. LoadTimingRow(sum, row) = SummaryOf(z, b, c, d, e)
    BY <1>2, <2>1
  <2> QED BY <2>2 DEF z
<1>5. ASSUME row.baseline PROVE LoadMemoryRow(sum, row) = SummaryOf(a, b, c, Append(d, MeasuredCase(row)), e)
  <2> DEFINE z == Append(d, MeasuredCase(row))
  <2>1. LoadMemoryRow(sum, row) = [sum EXCEPT !.memoryBaseline = z]
    BY <1>3, <1>5 DEF LoadMemoryRow
  <2> HIDE DEF z
  <2>2. LoadMemoryRow(sum, row) = SummaryOf(a, b, c, z, e)
    BY <1>2, <2>1
  <2> QED BY <2>2 DEF z
<1>6. ASSUME ~row.baseline
      PROVE  LoadMemoryRow(sum, row) = SummaryOf(a, AddCase(b, row.of, MeasuredCase(row)), c, d, e)
  <2> DEFINE z == AddCase(b, row.of, MeasuredCase(row))
  <2>1. LoadMemoryRow(sum, row) = [sum EXCEPT !.memory = z]
    BY <1>3, <1>6 DEF LoadMemoryRow
  <2> HIDE DEF z
  <2>2. LoadMemoryRow(sum, row) = SummaryOf(a, z, c, d, e)
    BY <1>2, <2>1
  <2> QED BY <2>2 DEF z
<1>7. ASSUME row.baseline PROVE LoadEnergyRow(sum, row) = SummaryOf(a, b, c, d, AddSample(e, row))
  <2> DEFINE z == AddSample(e, row)
  <2>1. LoadEnergyRow(sum, row) = [sum EXCEPT !.energyBaseline = z]
    BY <1>3, <1>7 DEF LoadEnergyRow
  <2> HIDE DEF z
  <2>2. LoadEnergyRow(sum, row) = SummaryOf(a, b, c, d, z)
    BY <1>2, <2>1
  <2> QED BY <2>2 DEF z
<1>8. ASSUME ~row.baseline, Find(c, row.of) = 0
      PROVE  LoadEnergyRow(sum, row)
               = SummaryOf(a, b, Append(c, [of |-> row.of, cases |-> AddSample(<<>>, row)]), d, e)
  <2> DEFINE z == Append(c, [of |-> row.of, cases |-> AddSample(<<>>, row)])
  <2>1. LoadEnergyRow(sum, row) = [sum EXCEPT !.energy = z]
    BY <1>3, <1>8 DEF LoadEnergyRow
  <2> HIDE DEF z
  <2>2. LoadEnergyRow(sum, row) = SummaryOf(a, b, z, d, e)
    BY <1>2, <2>1
  <2> QED BY <2>2 DEF z
<1>9. ASSUME ~row.baseline, Find(c, row.of) # 0
      PROVE  LoadEnergyRow(sum, row)
               = SummaryOf(a, b, [c EXCEPT ![Find(c, row.of)].cases = AddSample(@, row)], d, e)
  <2> DEFINE at == Find(c, row.of)
             z == [c EXCEPT ![at].cases = AddSample(@, row)]
  <2>1. LoadEnergyRow(sum, row) = [sum EXCEPT !.energy[at].cases = AddSample(@, row)]
    BY <1>3, <1>9 DEF LoadEnergyRow
  <2>2. [sum EXCEPT !.energy[at].cases = AddSample(@, row)]
          = [sum EXCEPT !.energy = [sum.energy EXCEPT ![at].cases = AddSample(@, row)]]
    OBVIOUS
  <2>3. LoadEnergyRow(sum, row) = [sum EXCEPT !.energy = z]
    BY <1>3, <2>1, <2>2
  <2> HIDE DEF z
  <2>4. LoadEnergyRow(sum, row) = SummaryOf(a, b, z, d, e)
    BY <1>2, <2>3
  <2> QED BY <2>4 DEF z
<1>10. ASSUME ~row.baseline PROVE LoadEnergyRow(sum, row) = SummaryOf(a, b, WindowsWith(c, row), d, e)
  <2>1. CASE Find(c, row.of) = 0
    BY <1>8, <1>10, <2>1 DEF WindowsWith
  <2>2. CASE Find(c, row.of) # 0
    <3> DEFINE z == [c EXCEPT ![Find(c, row.of)].cases = AddSample(@, row)]
    <3>1. LoadEnergyRow(sum, row) = SummaryOf(a, b, z, d, e)
      BY <1>9, <1>10, <2>2
    <3>2. WindowsWith(c, row) = z
      BY <2>2 DEF WindowsWith
    <3> HIDE DEF z
    <3> QED BY <3>1, <3>2
  <2> QED BY <2>1, <2>2
<1> QED BY <1>4, <1>5, <1>6, <1>7, <1>10 DEF sum

\* The tables and the stage after a row was read.
LEMMA RowRead ==
  ASSUME NEW rows, NEW loaded, NEW following, LoadRow(rows, loaded, following)
  PROVE  /\ table' = table
         /\ next > Len(rows) => summary' = summary /\ stage' = following /\ next' = 1
         /\ ~(next > Len(rows)) => summary' = loaded /\ stage' = stage /\ next' = next + 1
BY DEF LoadRow

\* A row of _load_timing_results.
LEMMA LoadingTiming ==
  ASSUME scenario \in Scenarios, Progress(scenario, world, stage, next, table, summary), LoadTiming
  PROVE  Progress(scenario, world, stage', next', table', summary')
<1> DEFINE memories == Len(Reps(scenario, "memory"))
           timings == Len(Reps(scenario, "timing"))
           row == table.timing[next]
           following == IF WithMemory(scenario) THEN "LoadMemory" ELSE "LoadEnergy"
<1>1. stage = "LoadTiming" /\ LoadRow(table.timing, LoadTimingRow(summary, row), following)
  BY DEF LoadTiming
<1>2. PICK heard, m, l, k :
        /\ m \in 0..memories /\ l \in 0..Len(Listening(scenario)) /\ k \in 0..timings
        /\ IsHeard(scenario, world, heard, l) /\ table = TablesOf(scenario, world, heard, m, k)
        /\ At(scenario, world, heard, m, l, k, stage, next, summary)
  BY DEF Progress
<1>3. m = memories /\ l = Len(Listening(scenario)) /\ k = timings /\ next \in 1..(timings + 1)
        /\ LoadedSoFar(scenario, world, heard, summary, next - 1, 0, 0)
  BY <1>1, <1>2 DEF At
<1>4. memories \in Nat /\ timings \in Nat /\ DOMAIN Reps(scenario, "timing") = 1..timings
  BY Lengths
<1>5. /\ Len(table.timing) = timings
      /\ \A i \in 1..timings :
           table.timing[i] = RowOf(scenario, world, "timing", Reps(scenario, "timing")[i])
  <2>1. table.timing = First(scenario, world, "timing", timings)
    BY <1>2, <1>3, ChangedTables
  <2>2. timings \in 0..timings /\ "timing" \in Tables
    BY <1>4 DEF Tables
  <2> QED BY <2>1, <2>2, FirstRows
<1>6. /\ table' = table
      /\ next > timings => summary' = summary /\ stage' = following /\ next' = 1
      /\ ~(next > timings) => /\ summary' = LoadTimingRow(summary, row) /\ stage' = stage
                              /\ next' = next + 1
  BY <1>1, <1>5, RowRead
<1> HIDE DEF memories, timings
<1>7. CASE next > timings
  <2>1. next - 1 = timings
    BY <1>3, <1>4, <1>7
  <2>2. LoadedSoFar(scenario, world, heard, summary, timings, 0, 0)
    BY <1>3, <2>1
  <2>3. CASE WithMemory(scenario)
    <3>1. stage' = "LoadMemory" /\ next' = 1 /\ summary' = summary
      BY <1>6, <1>7, <2>3
    <3>2. next' \in 1..(memories + 1) /\ next' - 1 = 0
      BY <1>4, <3>1
    <3>3. At(scenario, world, heard, m, l, k, stage', next', summary')
      BY <1>3, <2>2, <3>1, <3>2 DEF At, memories, timings
    <3> QED BY <1>2, <1>6, <3>3 DEF Progress, memories, timings
  <2>4. CASE ~WithMemory(scenario)
    <3>1. stage' = "LoadEnergy" /\ next' = 1 /\ summary' = summary
      BY <1>6, <1>7, <2>4
    <3>2. memories = 0
      BY <2>4, NoMemoryPlanned DEF memories
    <3>3. next' \in 1..(2 * Len(heard) + 1) /\ next' - 1 = 0
      <4>1. Len(heard) \in Nat
        BY <1>2, HeardFacts
      <4> QED BY <3>1, <4>1
    <3>4. At(scenario, world, heard, m, l, k, stage', next', summary')
      BY <1>3, <2>2, <3>1, <3>2, <3>3 DEF At, memories, timings
    <3> QED BY <1>2, <1>6, <3>4 DEF Progress, memories, timings
  <2> QED BY <2>3, <2>4
<1>8. CASE ~(next > timings)
  <2>1. PICK a, b, c, d, e :
          /\ summary = SummaryOf(a, b, c, d, e)
          /\ Loaded(scenario, world, "timing", a, next - 1)
          /\ Loaded(scenario, world, "memory", b, 0) /\ CasesOf(scenario, world, "memory", d, Baseline, 0)
          /\ LoadedWindows(scenario, world, heard, c, 0) /\ WindowsOf(scenario, world, heard, e, Idle, 0)
    BY <1>3 DEF LoadedSoFar
  <2> DEFINE rep == Reps(scenario, "timing")[next]
             more == AddCase(a, Who(scenario, rep[1]), MeasuredCase(RowOf(scenario, world, "timing", rep)))
  <2>2. next \in 1..timings /\ next - 1 \in Nat /\ (next - 1) + 1 = next /\ next \in DOMAIN Reps(scenario, "timing")
    BY <1>3, <1>4, <1>8
  <2>3. row = RowOf(scenario, world, "timing", rep) /\ row.of = Who(scenario, rep[1])
    BY <1>5, <2>2, RowFields
  <2>4. rep[1] # Baseline
    <3>1. "timing" \in Tables
      BY DEF Tables
    <3>2. rep[1] \in Planned
      BY <2>2, <3>1, RepsFacts DEF CasesIn
    <3> QED BY <3>2, NothingElseIsPlanned
  <2>5. Loaded(scenario, world, "timing", more, next)
    <3>1. "timing" \in Tables
      BY DEF Tables
    <3> QED BY <2>1, <2>2, <2>4, <3>1, LoadedRow
  <2>6. summary' = SummaryOf(more, b, c, d, e)
    <3>1. LoadTimingRow(SummaryOf(a, b, c, d, e), row) = SummaryOf(AddCase(a, row.of, MeasuredCase(row)), b, c, d, e)
      BY RowsInTheSummary
    <3> HIDE DEF row
    <3>2. summary' = SummaryOf(AddCase(a, row.of, MeasuredCase(row)), b, c, d, e)
      BY <1>6, <1>8, <2>1, <3>1
    <3> QED BY <2>3, <3>2
  <2>7. LoadedSoFar(scenario, world, heard, summary', next, 0, 0)
    <3> HIDE DEF more
    <3> QED BY <2>1, <2>5, <2>6 DEF LoadedSoFar
  <2>8. stage' = "LoadTiming" /\ next' \in 1..(timings + 1) /\ next' - 1 = next
    BY <1>1, <1>4, <1>6, <1>8, <2>2
  <2>9. At(scenario, world, heard, m, l, k, stage', next', summary')
    BY <1>3, <2>7, <2>8 DEF At, memories, timings
  <2> QED BY <1>2, <1>6, <2>9 DEF Progress, memories, timings
<1> QED BY <1>7, <1>8

\* A row of _load_memory_results.
LEMMA LoadingMemory ==
  ASSUME scenario \in Scenarios, Progress(scenario, world, stage, next, table, summary), LoadMemory
  PROVE  Progress(scenario, world, stage', next', table', summary')
<1> DEFINE memories == Len(Reps(scenario, "memory"))
           timings == Len(Reps(scenario, "timing"))
           row == table.memory[next]
<1>1. stage = "LoadMemory" /\ LoadRow(table.memory, LoadMemoryRow(summary, row), "LoadEnergy")
  BY DEF LoadMemory
<1>2. PICK heard, m, l, k :
        /\ m \in 0..memories /\ l \in 0..Len(Listening(scenario)) /\ k \in 0..timings
        /\ IsHeard(scenario, world, heard, l) /\ table = TablesOf(scenario, world, heard, m, k)
        /\ At(scenario, world, heard, m, l, k, stage, next, summary)
  BY DEF Progress
<1>3. m = memories /\ l = Len(Listening(scenario)) /\ k = timings /\ next \in 1..(memories + 1)
        /\ LoadedSoFar(scenario, world, heard, summary, timings, next - 1, 0)
  BY <1>1, <1>2 DEF At
<1>4. memories \in Nat /\ timings \in Nat /\ DOMAIN Reps(scenario, "memory") = 1..memories
  BY Lengths
<1>5. /\ Len(table.memory) = memories
      /\ \A i \in 1..memories :
           table.memory[i] = RowOf(scenario, world, "memory", Reps(scenario, "memory")[i])
  <2>1. table.memory = First(scenario, world, "memory", memories)
    BY <1>2, <1>3, ChangedTables
  <2>2. memories \in 0..memories /\ "memory" \in Tables
    BY <1>4 DEF Tables
  <2> QED BY <2>1, <2>2, FirstRows
<1>6. /\ table' = table
      /\ next > memories => summary' = summary /\ stage' = "LoadEnergy" /\ next' = 1
      /\ ~(next > memories) => /\ summary' = LoadMemoryRow(summary, row) /\ stage' = stage
                               /\ next' = next + 1
  BY <1>1, <1>5, RowRead
<1> HIDE DEF memories, timings
<1>7. CASE next > memories
  <2>1. next - 1 = memories
    BY <1>3, <1>4, <1>7
  <2>2. LoadedSoFar(scenario, world, heard, summary, timings, memories, 0)
    BY <1>3, <2>1
  <2>3. stage' = "LoadEnergy" /\ next' = 1 /\ summary' = summary
    BY <1>6, <1>7
  <2>4. next' \in 1..(2 * Len(heard) + 1) /\ next' - 1 = 0
    <3>1. Len(heard) \in Nat
      BY <1>2, HeardFacts
    <3> QED BY <2>3, <3>1
  <2>5. At(scenario, world, heard, m, l, k, stage', next', summary')
    BY <1>3, <2>2, <2>3, <2>4 DEF At, memories, timings
  <2> QED BY <1>2, <1>6, <2>5 DEF Progress, memories, timings
<1>8. CASE ~(next > memories)
  <2>1. PICK a, b, c, d, e :
          /\ summary = SummaryOf(a, b, c, d, e)
          /\ Loaded(scenario, world, "timing", a, timings)
          /\ Loaded(scenario, world, "memory", b, next - 1)
          /\ CasesOf(scenario, world, "memory", d, Baseline, next - 1)
          /\ LoadedWindows(scenario, world, heard, c, 0) /\ WindowsOf(scenario, world, heard, e, Idle, 0)
    BY <1>3 DEF LoadedSoFar
  <2> DEFINE rep == Reps(scenario, "memory")[next]
             case == MeasuredCase(RowOf(scenario, world, "memory", rep))
             of == Who(scenario, rep[1])
  <2>2. /\ next \in 1..memories /\ next - 1 \in Nat /\ (next - 1) + 1 = next
        /\ next \in DOMAIN Reps(scenario, "memory") /\ "memory" \in Tables
    BY <1>3, <1>4, <1>8 DEF Tables
  <2>3. /\ row = RowOf(scenario, world, "memory", rep) /\ row.of = of /\ row.baseline = (rep[1] = Baseline)
        /\ MeasuredCase(row) = case
    BY <1>5, <2>2, RowFields
  <2>4. stage' = "LoadMemory" /\ next' \in 1..(memories + 1) /\ next' - 1 = next
    BY <1>1, <1>4, <1>6, <1>8, <2>2
  <2>5. summary' = LoadMemoryRow(SummaryOf(a, b, c, d, e), row)
    BY <1>6, <1>8, <2>1
  <2>6. LoadedSoFar(scenario, world, heard, summary', timings, next, 0)
    <3>1. CASE rep[1] = Baseline
      <4>1. LoadMemoryRow(SummaryOf(a, b, c, d, e), row) = SummaryOf(a, b, c, Append(d, MeasuredCase(row)), e)
        <5>1. row.baseline
          BY <2>3, <3>1
        <5> HIDE DEF row
        <5> QED BY <5>1, RowsInTheSummary
      <4>2. summary' = SummaryOf(a, b, c, Append(d, case), e)
        BY <2>3, <2>5, <4>1
      <4>3. Loaded(scenario, world, "memory", b, next)
        BY <2>1, <2>2, <3>1, LoadedBesides
      <4>4. CasesOf(scenario, world, "memory", Append(d, case), Baseline, next)
        BY <2>1, <2>2, <3>1, AnotherCase
      <4> HIDE DEF case
      <4> QED BY <2>1, <4>2, <4>3, <4>4 DEF LoadedSoFar
    <3>2. CASE rep[1] # Baseline
      <4>1. LoadMemoryRow(SummaryOf(a, b, c, d, e), row)
              = SummaryOf(a, AddCase(b, row.of, MeasuredCase(row)), c, d, e)
        <5>1. ~row.baseline
          BY <2>3, <3>2
        <5> HIDE DEF row
        <5> QED BY <5>1, RowsInTheSummary
      <4>2. summary' = SummaryOf(a, AddCase(b, of, case), c, d, e)
        BY <2>3, <2>5, <4>1
      <4>3. Loaded(scenario, world, "memory", AddCase(b, of, case), next)
        BY <2>1, <2>2, <3>2, LoadedRow
      <4>4. CasesOf(scenario, world, "memory", d, Baseline, next)
        BY <2>1, <2>2, <3>2, CasesOfOthers
      <4> HIDE DEF case, of
      <4> QED BY <2>1, <4>2, <4>3, <4>4 DEF LoadedSoFar
    <3> QED BY <3>1, <3>2
  <2>7. At(scenario, world, heard, m, l, k, stage', next', summary')
    BY <1>3, <2>4, <2>6 DEF At, memories, timings
  <2> QED BY <1>2, <1>6, <2>7 DEF Progress, memories, timings
<1> QED BY <1>7, <1>8

\* A row of _load_energy_results.
LEMMA LoadingEnergy ==
  ASSUME scenario \in Scenarios, Progress(scenario, world, stage, next, table, summary), LoadEnergy
  PROVE  Progress(scenario, world, stage', next', table', summary')
<1> DEFINE memories == Len(Reps(scenario, "memory"))
           timings == Len(Reps(scenario, "timing"))
           row == table.energy[next]
<1>1. stage = "LoadEnergy" /\ LoadRow(table.energy, LoadEnergyRow(summary, row), "Analyze")
  BY DEF LoadEnergy
<1>2. PICK heard, m, l, k :
        /\ m \in 0..memories /\ l \in 0..Len(Listening(scenario)) /\ k \in 0..timings
        /\ IsHeard(scenario, world, heard, l) /\ table = TablesOf(scenario, world, heard, m, k)
        /\ At(scenario, world, heard, m, l, k, stage, next, summary)
  BY DEF Progress
<1> DEFINE readings == 2 * Len(heard)
<1>3. m = memories /\ l = Len(Listening(scenario)) /\ k = timings /\ next \in 1..(readings + 1)
        /\ LoadedSoFar(scenario, world, heard, summary, timings, memories, next - 1)
  BY <1>1, <1>2 DEF At
<1>4. Len(heard) \in Nat /\ readings \in Nat /\ IsSeq(heard) /\ DOMAIN heard = 1..Len(heard)
  BY <1>2, HeardFacts DEF IsHeard
<1>5. /\ Len(table.energy) = readings
      /\ \A i \in 1..readings :
           table.energy[i] = SampleRow(scenario, world, WindowAt(scenario, heard, BlockOf(i, 2)), PlaceOf(i, 2))
  <2>1. table.energy = RowsOf(scenario, world, heard)
    BY <1>2, ChangedTables
  <2> QED BY <1>4, <2>1, RowsOfHeard DEF WindowOf, WindowAt
<1>6. /\ table' = table
      /\ next > readings => summary' = summary /\ stage' = "Analyze" /\ next' = 1
      /\ ~(next > readings) => /\ summary' = LoadEnergyRow(summary, row) /\ stage' = stage
                               /\ next' = next + 1
  BY <1>1, <1>5, RowRead
<1> HIDE DEF memories, timings, readings
<1>7. CASE next > readings
  <2>1. next - 1 = readings
    BY <1>3, <1>4, <1>7
  <2>2. LoadedSoFar(scenario, world, heard, summary, timings, memories, readings)
    BY <1>3, <2>1
  <2>3. stage' = "Analyze" /\ next' = 1 /\ summary' = summary
    BY <1>6, <1>7
  <2>4. At(scenario, world, heard, m, l, k, stage', next', summary')
    BY <1>3, <2>2, <2>3 DEF At, memories, timings, readings
  <2> QED BY <1>2, <1>6, <2>4 DEF Progress, memories, timings
<1>8. CASE ~(next > readings)
  <2>1. PICK a, b, c, d, e :
          /\ summary = SummaryOf(a, b, c, d, e)
          /\ Loaded(scenario, world, "timing", a, timings)
          /\ Loaded(scenario, world, "memory", b, memories)
          /\ CasesOf(scenario, world, "memory", d, Baseline, memories)
          /\ LoadedWindows(scenario, world, heard, c, next - 1)
          /\ WindowsOf(scenario, world, heard, e, Idle, next - 1)
    BY <1>3 DEF LoadedSoFar
  <2> DEFINE window == WindowAt(scenario, heard, BlockOf(next, 2))
  <2>2. next \in 1..readings /\ next - 1 \in Nat /\ (next - 1) + 1 = next
    BY <1>3, <1>4, <1>8
  <2>3. /\ row = SampleRow(scenario, world, window, PlaceOf(next, 2)) /\ row.of = Tag(scenario, window[1])
        /\ row.baseline = (window[1] = Idle)
    <3>1. row = SampleRow(scenario, world, window, PlaceOf(next, 2))
      BY <1>5, <2>2
    <3> HIDE DEF row
    <3> QED BY <3>1 DEF SampleRow
  <2>4. stage' = "LoadEnergy" /\ next' \in 1..(readings + 1) /\ next' - 1 = next
    BY <1>1, <1>4, <1>6, <1>8, <2>2
  <2>5. summary' = LoadEnergyRow(SummaryOf(a, b, c, d, e), row)
    BY <1>6, <1>8, <2>1
  <2>6. LoadedSoFar(scenario, world, heard, summary', timings, memories, next)
    <3>1. CASE window[1] = Idle
      <4>1. summary' = SummaryOf(a, b, c, d, AddSample(e, row))
        <5>1. LoadEnergyRow(SummaryOf(a, b, c, d, e), row) = SummaryOf(a, b, c, d, AddSample(e, row))
          <6>1. row.baseline
            BY <2>3, <3>1
          <6> HIDE DEF row
          <6> QED BY <6>1, RowsInTheSummary
        <5> QED BY <2>5, <5>1
      <4>2. LoadedWindows(scenario, world, heard, c, next)
        BY <1>2, <2>1, <2>2, <3>1, LoadedIdle
      <4>3. WindowsOf(scenario, world, heard, AddSample(e, row), Idle, next)
        BY <1>2, <2>1, <2>2, <2>3, <3>1, AnotherSample DEF readings
      <4> HIDE DEF row
      <4> QED BY <2>1, <4>1, <4>2, <4>3 DEF LoadedSoFar
    <3>2. CASE window[1] # Idle
      <4>1. row.of = Who(scenario, window[1])
        BY <2>3, <3>2 DEF Tag
      <4>2. summary' = SummaryOf(a, b, WindowsWith(c, row), d, e)
        <5>1. LoadEnergyRow(SummaryOf(a, b, c, d, e), row) = SummaryOf(a, b, WindowsWith(c, row), d, e)
          <6>1. ~row.baseline
            BY <2>3, <3>2
          <6> HIDE DEF row
          <6> QED BY <6>1, RowsInTheSummary
        <5> QED BY <2>5, <5>1
      <4>3. LoadedWindows(scenario, world, heard, WindowsWith(c, row), next)
        <5>1. LET r == SampleRow(scenario, world, window, PlaceOf(next, 2))
                  f == Find(c, Who(scenario, window[1]))
              IN LoadedWindows(scenario, world, heard,
                    IF f = 0 THEN Append(c, [of |-> Who(scenario, window[1]), cases |-> AddSample(<<>>, r)])
                    ELSE [c EXCEPT ![f].cases = AddSample(@, r)], next)
          BY <1>2, <2>1, <2>2, <3>2, LoadedWorkload DEF readings
        <5> HIDE DEF row, window
        <5> QED BY <2>3, <4>1, <5>1 DEF WindowsWith
      <4>4. WindowsOf(scenario, world, heard, e, Idle, next)
        BY <1>2, <2>1, <2>2, <3>2, WindowsOfOthers
      <4> QED BY <2>1, <4>2, <4>3, <4>4 DEF LoadedSoFar
    <3> QED BY <3>1, <3>2
  <2>7. At(scenario, world, heard, m, l, k, stage', next', summary')
    BY <1>3, <2>4, <2>6 DEF At, memories, timings, readings
  <2> QED BY <1>2, <1>6, <2>7 DEF Progress, memories, timings
<1> QED BY <1>7, <1>8

----------------------------------------------------------------------------
(* The cases of an aggregation, once every row is loaded, are all the repetitions. *)

\* Once every row is loaded, an aggregation has a case for each repetition.
LEMMA AllTheCases ==
  ASSUME NEW s \in Scenarios, NEW w, NEW t \in Tables, NEW cases, NEW c,
         CasesOf(s, w, t, cases, c, Len(Reps(s, t))), DOMAIN cases # {}
  PROVE  DOMAIN cases = 1..Runs
<1> DEFINE reps == Reps(s, t)
<1>1. /\ IsSeq(reps) /\ DOMAIN reps = 1..Len(reps)
      /\ \A i \in DOMAIN reps : reps[i][2] \in 1..Runs
      /\ \A i \in DOMAIN reps : \A n \in 1..Runs : \E j \in DOMAIN reps : reps[j] = <<reps[i][1], n>>
  BY RepsFacts, SequenceFacts DEF Ordered
<1>2. /\ \A n \in DOMAIN cases : /\ cases[n] = MeasuredCase(RowOf(s, w, t, <<c, n>>))
                                 /\ \E i \in DOMAIN reps : reps[i] = <<c, n>>
      /\ \A i \in DOMAIN reps : reps[i][1] = c => reps[i][2] \in DOMAIN cases
  BY <1>1 DEF CasesOf
<1> HIDE DEF reps
<1>3. ASSUME NEW n \in DOMAIN cases PROVE n \in 1..Runs
  <2>1. PICK i \in DOMAIN reps : reps[i] = <<c, n>>
    BY <1>2
  <2> QED BY <1>1, <2>1
<1>4. ASSUME NEW n \in 1..Runs PROVE n \in DOMAIN cases
  <2>1. PICK first \in DOMAIN cases : TRUE
    OBVIOUS
  <2>2. PICK i \in DOMAIN reps : reps[i] = <<c, first>>
    BY <1>2, <2>1
  <2>3. PICK j \in DOMAIN reps : reps[j] = <<reps[i][1], n>>
    BY <1>1, <2>2
  <2>4. reps[j][1] = c /\ reps[j][2] = n
    BY <2>2, <2>3
  <2> QED BY <1>2, <2>4
<1> QED BY <1>3, <1>4

\* What statistics.py computes from them is what was measured.
AsMeasured(s, t, a, c) ==
  \A metric \in Columns(t, s, Who(s, c)) : metric # "throttled" => Values(a, metric) = Measured(c, metric)

\* The values of a metric are those measured, in the order of the repetitions.
LEMMA ValuesAreMeasured ==
  ASSUME NEW s \in Scenarios, NEW w, NEW t \in Tables, NEW a, NEW c,
         CasesOf(s, w, t, a.cases, c, Len(Reps(s, t))), DOMAIN a.cases # {}
  PROVE  AsMeasured(s, t, a, c)
<1> SUFFICES ASSUME NEW metric \in Columns(t, s, Who(s, c)), metric # "throttled"
             PROVE  Values(a, metric) = Measured(c, metric)
  BY DEF AsMeasured
<1> DEFINE cases == a.cases
<1>0. CasesOf(s, w, t, cases, c, Len(Reps(s, t))) /\ DOMAIN cases # {}
  OBVIOUS
<1> HIDE DEF cases
<1>1. DOMAIN cases = 1..Runs /\ \A n \in 1..Runs : cases[n] = MeasuredCase(RowOf(s, w, t, <<c, n>>))
  <2>1. DOMAIN cases = 1..Runs
    BY <1>0, AllTheCases
  <2>2. ASSUME NEW n \in 1..Runs PROVE cases[n] = MeasuredCase(RowOf(s, w, t, <<c, n>>))
    BY <1>0, <2>1 DEF CasesOf
  <2> QED BY <2>1, <2>2
<1>2. \A n \in 1..Runs : cases[n].measurements[metric] = Datum(metric, c, n)
  <2> SUFFICES ASSUME NEW n \in 1..Runs PROVE cases[n].measurements[metric] = Datum(metric, c, n)
    OBVIOUS
  <2>1. cases[n].measurements = RowOf(s, w, t, <<c, n>>).measurements
    BY <1>1 DEF MeasuredCase
  <2>2. RowOf(s, w, t, <<c, n>>).measurements[metric] = Datum(metric, c, n)
    <3> DEFINE rep == <<c, n>>
    <3>1. rep[1] = c /\ rep[2] = n
      OBVIOUS
    <3> HIDE DEF rep
    <3>2. RowOf(s, w, t, rep).measurements[metric] = Datum(metric, rep[1], rep[2])
      BY <3>1, RowMeasurements
    <3> QED BY <3>1, <3>2 DEF rep
  <2> QED BY <2>1, <2>2
<1>3. Values(a, metric) = [n \in 1..Runs |-> cases[n].measurements[metric]]
  BY <1>1 DEF Values, cases
<1> QED BY <1>2, <1>3 DEF Measured

\* An aggregation is throttled if a repetition of its case was.
LEMMA ThrottledRepetitions ==
  ASSUME NEW s \in Scenarios, NEW w, NEW a, NEW c,
         CasesOf(s, w, "timing", a.cases, c, Len(Reps(s, "timing"))), DOMAIN a.cases # {}
  PROVE  TimingThrottled(a) <=> Throttled(w, "timing", c)
<1> DEFINE cases == a.cases
           Flag(n) == cases[n].measurements["throttled"]
<1>0. CasesOf(s, w, "timing", cases, c, Len(Reps(s, "timing"))) /\ DOMAIN cases # {} /\ "timing" \in Tables
  BY DEF Tables
<1> HIDE DEF cases
<1>1. DOMAIN cases = 1..Runs /\ \A n \in 1..Runs : cases[n] = MeasuredCase(RowOf(s, w, "timing", <<c, n>>))
  <2>1. DOMAIN cases = 1..Runs
    BY <1>0, AllTheCases
  <2>2. ASSUME NEW n \in 1..Runs PROVE cases[n] = MeasuredCase(RowOf(s, w, "timing", <<c, n>>))
    BY <1>0, <2>1 DEF CasesOf
  <2> QED BY <2>1, <2>2
<1>2. ASSUME NEW n \in 1..Runs PROVE Flag(n) > 0 <=> <<"timing", <<c, n>>>> \in w.throttled
  <2> DEFINE rep == <<c, n>>
  <2>1. cases[n].measurements = RowOf(s, w, "timing", rep).measurements
    BY <1>1 DEF MeasuredCase
  <2> HIDE DEF rep
  <2>2. "throttled" \in Columns("timing", s, Who(s, rep[1]))
    BY DEF Columns, TimingColumns
  <2>3. RowOf(s, w, "timing", rep).measurements["throttled"] = IF Marked(w, "timing", rep) THEN 1 ELSE 0
    BY <2>2, RowMeasurements
  <2>4. Flag(n) = IF Marked(w, "timing", rep) THEN 1 ELSE 0
    BY <2>1, <2>3
  <2>5. Flag(n) > 0 <=> Marked(w, "timing", rep)
    BY <2>4
  <2> QED BY <2>5 DEF Marked, rep
<1>3. TimingThrottled(a) <=> \E n \in 1..Runs : Flag(n) > 0
  BY <1>1 DEF TimingThrottled, cases
<1> HIDE DEF Flag
<1> QED BY <1>2, <1>3 DEF Throttled

----------------------------------------------------------------------------
(* The windows of an aggregation, once every row is loaded, are those that were heard. *)

\* An aggregation has a case for each window that was heard.
LEMMA AllTheWindows ==
  ASSUME NEW s \in Scenarios, NEW w, NEW heard, IsHeard(s, w, heard, Len(Listening(s))), NEW cases, NEW c,
         WindowsOf(s, w, heard, cases, c, 2 * Len(heard)), DOMAIN cases # {}
  PROVE  /\ \A e \in DOMAIN cases : /\ cases[e].run \in 1..Runs /\ <<c, cases[e].run>> \notin w.silent
                                    /\ cases[e].samples = Readings(<<c, cases[e].run>>)
                                    /\ cases[e].throttled = Marked(w, "energy", <<c, cases[e].run>>)
         /\ \A e, f \in DOMAIN cases : e < f => cases[e].run < cases[f].run
         /\ \A n \in 1..Runs : <<c, n>> \notin w.silent => \E e \in DOMAIN cases : cases[e].run = n
<1> DEFINE all == Listening(s)
           m == 2 * Len(heard)
<1>1. /\ Len(heard) \in Nat /\ DOMAIN heard = 1..Len(heard)
      /\ \A b \in DOMAIN heard :
           /\ heard[b] \in DOMAIN all /\ WindowAt(s, heard, b) \notin w.silent
           /\ WindowAt(s, heard, b) = <<WindowAt(s, heard, b)[1], WindowAt(s, heard, b)[2]>>
           /\ WindowAt(s, heard, b)[2] \in 1..Runs
  <2>1. Len(all) \in 0..Len(all)
    BY Lengths
  <2> QED BY <2>1, HeardFacts
<1>2. /\ \A e \in DOMAIN cases : \E b \in Begun(s, heard, c, m) : cases[e] = CaseOfWindow(s, w, heard, b, m)
      /\ \A e, f \in DOMAIN cases : e < f => cases[e].run < cases[f].run
      /\ \A b \in Begun(s, heard, c, m) : \E e \in DOMAIN cases : cases[e] = CaseOfWindow(s, w, heard, b, m)
  BY DEF WindowsOf
<1>3. \A b \in DOMAIN heard : 2 * b <= m /\ 2 * b - 1 <= m
  BY <1>1
<1>4. \A b \in DOMAIN heard : b \in Begun(s, heard, c, m) <=> WindowAt(s, heard, b)[1] = c
  BY <1>3 DEF Begun
<1>5. \A b \in Begun(s, heard, c, m) : b \in DOMAIN heard
  BY DEF Begun
<1> HIDE DEF m
<1>6. \A b \in DOMAIN heard :
        /\ CaseOfWindow(s, w, heard, b, m).run = WindowAt(s, heard, b)[2]
        /\ CaseOfWindow(s, w, heard, b, m).throttled = Marked(w, "energy", WindowAt(s, heard, b))
        /\ CaseOfWindow(s, w, heard, b, m).samples = SamplesOf(WindowAt(s, heard, b))
  BY <1>3, CaseFields, CaseSamples
<1>7. \A window : SamplesOf(window) = Readings(window)
  BY DEF SamplesOf, Readings, Sample
<1>8. ASSUME NEW e \in DOMAIN cases
      PROVE  \E b \in DOMAIN heard :
               /\ WindowAt(s, heard, b) = <<c, cases[e].run>> /\ cases[e].run \in 1..Runs
               /\ <<c, cases[e].run>> \notin w.silent
               /\ cases[e].samples = Readings(<<c, cases[e].run>>)
               /\ cases[e].throttled = Marked(w, "energy", <<c, cases[e].run>>)
  <2>1. PICK b \in Begun(s, heard, c, m) : cases[e] = CaseOfWindow(s, w, heard, b, m)
    BY <1>2
  <2>2. b \in DOMAIN heard /\ WindowAt(s, heard, b)[1] = c
    BY <1>4, <1>5
  <2>3. cases[e].run = WindowAt(s, heard, b)[2]
    BY <1>6, <2>1, <2>2
  <2>4. WindowAt(s, heard, b) = <<c, cases[e].run>>
    BY <1>1, <2>2, <2>3
  <2>5. cases[e].samples = Readings(WindowAt(s, heard, b))
    BY <1>6, <1>7, <2>1, <2>2
  <2>6. cases[e].throttled = Marked(w, "energy", WindowAt(s, heard, b))
    BY <1>6, <2>1, <2>2
  <2> QED BY <1>1, <2>2, <2>3, <2>4, <2>5, <2>6
<1>9. ASSUME NEW n \in 1..Runs, <<c, n>> \notin w.silent PROVE \E e \in DOMAIN cases : cases[e].run = n
  <2>1. PICK first \in DOMAIN cases : TRUE
    OBVIOUS
  <2>2. PICK b \in DOMAIN heard : WindowAt(s, heard, b) = <<c, cases[first].run>>
    BY <1>8
  <2>3. heard[b] \in DOMAIN all /\ all[heard[b]][1] = c
    BY <1>1, <2>2 DEF WindowAt
  <2>4. PICK j \in DOMAIN all : all[j] = <<all[heard[b]][1], n>>
    <3>1. Ordered(all)
      BY ListeningFacts
    <3> QED BY <2>3, <3>1 DEF Ordered
  <2>5. PICK d \in DOMAIN heard : heard[d] = j
    <3>1. j \in 1..Len(Listening(s)) /\ Listening(s)[j] \notin w.silent
      BY <1>9, <2>3, <2>4, Lengths
    <3> QED BY <3>1 DEF IsHeard
  <2>6. WindowAt(s, heard, d)[1] = c /\ WindowAt(s, heard, d)[2] = n
    BY <2>3, <2>4, <2>5 DEF WindowAt
  <2>7. PICK e \in DOMAIN cases : cases[e] = CaseOfWindow(s, w, heard, d, m)
    BY <1>2, <1>4, <2>6
  <2> QED BY <1>6, <2>6, <2>7
<1> QED BY <1>2, <1>8, <1>9

\* Its windows are those that were heard, in their order.
LEMMA WindowsAreHeard ==
  ASSUME NEW s \in Scenarios, NEW w, NEW heard, IsHeard(s, w, heard, Len(Listening(s))), NEW cases, NEW c,
         WindowsOf(s, w, heard, cases, c, 2 * Len(heard)), DOMAIN cases # {}
  PROVE  AreHeard(w.silent, Windows(cases), c)
<1> DEFINE run == [e \in DOMAIN cases |-> cases[e].run]
           windows == Windows(cases)
           answered == {n \in 1..Runs : <<c, n>> \notin w.silent}
<1>1. /\ \A e \in DOMAIN cases : /\ cases[e].run \in answered
                                 /\ cases[e].samples = Readings(<<c, cases[e].run>>)
      /\ \A e, f \in DOMAIN cases : e < f => cases[e].run < cases[f].run
      /\ \A n \in answered : \E e \in DOMAIN cases : cases[e].run = n
  BY AllTheWindows
<1>2. DOMAIN windows = DOMAIN cases /\ \A e \in DOMAIN cases : windows[e] = cases[e].samples
  BY DEF Windows
<1>3. run \in [DOMAIN windows -> answered] /\ \A e \in DOMAIN cases : run[e] = cases[e].run
  BY <1>1, <1>2
<1> HIDE DEF run, windows, answered
<1>4. \A i \in DOMAIN windows : windows[i] = Readings(<<c, run[i]>>)
  BY <1>1, <1>2, <1>3
<1>5. \A i, j \in DOMAIN windows : i < j => run[i] < run[j]
  BY <1>1, <1>2, <1>3
<1>6. answered = {run[i] : i \in DOMAIN windows}
  BY <1>1, <1>2, <1>3
<1>7. AreHeard(w.silent, windows, c)
  BY <1>3, <1>4, <1>5, <1>6 DEF AreHeard, answered
<1> QED BY <1>7 DEF windows

\* It is throttled if a window that was heard was.
LEMMA ThrottledWindows ==
  ASSUME NEW s \in Scenarios, NEW w,
         NEW heard, IsHeard(s, w, heard, Len(Listening(s))), NEW a, NEW c,
         WindowsOf(s, w, heard, a.cases, c, 2 * Len(heard)), DOMAIN a.cases # {}
  PROVE  EnergyThrottled(a) <=> Throttled(w, "energy", c)
<1> DEFINE cases == a.cases
<1>1. /\ \A e \in DOMAIN cases : /\ cases[e].run \in 1..Runs /\ <<c, cases[e].run>> \notin w.silent
                                 /\ cases[e].throttled = (<<"energy", <<c, cases[e].run>>>> \in w.throttled)
      /\ \A n \in 1..Runs : <<c, n>> \notin w.silent => \E e \in DOMAIN cases : cases[e].run = n
  BY AllTheWindows DEF Marked
<1> HIDE DEF cases
<1>2. EnergyThrottled(a) <=> \E e \in DOMAIN cases : cases[e].throttled
  BY DEF EnergyThrottled, cases
<1>3. ASSUME NEW e \in DOMAIN cases, cases[e].throttled PROVE Throttled(w, "energy", c)
  BY <1>1, <1>3 DEF Throttled
<1>4. ASSUME Throttled(w, "energy", c) PROVE \E e \in DOMAIN cases : cases[e].throttled
  <2>1. PICK n \in 1..Runs : <<"energy", <<c, n>>>> \in w.throttled /\ <<c, n>> \notin w.silent
    BY <1>4 DEF Throttled
  <2>2. PICK e \in DOMAIN cases : cases[e].run = n
    BY <1>1, <2>1
  <2> QED BY <1>1, <2>1, <2>2
<1> QED BY <1>2, <1>3, <1>4

----------------------------------------------------------------------------
(* What the report of a scenario looks up. *)

Operations == {"Encrypt", "Decrypt", "Serialize", "Deserialize"}
CaseAt(kind, values, i) == Case(kind[1], kind[2], values[i])

\* The kinds of a report are pairs of a planned algorithm and an operation.
LEMMA ReportedKinds ==
  ASSUME NEW s \in Scenarios, NEW kind \in ReportKinds(s)
  PROVE  /\ kind = <<kind[1], kind[2]>> /\ kind[1] \in Algorithms /\ kind[2] \in Operations
         /\ kind # BaselineKind
<1>1. kind = <<kind[1], kind[2]>> /\ kind[1] \in Algorithms /\ kind[2] \in Operations
  <2>1. CASE s = "aes_ascon"
    BY <2>1 DEF ReportKinds, A!ShownKinds, Algorithms, Operations
  <2>2. CASE s = "json_cbor"
    BY <2>2 DEF ReportKinds, J!ShownKinds, Algorithms, Operations
  <2>3. CASE s = "cpabe_rsa"
    BY <2>3 DEF ReportKinds, C!CASE_ORDER, Algorithms, Operations
  <2>4. CASE s = "full_schema"
    BY <2>4 DEF ReportKinds, F!ShownKinds, F!CONFIGURATIONS, Algorithms, Operations
  <2> QED BY <2>1, <2>2, <2>3, <2>4 DEF Scenarios
<1>2. BaselineKind = <<"Runtime", "MemoryBaseline">> /\ "Runtime" \notin Algorithms
  BY DEF BaselineKind, Baseline, Case, Algorithms
<1>3. kind # BaselineKind
  BY <1>1, <1>2
<1> QED BY <1>1, <1>3

\* The lists of the environment file are of numbers,
LEMMA ListsOfNumbers ==
  /\ \A i \in DOMAIN Environment.payloads : Environment.payloads[i] \in Numbers
  /\ \A i \in DOMAIN Environment.schemaPayloads : Environment.schemaPayloads[i] \in Numbers
  /\ \A i \in DOMAIN Environment.keyBits : Environment.keyBits[i] \in Numbers
  /\ \A i \in DOMAIN Environment.attributes : Environment.attributes[i] \in Numbers
  /\ \A i \in DOMAIN Environment.subscribers : Environment.subscribers[i] \in Numbers
<1>1. \A list \in Seq(Nat) : \A i \in DOMAIN list : list[i] \in Numbers
  BY DEF Numbers
<1> QED BY <1>1, MicroReportsAssumption DEF NamesOnce, IsList

\* and so are the values that a report looks up.
LEMMA ReportedValues ==
  ASSUME NEW s \in Scenarios, NEW kind \in ReportKinds(s)
  PROVE  /\ \A i \in DOMAIN TimingValues(s, kind) : TimingValues(s, kind)[i] \in Numbers
         /\ \A i \in DOMAIN EnergyValues(s, kind) : EnergyValues(s, kind)[i] \in Numbers
         /\ \A i \in DOMAIN MemoryValues(s, kind) : MemoryValues(s, kind)[i] \in Numbers
<1>1. \A i \in DOMAIN TimingValues(s, kind) : TimingValues(s, kind)[i] \in Numbers
  <2>1. CASE s = "cpabe_rsa"
    <3>1. kind[1] \in {"CPABEAttributes", "RSASubscribers", "RSAKeyBits"}
      BY <2>1 DEF ReportKinds, C!CASE_ORDER
    <3>2. TimingValues(s, kind) \in {Environment.attributes, Environment.subscribers, Environment.keyBits}
      BY <2>1, <3>1 DEF TimingValues, C!TimingValues
    <3> QED BY <3>2, ListsOfNumbers
  <2>2. CASE s # "cpabe_rsa"
    <3>1. TimingValues(s, kind) \in {Environment.schemaPayloads, Environment.payloads}
      BY <2>2 DEF TimingValues
    <3> QED BY <3>1, ListsOfNumbers
  <2> QED BY <2>1, <2>2
<1>2. \A i \in DOMAIN EnergyValues(s, kind) : EnergyValues(s, kind)[i] \in Numbers
  <2>1. CASE s = "cpabe_rsa"
    <3>1. \/ EnergyValues(s, kind) = TimingValues(s, kind)
          \/ EnergyValues(s, kind) = <<Environment.fixed>> \/ EnergyValues(s, kind) = <<>>
      BY <2>1 DEF EnergyValues, C!EnergyMemoryValues, TimingValues
    <3>2. DOMAIN <<Environment.fixed>> = {1} /\ <<Environment.fixed>>[1] \in Numbers /\ DOMAIN <<>> = {}
      BY DEF Numbers
    <3> QED BY <1>1, <3>1, <3>2
  <2>2. CASE s # "cpabe_rsa"
    BY <1>1, <2>2 DEF EnergyValues
  <2> QED BY <2>1, <2>2
<1>3. \A i \in DOMAIN MemoryValues(s, kind) : MemoryValues(s, kind)[i] \in Numbers
  <2>1. MemoryValues(s, kind) = EnergyValues(s, kind) \/ MemoryValues(s, kind) = <<>>
    BY DEF MemoryValues
  <2>2. DOMAIN <<>> = {}
    OBVIOUS
  <2> QED BY <1>2, <2>1, <2>2
<1> QED BY <1>1, <1>2, <1>3

\* What is looked up in the tables is a case that a script may plan.
LEMMA ReportedCases ==
  ASSUME NEW s \in Scenarios, NEW kind \in ReportKinds(s)
  PROVE  \A v \in Numbers : /\ Case(kind[1], kind[2], v) \in Planned
                            /\ Identity(s, Case(kind[1], kind[2], v)) = Who(s, Case(kind[1], kind[2], v))
<1>1. \A v \in Numbers : Case(kind[1], kind[2], v) \in Planned
  BY ReportedKinds DEF Case, Planned, CaseOf, Operations
<1> QED BY <1>1, IdentityOfACase

\* The energy of a case is computed with a latency that the report has.
LEMMA EnergyIsTimed ==
  ASSUME NEW s \in Scenarios, s = "cpabe_rsa" => C!Analysable(Environment), NEW kind \in ReportKinds(s),
         NEW i \in DOMAIN EnergyValues(s, kind)
  PROVE  \E j \in DOMAIN TimingValues(s, kind) : TimingValues(s, kind)[j] = EnergyValues(s, kind)[i]
<1>1. CASE EnergyValues(s, kind) = TimingValues(s, kind)
  BY <1>1
<1>2. CASE EnergyValues(s, kind) # TimingValues(s, kind)
  <2>1. s = "cpabe_rsa" /\ kind[1] = "RSAKeyBits"
    BY <1>2 DEF EnergyValues, C!EnergyMemoryValues, TimingValues
  <2>2. EnergyValues(s, kind) = <<Environment.fixed>> \/ EnergyValues(s, kind) = <<>>
    BY <2>1 DEF EnergyValues, C!EnergyMemoryValues
  <2>3. EnergyValues(s, kind)[i] = Environment.fixed
    BY <2>2
  <2>4. TimingValues(s, kind) = Environment.keyBits
    BY <2>1 DEF TimingValues, C!TimingValues
  <2>5. \E j \in DOMAIN Environment.keyBits : Environment.keyBits[j] = Environment.fixed
    BY <2>1 DEF C!Analysable, C!Elements
  <2> QED BY <2>3, <2>4, <2>5
<1> QED BY <1>1, <1>2

Core == {"latency", "energy", "memory", "timing_throttled", "energy_throttled"}

\* The other measures are of metrics that the timing table keeps of their cases.
LEMMA ReportedExtras ==
  ASSUME NEW s \in Scenarios, NEW kind \in ReportKinds(s), NEW x \in Extras(s, kind), NEW v
  PROVE  /\ x.measure \notin Core /\ x.metric # "throttled"
         /\ x.metric \in TimingColumns(s, Who(s, Case(kind[1], kind[2], v)))
<1> DEFINE who == Who(s, Case(kind[1], kind[2], v))
<1>0. who.algorithm = kind[1] /\ who.operation = kind[2]
  BY DEF Who, Case
<1> HIDE DEF who
<1>1. CASE s = "aes_ascon"
  <2>1. x.measure = "throughput" /\ x.metric = "MB/s"
    BY <1>1 DEF Extras, A!Extras, A!Extra
  <2>2. "MB/s" \in TimingColumns(s, who)
    BY <1>1 DEF TimingColumns
  <2> QED BY <2>1, <2>2 DEF Core, who
<1>2. CASE s = "json_cbor"
  <2>1. /\ kind[2] = "Serialize"
        /\ \/ x.measure = "size" /\ x.metric = "serialized_bytes"
           \/ x.measure = "raw size" /\ x.metric = "raw_bytes" /\ kind[1] = "JSON"
    <3>1. x \in J!Extras(kind)
      BY <1>2 DEF Extras
    <3>2. kind[2] = "Serialize"
      BY <3>1 DEF J!Extras
    <3>3. x = J!Extra("size", "serialized_bytes", TRUE)
            \/ x \in (IF kind[1] = "JSON" THEN {J!Extra("raw size", "raw_bytes", TRUE)} ELSE {})
      BY <3>1, <3>2 DEF J!Extras
    <3>4. CASE x = J!Extra("size", "serialized_bytes", TRUE)
      BY <3>2, <3>4 DEF J!Extra
    <3>5. CASE x \in (IF kind[1] = "JSON" THEN {J!Extra("raw size", "raw_bytes", TRUE)} ELSE {})
      <4>1. kind[1] = "JSON" /\ x = J!Extra("raw size", "raw_bytes", TRUE)
        BY <3>5
      <4> QED BY <3>2, <4>1 DEF J!Extra
    <3> QED BY <3>3, <3>4, <3>5
  <2>2. "serialized_bytes" \in TimingColumns(s, who) /\ (kind[1] = "JSON" => "raw_bytes" \in TimingColumns(s, who))
    BY <1>0, <1>2, <2>1 DEF TimingColumns
  <2> QED BY <2>1, <2>2 DEF Core, who
<1>3. CASE s = "cpabe_rsa"
  <2>1. \/ x.measure = "ciphertext" /\ x.metric = "ciphertext_bytes" /\ kind[2] = "Encrypt"
        \/ x.measure = "total_ciphertext" /\ x.metric = "total_ciphertext_bytes" /\ kind[1] = "RSASubscribers"
        \/ x.measure = "stored_key" /\ x.metric = "stored_key_bytes" /\ kind = <<"CPABEAttributes", "Decrypt">>
    BY <1>3 DEF Extras, C!Extras, C!Extra
  <2>2. kind[1] = "RSASubscribers" => kind[2] = "Encrypt"
    BY <1>3 DEF ReportKinds, C!CASE_ORDER
  <2>3. /\ kind[2] = "Encrypt" => "ciphertext_bytes" \in TimingColumns(s, who)
        /\ kind[2] = "Encrypt" /\ kind[1] = "RSASubscribers" => "total_ciphertext_bytes" \in TimingColumns(s, who)
        /\ kind = <<"CPABEAttributes", "Decrypt">> => "stored_key_bytes" \in TimingColumns(s, who)
    BY <1>0, <1>3 DEF TimingColumns
  <2> QED BY <2>1, <2>2, <2>3 DEF Core, who
<1>4. CASE s = "full_schema"
  <2>1. kind[2] = "Encrypt" /\ x.measure = "size" /\ x.metric = "serialized_bytes"
    BY <1>4 DEF Extras, F!Extras, F!Extra
  <2>2. "serialized_bytes" \in TimingColumns(s, who)
    BY <1>0, <1>4, <2>1 DEF TimingColumns
  <2> QED BY <2>1, <2>2 DEF Core, who
<1> QED BY <1>1, <1>2, <1>3, <1>4 DEF Scenarios

----------------------------------------------------------------------------
(* What analyze_case computes. *)

Measures(s, kind) == {"latency", "energy", "memory"} \cup {x.measure : x \in Extras(s, kind)}

\* The values of a kind that a measure has numbers for.
Headings(s, kind, measure) ==
  IF measure = "energy" THEN EnergyValues(s, kind)
  ELSE IF measure = "memory" THEN MemoryValues(s, kind) ELSE TimingValues(s, kind)

\* The number belongs to the case (IsTrue).
TrueData(s, silent, case, measure, data) ==
  CASE measure = "latency" -> data = Measured(case, "ns/op")
    [] measure = "memory" -> data = Measured(case, "peak_rss_bytes")
    [] measure = "energy" -> /\ AreHeard(silent, data.load, case)
                             /\ AreHeard(silent, data.idle, Idle)
                             /\ data.latency = Measured(case, "ns/op")
    [] OTHER -> LET x == ExtraOf(s, <<case.algorithm, case.operation>>, measure) IN
                data = IF x.firstOnly THEN <<Datum(x.metric, case, 1)>> ELSE Measured(case, x.metric)

\* Every number of a kind belongs to the case with the value at its place, and so do the flags.
NumbersTrue(s, w, kind, analyzed) ==
  \A measure \in Measures(s, kind) : \A i \in DOMAIN Headings(s, kind, measure) :
    TrueData(s, w.silent, CaseAt(kind, Headings(s, kind, measure), i), measure, analyzed[measure][i])

FlagsTrue(w, kind, values, flags, t) ==
  /\ DOMAIN flags = DOMAIN values
  /\ \A i \in DOMAIN values : flags[i] <=> Throttled(w, t, CaseAt(kind, values, i))

AnalyzedTruly(s, w, kind, analyzed) ==
  /\ NumbersTrue(s, w, kind, analyzed)
  /\ FlagsTrue(w, kind, TimingValues(s, kind), analyzed["timing_throttled"], "timing")
  /\ FlagsTrue(w, kind, EnergyValues(s, kind), analyzed["energy_throttled"], "energy")

ResultsAreTrue(s, w, res) ==
  /\ \A kind \in ReportKinds(s) : AnalyzedTruly(s, w, kind, res[kind])
  /\ WithMemory(s) => res[BaselineKind]["memory"][1] = Measured(Baseline, "peak_rss_bytes")

\* The aggregations that are looked up for the values of a kind, each of which exists.
Aggregated(all, kind, values) == [i \in DOMAIN values |-> all[Lookups(all, kind, values)[i]]]
NumbersIn(values) == \A i \in DOMAIN values : values[i] \in Numbers

\* What a report looks up is a case that can be planned.
LEMMA CaseFound ==
  ASSUME NEW s \in Scenarios, NEW kind \in ReportKinds(s), NEW values, NumbersIn(values), NEW i \in DOMAIN values
  PROVE  /\ CaseAt(kind, values, i) \in Planned
         /\ Identity(s, CaseAt(kind, values, i)) = Who(s, CaseAt(kind, values, i))
<1>1. values[i] \in Numbers
  BY DEF NumbersIn
<1> QED BY <1>1, ReportedCases DEF CaseAt

\* find_*_aggregation finds the cases of what was looked up,
LEMMA MeasurementsFound ==
  ASSUME scenario \in Scenarios, NEW w, NEW t \in Tables, NEW list, Loaded(scenario, w, t, list, Len(Reps(scenario, t))),
         NEW kind \in ReportKinds(scenario), NEW values, NumbersIn(values), Found(list, kind, values),
         NEW i \in DOMAIN values
  PROVE  /\ Aggregated(list, kind, values)[i].of = Who(scenario, CaseAt(kind, values, i))
         /\ CasesOf(scenario, w, t, Aggregated(list, kind, values)[i].cases, CaseAt(kind, values, i), Len(Reps(scenario, t)))
         /\ DOMAIN Aggregated(list, kind, values)[i].cases # {}
<1> DEFINE c == CaseAt(kind, values, i)
           at == Find(list, Who(scenario, c))
<1>1. c \in Planned /\ Identity(scenario, c) = Who(scenario, c)
  BY CaseFound
<1>2. Lookups(list, kind, values)[i] = at
  BY <1>1 DEF Lookups, CaseAt
<1>3. at # 0 /\ Aggregated(list, kind, values)[i] = list[at]
  BY <1>2 DEF Aggregated, Found
<1> HIDE DEF c
<1>4. /\ IsSeq(list)
      /\ \A a \in DOMAIN list : \E d \in Planned : list[a].of = Who(scenario, d)
                                                     /\ CasesOf(scenario, w, t, list[a].cases, d, Len(Reps(scenario, t)))
      /\ \A a \in DOMAIN list : DOMAIN list[a].cases # {}
      /\ \A a, b \in DOMAIN list : list[a].of = list[b].of => a = b
  BY DEF Loaded
<1>5. at \in DOMAIN list /\ list[at].of = Who(scenario, c)
  BY <1>3, <1>4, FindIsTheOne
<1> HIDE DEF at
<1>6. PICK d \in Planned : list[at].of = Who(scenario, d) /\ CasesOf(scenario, w, t, list[at].cases, d, Len(Reps(scenario, t)))
  BY <1>4, <1>5
<1>7. d = c
  BY <1>1, <1>5, <1>6, WhoIsOne
<1>8. list[at].of = Who(scenario, c) /\ CasesOf(scenario, w, t, list[at].cases, c, Len(Reps(scenario, t))) /\ DOMAIN list[at].cases # {}
  BY <1>4, <1>5, <1>6, <1>7
<1> QED BY <1>3, <1>8 DEF c

\* and so for the windows.
LEMMA WindowsFound ==
  ASSUME scenario \in Scenarios, NEW w, NEW heard, NEW list, LoadedWindows(scenario, w, heard, list, 2 * Len(heard)),
         NEW kind \in ReportKinds(scenario), NEW values, NumbersIn(values), Found(list, kind, values),
         NEW i \in DOMAIN values
  PROVE  /\ Aggregated(list, kind, values)[i].of = Who(scenario, CaseAt(kind, values, i))
         /\ WindowsOf(scenario, w, heard, Aggregated(list, kind, values)[i].cases, CaseAt(kind, values, i),
                      2 * Len(heard))
         /\ DOMAIN Aggregated(list, kind, values)[i].cases # {}
<1> DEFINE c == CaseAt(kind, values, i)
           at == Find(list, Who(scenario, c))
           m == 2 * Len(heard)
<1>1. c \in Planned /\ Identity(scenario, c) = Who(scenario, c)
  BY CaseFound
<1>2. Lookups(list, kind, values)[i] = at
  BY <1>1 DEF Lookups, CaseAt
<1>3. at # 0 /\ Aggregated(list, kind, values)[i] = list[at]
  BY <1>2 DEF Aggregated, Found
<1>0. LoadedWindows(scenario, w, heard, list, m)
  OBVIOUS
<1> HIDE DEF c, m
<1>4. /\ IsSeq(list)
      /\ \A a \in DOMAIN list : \E d \in Planned : list[a].of = Who(scenario, d)
                                                     /\ WindowsOf(scenario, w, heard, list[a].cases, d, m)
      /\ \A a \in DOMAIN list : DOMAIN list[a].cases # {}
      /\ \A a, b \in DOMAIN list : list[a].of = list[b].of => a = b
  BY <1>0 DEF LoadedWindows
<1>5. at \in DOMAIN list /\ list[at].of = Who(scenario, c)
  BY <1>3, <1>4, FindIsTheOne
<1> HIDE DEF at
<1>6. PICK d \in Planned : list[at].of = Who(scenario, d) /\ WindowsOf(scenario, w, heard, list[at].cases, d, m)
  BY <1>4, <1>5
<1>7. d = c
  BY <1>1, <1>5, <1>6, WhoIsOne
<1>8. list[at].of = Who(scenario, c) /\ WindowsOf(scenario, w, heard, list[at].cases, c, m) /\ DOMAIN list[at].cases # {}
  BY <1>4, <1>5, <1>6, <1>7
<1> QED BY <1>3, <1>8 DEF c, m

\* The fields of what analyze_case returns.
LEMMA AnalyzedFields ==
  ASSUME NEW kind
  PROVE  LET timings == Aggregated(summary.timing, kind, TimingValues(scenario, kind))
             energies == Aggregated(summary.energy, kind, EnergyValues(scenario, kind))
             memories == Aggregated(summary.memory, kind, MemoryValues(scenario, kind))
         IN /\ Analyzed(kind)["latency"] = [i \in DOMAIN timings |-> Values(timings[i], "ns/op")]
            /\ Analyzed(kind)["energy"]
                 = [i \in DOMAIN energies |-> EnergyPerOperation(energies[i], summary.energyBaseline, timings)]
            /\ Analyzed(kind)["memory"] = [i \in DOMAIN memories |-> Values(memories[i], "peak_rss_bytes")]
            /\ Analyzed(kind)["timing_throttled"] = [i \in DOMAIN timings |-> TimingThrottled(timings[i])]
            /\ Analyzed(kind)["energy_throttled"] = [i \in DOMAIN energies |-> EnergyThrottled(energies[i])]
            /\ \A x \in Extras(scenario, kind) : x.measure \notin Core =>
                 Analyzed(kind)[x.measure] =
                   [i \in DOMAIN timings |->
                      IF ExtraOf(scenario, kind, x.measure).firstOnly
                      THEN <<Values(timings[i], ExtraOf(scenario, kind, x.measure).metric)[1]>>
                      ELSE Values(timings[i], ExtraOf(scenario, kind, x.measure).metric)]
<1> DEFINE timings == Aggregated(summary.timing, kind, TimingValues(scenario, kind))
           energies == Aggregated(summary.energy, kind, EnergyValues(scenario, kind))
           memories == Aggregated(summary.memory, kind, MemoryValues(scenario, kind))
           Latency == [i \in DOMAIN timings |-> Values(timings[i], "ns/op")]
           Energy == [i \in DOMAIN energies |-> EnergyPerOperation(energies[i], summary.energyBaseline, timings)]
           Memory == [i \in DOMAIN memories |-> Values(memories[i], "peak_rss_bytes")]
           Timing == [i \in DOMAIN timings |-> TimingThrottled(timings[i])]
           Load == [i \in DOMAIN energies |-> EnergyThrottled(energies[i])]
           OfExtra(x) == [i \in DOMAIN timings |-> IF x.firstOnly THEN <<Values(timings[i], x.metric)[1]>>
                                                   ELSE Values(timings[i], x.metric)]
           domain == Core \cup {x.measure : x \in Extras(scenario, kind)}
           Field(measure) ==
             CASE measure = "latency" -> Latency
               [] measure = "energy" -> Energy
               [] measure = "memory" -> Memory
               [] measure = "timing_throttled" -> Timing
               [] measure = "energy_throttled" -> Load
               [] OTHER -> OfExtra(ExtraOf(scenario, kind, measure))
<1>2. Analyzed(kind) = [measure \in domain |-> Field(measure)]
  BY Zenon DEF Analyzed, Aggregated, Core
<1> HIDE DEF Latency, Energy, Memory, Timing, Load, OfExtra
<1>3. Field("latency") = Latency /\ Field("energy") = Energy /\ Field("memory") = Memory
        /\ Field("timing_throttled") = Timing /\ Field("energy_throttled") = Load
  OBVIOUS
<1>4. \A measure : measure \notin Core => Field(measure) = OfExtra(ExtraOf(scenario, kind, measure))
  BY DEF Core
<1> HIDE DEF Field
<1>5. \A measure \in domain : Analyzed(kind)[measure] = Field(measure)
  BY <1>2
<1>6. Core \subseteq domain /\ \A x \in Extras(scenario, kind) : x.measure \in domain
  OBVIOUS
<1> HIDE DEF domain
<1>7. /\ Analyzed(kind)["latency"] = Latency /\ Analyzed(kind)["energy"] = Energy
      /\ Analyzed(kind)["memory"] = Memory
      /\ Analyzed(kind)["timing_throttled"] = Timing /\ Analyzed(kind)["energy_throttled"] = Load
  BY <1>3, <1>5, <1>6 DEF Core
<1>8. \A x \in Extras(scenario, kind) : x.measure \notin Core =>
        Analyzed(kind)[x.measure] = OfExtra(ExtraOf(scenario, kind, x.measure))
  BY <1>4, <1>5, <1>6
<1> QED BY <1>7, <1>8, Zenon DEF Latency, Energy, Memory, Timing, Load, OfExtra

\* The five lists of the summary.
LEMMA LoadedLists ==
  ASSUME NEW s, NEW w, NEW heard, NEW sum, NEW k, NEW m, NEW r, LoadedSoFar(s, w, heard, sum, k, m, r)
  PROVE  /\ Loaded(s, w, "timing", sum.timing, k) /\ Loaded(s, w, "memory", sum.memory, m)
         /\ CasesOf(s, w, "memory", sum.memoryBaseline, Baseline, m)
         /\ LoadedWindows(s, w, heard, sum.energy, r) /\ WindowsOf(s, w, heard, sum.energyBaseline, Idle, r)
<1>1. PICK a, b, c, d, e :
        /\ sum = SummaryOf(a, b, c, d, e)
        /\ Loaded(s, w, "timing", a, k)
        /\ Loaded(s, w, "memory", b, m) /\ CasesOf(s, w, "memory", d, Baseline, m)
        /\ LoadedWindows(s, w, heard, c, r) /\ WindowsOf(s, w, heard, e, Idle, r)
  BY DEF LoadedSoFar
<1>2. sum.timing = a /\ sum.memory = b /\ sum.energy = c /\ sum.memoryBaseline = d /\ sum.energyBaseline = e
  BY <1>1 DEF SummaryOf
<1> QED BY <1>1, <1>2

\* A list that is not empty has a first entry.
LEMMA NotEmpty ==
  ASSUME NEW x, IsSeq(x), x # <<>>
  PROVE  DOMAIN x # {}
<1>1. Len(x) \in Nat /\ DOMAIN x = 1..Len(x) /\ x = [i \in 1..Len(x) |-> x[i]]
  BY SequenceFacts
<1>2. SUFFICES ASSUME DOMAIN x = {} PROVE FALSE
  OBVIOUS
<1>3. x \in Seq({})
  BY <1>1, <1>2
<1> QED BY <1>1, <1>2, <1>3

\* A case whose values are at hand.
AllLoaded(heard) ==
  /\ scenario \in Scenarios /\ IsHeard(scenario, world, heard, Len(Listening(scenario)))
  /\ LoadedSoFar(scenario, world, heard, summary, Len(Reps(scenario, "timing")), Len(Reps(scenario, "memory")),
                 2 * Len(heard))
  /\ Analysable

\* The timing aggregation of a value has its numbers and its mark.
LEMMA TimingsAnalyzed ==
  ASSUME NEW heard, AllLoaded(heard), NEW kind \in ReportKinds(scenario),
         NEW i \in DOMAIN TimingValues(scenario, kind)
  PROVE  LET a == Aggregated(summary.timing, kind, TimingValues(scenario, kind))[i]
             c == CaseAt(kind, TimingValues(scenario, kind), i)
         IN /\ a.of = Who(scenario, c)
            /\ \A metric \in Columns("timing", scenario, Who(scenario, c)) :
                 metric # "throttled" => Values(a, metric) = Measured(c, metric)
            /\ TimingThrottled(a) <=> Throttled(world, "timing", c)
<1> DEFINE values == TimingValues(scenario, kind)
           a == Aggregated(summary.timing, kind, values)[i]
           c == CaseAt(kind, values, i)
           n == Len(Reps(scenario, "timing"))
<1>1. scenario \in Scenarios /\ Loaded(scenario, world, "timing", summary.timing, n) /\ "timing" \in Tables
  BY LoadedLists DEF AllLoaded, Tables
<1>2. NumbersIn(values) /\ Found(summary.timing, kind, values)
  BY <1>1, ReportedValues DEF NumbersIn, AllLoaded, Analysable
<1>3. i \in DOMAIN values
  OBVIOUS
<1> HIDE DEF values
<1>4. a.of = Who(scenario, c) /\ CasesOf(scenario, world, "timing", a.cases, c, n) /\ DOMAIN a.cases # {}
  BY <1>1, <1>2, <1>3, MeasurementsFound
<1> HIDE DEF a, c, n
<1>5. CasesOf(scenario, world, "timing", a.cases, c, Len(Reps(scenario, "timing")))
  BY <1>4 DEF n
<1>6. \A metric \in Columns("timing", scenario, Who(scenario, c)) :
        metric # "throttled" => Values(a, metric) = Measured(c, metric)
  <2>1. AsMeasured(scenario, "timing", a, c)
    BY <1>1, <1>4, <1>5, ValuesAreMeasured
  <2> QED BY <2>1 DEF AsMeasured
<1>7. TimingThrottled(a) <=> Throttled(world, "timing", c)
  BY <1>1, <1>4, <1>5, ThrottledRepetitions
<1> QED BY <1>4, <1>6, <1>7 DEF a, c, values

\* The memory aggregation of a value has its numbers.
LEMMA MemoryAnalyzed ==
  ASSUME NEW heard, AllLoaded(heard), NEW kind \in ReportKinds(scenario),
         NEW i \in DOMAIN MemoryValues(scenario, kind)
  PROVE  Values(Aggregated(summary.memory, kind, MemoryValues(scenario, kind))[i], "peak_rss_bytes")
           = Measured(CaseAt(kind, MemoryValues(scenario, kind), i), "peak_rss_bytes")
<1> DEFINE values == MemoryValues(scenario, kind)
           a == Aggregated(summary.memory, kind, values)[i]
           c == CaseAt(kind, values, i)
           n == Len(Reps(scenario, "memory"))
<1>1. scenario \in Scenarios /\ Loaded(scenario, world, "memory", summary.memory, n) /\ "memory" \in Tables
  BY LoadedLists DEF AllLoaded, Tables
<1>2. NumbersIn(values) /\ Found(summary.memory, kind, values)
  BY <1>1, ReportedValues DEF NumbersIn, AllLoaded, Analysable
<1>3. i \in DOMAIN values
  OBVIOUS
<1> HIDE DEF values
<1>4. CasesOf(scenario, world, "memory", a.cases, c, n) /\ DOMAIN a.cases # {}
  BY <1>1, <1>2, <1>3, MeasurementsFound
<1> HIDE DEF a, c
<1>5. "peak_rss_bytes" \in Columns("memory", scenario, Who(scenario, c))
  BY DEF Columns
<1>6. Values(a, "peak_rss_bytes") = Measured(c, "peak_rss_bytes")
  <2>1. AsMeasured(scenario, "memory", a, c)
    BY <1>1, <1>4, ValuesAreMeasured DEF n
  <2> QED BY <1>5, <2>1 DEF AsMeasured
<1> QED BY <1>6 DEF a, c, values

\* So has that of the empty process.
LEMMA BaselineAnalyzed ==
  ASSUME NEW heard, AllLoaded(heard), WithMemory(scenario)
  PROVE  Values([cases |-> summary.memoryBaseline], "peak_rss_bytes") = Measured(Baseline, "peak_rss_bytes")
<1> DEFINE cases == summary.memoryBaseline
           a == [cases |-> cases]
           n == Len(Reps(scenario, "memory"))
<1>1. /\ scenario \in Scenarios /\ CasesOf(scenario, world, "memory", cases, Baseline, n) /\ "memory" \in Tables
      /\ cases # <<>>
  BY LoadedLists DEF AllLoaded, Tables, Analysable
<1>2. a.cases = cases
  OBVIOUS
<1> HIDE DEF cases, a
<1>3. DOMAIN cases # {}
  BY <1>1, NotEmpty DEF CasesOf
<1>4. "peak_rss_bytes" \in Columns("memory", scenario, Who(scenario, Baseline))
  BY DEF Columns
<1>5. Values(a, "peak_rss_bytes") = Measured(Baseline, "peak_rss_bytes")
  <2>1. AsMeasured(scenario, "memory", a, Baseline)
    BY <1>1, <1>2, <1>3, ValuesAreMeasured
  <2> QED BY <1>4, <2>1 DEF AsMeasured
<1> QED BY <1>5 DEF a, cases

\* The energy aggregation of a value has its windows, the latency of its case and its mark.
LEMMA EnergyAnalyzed ==
  ASSUME NEW heard, AllLoaded(heard), NEW kind \in ReportKinds(scenario),
         NEW i \in DOMAIN EnergyValues(scenario, kind)
  PROVE  LET timings == Aggregated(summary.timing, kind, TimingValues(scenario, kind))
             a == Aggregated(summary.energy, kind, EnergyValues(scenario, kind))[i]
             c == CaseAt(kind, EnergyValues(scenario, kind), i)
         IN /\ AreHeard(world.silent, Windows(a.cases), c)
            /\ AreHeard(world.silent, Windows(summary.energyBaseline), Idle)
            /\ Values(MatchingTiming(a, timings), "ns/op") = Measured(c, "ns/op")
            /\ EnergyThrottled(a) <=> Throttled(world, "energy", c)
<1> DEFINE times == TimingValues(scenario, kind)
           timings == Aggregated(summary.timing, kind, times)
           values == EnergyValues(scenario, kind)
           a == Aggregated(summary.energy, kind, values)[i]
           c == CaseAt(kind, values, i)
           base == summary.energyBaseline
           m == 2 * Len(heard)
<1>1. /\ scenario \in Scenarios /\ IsHeard(scenario, world, heard, Len(Listening(scenario)))
      /\ LoadedWindows(scenario, world, heard, summary.energy, 2 * Len(heard))
      /\ WindowsOf(scenario, world, heard, base, Idle, 2 * Len(heard))
      /\ base # <<>> /\ (scenario = "cpabe_rsa" => C!Analysable(Environment))
  BY LoadedLists DEF AllLoaded, Analysable
<1>2. NumbersIn(values) /\ Found(summary.energy, kind, values) /\ NumbersIn(times)
  BY <1>1, ReportedValues DEF NumbersIn, AllLoaded, Analysable
<1>3. i \in DOMAIN values
  OBVIOUS
<1>4. PICK j \in DOMAIN times : times[j] = values[i]
  BY <1>1, EnergyIsTimed
<1>5. \A k \in DOMAIN times :
        /\ timings[k].of = Who(scenario, CaseAt(kind, times, k))
        /\ Values(timings[k], "ns/op") = Measured(CaseAt(kind, times, k), "ns/op")
  <2> SUFFICES ASSUME NEW k \in DOMAIN times
               PROVE  /\ timings[k].of = Who(scenario, CaseAt(kind, times, k))
                      /\ Values(timings[k], "ns/op") = Measured(CaseAt(kind, times, k), "ns/op")
    OBVIOUS
  <2>1. "ns/op" \in Columns("timing", scenario, Who(scenario, CaseAt(kind, times, k))) /\ "ns/op" # "throttled"
    BY DEF Columns, TimingColumns
  <2> QED BY <2>1, TimingsAnalyzed
<1>6. DOMAIN timings = DOMAIN times
  BY DEF Aggregated
<1> HIDE DEF values, times, base
<1>7. a.of = Who(scenario, c) /\ WindowsOf(scenario, world, heard, a.cases, c, 2 * Len(heard)) /\ DOMAIN a.cases # {}
  BY <1>1, <1>2, <1>3, WindowsFound
<1>8. c \in Planned /\ CaseAt(kind, times, j) = c
  BY <1>1, <1>2, <1>3, <1>4, CaseFound DEF CaseAt
<1> HIDE DEF a, c, timings
<1>9. AreHeard(world.silent, Windows(a.cases), c)
  BY <1>1, <1>7, WindowsAreHeard
<1>10. AreHeard(world.silent, Windows(base), Idle)
  <2>1. DOMAIN base # {}
    BY <1>1, NotEmpty DEF WindowsOf
  <2> QED BY <1>1, <2>1, WindowsAreHeard
<1>11. Values(MatchingTiming(a, timings), "ns/op") = Measured(c, "ns/op")
  <2> DEFINE k == CHOOSE k \in DOMAIN timings : timings[k].of = a.of
  <2>1. k \in DOMAIN timings /\ timings[k].of = a.of
    <3>1. j \in DOMAIN timings /\ timings[j].of = a.of
      BY <1>4, <1>5, <1>6, <1>7, <1>8
    <3> QED BY <3>1
  <2>2. MatchingTiming(a, timings) = timings[k]
    BY DEF MatchingTiming
  <2> HIDE DEF k
  <2>3. Who(scenario, CaseAt(kind, times, k)) = Who(scenario, c)
    BY <1>5, <1>6, <1>7, <2>1
  <2>4. CaseAt(kind, times, k) \in Planned
    BY <1>1, <1>2, <1>6, <2>1, CaseFound
  <2>5. CaseAt(kind, times, k) = c
    BY <1>8, <2>3, <2>4, WhoIsOne
  <2> QED BY <1>5, <1>6, <2>1, <2>2, <2>5
<1>12. EnergyThrottled(a) <=> Throttled(world, "energy", c)
  BY <1>1, <1>7, ThrottledWindows
<1> QED BY <1>9, <1>10, <1>11, <1>12 DEF a, c, values, times, timings, base

\* The kind of a case.
LEMMA FieldsOfACase ==
  ASSUME NEW s \in Scenarios, NEW kind \in ReportKinds(s), NEW values, NEW i
  PROVE  <<CaseAt(kind, values, i).algorithm, CaseAt(kind, values, i).operation>> = kind
<1>1. kind = <<kind[1], kind[2]>>
  BY ReportedKinds
<1>2. CaseAt(kind, values, i).algorithm = kind[1] /\ CaseAt(kind, values, i).operation = kind[2]
  BY DEF CaseAt, Case
<1> QED BY <1>1, <1>2

\* analyze_case: every number of a kind belongs to the case at its place,
LEMMA NumbersAnalyzed ==
  ASSUME NEW heard, AllLoaded(heard), NEW kind \in ReportKinds(scenario)
  PROVE  NumbersTrue(scenario, world, kind, Analyzed(kind))
<1> DEFINE times == TimingValues(scenario, kind)
           loads == EnergyValues(scenario, kind)
           peaks == MemoryValues(scenario, kind)
           timings == Aggregated(summary.timing, kind, times)
           energies == Aggregated(summary.energy, kind, loads)
           memories == Aggregated(summary.memory, kind, peaks)
<1>0. scenario \in Scenarios
  BY DEF AllLoaded
<1>1. DOMAIN timings = DOMAIN times /\ DOMAIN energies = DOMAIN loads /\ DOMAIN memories = DOMAIN peaks
  BY DEF Aggregated
<1>2. /\ Analyzed(kind)["latency"] = [i \in DOMAIN timings |-> Values(timings[i], "ns/op")]
      /\ Analyzed(kind)["energy"]
           = [i \in DOMAIN energies |-> EnergyPerOperation(energies[i], summary.energyBaseline, timings)]
      /\ Analyzed(kind)["memory"] = [i \in DOMAIN memories |-> Values(memories[i], "peak_rss_bytes")]
  BY AnalyzedFields
<1>3. \A x \in Extras(scenario, kind) : x.measure \notin Core =>
        Analyzed(kind)[x.measure] =
          [i \in DOMAIN timings |->
             IF ExtraOf(scenario, kind, x.measure).firstOnly
             THEN <<Values(timings[i], ExtraOf(scenario, kind, x.measure).metric)[1]>>
             ELSE Values(timings[i], ExtraOf(scenario, kind, x.measure).metric)]
  BY AnalyzedFields
<1>4. ASSUME NEW i \in DOMAIN times
      PROVE  \A metric \in Columns("timing", scenario, Who(scenario, CaseAt(kind, times, i))) :
               metric # "throttled" => Values(timings[i], metric) = Measured(CaseAt(kind, times, i), metric)
  BY TimingsAnalyzed
<1>5. ASSUME NEW i \in DOMAIN peaks
      PROVE  Values(memories[i], "peak_rss_bytes") = Measured(CaseAt(kind, peaks, i), "peak_rss_bytes")
  BY MemoryAnalyzed
<1>6. ASSUME NEW i \in DOMAIN loads
      PROVE  /\ AreHeard(world.silent, Windows(energies[i].cases), CaseAt(kind, loads, i))
             /\ AreHeard(world.silent, Windows(summary.energyBaseline), Idle)
             /\ Values(MatchingTiming(energies[i], timings), "ns/op") = Measured(CaseAt(kind, loads, i), "ns/op")
  BY EnergyAnalyzed
<1>7. \A c : Columns("timing", scenario, Who(scenario, c)) = TimingColumns(scenario, Who(scenario, c))
               /\ "ns/op" \in TimingColumns(scenario, Who(scenario, c))
  BY DEF Columns, TimingColumns
<1> HIDE DEF timings, energies, memories
<1>8. ASSUME NEW i \in DOMAIN times
      PROVE  TrueData(scenario, world.silent, CaseAt(kind, times, i), "latency", Analyzed(kind)["latency"][i])
  <2>1. Analyzed(kind)["latency"][i] = Values(timings[i], "ns/op")
    BY <1>1, <1>2
  <2>2. Values(timings[i], "ns/op") = Measured(CaseAt(kind, times, i), "ns/op")
    BY <1>4, <1>7
  <2> QED BY <2>1, <2>2 DEF TrueData
<1>9. ASSUME NEW i \in DOMAIN peaks
      PROVE  TrueData(scenario, world.silent, CaseAt(kind, peaks, i), "memory", Analyzed(kind)["memory"][i])
  <2>1. Analyzed(kind)["memory"][i] = Values(memories[i], "peak_rss_bytes")
    BY <1>1, <1>2
  <2> QED BY <1>5, <2>1 DEF TrueData
<1>10. ASSUME NEW i \in DOMAIN loads
       PROVE  TrueData(scenario, world.silent, CaseAt(kind, loads, i), "energy", Analyzed(kind)["energy"][i])
  <2> DEFINE data == Analyzed(kind)["energy"][i]
  <2>1. data = EnergyPerOperation(energies[i], summary.energyBaseline, timings)
    BY <1>1, <1>2
  <2> HIDE DEF data
  <2>2. /\ data.load = Windows(energies[i].cases) /\ data.idle = Windows(summary.energyBaseline)
        /\ data.latency = Values(MatchingTiming(energies[i], timings), "ns/op")
    BY <2>1 DEF EnergyPerOperation
  <2>3. TrueData(scenario, world.silent, CaseAt(kind, loads, i), "energy", data)
    BY <1>6, <2>2 DEF TrueData
  <2> QED BY <2>3 DEF data
<1>11. ASSUME NEW x \in Extras(scenario, kind), NEW i \in DOMAIN times
       PROVE  TrueData(scenario, world.silent, CaseAt(kind, times, i), x.measure, Analyzed(kind)[x.measure][i])
  <2> DEFINE measure == x.measure
             y == ExtraOf(scenario, kind, measure)
             c == CaseAt(kind, times, i)
             data == Analyzed(kind)[measure][i]
  <2>1. y \in Extras(scenario, kind) /\ y.measure = measure
    BY DEF ExtraOf
  <2>2. measure \notin Core /\ y.metric # "throttled" /\ y.metric \in TimingColumns(scenario, Who(scenario, c))
    <3>1. x.measure \notin Core
      BY <1>0, ReportedExtras
    <3> HIDE DEF y
    <3>2. y.metric # "throttled" /\ y.metric \in TimingColumns(scenario, Who(scenario, Case(kind[1], kind[2], times[i])))
      BY <1>0, <2>1, ReportedExtras
    <3> QED BY <3>1, <3>2 DEF CaseAt
  <2>3. data = IF y.firstOnly THEN <<Values(timings[i], y.metric)[1]>> ELSE Values(timings[i], y.metric)
    <3>1. Analyzed(kind)[x.measure] =
            [k \in DOMAIN timings |-> IF ExtraOf(scenario, kind, x.measure).firstOnly
                                      THEN <<Values(timings[k], ExtraOf(scenario, kind, x.measure).metric)[1]>>
                                      ELSE Values(timings[k], ExtraOf(scenario, kind, x.measure).metric)]
      BY <1>3, <2>2
    <3> QED BY <1>1, <3>1
  <2>4. <<c.algorithm, c.operation>> = kind
    BY <1>0, FieldsOfACase
  <2> HIDE DEF y, c
  <2>5. Values(timings[i], y.metric) = Measured(c, y.metric)
    BY <1>4, <1>7, <2>2 DEF c
  <2>6. Measured(c, y.metric)[1] = Datum(y.metric, c, 1)
    <3>1. 1 \in 1..Runs
      BY MicroReportsAssumption
    <3> QED BY <3>1 DEF Measured
  <2>7. data = IF y.firstOnly THEN <<Datum(y.metric, c, 1)>> ELSE Measured(c, y.metric)
    BY <2>3, <2>5, <2>6
  <2> HIDE DEF data
  <2>8. TrueData(scenario, world.silent, c, measure, data)
    <3>1. measure # "latency" /\ measure # "memory" /\ measure # "energy"
      BY <2>2 DEF Core
    <3> HIDE DEF measure
    <3>2. y = ExtraOf(scenario, <<c.algorithm, c.operation>>, measure)
      BY <2>4 DEF y
    <3> QED BY <2>7, <3>1, <3>2 DEF TrueData
  <2> QED BY <2>8 DEF c, data
<1>12. ASSUME NEW measure \in Measures(scenario, kind), NEW i \in DOMAIN Headings(scenario, kind, measure)
       PROVE  TrueData(scenario, world.silent, CaseAt(kind, Headings(scenario, kind, measure), i), measure,
                       Analyzed(kind)[measure][i])
  <2>1. CASE measure = "latency"
    BY <1>8, <1>12, <2>1 DEF Headings
  <2>2. CASE measure = "energy"
    BY <1>10, <1>12, <2>2 DEF Headings
  <2>3. CASE measure = "memory"
    BY <1>9, <1>12, <2>3 DEF Headings
  <2>4. CASE measure \notin {"latency", "energy", "memory"}
    <3>1. PICK x \in Extras(scenario, kind) : measure = x.measure
      BY <2>4 DEF Measures
    <3>2. Headings(scenario, kind, measure) = times
      BY <2>4 DEF Headings
    <3> QED BY <1>11, <1>12, <3>1, <3>2
  <2> QED BY <2>1, <2>2, <2>3, <2>4
<1> QED BY <1>12 DEF NumbersTrue

\* and every flag.
LEMMA FlagsAnalyzed ==
  ASSUME NEW heard, AllLoaded(heard), NEW kind \in ReportKinds(scenario)
  PROVE  /\ FlagsTrue(world, kind, TimingValues(scenario, kind), Analyzed(kind)["timing_throttled"], "timing")
         /\ FlagsTrue(world, kind, EnergyValues(scenario, kind), Analyzed(kind)["energy_throttled"], "energy")
<1> DEFINE times == TimingValues(scenario, kind)
           loads == EnergyValues(scenario, kind)
           timings == Aggregated(summary.timing, kind, times)
           energies == Aggregated(summary.energy, kind, loads)
<1>1. DOMAIN timings = DOMAIN times /\ DOMAIN energies = DOMAIN loads
  BY DEF Aggregated
<1>2. /\ Analyzed(kind)["timing_throttled"] = [i \in DOMAIN timings |-> TimingThrottled(timings[i])]
      /\ Analyzed(kind)["energy_throttled"] = [i \in DOMAIN energies |-> EnergyThrottled(energies[i])]
  BY AnalyzedFields
<1>3. \A i \in DOMAIN times :
        TimingThrottled(timings[i]) <=> Throttled(world, "timing", CaseAt(kind, times, i))
  BY TimingsAnalyzed
<1>4. \A i \in DOMAIN loads :
        EnergyThrottled(energies[i]) <=> Throttled(world, "energy", CaseAt(kind, loads, i))
  BY EnergyAnalyzed
<1> HIDE DEF timings, energies
<1>5. FlagsTrue(world, kind, times, Analyzed(kind)["timing_throttled"], "timing")
  <2> DEFINE flags == Analyzed(kind)["timing_throttled"]
  <2>1. DOMAIN flags = DOMAIN times /\ \A i \in DOMAIN times : flags[i] = TimingThrottled(timings[i])
    BY <1>1, <1>2
  <2> HIDE DEF flags, times
  <2>2. FlagsTrue(world, kind, times, flags, "timing")
    BY <1>3, <2>1 DEF FlagsTrue
  <2> QED BY <2>2 DEF flags
<1>6. FlagsTrue(world, kind, loads, Analyzed(kind)["energy_throttled"], "energy")
  <2> DEFINE flags == Analyzed(kind)["energy_throttled"]
  <2>1. DOMAIN flags = DOMAIN loads /\ \A i \in DOMAIN loads : flags[i] = EnergyThrottled(energies[i])
    BY <1>1, <1>2
  <2> HIDE DEF flags, loads
  <2>2. FlagsTrue(world, kind, loads, flags, "energy")
    BY <1>4, <2>1 DEF FlagsTrue
  <2> QED BY <2>2 DEF flags
<1> QED BY <1>5, <1>6

\* What the report's main has computed when every case could be looked up.
LEMMA ResultsAnalyzed ==
  ASSUME NEW heard, AllLoaded(heard), Analyze
  PROVE  stage' = "Write" /\ ResultsAreTrue(scenario, world, results')
<1> DEFINE kinds == ReportKinds(scenario)
           idle == <<Values([cases |-> summary.memoryBaseline], "peak_rss_bytes")>>
           all == [kind \in kinds \cup {BaselineKind} |->
                     IF kind \in kinds THEN Analyzed(kind) ELSE [memory |-> idle]]
<1>1. stage' = "Write" /\ results' = all /\ scenario \in Scenarios
  BY DEF Analyze, AllLoaded
<1>2. BaselineKind \notin kinds
  BY <1>1, ReportedKinds
<1> HIDE DEF kinds, idle
<1>3. (\A kind \in kinds : all[kind] = Analyzed(kind)) /\ all[BaselineKind] = [memory |-> idle]
  BY <1>2
<1> HIDE DEF all
<1>4. \A kind \in kinds : AnalyzedTruly(scenario, world, kind, Analyzed(kind))
  BY NumbersAnalyzed, FlagsAnalyzed DEF AnalyzedTruly, kinds
<1>5. \A kind \in kinds : AnalyzedTruly(scenario, world, kind, results'[kind])
  BY <1>1, <1>3, <1>4
<1>6. results'[BaselineKind]["memory"][1] = Values([cases |-> summary.memoryBaseline], "peak_rss_bytes")
  BY <1>1, <1>3 DEF idle
<1> QED BY <1>1, <1>5, <1>6, BaselineAnalyzed DEF ResultsAreTrue, kinds

----------------------------------------------------------------------------
(* Every number stands under the heading it is looked up for, and every flag over one. *)

\* The flags that may mark a measure.
FlagsOf(flags, measure) ==
  /\ flags = "timing_throttled" => measure = "latency"
  /\ flags = "energy_throttled" => measure = "energy"

FitsTo(s, p, kind) ==
  /\ p.measure \in Measures(s, kind) /\ p.index \in DOMAIN Headings(s, kind, p.measure)
  /\ p.case = CaseAt(kind, Headings(s, kind, p.measure), p.index)
  /\ FlagsOf(p.flags, p.measure)

OfBaseline(s, p) ==
  WithMemory(s) /\ p.case = Baseline /\ p.measure = "memory" /\ p.index = 1 /\ p.flags = Unmarked

Fits(s, p) == OfBaseline(s, p) \/ \E kind \in ReportKinds(s) : FitsTo(s, p, kind)

Marks(p, kind, values, i, flags) == p.flags = flags /\ p.case = CaseAt(kind, values, i) /\ p.index = i

\* A place whose number the flags of its value mark.
Covered(s, places) ==
  /\ \A kind \in ReportKinds(s) : \A i \in DOMAIN TimingValues(s, kind) :
       \E p \in places : Marks(p, kind, TimingValues(s, kind), i, "timing_throttled")
  /\ \A kind \in ReportKinds(s) : \A i \in DOMAIN EnergyValues(s, kind) :
       \E p \in places : Marks(p, kind, EnergyValues(s, kind), i, "energy_throttled")

Laid(s, places) == (\A p \in places : Fits(s, p)) /\ Covered(s, places)

\* A place whose number is that of its case fits,
LEMMA PlacementFits ==
  ASSUME NEW s, NEW kind \in ReportKinds(s), NEW measure \in Measures(s, kind), NEW flags,
         FlagsOf(flags, measure), NEW i \in DOMAIN Headings(s, kind, measure), NEW place,
         NEW case, case = Case(kind[1], kind[2], Headings(s, kind, measure)[i])
  PROVE  Fits(s, Placement(place, case, measure, i, flags))
<1> DEFINE p == Placement(place, case, measure, i, flags)
<1>1. p.case = case /\ p.measure = measure /\ p.index = i /\ p.flags = flags
  BY DEF Placement
<1> HIDE DEF p
<1>2. FitsTo(s, p, kind)
  BY <1>1 DEF FitsTo, CaseAt
<1> QED BY <1>2 DEF Fits, p

\* and so does a column over the values that were looked up.
LEMMA ColumnFits ==
  ASSUME NEW s, NEW kind \in ReportKinds(s), NEW measure \in Measures(s, kind), NEW flags,
         FlagsOf(flags, measure), NEW place, NEW headings, headings = Headings(s, kind, measure)
  PROVE  \A p \in Column(place, kind, headings, measure, flags) : Fits(s, p)
<1> SUFFICES ASSUME NEW p \in Column(place, kind, headings, measure, flags) PROVE Fits(s, p)
  OBVIOUS
<1>1. PICK i \in DOMAIN headings :
        p = Placement(place, Case(kind[1], kind[2], headings[i]), measure, i, flags)
  BY DEF Column
<1> QED BY <1>1, PlacementFits

\* A column marks each of its values.
LEMMA ColumnMarks ==
  ASSUME NEW place, NEW kind, NEW values, NEW measure, NEW flags, NEW i \in DOMAIN values
  PROVE  \E p \in Column(place, kind, values, measure, flags) : Marks(p, kind, values, i, flags)
<1> DEFINE p == Placement(place, Case(kind[1], kind[2], values[i]), measure, i, flags)
<1>1. p \in Column(place, kind, values, measure, flags)
  BY DEF Column
<1>2. Marks(p, kind, values, i, flags)
  BY DEF Marks, Placement, CaseAt
<1> HIDE DEF p
<1> QED BY <1>1, <1>2

\* The four scripts place numbers alike.
LEMMA ColumnsAreOne ==
  /\ \A place, kind, headings, measure, flags :
       A!Column(place, kind, headings, measure, flags) = Column(place, kind, headings, measure, flags)
  /\ \A place, kind, headings, measure, flags :
       J!Column(place, kind, headings, measure, flags) = Column(place, kind, headings, measure, flags)
  /\ \A place, kind, headings, measure, flags :
       C!Column(place, kind, headings, measure, flags) = Column(place, kind, headings, measure, flags)
  /\ \A place, kind, headings, measure, flags :
       F!Column(place, kind, headings, measure, flags) = Column(place, kind, headings, measure, flags)
  /\ \A place, case, measure, index, flags :
       /\ A!Placement(place, case, measure, index, flags) = Placement(place, case, measure, index, flags)
       /\ C!Placement(place, case, measure, index, flags) = Placement(place, case, measure, index, flags)
       /\ F!Placement(place, case, measure, index, flags) = Placement(place, case, measure, index, flags)
  /\ A!Baseline = Baseline /\ C!Baseline = Baseline /\ F!Baseline = Baseline
  /\ \A a, o, v : C!Case(a, o, v) = Case(a, o, v)
  /\ A!Unmarked = Unmarked /\ J!Unmarked = Unmarked /\ C!Unmarked = Unmarked /\ F!Unmarked = Unmarked
<1>1. \A a, o, v : A!Case(a, o, v) = Case(a, o, v) /\ J!Case(a, o, v) = Case(a, o, v)
                     /\ C!Case(a, o, v) = Case(a, o, v) /\ F!Case(a, o, v) = Case(a, o, v)
  BY DEF A!Case, J!Case, C!Case, F!Case, Case
<1>2. \A place, case, measure, index, flags :
       /\ A!Placement(place, case, measure, index, flags) = Placement(place, case, measure, index, flags)
       /\ J!Placement(place, case, measure, index, flags) = Placement(place, case, measure, index, flags)
       /\ C!Placement(place, case, measure, index, flags) = Placement(place, case, measure, index, flags)
       /\ F!Placement(place, case, measure, index, flags) = Placement(place, case, measure, index, flags)
  BY DEF A!Placement, J!Placement, C!Placement, F!Placement, Placement
<1>3. A!Baseline = Baseline /\ C!Baseline = Baseline /\ F!Baseline = Baseline
  BY <1>1 DEF A!Baseline, C!Baseline, F!Baseline, Baseline
<1>4. A!Unmarked = Unmarked /\ J!Unmarked = Unmarked /\ C!Unmarked = Unmarked /\ F!Unmarked = Unmarked
  BY DEF A!Unmarked, J!Unmarked, C!Unmarked, F!Unmarked, Unmarked
<1>5. \A place, kind, headings, measure, flags :
       A!Column(place, kind, headings, measure, flags) = Column(place, kind, headings, measure, flags)
  BY <1>1, <1>2 DEF A!Column, Column
<1>6. \A place, kind, headings, measure, flags :
       J!Column(place, kind, headings, measure, flags) = Column(place, kind, headings, measure, flags)
  BY <1>1, <1>2 DEF J!Column, Column
<1>7. \A place, kind, headings, measure, flags :
       C!Column(place, kind, headings, measure, flags) = Column(place, kind, headings, measure, flags)
  BY <1>1, <1>2 DEF C!Column, Column
<1>8. \A place, kind, headings, measure, flags :
       F!Column(place, kind, headings, measure, flags) = Column(place, kind, headings, measure, flags)
  BY <1>1, <1>2 DEF F!Column, Column
<1> QED BY <1>1, <1>2, <1>3, <1>4, <1>5, <1>6, <1>7, <1>8

\* The place of the empty process fits.
LEMMA BaselineFits ==
  ASSUME NEW s, WithMemory(s), NEW place
  PROVE  Fits(s, Placement(place, Baseline, "memory", 1, Unmarked))
<1> DEFINE p == Placement(place, Baseline, "memory", 1, Unmarked)
<1>1. p.case = Baseline /\ p.measure = "memory" /\ p.index = 1 /\ p.flags = Unmarked
  BY DEF Placement
<1> HIDE DEF p
<1>2. Fits(s, p)
  BY <1>1 DEF Fits, OfBaseline
<1> QED BY <1>2 DEF p

\* The measures of every kind, and the rules of the flags.
LEMMA CoreMeasures ==
  /\ \A s, kind : {"latency", "energy", "memory"} \subseteq Measures(s, kind)
  /\ \A measure : FlagsOf(Unmarked, measure)
  /\ FlagsOf("timing_throttled", "latency") /\ FlagsOf("energy_throttled", "energy")
BY DEF Measures, FlagsOf, Unmarked

\* The places of scenario 1 fit, and cover its flags.
LEMMA AesAsconIsLaid == Laid("aes_ascon", Placements("aes_ascon"))
<1> DEFINE s == "aes_ascon"
           values == Environment.payloads
           shown == {"latency", "energy", "memory", "throughput"}
<1>1. /\ ReportKinds(s) = A!ShownKinds /\ Placements(s) = A!Placements(Environment) /\ WithMemory(s)
      /\ s \in Scenarios
  BY DEF ReportKinds, Placements, WithMemory, Scenarios
<1>2. \A kind, measure : Headings(s, kind, measure) = values
  BY <1>1 DEF Headings, EnergyValues, MemoryValues, TimingValues
<1>3. \A kind : shown \subseteq Measures(s, kind)
  BY CoreMeasures DEF Measures, Extras, A!Extras, A!Extra
<1>4. \A kind : TimingValues(s, kind) = values /\ EnergyValues(s, kind) = values
  BY DEF TimingValues, EnergyValues
<1> HIDE DEF s, values
<1>5. ASSUME NEW place, NEW kind \in A!ShownKinds, NEW measure \in shown, NEW flags, FlagsOf(flags, measure)
      PROVE  \A p \in A!Column(place, kind, values, measure, flags) : Fits(s, p)
  <2>1. values = Headings(s, kind, measure) /\ measure \in Measures(s, kind) /\ kind \in ReportKinds(s)
    BY <1>1, <1>2, <1>3
  <2>2. \A p \in Column(place, kind, values, measure, flags) : Fits(s, p)
    BY <1>5, <2>1, ColumnFits
  <2> QED BY <2>2, ColumnsAreOne
<1> HIDE DEF shown
<1>6. ASSUME NEW name, NEW measure \in shown, NEW flags, FlagsOf(flags, measure),
             NEW p \in A!MeasurementTable(Environment, name, measure, flags)
      PROVE  Fits(s, p)
  <2>1. PICK k \in A!ShownKinds : p \in A!Column(<<k[2], name>>, k, values, measure, flags)
    BY DEF A!MeasurementTable, values
  <2> QED BY <1>5, <1>6, <2>1
<1>7. ASSUME NEW name, NEW measure \in shown, NEW p \in A!ResultsChart(Environment, name, measure)
      PROVE  Fits(s, p)
  <2>1. PICK k \in A!ShownKinds : p \in A!Column(<<name, k[2]>>, k, values, measure, A!Unmarked)
    BY DEF A!ResultsChart, values
  <2>2. FlagsOf(A!Unmarked, measure)
    BY CoreMeasures, ColumnsAreOne
  <2> QED BY <1>5, <2>1, <2>2
<1>8. ASSUME NEW p \in A!Effects(Environment) PROVE Fits(s, p)
  BY <1>7 DEF A!Effects, shown
<1>9. \A p \in Placements(s) : Fits(s, p)
  <2> SUFFICES ASSUME NEW p \in A!Placements(Environment) PROVE Fits(s, p)
    BY <1>1
  <2>1. CASE p \in A!TimingTables(Environment)
    BY <1>6, <2>1, CoreMeasures DEF A!TimingTables, shown
  <2>2. CASE p \in A!EnergyTables(Environment)
    BY <1>6, <2>2, CoreMeasures DEF A!EnergyTables, shown
  <2>3. CASE p \in A!MemoryTables(Environment)
    BY <1>6, <2>3, CoreMeasures, ColumnsAreOne DEF A!MemoryTables, shown
  <2>4. CASE p \in {A!Placement("BaselineRss", A!Baseline, "memory", 1, A!Unmarked)}
    BY <1>1, <2>4, BaselineFits, ColumnsAreOne
  <2>5. CASE p \in UNION {A!ResultsChart(Environment, m, m) : m \in {"latency", "throughput", "energy", "memory"}}
    <3>1. PICK m \in {"latency", "throughput", "energy", "memory"} : p \in A!ResultsChart(Environment, m, m)
      BY <2>5
    <3> QED BY <1>7, <3>1 DEF shown
  <2>6. CASE p \in A!Effects(Environment)
    BY <1>8, <2>6
  <2> QED BY <2>1, <2>2, <2>3, <2>4, <2>5, <2>6 DEF A!Placements
<1>10. Covered(s, Placements(s))
  <2>1. ASSUME NEW kind \in ReportKinds(s), NEW i \in DOMAIN TimingValues(s, kind)
        PROVE  \E p \in Placements(s) : Marks(p, kind, TimingValues(s, kind), i, "timing_throttled")
    <3>1. PICK p \in A!Column(<<kind[2], "TimingTable">>, kind, values, "latency", "timing_throttled") :
            Marks(p, kind, values, i, "timing_throttled")
      BY <1>4, <2>1, ColumnMarks, ColumnsAreOne
    <3>2. p \in A!TimingTables(Environment)
      BY <1>1, <2>1, <3>1 DEF A!TimingTables, A!MeasurementTable, values
    <3>3. p \in Placements(s)
      BY <1>1, <3>2 DEF A!Placements
    <3> QED BY <1>4, <3>1, <3>3
  <2>2. ASSUME NEW kind \in ReportKinds(s), NEW i \in DOMAIN EnergyValues(s, kind)
        PROVE  \E p \in Placements(s) : Marks(p, kind, EnergyValues(s, kind), i, "energy_throttled")
    <3>1. PICK p \in A!Column(<<kind[2], "EnergyTable">>, kind, values, "energy", "energy_throttled") :
            Marks(p, kind, values, i, "energy_throttled")
      BY <1>4, <2>2, ColumnMarks, ColumnsAreOne
    <3>2. p \in A!EnergyTables(Environment)
      BY <1>1, <2>2, <3>1 DEF A!EnergyTables, A!MeasurementTable, values
    <3>3. p \in Placements(s)
      BY <1>1, <3>2 DEF A!Placements
    <3> QED BY <1>4, <3>1, <3>3
  <2> QED BY <2>1, <2>2 DEF Covered
<1> QED BY <1>9, <1>10 DEF Laid, s

\* Those of scenario 2.
LEMMA JsonCborIsLaid == Laid("json_cbor", Placements("json_cbor"))
<1> DEFINE s == "json_cbor"
           values == Environment.payloads
           shown == {"latency", "energy"}
<1>1. ReportKinds(s) = J!ShownKinds /\ Placements(s) = J!Placements(Environment) /\ s \in Scenarios
  BY DEF ReportKinds, Placements, Scenarios
<1>2. \A kind : TimingValues(s, kind) = values /\ EnergyValues(s, kind) = values
  BY DEF TimingValues, EnergyValues
<1>3. \A kind, measure : measure # "memory" => Headings(s, kind, measure) = values
  BY <1>2 DEF Headings
<1>4. /\ \A kind : shown \subseteq Measures(s, kind)
      /\ \A f \in J!Formats : <<f, "Serialize">> \in ReportKinds(s)
      /\ <<"JSON", "Serialize">> \in ReportKinds(s)
  BY <1>1, CoreMeasures DEF J!ShownKinds, J!Formats
<1>5. \A f \in J!Formats : "size" \in Measures(s, <<f, "Serialize">>)
  <2> SUFFICES ASSUME NEW f \in J!Formats PROVE "size" \in Measures(s, <<f, "Serialize">>)
    OBVIOUS
  <2> DEFINE x == J!Extra("size", "serialized_bytes", TRUE)
  <2>1. x \in Extras(s, <<f, "Serialize">>)
    BY DEF Extras, J!Extras
  <2>2. x.measure = "size"
    BY DEF J!Extra
  <2> HIDE DEF x
  <2> QED BY <2>1, <2>2 DEF Measures
<1>6. "raw size" \in Measures(s, <<"JSON", "Serialize">>)
  <2> DEFINE x == J!Extra("raw size", "raw_bytes", TRUE)
  <2>1. x \in Extras(s, <<"JSON", "Serialize">>)
    BY DEF Extras, J!Extras
  <2>2. x.measure = "raw size"
    BY DEF J!Extra
  <2> HIDE DEF x
  <2> QED BY <2>1, <2>2 DEF Measures
<1> HIDE DEF s, values
<1>7. ASSUME NEW place, NEW kind \in ReportKinds(s), NEW measure \in Measures(s, kind), measure # "memory",
             NEW flags, FlagsOf(flags, measure)
      PROVE  \A p \in J!Column(place, kind, values, measure, flags) : Fits(s, p)
  <2>1. \A p \in Column(place, kind, values, measure, flags) : Fits(s, p)
    BY <1>3, <1>7, ColumnFits
  <2> QED BY <2>1, ColumnsAreOne
<1>8. \A measure : FlagsOf(J!Unmarked, measure)
  BY CoreMeasures, ColumnsAreOne
<1>9. ASSUME NEW place, NEW p \in J!Sizes(Environment, place) PROVE Fits(s, p)
  <2>1. PICK f \in J!Formats : p \in J!Column(place, <<f, "Serialize">>, values, "size", J!Unmarked)
    BY DEF J!Sizes, values
  <2> QED BY <1>4, <1>5, <1>7, <1>8, <2>1
<1>10. ASSUME NEW place, NEW p \in J!RawSizes(Environment, place) PROVE Fits(s, p)
  <2>1. p \in J!Column(place, <<"JSON", "Serialize">>, values, "raw size", J!Unmarked)
    BY DEF J!RawSizes, values
  <2> QED BY <1>4, <1>6, <1>7, <1>8, <2>1
<1>11. ASSUME NEW name, NEW measure \in shown, NEW flags, FlagsOf(flags, measure),
              NEW p \in J!MeasurementTable(Environment, name, measure, flags)
       PROVE  Fits(s, p)
  <2>1. PICK k \in J!ShownKinds : p \in J!Column(<<k[2], name>>, k, values, measure, flags)
    BY DEF J!MeasurementTable, values
  <2> QED BY <1>1, <1>4, <1>7, <1>11, <2>1
<1>12. ASSUME NEW name, NEW measure \in shown, NEW p \in J!ResultsChart(Environment, name, measure)
       PROVE  Fits(s, p)
  <2>1. PICK k \in J!ShownKinds : p \in J!Column(<<name, k[2]>>, k, values, measure, J!Unmarked)
    BY DEF J!ResultsChart, values
  <2> QED BY <1>1, <1>4, <1>7, <1>8, <2>1
<1>13. \A p \in Placements(s) : Fits(s, p)
  <2> SUFFICES ASSUME NEW p \in J!Placements(Environment) PROVE Fits(s, p)
    BY <1>1
  <2>1. CASE p \in J!TimingTables(Environment)
    BY <1>11, <2>1, CoreMeasures DEF J!TimingTables
  <2>2. CASE p \in J!EnergyTables(Environment)
    BY <1>11, <2>2, CoreMeasures DEF J!EnergyTables
  <2>3. CASE p \in J!SizeTable(Environment) \/ p \in J!WireOverheads(Environment)
    BY <1>9, <1>10, <2>3 DEF J!SizeTable, J!WireOverheads
  <2>4. CASE p \in J!ResultsChart(Environment, "latency", "latency") \cup J!ResultsChart(Environment, "energy", "energy")
    BY <1>12, <2>4
  <2>5. CASE p \in J!Sizes(Environment, "size.png")
    BY <1>9, <2>5
  <2>6. CASE p \in J!Effects(Environment)
    BY <1>12, <2>6 DEF J!Effects
  <2> QED BY <2>1, <2>2, <2>3, <2>4, <2>5, <2>6 DEF J!Placements
<1>14. Covered(s, Placements(s))
  <2>1. ASSUME NEW kind \in ReportKinds(s), NEW i \in DOMAIN TimingValues(s, kind)
        PROVE  \E p \in Placements(s) : Marks(p, kind, TimingValues(s, kind), i, "timing_throttled")
    <3>1. PICK p \in J!Column(<<kind[2], "TimingTable">>, kind, values, "latency", "timing_throttled") :
            Marks(p, kind, values, i, "timing_throttled")
      BY <1>2, <2>1, ColumnMarks, ColumnsAreOne DEF s, values
    <3>2. p \in J!TimingTables(Environment)
      BY <1>1, <2>1, <3>1 DEF J!TimingTables, J!MeasurementTable, values
    <3>3. p \in Placements(s)
      BY <1>1, <3>2 DEF J!Placements
    <3> QED BY <1>2, <3>1, <3>3
  <2>2. ASSUME NEW kind \in ReportKinds(s), NEW i \in DOMAIN EnergyValues(s, kind)
        PROVE  \E p \in Placements(s) : Marks(p, kind, EnergyValues(s, kind), i, "energy_throttled")
    <3>1. PICK p \in J!Column(<<kind[2], "EnergyTable">>, kind, values, "energy", "energy_throttled") :
            Marks(p, kind, values, i, "energy_throttled")
      BY <1>2, <2>2, ColumnMarks, ColumnsAreOne
    <3>2. p \in J!EnergyTables(Environment)
      BY <1>1, <2>2, <3>1 DEF J!EnergyTables, J!MeasurementTable, values
    <3>3. p \in Placements(s)
      BY <1>1, <3>2 DEF J!Placements
    <3> QED BY <1>2, <3>1, <3>3
  <2> QED BY <2>1, <2>2 DEF Covered
<1> QED BY <1>13, <1>14 DEF Laid, s

\* Those of scenario 4.
LEMMA FullSchemaIsLaid == Laid("full_schema", Placements("full_schema"))
<1> DEFINE s == "full_schema"
           values == Environment.schemaPayloads
           shown == {"latency", "energy", "memory"}
<1>1. /\ ReportKinds(s) = F!ShownKinds /\ Placements(s) = F!Placements(Environment) /\ WithMemory(s)
      /\ s \in Scenarios
  BY DEF ReportKinds, Placements, WithMemory, Scenarios
<1>2. \A kind : TimingValues(s, kind) = values /\ EnergyValues(s, kind) = values
  BY DEF TimingValues, EnergyValues
<1>3. \A kind, measure : Headings(s, kind, measure) = values
  BY <1>1, <1>2 DEF Headings, MemoryValues
<1>4. /\ \A kind : shown \subseteq Measures(s, kind)
      /\ \A c \in F!CONFIGURATIONS : \A o \in {"Encrypt", "Decrypt"} : <<c, o>> \in ReportKinds(s)
  BY <1>1, CoreMeasures DEF F!ShownKinds
<1>5. \A c : "size" \in Measures(s, <<c, "Encrypt">>)
  <2> SUFFICES ASSUME NEW c PROVE "size" \in Measures(s, <<c, "Encrypt">>)
    OBVIOUS
  <2> DEFINE x == F!Extra("size", "serialized_bytes", TRUE)
  <2>1. x \in Extras(s, <<c, "Encrypt">>)
    BY DEF Extras, F!Extras
  <2>2. x.measure = "size"
    BY DEF F!Extra
  <2> HIDE DEF x
  <2> QED BY <2>1, <2>2 DEF Measures
<1>6. F!Series \subseteq F!CONFIGURATIONS
  BY DEF F!Series, F!Named, F!CONFIGURATIONS
<1> HIDE DEF s, values
<1>7. ASSUME NEW place, NEW kind \in ReportKinds(s), NEW measure \in Measures(s, kind),
             NEW flags, FlagsOf(flags, measure)
      PROVE  \A p \in F!Column(place, kind, values, measure, flags) : Fits(s, p)
  <2>1. \A p \in Column(place, kind, values, measure, flags) : Fits(s, p)
    BY <1>3, <1>7, ColumnFits
  <2> QED BY <2>1, ColumnsAreOne
<1>8. \A measure : FlagsOf(F!Unmarked, measure)
  BY CoreMeasures, ColumnsAreOne
<1>9. ASSUME NEW name, NEW measure \in shown, NEW flags, FlagsOf(flags, measure),
             NEW p \in F!MeasurementTable(Environment, name, measure, flags)
      PROVE  Fits(s, p)
  <2>1. PICK k \in F!ShownKinds : p \in F!Column(<<k[2], name>>, k, values, measure, flags)
    BY DEF F!MeasurementTable, values
  <2> QED BY <1>1, <1>4, <1>7, <1>9, <2>1
<1>10. ASSUME NEW p \in F!SizeTable(Environment) \cup F!SizeChart(Environment) PROVE Fits(s, p)
  <2>1. PICK place, c : c \in F!CONFIGURATIONS
                          /\ p \in F!Column(place, <<c, "Encrypt">>, values, "size", F!Unmarked)
    <3>1. CASE p \in F!SizeTable(Environment)
      <4>1. PICK c \in F!CONFIGURATIONS :
              p \in F!Column("SerializedEnvelopeSizeTable", <<c, "Encrypt">>, values, "size", F!Unmarked)
        BY <3>1 DEF F!SizeTable, values
      <4> QED BY <4>1
    <3>2. CASE p \in F!SizeChart(Environment)
      <4>1. PICK c \in F!Series :
              p \in F!Column("serialized_envelope_size.png", <<c, "Encrypt">>, values, "size", F!Unmarked)
        BY <3>2 DEF F!SizeChart, values
      <4> QED BY <1>6, <4>1
    <3> QED BY <3>1, <3>2
  <2> QED BY <1>4, <1>5, <1>7, <1>8, <2>1
<1>11. ASSUME NEW measure \in shown, NEW p \in F!Overview(Environment, measure) PROVE Fits(s, p)
  <2>1. PICK c \in F!Series, o \in {"Encrypt", "Decrypt"} :
          p \in F!Column(<<measure, o>>, <<c, o>>, values, measure, F!Unmarked)
    BY DEF F!Overview, values
  <2> QED BY <1>4, <1>6, <1>7, <1>8, <2>1
<1> HIDE DEF shown
<1>12. \A p \in Placements(s) : Fits(s, p)
  <2> SUFFICES ASSUME NEW p \in F!Placements(Environment) PROVE Fits(s, p)
    BY <1>1
  <2>1. CASE p \in F!TimingTables(Environment)
    BY <1>9, <2>1, CoreMeasures DEF F!TimingTables, shown
  <2>2. CASE p \in F!EnergyTables(Environment)
    BY <1>9, <2>2, CoreMeasures DEF F!EnergyTables, shown
  <2>3. CASE p \in F!MemoryTables(Environment)
    BY <1>8, <1>9, <2>3 DEF F!MemoryTables, shown
  <2>4. CASE p \in {F!Placement("BaselineRss", F!Baseline, "memory", 1, F!Unmarked)}
    BY <1>1, <2>4, BaselineFits, ColumnsAreOne
  <2>5. CASE p \in UNION {F!Overview(Environment, m) : m \in {"latency", "energy", "memory"}}
    <3>1. PICK m \in {"latency", "energy", "memory"} : p \in F!Overview(Environment, m)
      BY <2>5
    <3> QED BY <1>11, <3>1 DEF shown
  <2>6. CASE p \in F!SizeTable(Environment) \cup F!SizeChart(Environment)
    BY <1>10, <2>6
  <2> QED BY <2>1, <2>2, <2>3, <2>4, <2>5, <2>6 DEF F!Placements
<1>13. Covered(s, Placements(s))
  <2>1. ASSUME NEW kind \in ReportKinds(s), NEW i \in DOMAIN TimingValues(s, kind)
        PROVE  \E p \in Placements(s) : Marks(p, kind, TimingValues(s, kind), i, "timing_throttled")
    <3>1. PICK p \in F!Column(<<kind[2], "TimingTable">>, kind, values, "latency", "timing_throttled") :
            Marks(p, kind, values, i, "timing_throttled")
      BY <1>2, <2>1, ColumnMarks, ColumnsAreOne
    <3>2. p \in F!TimingTables(Environment)
      BY <1>1, <2>1, <3>1 DEF F!TimingTables, F!MeasurementTable, values
    <3>3. p \in Placements(s)
      BY <1>1, <3>2 DEF F!Placements
    <3> QED BY <1>2, <3>1, <3>3
  <2>2. ASSUME NEW kind \in ReportKinds(s), NEW i \in DOMAIN EnergyValues(s, kind)
        PROVE  \E p \in Placements(s) : Marks(p, kind, EnergyValues(s, kind), i, "energy_throttled")
    <3>1. PICK p \in F!Column(<<kind[2], "EnergyTable">>, kind, values, "energy", "energy_throttled") :
            Marks(p, kind, values, i, "energy_throttled")
      BY <1>2, <2>2, ColumnMarks, ColumnsAreOne
    <3>2. p \in F!EnergyTables(Environment)
      BY <1>1, <2>2, <3>1 DEF F!EnergyTables, F!MeasurementTable, values
    <3>3. p \in Placements(s)
      BY <1>1, <3>2 DEF F!Placements
    <3> QED BY <1>2, <3>1, <3>3
  <2> QED BY <2>1, <2>2 DEF Covered
<1> QED BY <1>12, <1>13 DEF Laid, s

\* The lists of scenario 3, by kind.
LEMMA CpabeRsaHeadings ==
  LET s == "cpabe_rsa" IN
  /\ \A m : m \notin {"energy", "memory"} =>
       /\ Headings(s, C!CpabeEncrypt, m) = Environment.attributes
       /\ Headings(s, C!CpabeDecrypt, m) = Environment.attributes
       /\ Headings(s, C!SubscriberEncrypt, m) = Environment.subscribers
       /\ Headings(s, C!RsaEncrypt, m) = Environment.keyBits
       /\ Headings(s, C!RsaDecrypt, m) = Environment.keyBits
  /\ \A m \in {"energy", "memory"} :
       /\ Headings(s, C!CpabeEncrypt, m) = Environment.attributes
       /\ Headings(s, C!CpabeDecrypt, m) = Environment.attributes
       /\ Headings(s, C!SubscriberEncrypt, m) = Environment.subscribers
       /\ Headings(s, C!RsaEncrypt, m) = <<>>
       /\ Headings(s, C!RsaDecrypt, m) = <<Environment.fixed>>
<1> DEFINE s == "cpabe_rsa"
<1>1. /\ TimingValues(s, C!CpabeEncrypt) = Environment.attributes
      /\ TimingValues(s, C!CpabeDecrypt) = Environment.attributes
      /\ TimingValues(s, C!SubscriberEncrypt) = Environment.subscribers
      /\ TimingValues(s, C!RsaEncrypt) = Environment.keyBits
      /\ TimingValues(s, C!RsaDecrypt) = Environment.keyBits
  BY DEF TimingValues, C!TimingValues, C!CpabeEncrypt, C!CpabeDecrypt, C!SubscriberEncrypt, C!RsaEncrypt,
         C!RsaDecrypt
<1>2. /\ EnergyValues(s, C!CpabeEncrypt) = Environment.attributes
      /\ EnergyValues(s, C!CpabeDecrypt) = Environment.attributes
      /\ EnergyValues(s, C!SubscriberEncrypt) = Environment.subscribers
      /\ EnergyValues(s, C!RsaEncrypt) = <<>>
      /\ EnergyValues(s, C!RsaDecrypt) = <<Environment.fixed>>
  BY DEF EnergyValues, C!EnergyMemoryValues, C!TimingValues, C!CpabeEncrypt, C!CpabeDecrypt,
         C!SubscriberEncrypt, C!RsaEncrypt, C!RsaDecrypt
<1>3. \A kind : MemoryValues(s, kind) = EnergyValues(s, kind)
  BY DEF MemoryValues, WithMemory
<1> HIDE DEF s
<1>4. \A kind, m : /\ m \notin {"energy", "memory"} => Headings(s, kind, m) = TimingValues(s, kind)
                   /\ m \in {"energy", "memory"} => Headings(s, kind, m) = EnergyValues(s, kind)
  BY <1>3 DEF Headings
<1>5. \A m : m \notin {"energy", "memory"} =>
       /\ Headings(s, C!CpabeEncrypt, m) = Environment.attributes
       /\ Headings(s, C!CpabeDecrypt, m) = Environment.attributes
       /\ Headings(s, C!SubscriberEncrypt, m) = Environment.subscribers
       /\ Headings(s, C!RsaEncrypt, m) = Environment.keyBits
       /\ Headings(s, C!RsaDecrypt, m) = Environment.keyBits
  BY <1>1, <1>4
<1>6. \A m \in {"energy", "memory"} :
       /\ Headings(s, C!CpabeEncrypt, m) = Environment.attributes
       /\ Headings(s, C!CpabeDecrypt, m) = Environment.attributes
       /\ Headings(s, C!SubscriberEncrypt, m) = Environment.subscribers
       /\ Headings(s, C!RsaEncrypt, m) = <<>>
       /\ Headings(s, C!RsaDecrypt, m) = <<Environment.fixed>>
  BY <1>2, <1>4
<1> QED BY <1>5, <1>6 DEF s

\* What is measured of the kinds of scenario 3 besides latency, energy and memory.
LEMMA CpabeRsaMeasures ==
  LET s == "cpabe_rsa" IN
  /\ "ciphertext" \in Measures(s, C!CpabeEncrypt) /\ "ciphertext" \in Measures(s, C!SubscriberEncrypt)
  /\ "ciphertext" \in Measures(s, C!RsaEncrypt)
  /\ "total_ciphertext" \in Measures(s, C!SubscriberEncrypt)
  /\ "stored_key" \in Measures(s, C!CpabeDecrypt)
<1> DEFINE s == "cpabe_rsa"
           ciphertext == C!Extra("ciphertext", "ciphertext_bytes", FALSE)
           total == C!Extra("total_ciphertext", "total_ciphertext_bytes", FALSE)
           key == C!Extra("stored_key", "stored_key_bytes", FALSE)
<1>1. ciphertext.measure = "ciphertext" /\ total.measure = "total_ciphertext" /\ key.measure = "stored_key"
  BY DEF C!Extra
<1>2. /\ \A kind : kind[2] = "Encrypt" => ciphertext \in Extras(s, kind)
      /\ \A kind : kind[1] = "RSASubscribers" => total \in Extras(s, kind)
      /\ key \in Extras(s, <<"CPABEAttributes", "Decrypt">>)
  BY DEF Extras, C!Extras
<1> HIDE DEF ciphertext, total, key, s
<1>3. /\ ciphertext \in Extras(s, C!CpabeEncrypt) /\ ciphertext \in Extras(s, C!SubscriberEncrypt)
      /\ ciphertext \in Extras(s, C!RsaEncrypt)
      /\ total \in Extras(s, C!SubscriberEncrypt) /\ key \in Extras(s, C!CpabeDecrypt)
  BY <1>2 DEF C!CpabeEncrypt, C!SubscriberEncrypt, C!RsaEncrypt, C!CpabeDecrypt
<1> QED BY <1>1, <1>3 DEF Measures, s

\* The kinds of scenario 3.
LEMMA CpabeRsaKinds ==
  ReportKinds("cpabe_rsa") = {C!CpabeEncrypt, C!CpabeDecrypt, C!SubscriberEncrypt, C!RsaEncrypt, C!RsaDecrypt}
BY DEF ReportKinds, C!CASE_ORDER, C!CpabeEncrypt, C!CpabeDecrypt, C!SubscriberEncrypt, C!RsaEncrypt, C!RsaDecrypt

\* rsa_key_bits.index finds the fixed size.
LEMMA FixedIsFound ==
  ASSUME C!Analysable(Environment)
  PROVE  C!FixedIndex(Environment) \in DOMAIN Environment.keyBits
           /\ Environment.keyBits[C!FixedIndex(Environment)] = Environment.fixed
<1>1. PICK i \in DOMAIN Environment.keyBits : Environment.keyBits[i] = Environment.fixed
  BY DEF C!Analysable, C!Elements
<1>2. Environment.keyBits \in Seq(Nat) /\ Distinct(Environment.keyBits)
  BY MicroReportsAssumption DEF NamesOnce, IsList
<1>3. \A j \in 1..(i - 1) : Environment.keyBits[j] # Environment.fixed
  <2> SUFFICES ASSUME NEW j \in 1..(i - 1) PROVE Environment.keyBits[j] # Environment.fixed
    OBVIOUS
  <2>1. i \in 1..Len(Environment.keyBits) /\ j \in 1..Len(Environment.keyBits) /\ j # i
    BY <1>2
  <2> QED BY <1>1, <1>2, <2>1 DEF Distinct
<1> DEFINE Is(k) == Environment.keyBits[k] = Environment.fixed
                      /\ \A j \in 1..(k - 1) : Environment.keyBits[j] # Environment.fixed
<1>4. C!FixedIndex(Environment) = CHOOSE k \in DOMAIN Environment.keyBits : Is(k)
  BY DEF C!FixedIndex
<1>5. Is(i)
  BY <1>1, <1>3
<1> HIDE DEF Is
<1>6. C!FixedIndex(Environment) \in DOMAIN Environment.keyBits /\ Is(C!FixedIndex(Environment))
  BY <1>4, <1>5
<1> QED BY <1>6 DEF Is

\* The places of scenario 3 fit,
LEMMA CpabeRsaPlacesFit ==
  ASSUME C!Analysable(Environment), NEW p \in Placements("cpabe_rsa")
  PROVE  Fits("cpabe_rsa", p)
<1> DEFINE s == "cpabe_rsa"
           attributes == Environment.attributes
           subscribers == Environment.subscribers
           keyBits == Environment.keyBits
           timed == {"latency", "ciphertext", "stored_key", "total_ciphertext"}
<1>1. p \in C!Placements(Environment) /\ WithMemory(s)
  BY DEF Placements, WithMemory
<1>2. /\ \A m \in timed : /\ Headings(s, C!CpabeEncrypt, m) = attributes
                          /\ Headings(s, C!CpabeDecrypt, m) = attributes
                          /\ Headings(s, C!SubscriberEncrypt, m) = subscribers
                          /\ Headings(s, C!RsaEncrypt, m) = keyBits /\ Headings(s, C!RsaDecrypt, m) = keyBits
      /\ \A m \in {"energy", "memory"} : /\ Headings(s, C!CpabeEncrypt, m) = attributes
                                         /\ Headings(s, C!CpabeDecrypt, m) = attributes
                                         /\ Headings(s, C!SubscriberEncrypt, m) = subscribers
                                         /\ Headings(s, C!RsaDecrypt, m) = <<Environment.fixed>>
  BY CpabeRsaHeadings
<1>3. /\ \A kind : {"latency", "energy", "memory"} \subseteq Measures(s, kind)
      /\ "ciphertext" \in Measures(s, C!CpabeEncrypt) /\ "ciphertext" \in Measures(s, C!SubscriberEncrypt)
      /\ "ciphertext" \in Measures(s, C!RsaEncrypt) /\ "total_ciphertext" \in Measures(s, C!SubscriberEncrypt)
      /\ "stored_key" \in Measures(s, C!CpabeDecrypt)
  BY CpabeRsaMeasures, CoreMeasures
<1>4. /\ C!CpabeEncrypt \in ReportKinds(s) /\ C!CpabeDecrypt \in ReportKinds(s)
      /\ C!SubscriberEncrypt \in ReportKinds(s) /\ C!RsaEncrypt \in ReportKinds(s)
      /\ C!RsaDecrypt \in ReportKinds(s)
  BY CpabeRsaKinds
<1>5. \A m : FlagsOf(C!Unmarked, m)
  BY CoreMeasures, ColumnsAreOne
<1>6. FlagsOf("timing_throttled", "latency") /\ FlagsOf("energy_throttled", "energy")
  BY CoreMeasures
<1>7. /\ C!TimingValues(Environment, C!CpabeEncrypt[1]) = attributes
      /\ C!TimingValues(Environment, C!CpabeDecrypt[1]) = attributes
      /\ C!TimingValues(Environment, C!SubscriberEncrypt[1]) = subscribers
      /\ C!TimingValues(Environment, C!RsaEncrypt[1]) = keyBits
      /\ C!TimingValues(Environment, C!RsaDecrypt[1]) = keyBits
  BY DEF C!TimingValues, C!CpabeEncrypt, C!CpabeDecrypt, C!SubscriberEncrypt, C!RsaEncrypt, C!RsaDecrypt
<1>8. /\ Len(attributes) \in DOMAIN attributes /\ 1 \in DOMAIN attributes
      /\ Len(subscribers) \in DOMAIN subscribers /\ 1 \in DOMAIN subscribers
  <2>1. attributes \in Seq(Nat) /\ subscribers \in Seq(Nat) /\ Len(attributes) > 1 /\ Len(subscribers) > 1
    BY MicroReportsAssumption DEF NamesOnce, IsList
  <2> HIDE DEF attributes, subscribers
  <2> QED BY <2>1
<1>9. C!FixedIndex(Environment) \in DOMAIN keyBits /\ keyBits[C!FixedIndex(Environment)] = Environment.fixed
  BY FixedIsFound
<1> HIDE DEF s, attributes, subscribers, keyBits, timed
<1> SUFFICES Fits(s, p)
  BY DEF s
<1>10. ASSUME NEW place, NEW kind \in ReportKinds(s), NEW measure \in Measures(s, kind),
              NEW flags, FlagsOf(flags, measure), NEW headings, headings = Headings(s, kind, measure)
       PROVE  \A q \in C!Column(place, kind, headings, measure, flags) : Fits(s, q)
  <2>1. \A q \in Column(place, kind, headings, measure, flags) : Fits(s, q)
    BY <1>10, ColumnFits
  <2> QED BY <2>1, ColumnsAreOne
<1>11. ASSUME NEW place, NEW kind \in ReportKinds(s), NEW measure \in Measures(s, kind),
              NEW flags, FlagsOf(flags, measure), NEW i \in DOMAIN Headings(s, kind, measure),
              NEW v, v = Headings(s, kind, measure)[i]
       PROVE  Fits(s, C!Placement(place, C!Case(kind[1], kind[2], v), measure, i, flags))
  <2>1. Fits(s, Placement(place, Case(kind[1], kind[2], v), measure, i, flags))
    BY <1>11, PlacementFits
  <2> QED BY <2>1, ColumnsAreOne
<1>12. ASSUME NEW place, NEW kind \in ReportKinds(s), NEW measure \in Measures(s, kind),
              NEW values, values = Headings(s, kind, measure), 1 \in DOMAIN values, Len(values) \in DOMAIN values
       PROVE  /\ Fits(s, C!First(place, kind, values, measure))
              /\ Fits(s, C!Last(place, kind, values, measure))
              /\ \A q \in C!Ends(place, kind, values, measure) : Fits(s, q)
  <2>1. Fits(s, C!First(place, kind, values, measure))
    BY <1>5, <1>11, <1>12 DEF C!First
  <2>2. Fits(s, C!Last(place, kind, values, measure))
    BY <1>5, <1>11, <1>12 DEF C!Last
  <2> QED BY <2>1, <2>2 DEF C!Ends
<1>13. ASSUME NEW place, NEW kind \in {C!RsaEncrypt, C!RsaDecrypt}, NEW flags, FlagsOf(flags, "latency")
       PROVE  Fits(s, C!Placement(place, C!Case(kind[1], kind[2], Environment.fixed), "latency",
                                  C!FixedIndex(Environment), flags))
  <2>1. /\ Headings(s, kind, "latency") = keyBits /\ kind \in ReportKinds(s)
        /\ "latency" \in Measures(s, kind)
    BY <1>2, <1>3, <1>4 DEF timed
  <2> QED BY <1>9, <1>11, <1>13, <2>1
<1>14. CASE p \in C!TimingReportTables(Environment)
  <2>1. \A place : /\ \A q \in C!Latencies(Environment, place, C!CpabeEncrypt) : Fits(s, q)
                   /\ \A q \in C!Latencies(Environment, place, C!CpabeDecrypt) : Fits(s, q)
                   /\ \A q \in C!Latencies(Environment, place, C!SubscriberEncrypt) : Fits(s, q)
                   /\ \A q \in C!Latencies(Environment, place, C!RsaEncrypt) : Fits(s, q)
                   /\ \A q \in C!Latencies(Environment, place, C!RsaDecrypt) : Fits(s, q)
    BY <1>2, <1>3, <1>4, <1>6, <1>7, <1>10 DEF C!Latencies, timed
  <2>2. \A place : /\ \A q \in C!Column(place, C!CpabeEncrypt, attributes, "ciphertext", C!Unmarked) : Fits(s, q)
                   /\ \A q \in C!Column(place, C!CpabeDecrypt, attributes, "stored_key", C!Unmarked) : Fits(s, q)
                   /\ \A q \in C!Column(place, C!RsaEncrypt, keyBits, "ciphertext", C!Unmarked) : Fits(s, q)
    BY <1>2, <1>3, <1>4, <1>5, <1>10 DEF timed
  <2>3. \A m \in {"ciphertext", "total_ciphertext"} : \A place :
          \A q \in C!Column(place, C!SubscriberEncrypt, subscribers, m, C!Unmarked) : Fits(s, q)
    BY <1>2, <1>3, <1>4, <1>5, <1>10 DEF timed
  <2>4. \/ \E place \in {"CpabePolicyScalingTable", "RsaSubscriberScalingTable", "RsaKeySizeSensitivityTable"} :
             \E kind \in {C!CpabeEncrypt, C!CpabeDecrypt, C!SubscriberEncrypt, C!RsaEncrypt, C!RsaDecrypt} :
               p \in C!Latencies(Environment, place, kind)
        \/ p \in C!Column("CpabePolicyScalingTable", C!CpabeEncrypt, attributes, "ciphertext", C!Unmarked)
        \/ p \in C!Column("CpabePolicyScalingTable", C!CpabeDecrypt, attributes, "stored_key", C!Unmarked)
        \/ p \in C!Column("RsaKeySizeSensitivityTable", C!RsaEncrypt, keyBits, "ciphertext", C!Unmarked)
        \/ \E m \in {"ciphertext", "total_ciphertext"} :
             p \in C!Column("RsaSubscriberScalingTable", C!SubscriberEncrypt, subscribers, m, C!Unmarked)
    BY <1>14 DEF C!TimingReportTables, attributes, subscribers, keyBits
  <2> QED BY <2>1, <2>2, <2>3, <2>4
<1>15. ASSUME NEW kind \in {C!CpabeEncrypt, C!CpabeDecrypt, C!SubscriberEncrypt}
       PROVE  /\ \A q \in C!Column("EnergyTable", kind, C!TimingValues(Environment, kind[1]), "energy",
                                   "energy_throttled") : Fits(s, q)
              /\ \A q \in C!Column("PeakMemoryTable", kind, C!TimingValues(Environment, kind[1]), "memory",
                                   C!Unmarked) : Fits(s, q)
  BY <1>2, <1>3, <1>4, <1>5, <1>6, <1>7, <1>10
<1>16. CASE p \in C!EnergyTables(Environment)
  BY <1>15, <1>16 DEF C!EnergyTables
<1>17. CASE p \in C!MemoryReportTables(Environment)
  BY <1>15, <1>17 DEF C!MemoryReportTables
<1>18. C!FixedDecrypt(Environment) = C!Case(C!RsaDecrypt[1], C!RsaDecrypt[2], Environment.fixed)
  BY DEF C!FixedDecrypt, C!RsaDecrypt
<1>19. ASSUME NEW place, NEW measure \in {"energy", "memory"}, NEW flags, FlagsOf(flags, measure)
       PROVE  Fits(s, C!Placement(place, C!FixedDecrypt(Environment), measure, 1, flags))
  <2>1. Headings(s, C!RsaDecrypt, measure) = <<Environment.fixed>> /\ measure \in Measures(s, C!RsaDecrypt)
    BY <1>2, <1>3
  <2>2. 1 \in DOMAIN <<Environment.fixed>> /\ <<Environment.fixed>>[1] = Environment.fixed
    OBVIOUS
  <2>3. /\ 1 \in DOMAIN Headings(s, C!RsaDecrypt, measure)
        /\ Environment.fixed = Headings(s, C!RsaDecrypt, measure)[1]
    BY <2>1, <2>2
  <2> QED BY <1>4, <1>11, <1>18, <1>19, <2>1, <2>3
<1>20. CASE p \in C!FixedReferenceTables(Environment)
  <2>1. Fits(s, C!Placement("FixedRsaDecryptLatencyTable", C!FixedDecrypt(Environment), "latency",
                            C!FixedIndex(Environment), "timing_throttled"))
    BY <1>6, <1>13, <1>18
  <2> QED BY <1>5, <1>6, <1>20, <1>19, <2>1 DEF C!FixedReferenceTables
<1>21. CASE p \in {C!Placement("BaselineRss", C!Baseline, "memory", 1, C!Unmarked)}
  BY <1>1, <1>21, BaselineFits, ColumnsAreOne
<1>22. CASE p \in C!Comparisons(Environment)
  <2>1. /\ \A place : /\ \A q \in C!Ends(place, C!CpabeEncrypt, attributes, "ciphertext") : Fits(s, q)
                      /\ \A q \in C!Ends(place, C!CpabeEncrypt, attributes, "latency") : Fits(s, q)
                      /\ \A q \in C!Ends(place, C!CpabeDecrypt, attributes, "latency") : Fits(s, q)
        /\ \A place : \A k \in {C!CpabeEncrypt, C!CpabeDecrypt} :
             Fits(s, C!First(place, k, attributes, "latency"))
    BY <1>2, <1>3, <1>4, <1>8, <1>12 DEF timed
  <2>2. \A place : \A k \in {C!RsaEncrypt, C!RsaDecrypt} :
          Fits(s, C!Placement(place, C!Case(k[1], k[2], Environment.fixed), "latency",
                              C!FixedIndex(Environment), C!Unmarked))
    BY <1>5, <1>13
  <2>3. \/ p \in C!Ends("bytes_crossover", C!CpabeEncrypt, attributes, "ciphertext")
        \/ p \in C!Ends("latency_crossover", C!CpabeEncrypt, attributes, "latency")
        \/ p \in C!Ends("decrypt_penalty", C!CpabeDecrypt, attributes, "latency")
        \/ \E place \in {"decrypt_penalty", "asymmetry"} : \E k \in {C!RsaEncrypt, C!RsaDecrypt} :
             p = C!Placement(place, C!Case(k[1], k[2], Environment.fixed), "latency",
                             C!FixedIndex(Environment), C!Unmarked)
        \/ \E k \in {C!CpabeEncrypt, C!CpabeDecrypt} : p = C!First("asymmetry", k, attributes, "latency")
    BY <1>22 DEF C!Comparisons, C!FixedLatency, attributes
  <2> QED BY <2>1, <2>2, <2>3
<1>23. CASE p \in C!Fanout(Environment)
  <2>1. /\ Fits(s, C!First("bytes_per_subscriber", C!SubscriberEncrypt, subscribers, "ciphertext"))
        /\ Fits(s, C!Last("FanoutTotalBytes", C!SubscriberEncrypt, subscribers, "total_ciphertext"))
    BY <1>2, <1>3, <1>4, <1>8, <1>12 DEF timed
  <2> QED BY <1>23, <2>1 DEF C!Fanout, subscribers
<1>24. CASE p \in C!Regressions(Environment)
  <2>1. \A place : /\ \A q \in C!Column(place, C!CpabeEncrypt, attributes, "latency", C!Unmarked) : Fits(s, q)
                   /\ \A q \in C!Column(place, C!CpabeDecrypt, attributes, "latency", C!Unmarked) : Fits(s, q)
                   /\ \A q \in C!Column(place, C!CpabeEncrypt, attributes, "ciphertext", C!Unmarked) : Fits(s, q)
                   /\ \A q \in C!Column(place, C!CpabeDecrypt, attributes, "stored_key", C!Unmarked) : Fits(s, q)
                   /\ \A q \in C!Column(place, C!SubscriberEncrypt, subscribers, "latency", C!Unmarked) : Fits(s, q)
    BY <1>2, <1>3, <1>4, <1>5, <1>10 DEF timed
  <2> QED BY <1>24, <2>1 DEF C!Regressions, attributes, subscribers
<1>25. ASSUME NEW l \in C!Lines
       PROVE  \A q \in C!Column(l[1], l[2], C!TimingValues(Environment, l[2][1]), l[3], C!Unmarked) : Fits(s, q)
  <2>1. /\ l[2] \in ReportKinds(s) /\ l[3] \in Measures(s, l[2])
        /\ C!TimingValues(Environment, l[2][1]) = Headings(s, l[2], l[3])
    <3>1. \/ l[2] \in {C!CpabeEncrypt, C!CpabeDecrypt, C!SubscriberEncrypt, C!RsaEncrypt, C!RsaDecrypt}
               /\ l[3] = "latency"
          \/ l[2] \in {C!CpabeEncrypt, C!CpabeDecrypt, C!SubscriberEncrypt} /\ l[3] \in {"energy", "memory"}
          \/ l[2] \in {C!CpabeEncrypt, C!SubscriberEncrypt} /\ l[3] = "ciphertext"
          \/ l[2] = C!CpabeDecrypt /\ l[3] = "stored_key"
          \/ l[2] = C!SubscriberEncrypt /\ l[3] = "total_ciphertext"
      BY DEF C!Lines
    <3> QED BY <1>2, <1>3, <1>4, <1>7, <3>1 DEF timed
  <2> QED BY <1>5, <1>10, <2>1
<1>26. CASE p \in C!Levels(Environment)
  <2>1. \A place : /\ \A q \in C!Ends(place, C!CpabeEncrypt, attributes, "ciphertext") : Fits(s, q)
                   /\ \A q \in C!Ends(place, C!CpabeEncrypt, attributes, "latency") : Fits(s, q)
                   /\ \A k \in {C!CpabeEncrypt, C!CpabeDecrypt} :
                        Fits(s, C!First(place, k, attributes, "latency"))
    BY <1>2, <1>3, <1>4, <1>8, <1>12 DEF timed
  <2>2. \A place : \A k \in {C!RsaEncrypt, C!RsaDecrypt} : Fits(s, C!FixedLatency(Environment, place, k))
    BY <1>5, <1>13 DEF C!FixedLatency
  <2>3. Fits(s, C!Placement("energy", C!FixedDecrypt(Environment), "energy", 1, C!Unmarked))
    BY <1>5, <1>19
  <2>4. Fits(s, C!Placement("peak_memory", C!Baseline, "memory", 1, C!Unmarked))
    BY <1>1, BaselineFits, ColumnsAreOne
  <2> QED BY <1>26, <2>1, <2>2, <2>3, <2>4 DEF C!Levels, attributes
<1>27. CASE p \in C!Charts(Environment)
  BY <1>25, <1>26, <1>27 DEF C!Charts
<1> QED BY <1>1, <1>14, <1>16, <1>17, <1>20, <1>21, <1>22, <1>23, <1>24, <1>27 DEF C!Placements

\* and cover its flags.
LEMMA CpabeRsaIsCovered == Covered("cpabe_rsa", Placements("cpabe_rsa"))
<1> DEFINE s == "cpabe_rsa"
           fixed == C!Placement("FixedRsaDecryptEnergyTable", C!FixedDecrypt(Environment), "energy", 1,
                                "energy_throttled")
           latencies == C!TimingReportTables(Environment)
<1>1. /\ TimingValues(s, C!CpabeEncrypt) = C!TimingValues(Environment, C!CpabeEncrypt[1])
      /\ TimingValues(s, C!CpabeDecrypt) = C!TimingValues(Environment, C!CpabeDecrypt[1])
      /\ TimingValues(s, C!SubscriberEncrypt) = C!TimingValues(Environment, C!SubscriberEncrypt[1])
      /\ TimingValues(s, C!RsaEncrypt) = C!TimingValues(Environment, C!RsaEncrypt[1])
      /\ TimingValues(s, C!RsaDecrypt) = C!TimingValues(Environment, C!RsaDecrypt[1])
  BY DEF TimingValues
<1>2. /\ \A kind \in {C!CpabeEncrypt, C!CpabeDecrypt, C!SubscriberEncrypt} :
           EnergyValues(s, kind) = C!TimingValues(Environment, kind[1])
      /\ EnergyValues(s, C!RsaEncrypt) = <<>> /\ EnergyValues(s, C!RsaDecrypt) = <<Environment.fixed>>
  BY DEF EnergyValues, C!EnergyMemoryValues, C!CpabeEncrypt, C!CpabeDecrypt, C!SubscriberEncrypt, C!RsaEncrypt,
         C!RsaDecrypt
<1>3. Placements(s) = C!Placements(Environment)
  BY DEF Placements
<1>4. latencies \subseteq Placements(s) /\ C!EnergyTables(Environment) \subseteq Placements(s) /\ fixed \in Placements(s)
  BY <1>3 DEF C!Placements, C!FixedReferenceTables
<1> HIDE DEF s, latencies
<1>5. ASSUME NEW kind \in ReportKinds(s), NEW i \in DOMAIN TimingValues(s, kind)
      PROVE  \E p \in Placements(s) : Marks(p, kind, TimingValues(s, kind), i, "timing_throttled")
  <2>1. kind \in {C!CpabeEncrypt, C!CpabeDecrypt, C!SubscriberEncrypt, C!RsaEncrypt, C!RsaDecrypt}
    BY CpabeRsaKinds DEF s
  <2>2. TimingValues(s, kind) = C!TimingValues(Environment, kind[1])
    BY <1>1, <2>1
  <2>3. \E place : C!Latencies(Environment, place, kind) \subseteq latencies
    <3>1. kind \in {C!CpabeEncrypt, C!CpabeDecrypt}
            => C!Latencies(Environment, "CpabePolicyScalingTable", kind) \subseteq latencies
      BY DEF latencies, C!TimingReportTables
    <3>2. kind = C!SubscriberEncrypt
            => C!Latencies(Environment, "RsaSubscriberScalingTable", kind) \subseteq latencies
      BY DEF latencies, C!TimingReportTables
    <3>3. kind \in {C!RsaEncrypt, C!RsaDecrypt}
            => C!Latencies(Environment, "RsaKeySizeSensitivityTable", kind) \subseteq latencies
      BY DEF latencies, C!TimingReportTables
    <3> QED BY <2>1, <3>1, <3>2, <3>3
  <2>4. PICK place : C!Latencies(Environment, place, kind) \subseteq latencies
    BY <2>3
  <2>5. PICK p \in C!Column(place, kind, TimingValues(s, kind), "latency", "timing_throttled") :
          Marks(p, kind, TimingValues(s, kind), i, "timing_throttled")
    BY <1>5, ColumnMarks, ColumnsAreOne
  <2>6. p \in C!Latencies(Environment, place, kind)
    BY <2>2, <2>5 DEF C!Latencies
  <2> QED BY <1>4, <2>4, <2>5, <2>6
<1>6. ASSUME NEW kind \in ReportKinds(s), NEW i \in DOMAIN EnergyValues(s, kind)
      PROVE  \E p \in Placements(s) : Marks(p, kind, EnergyValues(s, kind), i, "energy_throttled")
  <2>1. kind \in {C!CpabeEncrypt, C!CpabeDecrypt, C!SubscriberEncrypt, C!RsaEncrypt, C!RsaDecrypt}
    BY CpabeRsaKinds DEF s
  <2>2. CASE kind \in {C!CpabeEncrypt, C!CpabeDecrypt, C!SubscriberEncrypt}
    <3>1. PICK p \in C!Column("EnergyTable", kind, EnergyValues(s, kind), "energy", "energy_throttled") :
            Marks(p, kind, EnergyValues(s, kind), i, "energy_throttled")
      BY <1>6, ColumnMarks, ColumnsAreOne
    <3>2. EnergyValues(s, kind) = C!TimingValues(Environment, kind[1])
      BY <1>2, <2>2
    <3>3. p \in C!EnergyTables(Environment)
      BY <2>2, <3>1, <3>2 DEF C!EnergyTables
    <3> QED BY <1>4, <3>1, <3>3
  <2>3. CASE kind = C!RsaEncrypt
    <3>1. DOMAIN <<>> = {}
      OBVIOUS
    <3> QED BY <1>2, <1>6, <2>3, <3>1
  <2>4. CASE kind = C!RsaDecrypt
    <3>1. EnergyValues(s, kind) = <<Environment.fixed>> /\ i = 1
      BY <1>2, <1>6, <2>4
    <3>2. fixed.flags = "energy_throttled" /\ fixed.index = 1
            /\ fixed.case = Case("RSAKeyBits", "Decrypt", Environment.fixed)
      BY ColumnsAreOne DEF C!Placement, C!FixedDecrypt
    <3>3. kind[1] = "RSAKeyBits" /\ kind[2] = "Decrypt" /\ <<Environment.fixed>>[1] = Environment.fixed
      BY <2>4 DEF C!RsaDecrypt
    <3> HIDE DEF fixed
    <3>4. Marks(fixed, kind, EnergyValues(s, kind), i, "energy_throttled")
      BY <3>1, <3>2, <3>3 DEF Marks, CaseAt
    <3> QED BY <1>4, <3>4
  <2> QED BY <2>1, <2>2, <2>3, <2>4
<1> QED BY <1>5, <1>6 DEF Covered, s

\* Every scenario's report is laid out as its tables are looked up.
LEMMA EveryReportIsLaid ==
  ASSUME NEW s \in Scenarios, s = "cpabe_rsa" => C!Analysable(Environment)
  PROVE  Laid(s, Placements(s))
<1>1. CASE s = "aes_ascon"
  BY <1>1, AesAsconIsLaid
<1>2. CASE s = "json_cbor"
  BY <1>2, JsonCborIsLaid
<1>3. CASE s = "full_schema"
  BY <1>3, FullSchemaIsLaid
<1>4. CASE s = "cpabe_rsa"
  <2>1. \A p \in Placements("cpabe_rsa") : Fits("cpabe_rsa", p)
    BY <1>4, CpabeRsaPlacesFit
  <2> QED BY <1>4, <2>1, CpabeRsaIsCovered DEF Laid
<1> QED BY <1>1, <1>2, <1>3, <1>4 DEF Scenarios

----------------------------------------------------------------------------
(* What html.py sets into its tables. *)

\* The fields of what stands in a place.
LEMMA ShownFields ==
  ASSUME NEW res, NEW p
  PROVE  LET x == Shown(res, p)
             values == res[<<p.case.algorithm, p.case.operation>>] IN
         /\ x.case = p.case /\ x.measure = p.measure /\ x.flags = p.flags
         /\ x.data = values[p.measure][p.index]
         /\ x.marked = (p.flags # Unmarked /\ values[p.flags][p.index])
<1> DEFINE values == res[<<p.case.algorithm, p.case.operation>>]
           data == values[p.measure][p.index]
           marked == p.flags # Unmarked /\ values[p.flags][p.index]
<1>1. Shown(res, p) = [place |-> p.place, case |-> p.case, measure |-> p.measure, data |-> data,
                       flags |-> p.flags, marked |-> marked]
  BY DEF Shown
<1> HIDE DEF data, marked
<1>2. LET x == Shown(res, p) IN
      /\ x.case = p.case /\ x.measure = p.measure /\ x.flags = p.flags /\ x.data = data /\ x.marked = marked
  BY <1>1
<1> QED BY <1>2 DEF data, marked

\* The number in a place belongs to the case it stands under.
LEMMA ShownNumbers ==
  ASSUME NEW s \in Scenarios, NEW w, NEW res, ResultsAreTrue(s, w, res), NEW p, Fits(s, p)
  PROVE  TrueData(s, w.silent, p.case, p.measure, Shown(res, p).data)
<1>1. Shown(res, p).data = res[<<p.case.algorithm, p.case.operation>>][p.measure][p.index]
  BY ShownFields
<1>2. CASE OfBaseline(s, p)
  <2>1. Shown(res, p).data = Measured(Baseline, "peak_rss_bytes")
    BY <1>1, <1>2 DEF OfBaseline, ResultsAreTrue, BaselineKind
  <2> QED BY <1>2, <2>1 DEF OfBaseline, TrueData
<1>3. ASSUME NEW kind \in ReportKinds(s), FitsTo(s, p, kind)
      PROVE  TrueData(s, w.silent, p.case, p.measure, Shown(res, p).data)
  <2>1. <<p.case.algorithm, p.case.operation>> = kind
    BY <1>3, FieldsOfACase DEF FitsTo
  <2>2. NumbersTrue(s, w, kind, res[kind])
    BY <1>3 DEF ResultsAreTrue, AnalyzedTruly
  <2>3. TrueData(s, w.silent, CaseAt(kind, Headings(s, kind, p.measure), p.index), p.measure,
                 res[kind][p.measure][p.index])
    BY <1>3, <2>2 DEF NumbersTrue, FitsTo
  <2> QED BY <1>1, <1>3, <2>1, <2>3 DEF FitsTo
<1> QED BY <1>2, <1>3 DEF Fits

\* The flags that mark a place are those of its case.
LEMMA ShownMarks ==
  ASSUME NEW s \in Scenarios, NEW w, NEW res, ResultsAreTrue(s, w, res), NEW p, Fits(s, p)
  PROVE  /\ p.flags = "timing_throttled" => (Shown(res, p).marked <=> Throttled(w, "timing", p.case))
         /\ p.flags = "energy_throttled" => (Shown(res, p).marked <=> Throttled(w, "energy", p.case))
<1>0. "timing_throttled" # Unmarked /\ "energy_throttled" # Unmarked
  BY DEF Unmarked
<1>1. CASE OfBaseline(s, p)
  BY <1>0, <1>1 DEF OfBaseline
<1>2. ASSUME NEW kind \in ReportKinds(s), FitsTo(s, p, kind)
      PROVE  /\ p.flags = "timing_throttled" =>
                  (Shown(res, p).marked <=> Throttled(w, "timing", p.case))
             /\ p.flags = "energy_throttled" =>
                  (Shown(res, p).marked <=> Throttled(w, "energy", p.case))
  <2>1. <<p.case.algorithm, p.case.operation>> = kind
    BY <1>2, FieldsOfACase DEF FitsTo
  <2>2. Shown(res, p).marked = (p.flags # Unmarked /\ res[kind][p.flags][p.index])
    BY <2>1, ShownFields
  <2>3. /\ FlagsTrue(w, kind, TimingValues(s, kind), res[kind]["timing_throttled"], "timing")
        /\ FlagsTrue(w, kind, EnergyValues(s, kind), res[kind]["energy_throttled"], "energy")
    BY <1>2 DEF ResultsAreTrue, AnalyzedTruly
  <2>4. CASE p.flags = "timing_throttled"
    <3>1. p.index \in DOMAIN TimingValues(s, kind) /\ p.case = CaseAt(kind, TimingValues(s, kind), p.index)
      BY <1>2, <2>4 DEF FitsTo, FlagsOf, Headings
    <3>2. res[kind]["timing_throttled"][p.index] <=> Throttled(w, "timing", p.case)
      BY <2>3, <3>1 DEF FlagsTrue
    <3> QED BY <1>0, <2>2, <2>4, <3>2
  <2>5. CASE p.flags = "energy_throttled"
    <3>1. p.index \in DOMAIN EnergyValues(s, kind) /\ p.case = CaseAt(kind, EnergyValues(s, kind), p.index)
      BY <1>2, <2>5 DEF FitsTo, FlagsOf, Headings
    <3>2. res[kind]["energy_throttled"][p.index] <=> Throttled(w, "energy", p.case)
      BY <2>3, <3>1 DEF FlagsTrue
    <3> QED BY <1>0, <2>2, <2>5, <3>2
  <2> QED BY <2>4, <2>5
<1> QED BY <1>1, <1>2 DEF Fits

\* build_thermal_legend warns of the flags that a place shows.
LEMMA LegendIsShown ==
  ASSUME NEW s \in Scenarios, NEW w, NEW res, ResultsAreTrue(s, w, res), NEW places, Laid(s, places)
  PROVE  /\ Legend(s, res, "timing_throttled") <=>
              \E p \in places : p.flags = "timing_throttled" /\ Throttled(w, "timing", p.case)
         /\ Legend(s, res, "energy_throttled") <=>
              \E p \in places : p.flags = "energy_throttled" /\ Throttled(w, "energy", p.case)
<1>0. "timing_throttled" # Unmarked /\ "energy_throttled" # Unmarked
  BY DEF Unmarked
<1>1. \A kind \in ReportKinds(s) :
        /\ FlagsTrue(w, kind, TimingValues(s, kind), res[kind]["timing_throttled"], "timing")
        /\ FlagsTrue(w, kind, EnergyValues(s, kind), res[kind]["energy_throttled"], "energy")
  BY DEF ResultsAreTrue, AnalyzedTruly
<1>2. Legend(s, res, "timing_throttled") <=>
        \E kind \in ReportKinds(s) : \E i \in DOMAIN TimingValues(s, kind) :
          Throttled(w, "timing", CaseAt(kind, TimingValues(s, kind), i))
  BY <1>1 DEF Legend, FlagsTrue
<1>3. Legend(s, res, "energy_throttled") <=>
        \E kind \in ReportKinds(s) : \E i \in DOMAIN EnergyValues(s, kind) :
          Throttled(w, "energy", CaseAt(kind, EnergyValues(s, kind), i))
  BY <1>1 DEF Legend, FlagsTrue
<1>4. ASSUME NEW p \in places, p.flags = "timing_throttled"
      PROVE  \E kind \in ReportKinds(s) : \E i \in DOMAIN TimingValues(s, kind) :
               p.case = CaseAt(kind, TimingValues(s, kind), i)
  <2>1. PICK kind \in ReportKinds(s) : FitsTo(s, p, kind)
    BY <1>0, <1>4 DEF Laid, Fits, OfBaseline
  <2>2. p.index \in DOMAIN TimingValues(s, kind) /\ p.case = CaseAt(kind, TimingValues(s, kind), p.index)
    BY <1>4, <2>1 DEF FitsTo, FlagsOf, Headings
  <2> QED BY <2>2
<1>5. ASSUME NEW p \in places, p.flags = "energy_throttled"
      PROVE  \E kind \in ReportKinds(s) : \E i \in DOMAIN EnergyValues(s, kind) :
               p.case = CaseAt(kind, EnergyValues(s, kind), i)
  <2>1. PICK kind \in ReportKinds(s) : FitsTo(s, p, kind)
    BY <1>0, <1>5 DEF Laid, Fits, OfBaseline
  <2>2. p.index \in DOMAIN EnergyValues(s, kind) /\ p.case = CaseAt(kind, EnergyValues(s, kind), p.index)
    BY <1>5, <2>1 DEF FitsTo, FlagsOf, Headings
  <2> QED BY <2>2
<1>6. \A kind \in ReportKinds(s) : \A i \in DOMAIN TimingValues(s, kind) :
        \E p \in places : p.flags = "timing_throttled" /\ p.case = CaseAt(kind, TimingValues(s, kind), i)
  BY DEF Laid, Covered, Marks
<1>7. \A kind \in ReportKinds(s) : \A i \in DOMAIN EnergyValues(s, kind) :
        \E p \in places : p.flags = "energy_throttled" /\ p.case = CaseAt(kind, EnergyValues(s, kind), i)
  BY DEF Laid, Covered, Marks
<1>8. Legend(s, res, "timing_throttled") <=>
        \E p \in places : p.flags = "timing_throttled" /\ Throttled(w, "timing", p.case)
  BY <1>2, <1>4, <1>6
<1>9. Legend(s, res, "energy_throttled") <=>
        \E p \in places : p.flags = "energy_throttled" /\ Throttled(w, "energy", p.case)
  BY <1>3, <1>5, <1>7
<1> QED BY <1>8, <1>9

\* A report whose numbers are true (NumbersBelongToTheirHeadings).
ReportNumbersTrue(s, w, rep) == \A x \in rep.shown : TrueData(s, w.silent, x.case, x.measure, x.data)

\* A report whose marks are true (MarksAreTrue).
ReportMarksTrue(w, rep) ==
  /\ \A x \in rep.shown :
       /\ x.flags = "timing_throttled" => (x.marked <=> Throttled(w, "timing", x.case))
       /\ x.flags = "energy_throttled" => (x.marked <=> Throttled(w, "energy", x.case))
  /\ rep.timingLegend <=> \E x \in rep.shown : x.flags = "timing_throttled" /\ x.marked
  /\ rep.energyLegend <=> \E x \in rep.shown : x.flags = "energy_throttled" /\ x.marked

\* What html.py writes of true results is true.
LEMMA ReportIsTrue ==
  ASSUME NEW s \in Scenarios, NEW w, NEW res, ResultsAreTrue(s, w, res),
         s = "cpabe_rsa" => C!Analysable(Environment)
  PROVE  ReportNumbersTrue(s, w, ReportOf(s, res)) /\ ReportMarksTrue(w, ReportOf(s, res))
<1> DEFINE rep == ReportOf(s, res)
           places == Placements(s)
           timing == Legend(s, res, "timing_throttled")
           energy == Legend(s, res, "energy_throttled")
           shown == {Shown(res, p) : p \in places}
<1>1. rep = [shown |-> shown, timingLegend |-> timing, energyLegend |-> energy]
  BY DEF ReportOf
<1> HIDE DEF timing, energy, shown, rep
<1>2. rep.shown = shown /\ rep.timingLegend = timing /\ rep.energyLegend = energy
  BY <1>1
<1>3. Laid(s, places)
  BY EveryReportIsLaid
<1>4. \A p \in places : Fits(s, p)
  BY <1>3 DEF Laid
<1> HIDE DEF places
<1>5. \A x \in shown : \E p \in places : x = Shown(res, p)
  BY DEF shown
<1>6. \A p \in places : Shown(res, p) \in shown
  BY DEF shown
<1>7. ASSUME NEW p \in places
      PROVE  LET x == Shown(res, p) IN
             /\ x.case = p.case /\ x.measure = p.measure /\ x.flags = p.flags
             /\ TrueData(s, w.silent, p.case, p.measure, x.data)
             /\ p.flags = "timing_throttled" => (x.marked <=> Throttled(w, "timing", p.case))
             /\ p.flags = "energy_throttled" => (x.marked <=> Throttled(w, "energy", p.case))
  BY <1>4, ShownFields, ShownNumbers, ShownMarks
<1>8. ASSUME NEW x \in shown
      PROVE  /\ TrueData(s, w.silent, x.case, x.measure, x.data)
             /\ x.flags = "timing_throttled" => (x.marked <=> Throttled(w, "timing", x.case))
             /\ x.flags = "energy_throttled" => (x.marked <=> Throttled(w, "energy", x.case))
  BY <1>5, <1>7
<1>9. timing <=> \E x \in shown : x.flags = "timing_throttled" /\ x.marked
  <2>1. timing <=> \E p \in places : p.flags = "timing_throttled" /\ Throttled(w, "timing", p.case)
    BY <1>3, LegendIsShown DEF timing
  <2>2. (\E x \in shown : x.flags = "timing_throttled" /\ x.marked) <=>
          \E p \in places : p.flags = "timing_throttled" /\ Throttled(w, "timing", p.case)
    BY <1>5, <1>6, <1>7
  <2> QED BY <2>1, <2>2
<1>10. energy <=> \E x \in shown : x.flags = "energy_throttled" /\ x.marked
  <2>1. energy <=> \E p \in places : p.flags = "energy_throttled" /\ Throttled(w, "energy", p.case)
    BY <1>3, LegendIsShown DEF energy
  <2>2. (\E x \in shown : x.flags = "energy_throttled" /\ x.marked) <=>
          \E p \in places : p.flags = "energy_throttled" /\ Throttled(w, "energy", p.case)
    BY <1>5, <1>6, <1>7
  <2> QED BY <2>1, <2>2
<1>11. ReportNumbersTrue(s, w, rep)
  BY <1>2, <1>8 DEF ReportNumbersTrue
<1>12. ReportMarksTrue(w, rep)
  BY <1>2, <1>8, <1>9, <1>10 DEF ReportMarksTrue
<1> QED BY <1>11, <1>12 DEF rep

----------------------------------------------------------------------------
(* The invariant. *)

\* The tables and the summary are what the stage has made of the campaign's files, the
\* results are true once they are analyzed, and the report is what html.py makes of them.
ReportInvariant ==
  /\ scenario \in Scenarios
  /\ Progress(scenario, world, stage, next, table, summary)
  /\ stage \in {"Write", "Written"} =>
       ResultsAreTrue(scenario, world, results) /\ (scenario = "cpabe_rsa" => C!Analysable(Environment))
  /\ report = IF stage = "Written" THEN ReportOf(scenario, results) ELSE NoReport

\* The invariant holds when the campaign begins,
LEMMA ReportInvariantInitially == Init => ReportInvariant
<1> SUFFICES ASSUME Init PROVE ReportInvariant
  OBVIOUS
<1>1. scenario \in Scenarios /\ Progress(scenario, world, stage, next, table, summary)
  BY InitialProgress
<1>2. stage \notin {"Write", "Written"} /\ report = NoReport
  BY DEF Init
<1> QED BY <1>1, <1>2 DEF ReportInvariant

\* A step of the conversion or of the loading.
LEMMA WorkingKeepsTheInvariant ==
  ASSUME ReportInvariant,
         ConvertMemory \/ MeasureEnergy \/ ConvertTiming \/ LoadTiming \/ LoadMemory \/ LoadEnergy
  PROVE  ReportInvariant'
<1>1. /\ scenario \in Scenarios /\ Progress(scenario, world, stage, next, table, summary)
      /\ stage # "Written" /\ stage # "Write" /\ report = NoReport
  BY DEF ReportInvariant, ConvertMemory, MeasureEnergy, ConvertTiming, LoadTiming, LoadMemory, LoadEnergy
<1>2. scenario' = scenario /\ world' = world /\ results' = results /\ report' = report
  BY DEF ConvertMemory, MeasureEnergy, ConvertTiming, LoadTiming, LoadMemory, LoadEnergy, ConvertLine, LoadRow
<1>3. Progress(scenario, world, stage', next', table', summary')
  BY <1>1, ConvertingMemory, MeasuringEnergy, ConvertingTiming, LoadingTiming, LoadingMemory, LoadingEnergy
<1>4. stage' \notin {"Write", "Written"}
  <2>1. CASE ConvertMemory
    BY <2>1 DEF ConvertMemory, ConvertLine
  <2>2. CASE MeasureEnergy
    BY <2>2 DEF MeasureEnergy
  <2>3. CASE ConvertTiming
    BY <2>3 DEF ConvertTiming, ConvertLine
  <2>4. CASE LoadTiming
    BY <2>4 DEF LoadTiming, LoadRow
  <2>5. CASE LoadMemory
    BY <2>5 DEF LoadMemory, LoadRow
  <2>6. CASE LoadEnergy
    BY <2>6 DEF LoadEnergy, LoadRow
  <2> QED BY <2>1, <2>2, <2>3, <2>4, <2>5, <2>6
<1>5. /\ Progress(scenario', world', stage', next', table', summary')
      /\ scenario' \in Scenarios /\ report' = NoReport
  BY <1>1, <1>2, <1>3
<1> QED BY <1>4, <1>5 DEF ReportInvariant

\* The step that computes the statistics.
LEMMA AnalyzingKeepsTheInvariant ==
  ASSUME ReportInvariant, Analyze
  PROVE  ReportInvariant'
<1>1. /\ scenario \in Scenarios /\ Progress(scenario, world, stage, next, table, summary)
      /\ stage = "Analyze" /\ report = NoReport
  BY DEF ReportInvariant, Analyze
<1>2. /\ scenario' = scenario /\ world' = world /\ next' = next /\ table' = table /\ summary' = summary
      /\ report' = report
  BY DEF Analyze
<1>3. stage' \in {"Write", "Raised"}
  BY DEF Analyze
<1>4. Progress(scenario, world, stage', next, table, summary)
  <2>1. stage' \notin Stages
    BY <1>3 DEF Stages
  <2> QED BY <1>1, <2>1, ProgressOtherwise
<1>5. CASE Analysable
  <2>1. PICK heard, m, l, k : /\ IsHeard(scenario, world, heard, l)
                              /\ At(scenario, world, heard, m, l, k, "Analyze", next, summary)
    BY <1>1 DEF Progress
  <2>2. /\ l = Len(Listening(scenario))
        /\ LoadedSoFar(scenario, world, heard, summary, Len(Reps(scenario, "timing")),
                       Len(Reps(scenario, "memory")), 2 * Len(heard))
    BY <2>1 DEF At
  <2>3. AllLoaded(heard)
    BY <1>1, <1>5, <2>1, <2>2 DEF AllLoaded
  <2>4. ResultsAreTrue(scenario, world, results') /\ stage' = "Write"
    BY <2>3, ResultsAnalyzed
  <2>5. scenario = "cpabe_rsa" => C!Analysable(Environment)
    BY <1>5 DEF Analysable
  <2> QED BY <1>1, <1>2, <1>4, <2>4, <2>5 DEF ReportInvariant
<1>6. CASE ~Analysable
  <2>1. stage' = "Raised"
    BY <1>6 DEF Analyze
  <2> QED BY <1>1, <1>2, <1>4, <2>1 DEF ReportInvariant
<1> QED BY <1>5, <1>6

\* The step that writes the report.
LEMMA WritingKeepsTheInvariant ==
  ASSUME ReportInvariant, Write
  PROVE  ReportInvariant'
<1>1. /\ stage = "Write" /\ stage' = "Written" /\ report' = ReportOf(scenario, results)
      /\ scenario' = scenario /\ world' = world /\ next' = next /\ table' = table /\ summary' = summary
      /\ results' = results
  BY DEF Write
<1>2. Progress(scenario, world, "Written", next, table, summary)
  <2>1. "Written" \notin Stages
    BY DEF Stages
  <2> QED BY <2>1, ProgressOtherwise DEF ReportInvariant
<1>3. /\ ResultsAreTrue(scenario, world, results) /\ (scenario = "cpabe_rsa" => C!Analysable(Environment))
      /\ scenario \in Scenarios
  BY <1>1 DEF ReportInvariant
<1> QED BY <1>1, <1>2, <1>3 DEF ReportInvariant

\* every step keeps it,
LEMMA ReportInvariantStays == ReportInvariant /\ [Next]_vars => ReportInvariant'
<1>1. ASSUME ReportInvariant, Next PROVE ReportInvariant'
  BY <1>1, WorkingKeepsTheInvariant, AnalyzingKeepsTheInvariant, WritingKeepsTheInvariant DEF Next
<1>2. ASSUME ReportInvariant, UNCHANGED vars PROVE ReportInvariant'
  BY <1>2 DEF ReportInvariant, vars
<1> QED BY <1>1, <1>2

\* and so it holds always.
LEMMA ReportInvariantHolds == Spec => []ReportInvariant
BY ReportInvariantInitially, ReportInvariantStays, PTL DEF Spec

----------------------------------------------------------------------------
(* The properties. *)

\* A row has the number of its repetition, and so have its measurements (RepetitionsAreNumbered).
Numbered(rows, i) ==
  /\ rows[i].run = Cardinality({j \in 1..i : rows[j].of = rows[i].of})
  /\ \A m \in DOMAIN rows[i].measurements : m # "throttled" => rows[i].measurements[m][3] = rows[i].run

\* The numbers of the first rows of a table are those of the repetitions.
LEMMA RowsAreNumbered ==
  ASSUME NEW s \in Scenarios, NEW w, NEW t \in Tables, NEW k \in 0..Len(Reps(s, t)), NEW i \in 1..k
  PROVE  Numbered(First(s, w, t, k), i)
<1> DEFINE rows == First(s, w, t, k)
           reps == Reps(s, t)
<1>1. \A j \in 1..k : j \in DOMAIN reps /\ rows[j] = RowOf(s, w, t, reps[j])
  BY FirstRows
<1>2. /\ IsSeq(reps) /\ Ordered(reps)
      /\ \A j \in DOMAIN reps : reps[j][1] \in CasesIn(t) /\ reps[j][2] \in 1..Runs
  BY RepsFacts
<1>3. k \in Nat /\ \A j \in 1..i : j \in 1..k
  <2>1. Len(reps) \in Nat
    BY <1>2, SequenceFacts
  <2> QED BY <2>1
<1> HIDE DEF rows, reps
<1>4. \A j \in 1..k : rows[j].of = Who(s, reps[j][1]) /\ rows[j].run = reps[j][2]
  BY <1>1, RowFields
<1>5. \A j \in 1..k : reps[j][1] \in Planned \cup MemoryPlanned \cup {Baseline}
  BY <1>1, <1>2 DEF CasesIn
<1>6. \A j \in 1..i : rows[j].of = rows[i].of <=> reps[j][1] = reps[i][1]
  BY <1>3, <1>4, <1>5, WhoIsOne
<1>7. {j \in 1..i : rows[j].of = rows[i].of} = {j \in 1..i : reps[j][1] = reps[i][1]}
  BY <1>6
<1>8. Cardinality({j \in 1..i : reps[j][1] = reps[i][1]}) = reps[i][2]
  BY <1>1, <1>2, NumbersBefore
<1>9. \A m \in DOMAIN rows[i].measurements : m # "throttled" => rows[i].measurements[m][3] = rows[i].run
  <2>1. \A m, case, n : Datum(m, case, n)[3] = n
    BY DEF Datum
  <2> QED BY <1>1, <1>4, <2>1, RowMeasurements
<1> QED BY <1>4, <1>7, <1>8, <1>9 DEF rows, Numbered

\* The tables of the invariant are numbered.
LEMMA TablesAreNumbered == ReportInvariant => RepetitionsAreNumbered
<1> SUFFICES ASSUME ReportInvariant, NEW t \in Tables, NEW i \in DOMAIN table[t] PROVE Numbered(table[t], i)
  BY DEF RepetitionsAreNumbered, Tables, Numbered
<1>1. PICK heard, m, l, k :
        /\ m \in 0..Len(Reps(scenario, "memory")) /\ k \in 0..Len(Reps(scenario, "timing"))
        /\ table = TablesOf(scenario, world, heard, m, k)
  BY DEF ReportInvariant, Progress
<1>2. \E n \in 0..Len(Reps(scenario, t)) : table[t] = First(scenario, world, t, n)
  BY <1>1, ChangedTables DEF Tables
<1>3. PICK n \in 0..Len(Reps(scenario, t)) : table[t] = First(scenario, world, t, n)
  BY <1>2
<1>4. scenario \in Scenarios
  BY DEF ReportInvariant
<1>5. i \in 1..n
  BY <1>3, <1>4, FirstRows
<1>6. Numbered(First(scenario, world, t, n), i)
  BY <1>4, <1>5, RowsAreNumbered
<1> QED BY <1>3, <1>6

\* The report of the invariant, written or not, is true.
LEMMA WrittenReport == ReportInvariant => ReportNumbersTrue(scenario, world, report) /\ ReportMarksTrue(world, report)
<1> SUFFICES ASSUME ReportInvariant
             PROVE  ReportNumbersTrue(scenario, world, report) /\ ReportMarksTrue(world, report)
  OBVIOUS
<1>1. CASE stage = "Written"
  BY <1>1, ReportIsTrue DEF ReportInvariant
<1>2. CASE stage # "Written"
  <2>1. report.shown = {} /\ report.timingLegend = FALSE /\ report.energyLegend = FALSE
    BY <1>2 DEF ReportInvariant, NoReport
  <2> QED BY <2>1 DEF ReportNumbersTrue, ReportMarksTrue
<1> QED BY <1>1, <1>2

\* Every number of the tables and of the report is where it belongs, whatever the lists
\* of the environment file and the number of repetitions.
THEOREM NumbersStayInPlace == Spec => []NumbersAreInPlace
<1>1. ReportInvariant => NumbersBelongToTheirHeadings
  <2> SUFFICES ASSUME ReportInvariant, NEW x \in report.shown PROVE IsTrue(x)
    BY DEF NumbersBelongToTheirHeadings
  <2>1. TrueData(scenario, world.silent, x.case, x.measure, x.data)
    BY WrittenReport DEF ReportNumbersTrue
  <2> QED BY <2>1 DEF TrueData, IsTrue
<1>2. ReportInvariant => NumbersAreInPlace
  BY <1>1, TablesAreNumbered DEF NumbersAreInPlace
<1> QED BY <1>2, ReportInvariantHolds, PTL

\* A number of the report is marked, and a legend warns, exactly if a repetition behind
\* it was throttled, whatever the lists of the environment file.
THEOREM MarksTellTheTruth == Spec => []MarksAreTrue
<1>1. ReportInvariant => MarksAreTrue
  BY WrittenReport DEF ReportMarksTrue, MarksAreTrue
<1> QED BY <1>1, ReportInvariantHolds, PTL
====
