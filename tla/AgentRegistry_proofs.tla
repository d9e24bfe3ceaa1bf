------------------------- MODULE AgentRegistry_proofs -------------------------
(***************************************************************************)
(* What the registry of agent sessions promises, for every number of       *)
(* sessions, processes, seconds, restarts and ended records.               *)
(*                                                                         *)
(* That no time is counted twice is not inductive as it stands: when the   *)
(* cap drops a session's oldest record the session seems to start later,   *)
(* and nothing says how much of what is left was counted since then.  The  *)
(* invariant TimeBound says it of every moment m: the records of a session *)
(* that started at m or later count at most the time from m to now.  An    *)
(* operation that leaves the clock alone never adds to that time (NoMore), *)
(* and the clock adds a second to both sides.                              *)
(*                                                                         *)
(* A time is a sum over a sequence of records, so first come the lemmas    *)
(* about such sums: concatenating, dropping a prefix, removing one place.  *)
(* The provers cannot take a predicate as a parameter: induction is stated *)
(* for a set of naturals (SetInduction), and a recursive function is met   *)
(* through the set of the runs of its loop (LoopRuns).                     *)
(***************************************************************************)
EXTENDS AgentRegistry, FiniteSetTheorems, SequenceTheorems, WellFoundedInduction, TLAPS

\* Induction over the naturals, for a set in place of a predicate.
LEMMA SetInduction ==
    ASSUME NEW S, 0 \in S, \A n \in S \cap Nat : n + 1 \in S
    PROVE  Nat \subseteq S
  <1> DEFINE R == OpToRel(<, Nat)
             T == Nat \ S
  <1> SUFFICES ASSUME T # {} PROVE FALSE
    OBVIOUS
  <1>1. \A x, y \in Nat : x < y => <<x, y>> \in R
    BY DEF OpToRel
  <1>2. IsWellFoundedOn(R, Nat)
    BY NatLessThanWellFounded
  <1> HIDE DEF R
  <1>3. PICK x \in T : \A y \in T : ~ (<<y, x>> \in R)
    BY <1>2, WFMin
  <1>4. x \in Nat /\ x # 0
    BY <1>3
  <1>5. PICK y \in Nat : x = y + 1
    BY <1>4, Z3
  <1>6. <<y, x>> \in R
    BY <1>1, <1>4, <1>5
  <1>7. y \in S
    BY <1>3, <1>6
  <1>8. QED
    BY <1>3, <1>5, <1>7

\* The values of a loop of n turns, from the first of them.
Runs(V, a, n, step) ==
    {f \in [0..n -> V] : f[0] = a /\ \A i \in 1..n : f[i] = step[<<i, f[i - 1]>>]}

\* A loop has a value after each of its turns.
LEMMA LoopRuns ==
    ASSUME NEW V, NEW a \in V, NEW n \in Nat, NEW step \in [(1..n) \X V -> V]
    PROVE  Runs(V, a, n, step) # {}
  <1> DEFINE Good(m) == \E f \in [0..m -> V] :
                          f[0] = a /\ \A i \in 1..m : f[i] = step[<<i, f[i - 1]>>]
             S == {m \in Nat : m <= n => Good(m)}
  <1>1. 0 \in S
    <2>1. [i \in 0..0 |-> a] \in [0..0 -> V] /\ [i \in 0..0 |-> a][0] = a
      OBVIOUS
    <2>2. PICK f \in [0..0 -> V] : f[0] = a
      BY <2>1
    <2>3. \A i \in 1..0 : f[i] = step[<<i, f[i - 1]>>]
      OBVIOUS
    <2>4. Good(0)
      BY <2>2, <2>3
    <2>5. QED
      BY <2>4
  <1>2. ASSUME NEW m \in S \cap Nat
        PROVE  m + 1 \in S
    <2>1. SUFFICES ASSUME m + 1 <= n
                   PROVE  Good(m + 1)
      OBVIOUS
    <2>2. PICK f \in [0..m -> V] : f[0] = a /\ \A i \in 1..m : f[i] = step[<<i, f[i - 1]>>]
      BY <2>1
    <2>3. PICK g : g = [i \in 0..m + 1 |-> IF i = m + 1 THEN step[<<m + 1, f[m]>>] ELSE f[i]]
      OBVIOUS
    <2>4. step[<<m + 1, f[m]>>] \in V
      <3>1. m + 1 \in 1..n /\ f[m] \in V
        BY <2>1, <2>2
      <3>2. <<m + 1, f[m]>> \in (1..n) \X V
        BY <3>1
      <3>3. QED
        BY <3>2
    <2>5. g \in [0..m + 1 -> V]
      BY <2>2, <2>3, <2>4
    <2>6. g[0] = a /\ g[m + 1] = step[<<m + 1, f[m]>>] /\ \A i \in 0..m : g[i] = f[i]
      BY <2>2, <2>3
    <2>7. ASSUME NEW i \in 1..m + 1
          PROVE  g[i] = step[<<i, g[i - 1]>>]
      <3>1. CASE i = m + 1
        BY <2>6, <3>1
      <3>2. CASE i # m + 1
        <4>1. i \in 1..m /\ i - 1 \in 0..m /\ i \in 0..m
          BY <3>2
        <4>2. QED
          BY <2>2, <2>6, <4>1
      <3>3. QED
        BY <3>1, <3>2
    <2>8. QED
      BY <2>5, <2>6, <2>7
  <1>3. Nat \subseteq S
    <2> HIDE DEF S
    <2> QED BY <1>1, <1>2, SetInduction
  <1>4. Good(n)
    BY <1>3
  <1>5. QED
    BY <1>4 DEF Runs

\* The partial sums of a sequence of naturals.
LEMMA SumsUnfold ==
    ASSUME NEW w \in Seq(Nat)
    PROVE  /\ Sums(w) \in [0..Len(w) -> Nat]
           /\ Sums(w)[0] = 0
           /\ \A i \in 1..Len(w) : Sums(w)[i] = Sums(w)[i - 1] + w[i]
  <1>1. PICK n \in Nat : n = Len(w)
    OBVIOUS
  <1>2. PICK step : step = [x \in (1..n) \X Nat |-> x[2] + w[x[1]]]
    OBVIOUS
  <1>3. step \in [(1..n) \X Nat -> Nat]
    BY <1>1, <1>2
  <1>4. PICK f \in [0..n -> Nat] : f[0] = 0 /\ \A i \in 1..n : f[i] = step[<<i, f[i - 1]>>]
    <2>1. Runs(Nat, 0, n, step) # {}
      BY <1>3, LoopRuns
    <2>2. QED
      BY <2>1 DEF Runs
  <1>5. \A i \in 1..n : f[i] = f[i - 1] + w[i]
    <2>1. ASSUME NEW i \in 1..n
          PROVE  f[i] = f[i - 1] + w[i]
      <3>1. i - 1 \in 0..n
        OBVIOUS
      <3>2. f[i - 1] \in Nat
        BY <3>1, <1>4
      <3>3. <<i, f[i - 1]>> \in (1..n) \X Nat
        BY <3>2
      <3>4. QED
        BY <1>2, <1>4, <3>3
    <2>2. QED
      BY <2>1
  <1>6. f = [i \in 0..n |-> IF i = 0 THEN 0 ELSE f[i - 1] + w[i]]
    <2>1. \A i \in 0..n : f[i] = IF i = 0 THEN 0 ELSE f[i - 1] + w[i]
      <3>1. \A i \in 0..n : i = 0 \/ i \in 1..n
        OBVIOUS
      <3>2. QED
        BY <1>4, <1>5, <3>1
    <2>2. QED
      BY <1>4, <2>1
  <1>7. \E g : g = [i \in 0..Len(w) |-> IF i = 0 THEN 0 ELSE g[i - 1] + w[i]]
    BY <1>1, <1>6
  <1>8. Sums(w) = [i \in 0..Len(w) |-> IF i = 0 THEN 0 ELSE Sums(w)[i - 1] + w[i]]
    BY <1>7 DEF Sums
  <1>9. /\ Sums(w)[0] = 0
        /\ \A i \in 1..n : Sums(w)[i] = Sums(w)[i - 1] + w[i]
    <2>1. \A i \in 0..n : Sums(w)[i] = IF i = 0 THEN 0 ELSE Sums(w)[i - 1] + w[i]
      BY <1>1, <1>8
    <2>2. 0 \in 0..n /\ \A i \in 1..n : i \in 0..n /\ i # 0
      OBVIOUS
    <2>3. QED
      BY <2>1, <2>2
  <1>10. PICK S : S = {m \in Nat : m <= n => Sums(w)[m] \in Nat}
    OBVIOUS
  <1>11. Nat \subseteq S
    <2>1. 0 \in S
      BY <1>9, <1>10
    <2>2. ASSUME NEW m \in S \cap Nat
          PROVE  m + 1 \in S
      <3>1. SUFFICES ASSUME m + 1 <= n
                     PROVE  Sums(w)[m + 1] \in Nat
        BY <1>10
      <3>2. m + 1 \in 1..n /\ w[m + 1] \in Nat /\ Sums(w)[m] \in Nat
        BY <1>1, <1>10, <3>1
      <3>3. Sums(w)[m + 1] = Sums(w)[(m + 1) - 1] + w[m + 1]
        BY <1>9, <3>2
      <3>4. (m + 1) - 1 = m
        OBVIOUS
      <3>5. QED
        BY <3>2, <3>3, <3>4
    <2>3. QED
      BY <2>1, <2>2, SetInduction
  <1>12. \A m \in 0..n : Sums(w)[m] \in Nat
    BY <1>10, <1>11
  <1>13. QED
    BY <1>1, <1>8, <1>9, <1>12

\* The sum of a sequence is a natural number.
LEMMA SumType ==
    ASSUME NEW w \in Seq(Nat)
    PROVE  SumOf(w) \in Nat
  <1>1. Len(w) \in 0..Len(w)
    OBVIOUS
  <1>2. QED
    BY <1>1, SumsUnfold DEF SumOf

\* Partial sums agree as far as the sequences do.
LEMMA SumsAgree ==
    ASSUME NEW w \in Seq(Nat), NEW v \in Seq(Nat), NEW n \in Nat, n <= Len(w), n <= Len(v),
           \A i \in 1..n : w[i] = v[i]
    PROVE  \A m \in 0..n : Sums(w)[m] = Sums(v)[m]
  <1>1. PICK S : S = {m \in Nat : m <= n => Sums(w)[m] = Sums(v)[m]}
    OBVIOUS
  <1>2. 0 \in S
    BY <1>1, SumsUnfold
  <1>3. ASSUME NEW m \in S \cap Nat
        PROVE  m + 1 \in S
    <2>1. SUFFICES ASSUME m + 1 <= n
                   PROVE  Sums(w)[m + 1] = Sums(v)[m + 1]
      BY <1>1
    <2>2. Sums(w)[m] = Sums(v)[m] /\ w[m + 1] = v[m + 1]
      BY <1>1, <2>1
    <2>3. m + 1 \in 1..Len(w) /\ m + 1 \in 1..Len(v) /\ (m + 1) - 1 = m
      BY <2>1
    <2>4. Sums(w)[m + 1] = Sums(w)[m] + w[m + 1] /\ Sums(v)[m + 1] = Sums(v)[m] + v[m + 1]
      BY <2>3, SumsUnfold
    <2>5. QED
      BY <2>2, <2>4
  <1>4. Nat \subseteq S
    BY <1>2, <1>3, SetInduction
  <1>5. QED
    BY <1>1, <1>4

\* A sequence that is pointwise no larger has no larger sums.
LEMMA SumsMonotonic ==
    ASSUME NEW w \in Seq(Nat), NEW v \in Seq(Nat), Len(w) = Len(v),
           \A i \in 1..Len(w) : w[i] <= v[i]
    PROVE  SumOf(w) <= SumOf(v)
  <1>1. PICK n \in Nat : n = Len(w)
    OBVIOUS
  <1>2. PICK S : S = {m \in Nat : m <= n => Sums(w)[m] <= Sums(v)[m]}
    OBVIOUS
  <1>3. 0 \in S
    BY <1>2, SumsUnfold
  <1>4. ASSUME NEW m \in S \cap Nat
        PROVE  m + 1 \in S
    <2>1. SUFFICES ASSUME m + 1 <= n
                   PROVE  Sums(w)[m + 1] <= Sums(v)[m + 1]
      BY <1>2
    <2>2. Sums(w)[m] <= Sums(v)[m]
      BY <1>2, <2>1
    <2>3. /\ m + 1 \in 1..Len(w) /\ m + 1 \in 1..Len(v) /\ (m + 1) - 1 = m
          /\ m \in 0..Len(w) /\ m \in 0..Len(v)
      BY <1>1, <2>1
    <2>4. Sums(w)[m + 1] = Sums(w)[m] + w[m + 1] /\ Sums(v)[m + 1] = Sums(v)[m] + v[m + 1]
      BY <2>3, SumsUnfold
    <2>5. Sums(w)[m] \in Nat /\ Sums(v)[m] \in Nat
      BY <2>3, SumsUnfold
    <2>6. w[m + 1] \in Nat /\ v[m + 1] \in Nat /\ w[m + 1] <= v[m + 1]
      BY <2>3
    <2>7. QED
      BY <2>2, <2>4, <2>5, <2>6
  <1>5. Nat \subseteq S
    BY <1>3, <1>4, SetInduction
  <1>6. QED
    BY <1>1, <1>2, <1>5 DEF SumOf

\* The partial sums of a sequence after another one.
LEMMA SumsOfConcat ==
    ASSUME NEW w \in Seq(Nat), NEW v \in Seq(Nat)
    PROVE  /\ w \o v \in Seq(Nat)
           /\ SumOf(w \o v) = SumOf(w) + SumOf(v)
  <1>1. PICK u : u = w \o v
    OBVIOUS
  <1>2. PICK a \in Nat, b \in Nat : a = Len(w) /\ b = Len(v)
    OBVIOUS
  <1>3. /\ u \in Seq(Nat) /\ Len(u) = a + b
        /\ \A i \in 1..a + b : u[i] = IF i <= a THEN w[i] ELSE v[i - a]
    BY <1>1, <1>2, ConcatProperties
  <1>4. ASSUME NEW i \in 1..b
        PROVE  a + i \in 1..a + b /\ u[a + i] = v[i]
    <2>1. a + i \in 1..a + b /\ ~(a + i <= a) /\ (a + i) - a = i
      OBVIOUS
    <2>2. u[a + i] = v[(a + i) - a]
      BY <1>3, <2>1
    <2>3. QED
      BY <2>1, <2>2
  <1>5. Sums(u)[a] = SumOf(w)
    <2>1. \A i \in 1..a : u[i] = w[i]
      BY <1>3
    <2>2. a <= Len(u) /\ a <= Len(w)
      BY <1>2, <1>3
    <2>3. \A m \in 0..a : Sums(u)[m] = Sums(w)[m]
      BY <1>3, <2>1, <2>2, SumsAgree
    <2>4. QED
      BY <1>2, <2>3 DEF SumOf
  <1>6. PICK S : S = {m \in Nat : m <= b => Sums(u)[a + m] = SumOf(w) + Sums(v)[m]}
    OBVIOUS
  <1>7. 0 \in S
    <2>1. Sums(v)[0] = 0 /\ SumOf(w) \in Nat /\ a + 0 = a
      BY SumsUnfold, SumType
    <2>2. QED
      BY <1>5, <1>6, <2>1
  <1>8. ASSUME NEW m \in S \cap Nat
        PROVE  m + 1 \in S
    <2>1. SUFFICES ASSUME m + 1 <= b
                   PROVE  Sums(u)[a + (m + 1)] = SumOf(w) + Sums(v)[m + 1]
      BY <1>6
    <2>2. Sums(u)[a + m] = SumOf(w) + Sums(v)[m]
      BY <1>6, <2>1
    <2>3. m + 1 \in 1..b /\ (m + 1) - 1 = m /\ m \in 0..b /\ (a + (m + 1)) - 1 = a + m
      <3>1. m \in Nat /\ a \in Nat /\ b \in Nat
        OBVIOUS
      <3>2. QED
        BY <2>1, <3>1, SMT
    <2>4. a + (m + 1) \in 1..a + b /\ u[a + (m + 1)] = v[m + 1]
      BY <1>4, <2>3
    <2>5. Sums(u)[a + (m + 1)] = Sums(u)[(a + (m + 1)) - 1] + u[a + (m + 1)]
      <3>1. PICK k \in 1..Len(u) : k = a + (m + 1)
        BY <1>3, <2>4
      <3>2. Sums(u)[k] = Sums(u)[k - 1] + u[k]
        BY <1>3, SumsUnfold
      <3>3. QED
        BY <3>1, <3>2
    <2>6. Sums(v)[m + 1] = Sums(v)[m] + v[m + 1]
      BY <1>2, <2>3, SumsUnfold
    <2>7. SumOf(w) \in Nat /\ Sums(v)[m] \in Nat /\ v[m + 1] \in Nat
      <3>1. Sums(v) \in [0..b -> Nat] /\ v \in [1..b -> Nat]
        BY <1>2, SumsUnfold
      <3>2. QED
        BY <2>3, <3>1, SumType
    <2>8. QED
      BY <2>2, <2>3, <2>4, <2>5, <2>6, <2>7
  <1>9. Nat \subseteq S
    BY <1>7, <1>8, SetInduction
  <1>10. Sums(u)[a + b] = SumOf(w) + Sums(v)[b]
    BY <1>6, <1>9
  <1>11. QED
    BY <1>1, <1>2, <1>3, <1>10 DEF SumOf

\* A sequence with one place that is not zero.
LEMMA SumOfOne ==
    ASSUME NEW w \in Seq(Nat), NEW k \in 1..Len(w), \A i \in 1..Len(w) : i # k => w[i] = 0
    PROVE  SumOf(w) = w[k]
  <1>1. PICK S : S = {m \in Nat : m <= Len(w) => Sums(w)[m] = IF m < k THEN 0 ELSE w[k]}
    OBVIOUS
  <1>2. 0 \in S
    BY <1>1, SumsUnfold
  <1>3. ASSUME NEW m \in S \cap Nat
        PROVE  m + 1 \in S
    <2>1. SUFFICES ASSUME m + 1 <= Len(w)
                   PROVE  Sums(w)[m + 1] = IF m + 1 < k THEN 0 ELSE w[k]
      BY <1>1
    <2>2. Sums(w)[m] = IF m < k THEN 0 ELSE w[k]
      BY <1>1, <2>1
    <2>3. m + 1 \in 1..Len(w) /\ (m + 1) - 1 = m
      BY <2>1
    <2>4. Sums(w)[m + 1] = Sums(w)[m] + w[m + 1]
      BY <2>3, SumsUnfold
    <2>5. w[k] \in Nat /\ w[m + 1] \in Nat
      BY <2>3
    <2>6. QED
      BY <2>2, <2>3, <2>4, <2>5
  <1>4. Nat \subseteq S
    BY <1>2, <1>3, SetInduction
  <1>5. QED
    BY <1>1, <1>4 DEF SumOf

\* A sequence of zeros.
LEMMA SumOfNone ==
    ASSUME NEW w \in Seq(Nat), \A i \in 1..Len(w) : w[i] = 0
    PROVE  SumOf(w) = 0
  <1>1. CASE w = <<>>
    BY <1>1, SumsUnfold DEF SumOf
  <1>2. CASE w # <<>>
    <2>1. 1 \in 1..Len(w)
      BY <1>2
    <2>2. QED
      BY <2>1, SumOfOne
  <1>3. QED
    BY <1>1, <1>2
-----------------------------------------------------------------------------
(***************************************************************************)
(* The time that ended records count for a session                         *)
(***************************************************************************)

\* What an ended record counts for s, of the time from m on.
Weight(r, s, m) == IF r.session = s /\ r.started >= m THEN r.counted ELSE 0
Weights(q, s, m) == [i \in DOMAIN q |-> Weight(q[i], s, m)]
EndedTime(q, s, m) == SumOf(Weights(q, s, m))

\* The weights of records are natural numbers.
LEMMA WeightsType ==
    ASSUME NEW q \in Seq(Record), NEW s, NEW m \in Nat
    PROVE  /\ Weights(q, s, m) \in Seq(Nat)
           /\ Len(Weights(q, s, m)) = Len(q)
           /\ \A i \in 1..Len(q) : Weights(q, s, m)[i] = Weight(q[i], s, m)
           /\ EndedTime(q, s, m) \in Nat
  <1>1. PICK w : w = Weights(q, s, m)
    OBVIOUS
  <1>2. \A i \in 1..Len(q) : q[i] \in Record
    OBVIOUS
  <1>3. \A i \in 1..Len(q) : Weight(q[i], s, m) \in Nat
    BY <1>2 DEF Weight, Record
  <1>4. w = [i \in 1..Len(q) |-> Weight(q[i], s, m)]
    BY <1>1 DEF Weights
  <1>5. w \in Seq(Nat) /\ Len(w) = Len(q)
    BY <1>3, <1>4
  <1>6. SumOf(w) \in Nat
    BY <1>5, SumType
  <1>7. QED
    BY <1>1, <1>4, <1>5, <1>6 DEF EndedTime

\* The records of a concatenation count what both parts do.
LEMMA ConcatTime ==
    ASSUME NEW q \in Seq(Record), NEW l \in Seq(Record), NEW s, NEW m \in Nat
    PROVE  /\ q \o l \in Seq(Record)
           /\ EndedTime(q \o l, s, m) = EndedTime(q, s, m) + EndedTime(l, s, m)
  <1>1. PICK u : u = q \o l
    OBVIOUS
  <1>2. PICK a \in Nat, b \in Nat : a = Len(q) /\ b = Len(l)
    OBVIOUS
  <1>3. /\ u \in Seq(Record) /\ Len(u) = a + b
        /\ \A i \in 1..a + b : u[i] = IF i <= a THEN q[i] ELSE l[i - a]
    BY <1>1, <1>2, ConcatProperties
  <1>4. PICK x, y, z : x = Weights(q, s, m) /\ y = Weights(l, s, m) /\ z = Weights(u, s, m)
    OBVIOUS
  <1>5. /\ x \in Seq(Nat) /\ Len(x) = a /\ \A i \in 1..a : x[i] = Weight(q[i], s, m)
        /\ y \in Seq(Nat) /\ Len(y) = b /\ \A i \in 1..b : y[i] = Weight(l[i], s, m)
        /\ z \in Seq(Nat) /\ Len(z) = a + b /\ \A i \in 1..a + b : z[i] = Weight(u[i], s, m)
    <2>1. x \in Seq(Nat) /\ Len(x) = a /\ \A i \in 1..a : x[i] = Weight(q[i], s, m)
      BY <1>2, <1>4, WeightsType
    <2>2. y \in Seq(Nat) /\ Len(y) = b /\ \A i \in 1..b : y[i] = Weight(l[i], s, m)
      BY <1>2, <1>4, WeightsType
    <2>3. z \in Seq(Nat) /\ Len(z) = a + b /\ \A i \in 1..a + b : z[i] = Weight(u[i], s, m)
      <3>1. z \in Seq(Nat) /\ Len(z) = Len(u) /\ \A i \in 1..Len(u) : z[i] = Weight(u[i], s, m)
        BY <1>3, <1>4, WeightsType
      <3>2. QED
        BY <1>3, <3>1
    <2>4. QED
      BY <2>1, <2>2, <2>3
  <1>6. /\ x \o y \in Seq(Nat) /\ Len(x \o y) = a + b
        /\ \A i \in 1..a + b : (x \o y)[i] = IF i <= a THEN x[i] ELSE y[i - a]
    BY <1>5, ConcatProperties
  <1>7. \A i \in 1..a + b : z[i] = (x \o y)[i]
    <2>1. ASSUME NEW i \in 1..a + b
          PROVE  z[i] = (x \o y)[i]
      <3>1. CASE i <= a
        <4>1. i \in 1..a /\ z[i] = Weight(u[i], s, m) /\ u[i] = q[i]
          BY <1>3, <1>5, <3>1
        <4>2. (x \o y)[i] = x[i] /\ x[i] = Weight(q[i], s, m)
          BY <1>5, <1>6, <3>1, <4>1
        <4>3. QED
          BY <4>1, <4>2
      <3>2. CASE ~(i <= a)
        <4>1. i - a \in 1..b
          BY <3>2
        <4>2. z[i] = Weight(u[i], s, m) /\ u[i] = l[i - a]
          BY <1>3, <1>5, <3>2
        <4>3. (x \o y)[i] = y[i - a] /\ y[i - a] = Weight(l[i - a], s, m)
          BY <1>5, <1>6, <3>2, <4>1
        <4>4. QED
          BY <4>2, <4>3
      <3>3. QED
        BY <3>1, <3>2
    <2>2. QED
      BY <2>1
  <1>8. z = x \o y
    BY <1>5, <1>6, <1>7, SeqEqual
  <1>9. QED
    BY <1>1, <1>3, <1>4, <1>5, <1>8, SumsOfConcat DEF EndedTime

\* A single record.
LEMMA OneTime ==
    ASSUME NEW r \in Record, NEW s, NEW m \in Nat
    PROVE  <<r>> \in Seq(Record) /\ EndedTime(<<r>>, s, m) = Weight(r, s, m)
  <1>1. PICK q : q = <<r>>
    OBVIOUS
  <1>2. q \in Seq(Record) /\ Len(q) = 1 /\ q[1] = r
    BY <1>1
  <1>3. PICK w : w = Weights(q, s, m)
    OBVIOUS
  <1>4. w \in Seq(Nat) /\ Len(w) = 1 /\ w[1] = Weight(r, s, m)
    BY <1>2, <1>3, WeightsType
  <1>5. SumOf(w) = w[1]
    <2>1. 1 \in 1..Len(w) /\ \A i \in 1..Len(w) : i # 1 => w[i] = 0
      BY <1>4
    <2>2. QED
      BY <1>4, <2>1, SumOfOne
  <1>6. QED
    BY <1>1, <1>2, <1>3, <1>4, <1>5 DEF EndedTime

\* The end of a sequence of records counts no more than all of it.
LEMMA SuffixTime ==
    ASSUME NEW V \in SUBSET Record, NEW q \in Seq(V), NEW a \in 1..Len(q), NEW s, NEW m \in Nat
    PROVE  /\ SubSeq(q, a, Len(q)) \in Seq(V)
           /\ EndedTime(SubSeq(q, a, Len(q)), s, m) <= EndedTime(q, s, m)
  <1>1. PICK n \in Nat : n = Len(q)
    OBVIOUS
  <1>2. PICK x, y : x = SubSeq(q, 1, a - 1) /\ y = SubSeq(q, a, n)
    OBVIOUS
  <1>3. x \in Seq(V) /\ y \in Seq(V)
    <2>1. \A i \in 1..a - 1 : q[i] \in V
      BY <1>1
    <2>2. \A i \in a..n : q[i] \in V
      BY <1>1
    <2>3. 1 \in Int /\ a - 1 \in Int /\ a \in Int /\ n \in Int
      BY <1>1
    <2>4. QED
      BY <1>2, <2>1, <2>2, <2>3, SubSeqProperties
  <1>4. x \o y = q
    <2>1. PICK k \in 0..n : k = a - 1
      BY <1>1
    <2>2. 1 \in 1..n + 1 /\ k \in 1 - 1..n /\ n \in k..n /\ k + 1 = a
      BY <2>1
    <2>3. SubSeq(q, 1, k) \o SubSeq(q, k + 1, n) = SubSeq(q, 1, n)
      BY <1>1, <2>2, ConcatAdjacentSubSeq
    <2>4. SubSeq(q, 1, n) = q
      BY <1>1, SubSeqFull
    <2>5. QED
      BY <1>2, <2>1, <2>2, <2>3, <2>4
  <1>5. x \in Seq(Record) /\ y \in Seq(Record)
    BY <1>3, SeqMonotonic
  <1>6. EndedTime(q, s, m) = EndedTime(x, s, m) + EndedTime(y, s, m)
    <2>1. EndedTime(x \o y, s, m) = EndedTime(x, s, m) + EndedTime(y, s, m)
      BY <1>5, ConcatTime
    <2>2. QED
      BY <1>4, <2>1
  <1>7. EndedTime(x, s, m) \in Nat /\ EndedTime(y, s, m) \in Nat
    BY <1>5, WeightsType
  <1>8. QED
    BY <1>1, <1>2, <1>3, <1>6, <1>7

\* Without one of its records a sequence counts less by what that one does.
LEMMA RemoveTime ==
    ASSUME NEW V \in SUBSET Record, NEW q \in Seq(V), NEW k \in 1..Len(q), NEW s, NEW m \in Nat
    PROVE  /\ RemoveAt(q, k) \in Seq(V)
           /\ EndedTime(RemoveAt(q, k), s, m) + Weight(q[k], s, m) = EndedTime(q, s, m)
  <1>1. PICK n \in Nat : n = Len(q)
    OBVIOUS
  <1>2. PICK x, y : x = SubSeq(q, 1, k - 1) /\ y = SubSeq(q, k + 1, n)
    OBVIOUS
  <1>3. x \in Seq(V) /\ y \in Seq(V)
    <2>1. \A i \in 1..k - 1 : q[i] \in V
      BY <1>1
    <2>2. \A i \in k + 1..n : q[i] \in V
      BY <1>1
    <2>3. 1 \in Int /\ k - 1 \in Int /\ k + 1 \in Int /\ n \in Int
      BY <1>1
    <2>4. QED
      BY <1>2, <2>1, <2>2, <2>3, SubSeqProperties
  <1>4. q[k] \in V
    OBVIOUS
  <1>5. q = (x \o <<q[k]>>) \o y
    <2>1. k \in 1..n /\ k \in k..n
      BY <1>1
    <2>2. SubSeq(q, 1, k) = SubSeq(q, 1, k - 1) \o <<q[k]>>
      <3>1. 1 \in 1..Len(q) /\ k \in 1..Len(q)
        BY <1>1, <2>1
      <3>2. QED
        BY <3>1, SubSeqRecursiveSecond
    <2>3. 1 \in 1..n + 1 /\ k \in 1 - 1..n /\ n \in k..n
      BY <2>1
    <2>4. SubSeq(q, 1, k) \o SubSeq(q, k + 1, n) = SubSeq(q, 1, n)
      BY <1>1, <2>3, ConcatAdjacentSubSeq
    <2>5. SubSeq(q, 1, n) = q
      BY <1>1, SubSeqFull
    <2>6. QED
      BY <1>2, <2>2, <2>4, <2>5
  <1>6. x \in Seq(Record) /\ y \in Seq(Record) /\ q[k] \in Record
    BY <1>3, <1>4, SeqMonotonic
  <1>7. <<q[k]>> \in Seq(Record) /\ EndedTime(<<q[k]>>, s, m) = Weight(q[k], s, m)
    BY <1>6, OneTime
  <1>8. /\ x \o <<q[k]>> \in Seq(Record)
        /\ EndedTime(x \o <<q[k]>>, s, m) = EndedTime(x, s, m) + Weight(q[k], s, m)
    <2>1. PICK z \in Seq(Record) : z = <<q[k]>>
      BY <1>7
    <2>2. x \o z \in Seq(Record) /\ EndedTime(x \o z, s, m) = EndedTime(x, s, m) + EndedTime(z, s, m)
      BY <1>6, ConcatTime
    <2>3. QED
      BY <1>7, <2>1, <2>2
  <1>9. EndedTime(q, s, m) = (EndedTime(x, s, m) + Weight(q[k], s, m)) + EndedTime(y, s, m)
    <2>1. PICK z \in Seq(Record) : z = x \o <<q[k]>>
      BY <1>8
    <2>2. EndedTime(z \o y, s, m) = EndedTime(z, s, m) + EndedTime(y, s, m)
      BY <1>6, ConcatTime
    <2>3. QED
      BY <1>5, <1>8, <2>1, <2>2
  <1>10. x \o y \in Seq(V) /\ EndedTime(x \o y, s, m) = EndedTime(x, s, m) + EndedTime(y, s, m)
    BY <1>3, <1>6, ConcatProperties, ConcatTime
  <1>11. /\ EndedTime(x, s, m) \in Nat /\ EndedTime(y, s, m) \in Nat
         /\ Weight(q[k], s, m) \in Nat
    BY <1>6, WeightsType DEF Weight, Record
  <1>12. RemoveAt(q, k) = x \o y
    BY <1>1, <1>2 DEF RemoveAt
  <1>13. QED
    BY <1>9, <1>10, <1>11, <1>12

\* The newest of the ended records.
LEMMA NewestTime ==
    ASSUME NEW V \in SUBSET Record, NEW q \in Seq(V), NEW s, NEW m \in Nat
    PROVE  /\ Newest(q) \in Seq(V)
           /\ EndedTime(Newest(q), s, m) <= EndedTime(q, s, m)
  <1>1. EndedTime(q, s, m) \in Nat
    <2>1. q \in Seq(Record)
      BY SeqMonotonic
    <2>2. QED
      BY <2>1, WeightsType
  <1>2. CASE Len(q) <= MaxEnded
    BY <1>1, <1>2 DEF Newest
  <1>3. CASE ~(Len(q) <= MaxEnded)
    <2>1. PICK a : a = Len(q) - MaxEnded + 1
      OBVIOUS
    <2>2. Newest(q) = SubSeq(q, a, Len(q))
      BY <1>3, <2>1 DEF Newest
    <2>3. MaxEnded \in Nat
      BY RegistryAssumption
    <2>4. CASE a \in 1..Len(q)
      BY <2>2, <2>4, SuffixTime
    <2>5. CASE a \notin 1..Len(q)
      <3>1. MaxEnded = 0 /\ a = Len(q) + 1
        BY <1>3, <2>1, <2>3, <2>5
      <3>2. SubSeq(q, a, Len(q)) = <<>>
        BY <3>1, SubSeqEmpty
      <3>3. <<>> \in Seq(Record) /\ <<>> \in Seq(V)
        OBVIOUS
      <3>4. EndedTime(<<>>, s, m) = 0
        <4>1. PICK w : w = Weights(<<>>, s, m)
          OBVIOUS
        <4>2. w \in Seq(Nat) /\ Len(w) = 0
          BY <3>3, <4>1, WeightsType
        <4>3. \A i \in 1..Len(w) : w[i] = 0
          BY <4>2
        <4>4. QED
          BY <4>1, <4>2, <4>3, SumOfNone DEF EndedTime
      <3>5. QED
        BY <1>1, <2>2, <3>2, <3>3, <3>4
    <2>6. QED
      BY <2>4, <2>5
  <1>4. QED
    BY <1>2, <1>3

\* A set as a sequence: every member at one place.
LEMMA SetAsSequence ==
    ASSUME NEW S, IsFiniteSet(S)
    PROVE  /\ SetToSeq(S) \in Seq(S)
           /\ \A i, j \in 1..Len(SetToSeq(S)) : SetToSeq(S)[i] = SetToSeq(S)[j] => i = j
  <1>1. PICK n \in Nat : n = Cardinality(S)
    BY FS_CardinalityType
  <1>2. ExistsBijection(1..n, S)
    BY <1>1, FS_CardinalityType
  <1>3. PICK f \in [1..n -> S] : \A i, j \in 1..n : f[i] = f[j] => i = j
    BY <1>2, Zenon DEF ExistsBijection, Bijection, Injection, IsInjective
  <1>4. \E g \in [1..n -> S] : \A i, j \in DOMAIN g : g[i] = g[j] => i = j
    BY <1>3
  <1>5. PICK l : l = SetToSeq(S)
    OBVIOUS
  <1>6. l = CHOOSE g \in [1..n -> S] : \A i, j \in DOMAIN g : g[i] = g[j] => i = j
    BY <1>1, <1>5 DEF SetToSeq, IsInjective
  <1>7. l \in [1..n -> S] /\ \A i, j \in DOMAIN l : l[i] = l[j] => i = j
    BY <1>4, <1>6
  <1>8. l \in Seq(S) /\ Len(l) = n
    BY <1>7
  <1>9. QED
    BY <1>5, <1>7, <1>8

\* Records of different sessions, as a sequence, count for s what one of them does.
LEMMA SetTime ==
    ASSUME NEW V \in SUBSET Record, NEW S \in SUBSET V, IsFiniteSet(S),
           \A r, u \in S : r.session = u.session => r = u,
           NEW s, NEW m \in Nat, NEW most \in Nat, \A r \in S : Weight(r, s, m) <= most
    PROVE  /\ SetToSeq(S) \in Seq(V)
           /\ EndedTime(SetToSeq(S), s, m) <= most
  <1>1. PICK l : l = SetToSeq(S)
    OBVIOUS
  <1>2. l \in Seq(S) /\ \A i, j \in 1..Len(l) : l[i] = l[j] => i = j
    BY <1>1, SetAsSequence
  <1>3. l \in Seq(V) /\ l \in Seq(Record)
    BY <1>2, SeqMonotonic
  <1>4. PICK w : w = Weights(l, s, m)
    OBVIOUS
  <1>5. /\ w \in Seq(Nat) /\ Len(w) = Len(l)
        /\ \A i \in 1..Len(w) : w[i] = Weight(l[i], s, m)
    BY <1>3, <1>4, WeightsType
  <1>6. \A i \in 1..Len(w) : w[i] <= most
    BY <1>2, <1>5
  <1>7. CASE \E k \in 1..Len(w) : l[k].session = s
    <2>1. PICK k \in 1..Len(w) : l[k].session = s
      BY <1>7
    <2>2. ASSUME NEW i \in 1..Len(w), i # k
          PROVE  w[i] = 0
      <3>1. l[i] # l[k] /\ l[i] \in S /\ l[k] \in S
        BY <1>2, <1>5, <2>2
      <3>2. l[i].session # s
        BY <2>1, <3>1
      <3>3. QED
        BY <1>5, <3>2 DEF Weight
    <2>3. SumOf(w) = w[k]
      BY <1>5, <2>2, SumOfOne
    <2>4. QED
      BY <1>1, <1>3, <1>4, <1>6, <2>3 DEF EndedTime
  <1>8. CASE ~ \E k \in 1..Len(w) : l[k].session = s
    <2>1. \A i \in 1..Len(w) : w[i] = 0
      BY <1>5, <1>8 DEF Weight
    <2>2. SumOf(w) = 0
      BY <1>5, <2>1, SumOfNone
    <2>3. QED
      BY <1>1, <1>3, <1>4, <2>2 DEF EndedTime
  <1>9. QED
    BY <1>7, <1>8

\* Ending records of different sessions adds to s what its own record counts.
LEMMA EndAllTime ==
    ASSUME NEW V \in SUBSET Record, NEW q \in Seq(V), NEW S \in SUBSET V, IsFiniteSet(S),
           \A r, u \in S : r.session = u.session => r = u,
           NEW s, NEW m \in Nat, NEW most \in Nat, \A r \in S : Weight(r, s, m) <= most
    PROVE  /\ EndAll(q, S) \in Seq(V)
           /\ EndedTime(EndAll(q, S), s, m) <= EndedTime(q, s, m) + most
  <1>1. PICK l : l = SetToSeq(S)
    OBVIOUS
  <1>2. l \in Seq(V) /\ EndedTime(l, s, m) <= most
    BY <1>1, SetTime
  <1>3. q \in Seq(Record) /\ l \in Seq(Record)
    BY <1>2, SeqMonotonic
  <1>4. PICK u : u = q \o l
    OBVIOUS
  <1>5. u \in Seq(V) /\ EndedTime(u, s, m) = EndedTime(q, s, m) + EndedTime(l, s, m)
    BY <1>2, <1>3, <1>4, ConcatProperties, ConcatTime
  <1>6. Newest(u) \in Seq(V) /\ EndedTime(Newest(u), s, m) <= EndedTime(u, s, m)
    BY <1>5, NewestTime
  <1>7. EndAll(q, S) = Newest(u)
    BY <1>1, <1>4 DEF EndAll
  <1>8. EndedTime(q, s, m) \in Nat /\ EndedTime(l, s, m) \in Nat
    BY <1>3, WeightsType
  <1>9. EndedTime(Newest(u), s, m) \in Nat
    BY <1>6, SeqMonotonic, WeightsType
  <1>10. QED
    BY <1>2, <1>5, <1>6, <1>7, <1>8, <1>9

\* Another ended record adds at most what it counts.
LEMMA PushTime ==
    ASSUME NEW V \in SUBSET Record, NEW q \in Seq(V), NEW r \in V, NEW s, NEW m \in Nat
    PROVE  /\ PushEnded(q, r) \in Seq(V)
           /\ EndedTime(PushEnded(q, r), s, m) <= EndedTime(q, s, m) + Weight(r, s, m)
  <1>1. PICK l : l = <<r>>
    OBVIOUS
  <1>2. r \in Record
    OBVIOUS
  <1>3. l \in Seq(V) /\ l \in Seq(Record) /\ EndedTime(l, s, m) = Weight(r, s, m)
    <2>1. l \in Seq(V)
      BY <1>1
    <2>2. QED
      BY <1>1, <1>2, <2>1, OneTime
  <1>4. q \in Seq(Record)
    BY SeqMonotonic
  <1>5. PICK u : u = q \o l
    OBVIOUS
  <1>6. u = Append(q, r)
    BY <1>1, <1>5, AppendIsConcat
  <1>7. u \in Seq(V) /\ EndedTime(u, s, m) = EndedTime(q, s, m) + EndedTime(l, s, m)
    BY <1>3, <1>4, <1>5, ConcatProperties, ConcatTime
  <1>8. Newest(u) \in Seq(V) /\ EndedTime(Newest(u), s, m) <= EndedTime(u, s, m)
    BY <1>7, NewestTime
  <1>9. QED
    BY <1>3, <1>6, <1>7, <1>8 DEF PushEnded
-----------------------------------------------------------------------------
(***************************************************************************)
(* What the operations do to a record                                      *)
(***************************************************************************)

\* The active records a session s may have at the time t, and the ended records there
\* may be.
ActiveOf(s, t) ==
    {r \in Record : /\ r.session = s
                    /\ r.started <= t /\ r.since <= t /\ r.last <= t
                    /\ r.state \in {"working", "idle"}
                    /\ r.state = "working" <=> r.since # 0}
OverOf(t) == {r \in Record : r.state = "ended" /\ r.since = 0 /\ r.started <= t}

\* The time an active record shows at t, of the time from m on.
Time(r, m, t) ==
    IF r.started >= m THEN r.counted + (IF r.since = 0 THEN 0 ELSE t - r.since) ELSE 0

\* The clock has started.
Clock == now \in Nat /\ now # 0

\* A new record shows no time.
LEMMA FreshRecord ==
    ASSUME Clock, NEW s \in Sessions, NEW p \in Pids \cup {Nobody}, NEW m \in Nat
    PROVE  Fresh(s, p) \in ActiveOf(s, now) /\ Time(Fresh(s, p), m, now) = 0
  BY DEF Clock, Fresh, ActiveOf, Record, Time

\* Working on, a record shows no time that it did not show.
LEMMA WorkRecord ==
    ASSUME Clock, NEW s \in Sessions, NEW r \in ActiveOf(s, now), NEW m \in Nat
    PROVE  Work(r) \in ActiveOf(s, now) /\ Time(Work(r), m, now) = Time(r, m, now)
  <1>1. r \in Record /\ now \in Nat
    BY DEF Clock, ActiveOf
  <1>2. PICK u : u = Work(r)
    OBVIOUS
  <1>3. PICK v : v = StartActive(r)
    OBVIOUS
  <1>4. v = [r EXCEPT !.since = IF r.since = 0 THEN now ELSE r.since]
    BY <1>3 DEF StartActive
  <1>5. u = [v EXCEPT !.state = "working"]
    BY <1>2, <1>3 DEF Work
  <1>6. /\ v \in Record /\ v.session = r.session /\ v.started = r.started /\ v.last = r.last
        /\ v.counted = r.counted /\ v.since = IF r.since = 0 THEN now ELSE r.since
    BY <1>1, <1>4 DEF Record
  <1>7. /\ u \in Record /\ u.session = r.session /\ u.started = r.started /\ u.last = r.last
        /\ u.counted = r.counted /\ u.since = (IF r.since = 0 THEN now ELSE r.since)
        /\ u.state = "working"
    BY <1>5, <1>6 DEF Record
  <1>8. /\ r.since \in Nat /\ r.counted \in Nat /\ r.started \in Nat /\ r.last \in Nat
        /\ r.session = s /\ r.started <= now /\ r.since <= now /\ r.last <= now
    BY <1>1 DEF ActiveOf, Record
  <1>9. u \in ActiveOf(s, now)
    BY <1>7, <1>8 DEF ActiveOf, Clock
  <1>10. Time(u, m, now) = Time(r, m, now)
    BY <1>1, <1>7, <1>8 DEF Time, Clock
  <1>11. QED
    BY <1>2, <1>9, <1>10

\* When its interval closes at a time that is not later, it counts no more than it showed.
LEMMA StoppedRecord ==
    ASSUME now \in Nat, NEW r \in Record, r.since <= now, NEW end \in Nat, end <= now
    PROVE  /\ StopActive(r, end) \in Record
           /\ StopActive(r, end).session = r.session
           /\ StopActive(r, end).started = r.started
           /\ StopActive(r, end).last = r.last
           /\ StopActive(r, end).since = 0
           /\ StopActive(r, end).counted
                <= r.counted + (IF r.since = 0 THEN 0 ELSE now - r.since)
  <1>1. r.since \in Nat /\ r.counted \in Nat
    BY DEF Record
  <1>2. CASE r.since = 0
    BY <1>1, <1>2 DEF StopActive
  <1>3. CASE r.since # 0
    <2>1. PICK c : c = r.counted + (IF end > r.since THEN end - r.since ELSE 0)
      OBVIOUS
    <2>2. c \in Nat /\ c <= r.counted + (now - r.since)
      BY <1>1, <2>1
    <2>3. PICK v : v = [r EXCEPT !.counted = c, !.since = 0]
      OBVIOUS
    <2>4. StopActive(r, end) = v
      BY <1>3, <2>1, <2>3 DEF StopActive
    <2>5. /\ v \in Record /\ v.session = r.session /\ v.started = r.started
          /\ v.last = r.last /\ v.since = 0 /\ v.counted = c
      BY <2>2, <2>3 DEF Record
    <2>6. QED
      BY <1>3, <2>2, <2>4, <2>5
  <1>4. QED
    BY <1>2, <1>3

\* Nor does it at rest.
LEMMA RestRecord ==
    ASSUME Clock, NEW s \in Sessions, NEW r \in ActiveOf(s, now), NEW m \in Nat,
           NEW end \in Nat, end <= now
    PROVE  Rest(r, end) \in ActiveOf(s, now) /\ Time(Rest(r, end), m, now) <= Time(r, m, now)
  <1>1. r \in Record /\ now \in Nat
    BY DEF Clock, ActiveOf
  <1>2. /\ r.since \in Nat /\ r.counted \in Nat /\ r.started \in Nat /\ r.last \in Nat
        /\ r.session = s /\ r.started <= now /\ r.since <= now /\ r.last <= now
    BY <1>1 DEF ActiveOf, Record
  <1>3. PICK u, v : u = Rest(r, end) /\ v = StopActive(r, end)
    OBVIOUS
  <1>4. /\ v \in Record /\ v.session = s /\ v.started = r.started /\ v.last = r.last
        /\ v.since = 0 /\ v.counted <= r.counted + (IF r.since = 0 THEN 0 ELSE now - r.since)
    BY <1>1, <1>2, <1>3, StoppedRecord
  <1>5. /\ u \in Record /\ u.session = s /\ u.started = r.started
        /\ u.since = 0 /\ u.counted = v.counted
        /\ u.state = "idle" /\ u.last = r.last
    BY <1>3, <1>4 DEF Rest, Record
  <1>6. u \in ActiveOf(s, now)
    BY <1>1, <1>2, <1>5 DEF ActiveOf
  <1>7. u.counted \in Nat
    BY <1>5 DEF Record
  <1>8. Time(u, m, now) <= Time(r, m, now)
    BY <1>1, <1>2, <1>4, <1>5, <1>7 DEF Time
  <1>9. QED
    BY <1>3, <1>6, <1>8

\* A record's last activity and its process say nothing about its time.
LEMMA SeenRecord ==
    ASSUME Clock, NEW s \in Sessions, NEW r \in ActiveOf(s, now), NEW m \in Nat,
           NEW v \in Record, v.last <= now, v.session = r.session, v.started = r.started,
           v.counted = r.counted, v.since = r.since, v.state = r.state
    PROVE  v \in ActiveOf(s, now) /\ Time(v, m, now) = Time(r, m, now)
  BY DEF Clock, ActiveOf, Time

\* An event or a question touches a record.
LEMMA TouchRecord ==
    ASSUME Clock, NEW s \in Sessions, NEW r \in ActiveOf(s, now), NEW m \in Nat,
           NEW p \in Pids \cup {Nobody}
    PROVE  Touch(r, p) \in ActiveOf(s, now) /\ Time(Touch(r, p), m, now) = Time(r, m, now)
  <1>1. r \in Record /\ now \in Nat
    BY DEF Clock, ActiveOf
  <1>2. PICK x \in Pids \cup {Nobody} : x = IF r.pid = Nobody THEN p ELSE r.pid
    BY <1>1 DEF Record
  <1>3. PICK v : v = [r EXCEPT !.last = now, !.pid = x] /\ now <= now
    BY <1>1
  <1>4. v \in ActiveOf(s, now) /\ Time(v, m, now) = Time(r, m, now)
    <2>1. /\ v \in Record /\ v.last = now /\ v.session = r.session /\ v.started = r.started
          /\ v.counted = r.counted /\ v.since = r.since /\ v.state = r.state
      BY <1>1, <1>3 DEF Record
    <2>2. QED
      BY <1>3, <2>1, SeenRecord
  <1>5. QED
    BY <1>2, <1>3, <1>4 DEF Touch

\* An ended record counts no more than it showed when it was active.
LEMMA OverRecord ==
    ASSUME Clock, NEW s \in Sessions, NEW r \in ActiveOf(s, now), NEW m \in Nat,
           NEW end \in Nat, end <= now
    PROVE  /\ Over(r, end) \in OverOf(now) /\ Over(r, end).session = s
           /\ Weight(Over(r, end), s, m) \in Nat
           /\ Weight(Over(r, end), s, m) <= Time(r, m, now)
  <1>1. r \in Record /\ now \in Nat
    BY DEF Clock, ActiveOf
  <1>2. /\ r.since \in Nat /\ r.counted \in Nat /\ r.started \in Nat /\ r.last \in Nat
        /\ r.session = s /\ r.started <= now /\ r.since <= now /\ r.last <= now
    BY <1>1 DEF ActiveOf, Record
  <1>3. PICK u, v : u = Over(r, end) /\ v = StopActive(r, end)
    OBVIOUS
  <1>4. /\ v \in Record /\ v.session = s /\ v.started = r.started /\ v.last = r.last
        /\ v.since = 0 /\ v.counted <= r.counted + (IF r.since = 0 THEN 0 ELSE now - r.since)
    BY <1>1, <1>2, <1>3, StoppedRecord
  <1>5. /\ u \in Record /\ u.session = s /\ u.started = r.started
        /\ u.since = 0 /\ u.counted = v.counted
        /\ u.state = "ended" /\ u.last = 0
    BY <1>3, <1>4 DEF Over, Record
  <1>6. u \in OverOf(now)
    BY <1>2, <1>5 DEF OverOf
  <1>7. u.counted \in Nat
    BY <1>5 DEF Record
  <1>8. Weight(u, s, m) \in Nat /\ Weight(u, s, m) <= Time(r, m, now)
    BY <1>1, <1>2, <1>4, <1>5, <1>7 DEF Time, Weight
  <1>9. QED
    BY <1>3, <1>5, <1>6, <1>8

\* A revived record shows the time it counted.
LEMMA RevivedRecord ==
    ASSUME Clock, NEW s \in Sessions, NEW r \in OverOf(now), r.session = s, NEW m \in Nat,
           NEW v \in Record, v.last <= now, v.session = r.session, v.started = r.started,
           v.counted = r.counted, v.since = 0, v.state = "idle"
    PROVE  v \in ActiveOf(s, now) /\ Time(v, m, now) = Weight(r, s, m)
  BY DEF Clock, ActiveOf, OverOf, Record, Time, Weight

\* The time of a record is a natural number.
LEMMA TimeType ==
    ASSUME Clock, NEW s \in Sessions, NEW r \in ActiveOf(s, now), NEW m \in Nat
    PROVE  Time(r, m, now) \in Nat
  BY DEF Clock, ActiveOf, Record, Time

\* The time of an active record, or of none.
Spent(r, m, t) == IF r = Nobody THEN 0 ELSE Time(r, m, t)

\* What a session's active record may become while the clock stands still.
Fits(s) ==
    {r \in ActiveOf(s, now) \cup {Nobody} :
        \A m \in 0..now : Spent(r, m, now) <= Spent(active[s], m, now)}

TypeOK ==
    /\ Clock
    /\ active \in [Sessions -> Record \cup {Nobody}]
    /\ \A s \in Sessions : active[s] \in ActiveOf(s, now) \cup {Nobody}
    /\ ended \in Seq(OverOf(now))

\* From any moment on, no session counted more time than went by.
TimeBound ==
    \A s \in Sessions, m \in 0..now :
        EndedTime(ended, s, m) + Spent(active[s], m, now) <= now - m

IInv == TypeOK /\ TimeBound

\* Nobody is no record.
LEMMA NobodyIsNoRecord == Nobody \notin Record /\ \A s, t : Nobody \notin ActiveOf(s, t)
  BY RegistryAssumption DEF ActiveOf

\* The time of a session's active record is a natural number.
LEMMA SpentType ==
    ASSUME TypeOK, NEW s \in Sessions, NEW m \in Nat
    PROVE  Spent(active[s], m, now) \in Nat
  <1>1. CASE active[s] = Nobody
    BY <1>1 DEF Spent
  <1>2. CASE active[s] # Nobody
    <2>1. Clock /\ active[s] \in ActiveOf(s, now)
      BY <1>2 DEF TypeOK
    <2>2. Time(active[s], m, now) \in Nat
      BY <2>1, TimeType
    <2>3. QED
      BY <1>2, <2>2 DEF Spent
  <1>3. QED
    BY <1>1, <1>2

\* A session may keep its record or lose it, and one without may get a new one.
LEMMA FitsStart ==
    ASSUME TypeOK, NEW s \in Sessions
    PROVE  /\ active[s] \in Fits(s)
           /\ Nobody \in Fits(s)
           /\ \A p \in Pids \cup {Nobody} : Fresh(s, p) \in Fits(s)
  <1>1. \A m \in 0..now : m \in Nat /\ Spent(active[s], m, now) \in Nat
    BY SpentType DEF TypeOK, Clock
  <1>2. active[s] \in Fits(s)
    BY <1>1 DEF Fits, TypeOK
  <1>3. Nobody \in Fits(s)
    BY <1>1 DEF Fits, Spent
  <1>4. ASSUME NEW p \in Pids \cup {Nobody}
        PROVE  Fresh(s, p) \in Fits(s)
    <2>1. Clock
      BY DEF TypeOK
    <2>2. \A m \in 0..now : m \in Nat /\ Fresh(s, p) \in ActiveOf(s, now) /\ Time(Fresh(s, p), m, now) = 0
      BY <2>1, FreshRecord DEF Clock
    <2>3. 0 \in 0..now
      BY <2>1 DEF Clock
    <2>4. Fresh(s, p) \in ActiveOf(s, now)
      BY <2>2, <2>3
    <2>5. \A m \in 0..now : Spent(Fresh(s, p), m, now) = 0
      BY <2>2, <2>4, NobodyIsNoRecord DEF Spent
    <2>6. \A m \in 0..now : Spent(Fresh(s, p), m, now) <= Spent(active[s], m, now)
      BY <1>1, <2>5
    <2>7. QED
      BY <2>4, <2>6 DEF Fits
  <1>5. QED
    BY <1>2, <1>3, <1>4

\* A record that shows no more time than one that fits does.
LEMMA FitsNext ==
    ASSUME TypeOK, NEW s \in Sessions, NEW r \in Fits(s), r # Nobody,
           NEW u \in ActiveOf(s, now),
           \A m \in 0..now : Time(u, m, now) <= Time(r, m, now)
    PROVE  u \in Fits(s) /\ u # Nobody
  <1>1. u # Nobody /\ r \in ActiveOf(s, now) /\ Clock
    BY NobodyIsNoRecord DEF Fits, TypeOK
  <1>2. ASSUME NEW m \in 0..now
        PROVE  Spent(u, m, now) <= Spent(active[s], m, now)
    <2>1. m \in Nat
      BY <1>1 DEF Clock
    <2>2. Time(u, m, now) \in Nat /\ Time(r, m, now) \in Nat /\ Spent(active[s], m, now) \in Nat
      BY <1>1, <2>1, TimeType, SpentType
    <2>3. Time(r, m, now) <= Spent(active[s], m, now)
      BY <1>1 DEF Fits, Spent
    <2>4. Time(u, m, now) <= Spent(active[s], m, now)
      BY <2>2, <2>3
    <2>5. QED
      BY <1>1, <2>4 DEF Spent
  <1>3. QED
    BY <1>1, <1>2 DEF Fits

\* So do the records that it becomes.
LEMMA FitsRecords ==
    ASSUME TypeOK, NEW s \in Sessions, NEW r \in Fits(s), r # Nobody
    PROVE  /\ Work(r) \in Fits(s) /\ Work(r) # Nobody
           /\ \A end \in 0..now : Rest(r, end) \in Fits(s) /\ Rest(r, end) # Nobody
           /\ \A p \in Pids \cup {Nobody} : Touch(r, p) \in Fits(s) /\ Touch(r, p) # Nobody
  <1>1. r \in ActiveOf(s, now) /\ Clock /\ \A m \in 0..now : m \in Nat
    BY DEF Fits, TypeOK, Clock
  <1>2. \A m \in 0..now : Time(r, m, now) \in Nat
    BY <1>1, TimeType
  <1>3. 0 \in 0..now
    BY <1>1 DEF Clock
  <1>4. Work(r) \in Fits(s) /\ Work(r) # Nobody
    <2>1. \A m \in 0..now : Work(r) \in ActiveOf(s, now) /\ Time(Work(r), m, now) = Time(r, m, now)
      BY <1>1, WorkRecord
    <2>2. \A m \in 0..now : Time(Work(r), m, now) <= Time(r, m, now)
      BY <1>2, <2>1
    <2>3. QED
      BY <1>3, <2>1, <2>2, FitsNext
  <1>5. ASSUME NEW end \in 0..now
        PROVE  Rest(r, end) \in Fits(s) /\ Rest(r, end) # Nobody
    <2>1. end \in Nat /\ end <= now
      BY <1>1 DEF Clock
    <2>2. \A m \in 0..now : Rest(r, end) \in ActiveOf(s, now) /\ Time(Rest(r, end), m, now) <= Time(r, m, now)
      BY <1>1, <2>1, RestRecord
    <2>3. QED
      BY <1>3, <2>2, FitsNext
  <1>6. ASSUME NEW p \in Pids \cup {Nobody}
        PROVE  Touch(r, p) \in Fits(s) /\ Touch(r, p) # Nobody
    <2>1. \A m \in 0..now : Touch(r, p) \in ActiveOf(s, now) /\ Time(Touch(r, p), m, now) = Time(r, m, now)
      BY <1>1, TouchRecord
    <2>2. \A m \in 0..now : Time(Touch(r, p), m, now) <= Time(r, m, now)
      BY <1>2, <2>1
    <2>3. QED
      BY <1>3, <2>1, <2>2, FitsNext
  <1>7. QED
    BY <1>4, <1>5, <1>6

\* And a record that differs from it in its last activity and its process.
LEMMA FitsSeen ==
    ASSUME TypeOK, NEW s \in Sessions, NEW r \in Fits(s), r # Nobody,
           NEW v \in Record, v.last <= now, v.session = r.session, v.started = r.started,
           v.counted = r.counted, v.since = r.since, v.state = r.state
    PROVE  v \in Fits(s) /\ v # Nobody
  <1>1. r \in ActiveOf(s, now) /\ Clock /\ \A m \in 0..now : m \in Nat
    BY DEF Fits, TypeOK, Clock
  <1>2. \A m \in 0..now : Time(r, m, now) \in Nat
    BY <1>1, TimeType
  <1>3. 0 \in 0..now
    BY <1>1 DEF Clock
  <1>4. \A m \in 0..now : v \in ActiveOf(s, now) /\ Time(v, m, now) = Time(r, m, now)
    BY <1>1, SeenRecord
  <1>5. \A m \in 0..now : Time(v, m, now) <= Time(r, m, now)
    BY <1>2, <1>4
  <1>6. QED
    BY <1>3, <1>4, <1>5, FitsNext

\* Records, active and ended, after which no session shows more time than before.
NoMore(a, q) ==
    /\ a \in [Sessions -> Record \cup {Nobody}]
    /\ \A s \in Sessions : a[s] \in ActiveOf(s, now) \cup {Nobody}
    /\ q \in Seq(OverOf(now))
    /\ \A s \in Sessions, m \in 0..now :
          EndedTime(q, s, m) + Spent(a[s], m, now)
              <= EndedTime(ended, s, m) + Spent(active[s], m, now)

\* The time of ended records is a natural number.
LEMMA EndedType ==
    ASSUME NEW t, NEW q \in Seq(OverOf(t)), NEW s, NEW m \in Nat
    PROVE  EndedTime(q, s, m) \in Nat
  <1>1. OverOf(t) \subseteq Record
    BY DEF OverOf
  <1>2. q \in Seq(Record)
    BY <1>1, SeqMonotonic
  <1>3. QED
    BY <1>2, WeightsType

\* A step that adds no time while the clock stands still keeps the invariant.
LEMMA NoMoreTime ==
    ASSUME IInv, now' = now, NoMore(active', ended')
    PROVE  IInv'
  <1>1. PICK a, q : a = active' /\ q = ended'
    OBVIOUS
  <1>2. NoMore(a, q) /\ TypeOK /\ TimeBound
    BY <1>1 DEF IInv
  <1>3. TypeOK'
    BY <1>1, <1>2 DEF TypeOK, Clock, NoMore
  <1>4. ASSUME NEW s \in Sessions, NEW m \in 0..now
        PROVE  EndedTime(q, s, m) + Spent(a[s], m, now) <= now - m
    <2>1. now \in Nat /\ m \in Nat
      BY <1>2 DEF TypeOK, Clock
    <2>2. EndedTime(q, s, m) + Spent(a[s], m, now)
              <= EndedTime(ended, s, m) + Spent(active[s], m, now)
      BY <1>2 DEF NoMore
    <2>3. EndedTime(ended, s, m) + Spent(active[s], m, now) <= now - m
      BY <1>2 DEF TimeBound
    <2>4. EndedTime(q, s, m) \in Nat /\ EndedTime(ended, s, m) \in Nat
      <3>1. q \in Seq(OverOf(now)) /\ ended \in Seq(OverOf(now))
        BY <1>2 DEF NoMore, TypeOK
      <3>2. QED
        BY <2>1, <3>1, EndedType
    <2>5. Spent(active[s], m, now) \in Nat
      BY <1>2, <2>1, SpentType
    <2>6. Spent(a[s], m, now) \in Nat
      <3>1. CASE a[s] = Nobody
        BY <3>1 DEF Spent
      <3>2. CASE a[s] # Nobody
        <4>1. a[s] \in ActiveOf(s, now) /\ Clock
          BY <1>2, <3>2 DEF NoMore, TypeOK
        <4>2. Time(a[s], m, now) \in Nat
          BY <2>1, <4>1, TimeType
        <4>3. QED
          BY <3>2, <4>2 DEF Spent
      <3>3. QED
        BY <3>1, <3>2
    <2>7. QED
      BY <2>1, <2>2, <2>3, <2>4, <2>5, <2>6
  <1>5. TimeBound'
    BY <1>1, <1>4 DEF TimeBound
  <1>6. QED
    BY <1>3, <1>5 DEF IInv

\* When every session's record fits and nothing ends, no session shows more time.
LEMMA AllFit ==
    ASSUME TypeOK, NEW a, DOMAIN a = Sessions, a = [s \in Sessions |-> a[s]],
           \A s \in Sessions : a[s] \in Fits(s)
    PROVE  NoMore(a, ended)
  <1>1. \A s \in Sessions : a[s] \in ActiveOf(s, now) \cup {Nobody}
    BY DEF Fits
  <1>2. \A s \in Sessions : a[s] \in Record \cup {Nobody}
    BY <1>1 DEF ActiveOf
  <1>3. a \in [Sessions -> Record \cup {Nobody}]
    BY <1>2
  <1>4. ended \in Seq(OverOf(now)) /\ Clock
    BY DEF TypeOK
  <1>5. ASSUME NEW s \in Sessions, NEW m \in 0..now
        PROVE  EndedTime(ended, s, m) + Spent(a[s], m, now)
                   <= EndedTime(ended, s, m) + Spent(active[s], m, now)
    <2>1. m \in Nat
      BY <1>4 DEF Clock
    <2>2. EndedTime(ended, s, m) \in Nat /\ Spent(active[s], m, now) \in Nat
      BY <1>4, <2>1, EndedType, SpentType
    <2>3. Spent(a[s], m, now) <= Spent(active[s], m, now)
      BY DEF Fits
    <2>4. Spent(a[s], m, now) \in Int
      <3>1. a[s] = Nobody \/ a[s] \in ActiveOf(s, now)
        BY <1>1
      <3>2. a[s] # Nobody => Time(a[s], m, now) \in Nat
        BY <1>4, <2>1, <3>1, TimeType
      <3>3. QED
        BY <3>2 DEF Spent
    <2>5. QED
      BY <2>2, <2>3, <2>4
  <1>6. QED
    BY <1>1, <1>3, <1>4, <1>5 DEF NoMore
-----------------------------------------------------------------------------
(***************************************************************************)
(* The operations on one session's record                                  *)
(***************************************************************************)

\* A tool in use.
LEMMA SetToolFits ==
    ASSUME IInv, NEW s \in Sessions, NEW p \in Pids \cup {Nobody}, SetTool(s, p)
    PROVE  IInv'
  <1>1. TypeOK
    BY DEF IInv
  <1>2. ASSUME NEW x \in Sessions
        PROVE  active'[x] \in Fits(x)
    <2>1. active[x] \in Fits(x)
      BY <1>1, FitsStart
    <2>2. CASE x = s /\ active[s] # Nobody
      <3>1. Touch(active[s], p) \in Fits(s) /\ Touch(active[s], p) # Nobody
        BY <1>1, <2>1, <2>2, FitsRecords
      <3>2. Work(Touch(active[s], p)) \in Fits(s)
        BY <1>1, <3>1, FitsRecords
      <3>3. active'[s] = Work(Touch(active[s], p))
        BY <1>1, <2>2 DEF SetTool, IsActive, TypeOK
      <3>4. QED
        BY <2>2, <3>2, <3>3
    <2>3. CASE ~(x = s /\ active[s] # Nobody)
      <3>1. active'[x] = active[x]
        BY <1>1, <2>3 DEF SetTool, IsActive, TypeOK
      <3>2. QED
        BY <2>1, <3>1
    <2>4. QED
      BY <2>2, <2>3
  <1>3. DOMAIN active' = Sessions /\ active' = [x \in Sessions |-> active'[x]]
    BY <1>1 DEF SetTool, TypeOK
  <1>4. NoMore(active', ended)
    BY <1>1, <1>2, <1>3, AllFit
  <1>5. now' = now /\ ended' = ended
    BY DEF SetTool, world
  <1>6. QED
    BY <1>4, <1>5, NoMoreTime

\* A session that a person corrects.
LEMMA ForceIdleFits ==
    ASSUME IInv, NEW s \in Sessions, ForceIdle(s)
    PROVE  IInv'
  <1>1. TypeOK
    BY DEF IInv
  <1>2. PICK r : r = Rest(active[s], active[s].last)
    OBVIOUS
  <1>3. PICK v : v = [r EXCEPT !.last = now]
    OBVIOUS
  <1>4. r \in Fits(s) /\ r # Nobody
    <2>1. active[s] # Nobody
      BY DEF ForceIdle, IsActive
    <2>2. active[s] \in ActiveOf(s, now)
      BY <1>1, <2>1 DEF TypeOK
    <2>3. active[s].last \in 0..now
      BY <1>1, <2>2 DEF ActiveOf, Record, TypeOK, Clock
    <2>4. QED
      BY <1>1, <1>2, <2>1, <2>3, FitsStart, FitsRecords
  <1>5. v \in Fits(s)
    <2>1. r \in Record /\ now \in Nat
      BY <1>1, <1>4 DEF Fits, ActiveOf, TypeOK, Clock
    <2>2. /\ v \in Record /\ v.last = now /\ v.session = r.session /\ v.started = r.started
          /\ v.counted = r.counted /\ v.since = r.since /\ v.state = r.state
      BY <1>3, <2>1 DEF Record
    <2>3. v.last <= now
      BY <2>1, <2>2
    <2>4. QED
      BY <1>1, <1>4, <2>2, <2>3, FitsSeen
  <1>6. active' = [active EXCEPT ![s] = v]
    BY <1>2, <1>3 DEF ForceIdle
  <1>7. ASSUME NEW x \in Sessions
        PROVE  active'[x] \in Fits(x)
    <2>1. CASE x = s
      BY <1>1, <1>5, <1>6, <2>1 DEF TypeOK
    <2>2. CASE x # s
      <3>1. active'[x] = active[x]
        BY <1>1, <1>6, <2>2 DEF TypeOK
      <3>2. QED
        BY <1>1, <3>1, FitsStart
    <2>3. QED
      BY <2>1, <2>2
  <1>8. DOMAIN active' = Sessions /\ active' = [x \in Sessions |-> active'[x]]
    BY <1>1, <1>6 DEF TypeOK
  <1>9. NoMore(active', ended)
    BY <1>1, <1>7, <1>8, AllFit
  <1>10. now' = now /\ ended' = ended
    BY DEF ForceIdle, world
  <1>11. QED
    BY <1>9, <1>10, NoMoreTime

\* A question's session, or its answer, marks it as working or as seen.
LEMMA QuestionFits ==
    ASSUME IInv, now' = now, NEW s \in Sessions, NEW p \in Pids \cup {Nobody},
           UpsertWorking(s, p) \/ TouchActivity(s, p)
    PROVE  IInv'
  <1>1. TypeOK
    BY DEF IInv
  <1>2. ended' = ended
    BY DEF UpsertWorking, TouchActivity
  <1>3. active[s] \in Fits(s)
    BY <1>1, FitsStart
  <1>4. active[s] # Nobody =>
            /\ Touch(active[s], p) \in Fits(s) /\ Touch(active[s], p) # Nobody
            /\ Work(Touch(active[s], p)) \in Fits(s)
    <2>1. active[s] # Nobody => Touch(active[s], p) \in Fits(s) /\ Touch(active[s], p) # Nobody
      BY <1>1, <1>3, FitsRecords
    <2>2. QED
      BY <1>1, <2>1, FitsRecords
  <1>5. Work(Fresh(s, p)) \in Fits(s)
    <2>1. Fresh(s, p) \in Fits(s)
      BY <1>1, FitsStart
    <2>2. Fresh(s, p) # Nobody
      <3>1. Clock /\ 0 \in Nat
        BY <1>1 DEF TypeOK
      <3>2. Fresh(s, p) \in ActiveOf(s, now)
        BY <3>1, FreshRecord
      <3>3. QED
        BY <3>2, NobodyIsNoRecord
    <2>3. QED
      BY <1>1, <2>1, <2>2, FitsRecords
  <1>6. PICK r : r \in Fits(s) /\ active' = [active EXCEPT ![s] = r]
    <2>1. CASE UpsertWorking(s, p)
      BY <1>4, <1>5, <2>1 DEF UpsertWorking, IsActive
    <2>2. CASE TouchActivity(s, p)
      BY <1>3, <1>4, <2>2 DEF TouchActivity, IsActive
    <2>3. QED
      BY <2>1, <2>2
  <1>7. ASSUME NEW x \in Sessions
        PROVE  active'[x] \in Fits(x)
    <2>1. CASE x = s
      BY <1>1, <1>6, <2>1 DEF TypeOK
    <2>2. CASE x # s
      <3>1. active'[x] = active[x]
        BY <1>1, <1>6, <2>2 DEF TypeOK
      <3>2. QED
        BY <1>1, <3>1, FitsStart
    <2>3. QED
      BY <2>1, <2>2
  <1>8. DOMAIN active' = Sessions /\ active' = [x \in Sessions |-> active'[x]]
    BY <1>1, <1>6 DEF TypeOK
  <1>9. NoMore(active', ended)
    BY <1>1, <1>7, <1>8, AllFit
  <1>10. QED
    BY <1>2, <1>9, NoMoreTime

\* A question of a process marks its sessions as seen.
LEMMA AskByPidFits ==
    ASSUME IInv, NEW p \in Pids, AskByPid(p)
    PROVE  IInv'
  <1>1. TypeOK
    BY DEF IInv
  <1>2. ASSUME NEW x \in Sessions
        PROVE  active'[x] \in Fits(x)
    <2>1. active'[x] = IF active[x] # Nobody /\ active[x].pid = p THEN Touch(active[x], p)
                       ELSE active[x]
      BY DEF AskByPid, IsActive
    <2>2. active[x] \in Fits(x)
      BY <1>1, FitsStart
    <2>3. active[x] # Nobody => Touch(active[x], p) \in Fits(x)
      BY <1>1, <2>2, FitsRecords
    <2>4. QED
      BY <2>1, <2>2, <2>3
  <1>3. DOMAIN active' = Sessions /\ active' = [x \in Sessions |-> active'[x]]
    BY DEF AskByPid
  <1>4. NoMore(active', ended)
    BY <1>1, <1>2, <1>3, AllFit
  <1>5. now' = now /\ ended' = ended
    BY DEF AskByPid, world
  <1>6. QED
    BY <1>4, <1>5, NoMoreTime
-----------------------------------------------------------------------------
(***************************************************************************)
(* Lifecycle events                                                        *)
(***************************************************************************)

\* The least of some naturals.
LEMMA MinIsLeast ==
    ASSUME NEW S \in SUBSET Nat, S # {}
    PROVE  Min(S) \in S /\ \A x \in S : Min(S) <= x
  <1>1. PICK R : R = OpToRel(<, Nat)
    OBVIOUS
  <1>2. \A x, y \in Nat : x < y => <<x, y>> \in R
    BY <1>1 DEF OpToRel
  <1>3. IsWellFoundedOn(R, Nat)
    BY <1>1, NatLessThanWellFounded
  <1>4. PICK x \in S : \A y \in S : ~ (<<y, x>> \in R)
    BY <1>3, WFMin
  <1>5. ASSUME NEW y \in S
        PROVE  x <= y
    <2>1. ~ (<<y, x>> \in R)
      BY <1>4
    <2>2. x \in Nat /\ y \in Nat
      OBVIOUS
    <2>3. ~ (y < x)
      BY <1>2, <2>1, <2>2
    <2>4. QED
      BY <2>2, <2>3
  <1>6. QED
    BY <1>4, <1>5 DEF Min

\* The ended records of different sessions.
LEMMA OverSet ==
    ASSUME NEW out \in SUBSET Sessions, NEW over \in [out -> OverOf(now)],
           \A x \in out : over[x].session = x
    PROVE  /\ {over[x] : x \in out} \in SUBSET OverOf(now)
           /\ IsFiniteSet({over[x] : x \in out})
           /\ \A r, u \in {over[x] : x \in out} : r.session = u.session => r = u
  <1>1. PICK S : S = {over[x] : x \in out}
    OBVIOUS
  <1>2. S \in SUBSET OverOf(now)
    BY <1>1
  <1>3. IsFiniteSet(S)
    <2>1. IsFiniteSet(out)
      BY RegistryAssumption, FS_Subset
    <2>2. over \in Surjection(out, S)
      BY <1>1 DEF Surjection
    <2>3. QED
      BY <2>1, <2>2, FS_Surjection
  <1>4. \A r, u \in S : r.session = u.session => r = u
    BY <1>1
  <1>5. QED
    BY <1>1, <1>2, <1>3, <1>4

\* What each session's ended records count once some sessions ended.
LEMMA EndSessions ==
    ASSUME NEW out \in SUBSET Sessions, NEW over \in [out -> OverOf(now)],
           \A x \in out : over[x].session = x,
           NEW q \in Seq(OverOf(now)), NEW s, NEW m \in Nat
    PROVE  /\ EndAll(q, {over[x] : x \in out}) \in Seq(OverOf(now))
           /\ s \in out => EndedTime(EndAll(q, {over[x] : x \in out}), s, m)
                               <= EndedTime(q, s, m) + Weight(over[s], s, m)
           /\ s \notin out => EndedTime(EndAll(q, {over[x] : x \in out}), s, m)
                                  <= EndedTime(q, s, m)
  <1>1. PICK V \in SUBSET Record : V = OverOf(now)
    BY DEF OverOf
  <1>2. PICK S \in SUBSET V : S = {over[x] : x \in out}
    BY <1>1, OverSet
  <1>3. IsFiniteSet(S) /\ \A r, u \in S : r.session = u.session => r = u
    BY <1>2, OverSet
  <1>4. q \in Seq(V)
    BY <1>1
  <1>5. PICK most : most = IF s \in out THEN Weight(over[s], s, m) ELSE 0
    OBVIOUS
  <1>6. most \in Nat
    BY <1>1, <1>5 DEF Weight, Record
  <1>7. \A r \in S : Weight(r, s, m) <= most
    <2>1. ASSUME NEW x \in out
          PROVE  Weight(over[x], s, m) <= most
      <3>1. CASE x = s
        BY <1>5, <1>6, <3>1
      <3>2. CASE x # s
        BY <1>6, <3>2 DEF Weight
      <3>3. QED
        BY <3>1, <3>2
    <2>2. QED
      BY <1>2, <2>1
  <1>8. EndAll(q, S) \in Seq(V) /\ EndedTime(EndAll(q, S), s, m) <= EndedTime(q, s, m) + most
    BY <1>3, <1>4, <1>6, <1>7, EndAllTime
  <1>9. EndedTime(q, s, m) \in Nat
    BY EndedType
  <1>10. QED
    BY <1>1, <1>2, <1>5, <1>8, <1>9

\* The ended records that an event leaves when it takes its record from those in q.
Remaining(s, q) ==
    IF active[s] = Nobody /\ Revivable(s, q) # {} THEN RemoveAt(q, Min(Revivable(s, q))) ELSE q

\* The record an event finds, with the ended records it leaves, shows no new time.
LEMMA FoundTime ==
    ASSUME TypeOK, NEW s \in Sessions, NEW p \in Pids \cup {Nobody}, NEW q \in Seq(OverOf(now))
    PROVE  /\ Found(s, p, q) \in ActiveOf(s, now)
           /\ Remaining(s, q) \in Seq(OverOf(now))
           /\ \A m \in 0..now :
                /\ EndedTime(Remaining(s, q), s, m) + Time(Found(s, p, q), m, now)
                       <= EndedTime(q, s, m) + Spent(active[s], m, now)
                /\ \A x \in Sessions \ {s} : EndedTime(Remaining(s, q), x, m) <= EndedTime(q, x, m)
  <1> DEFINE r == Found(s, p, q)
             rest == Remaining(s, q)
  <1>1. Clock /\ now \in Nat /\ now <= now /\ \A m \in 0..now : m \in Nat
    BY DEF TypeOK, Clock
  <1>2. \A x \in Sessions, m \in 0..now :
            EndedTime(q, x, m) \in Nat /\ Spent(active[x], m, now) \in Nat
    BY <1>1, EndedType, SpentType
  <1>3. CASE active[s] # Nobody
    <2>1. rest = q
      BY <1>3 DEF Remaining
    <2>2. r = [active[s] EXCEPT !.last = now, !.pid = IF p = Nobody THEN active[s].pid ELSE p]
      BY <1>3 DEF Found, IsActive
    <2>3. active[s] \in ActiveOf(s, now) /\ active[s] \in Record
      BY <1>3 DEF TypeOK, ActiveOf
    <2>4. /\ r \in Record /\ r.last = now /\ r.session = active[s].session
          /\ r.started = active[s].started /\ r.counted = active[s].counted
          /\ r.since = active[s].since /\ r.state = active[s].state
      BY <1>1, <2>2, <2>3 DEF Record
    <2> HIDE DEF r
    <2>5. r \in Fits(s) /\ r # Nobody
      <3>1. active[s] \in Fits(s)
        BY FitsStart
      <3>2. r.last <= now
        BY <1>1, <2>4
      <3>3. QED
        BY <1>3, <2>4, <3>1, <3>2, FitsSeen
    <2>6. r \in ActiveOf(s, now) /\ \A m \in 0..now : Time(r, m, now) <= Spent(active[s], m, now)
      BY <2>5 DEF Fits, Spent
    <2>7. \A m \in 0..now : Time(r, m, now) \in Nat
      BY <1>1, <2>6, TimeType
    <2>8. \A m \in 0..now : /\ EndedTime(q, s, m) + Time(r, m, now)
                                 <= EndedTime(q, s, m) + Spent(active[s], m, now)
                            /\ \A x \in Sessions \ {s} : EndedTime(q, x, m) <= EndedTime(q, x, m)
      BY <1>2, <2>6, <2>7
    <2>9. QED
      BY <2>1, <2>6, <2>8 DEF r
  <1>4. CASE active[s] = Nobody /\ Revivable(s, q) = {}
    <2>1. rest = q
      BY <1>4 DEF Remaining
    <2>2. r = Fresh(s, p)
      BY <1>4 DEF Found, IsActive
    <2>3. \A m \in 0..now : r \in ActiveOf(s, now) /\ Time(r, m, now) = 0
      BY <1>1, <2>2, FreshRecord
    <2>4. 0 \in 0..now
      BY <1>1
    <2>5. r \in ActiveOf(s, now)
      BY <2>3, <2>4
    <2> HIDE DEF r
    <2>6. \A m \in 0..now : /\ EndedTime(q, s, m) + Time(r, m, now)
                                 <= EndedTime(q, s, m) + Spent(active[s], m, now)
                            /\ \A x \in Sessions \ {s} : EndedTime(q, x, m) <= EndedTime(q, x, m)
      BY <1>2, <2>3
    <2>7. QED
      BY <2>1, <2>5, <2>6 DEF r
  <1>5. CASE active[s] = Nobody /\ Revivable(s, q) # {}
    <2>1. PICK k : k = Min(Revivable(s, q))
      OBVIOUS
    <2>2. k \in 1..Len(q) /\ q[k].session = s
      <3>1. Revivable(s, q) \in SUBSET Nat /\ Revivable(s, q) \subseteq 1..Len(q)
        BY DEF Revivable
      <3>2. k \in Revivable(s, q)
        BY <1>5, <2>1, <3>1, MinIsLeast
      <3>3. QED
        BY <3>1, <3>2 DEF Revivable
    <2>3. rest = RemoveAt(q, k)
      BY <1>5, <2>1 DEF Remaining
    <2>4. PICK u \in OverOf(now) : u = q[k]
      BY <2>2
    <2>5. r = [u EXCEPT !.state = "idle", !.since = 0, !.last = now,
                        !.pid = IF p = Nobody THEN u.pid ELSE p]
      BY <1>5, <2>1, <2>4 DEF Found, IsActive
    <2>6. u \in Record /\ u.session = s
      BY <2>2, <2>4 DEF OverOf
    <2>7. /\ r \in Record /\ r.last = now /\ r.session = u.session /\ r.started = u.started
          /\ r.counted = u.counted /\ r.since = 0 /\ r.state = "idle"
      <3>1. PICK v : v = [u EXCEPT !.state = "idle", !.since = 0]
        OBVIOUS
      <3>2. /\ v \in Record /\ v.session = u.session /\ v.started = u.started
            /\ v.counted = u.counted /\ v.since = 0 /\ v.state = "idle" /\ v.pid = u.pid
        BY <2>6, <3>1 DEF Record
      <3>3. PICK y \in Pids \cup {Nobody} : y = IF p = Nobody THEN u.pid ELSE p
        BY <2>6 DEF Record
      <3>4. r = [v EXCEPT !.last = now, !.pid = y]
        BY <2>5, <3>1, <3>3
      <3> HIDE DEF r
      <3>5. QED
        BY <1>1, <3>2, <3>4 DEF Record
    <2> HIDE DEF r
    <2>8. \A m \in 0..now : r \in ActiveOf(s, now) /\ Time(r, m, now) = Weight(u, s, m)
      <3>1. r.last <= now
        BY <1>1, <2>7
      <3>2. QED
        BY <1>1, <2>6, <2>7, <3>1, RevivedRecord
    <2>9. 0 \in 0..now
      BY <1>1
    <2>10. r \in ActiveOf(s, now)
      BY <2>8, <2>9
    <2>11. PICK V \in SUBSET Record : V = OverOf(now)
      BY DEF OverOf
    <2>12. q \in Seq(V)
      BY <2>11
    <2>13. ASSUME NEW x \in Sessions, NEW m \in 0..now
           PROVE  /\ RemoveAt(q, k) \in Seq(V)
                  /\ EndedTime(RemoveAt(q, k), x, m) + Weight(u, x, m) = EndedTime(q, x, m)
      <3>1. m \in Nat
        BY <1>1
      <3>2. /\ RemoveAt(q, k) \in Seq(V)
            /\ EndedTime(RemoveAt(q, k), x, m) + Weight(q[k], x, m) = EndedTime(q, x, m)
        BY <2>2, <2>12, <3>1, RemoveTime
      <3>3. QED
        BY <2>4, <3>2
    <2>14. RemoveAt(q, k) \in Seq(OverOf(now))
      BY <2>9, <2>11, <2>13
    <2>15. ASSUME NEW m \in 0..now
           PROVE  /\ EndedTime(RemoveAt(q, k), s, m) + Time(r, m, now)
                         <= EndedTime(q, s, m) + Spent(active[s], m, now)
                  /\ \A x \in Sessions \ {s} :
                        EndedTime(RemoveAt(q, k), x, m) <= EndedTime(q, x, m)
      <3>1. EndedTime(RemoveAt(q, k), s, m) + Time(r, m, now)
                <= EndedTime(q, s, m) + Spent(active[s], m, now)
        BY <1>2, <2>8, <2>13
      <3>2. ASSUME NEW x \in Sessions \ {s}
            PROVE  EndedTime(RemoveAt(q, k), x, m) <= EndedTime(q, x, m)
        <4>1. Weight(u, x, m) \in Nat /\ EndedTime(RemoveAt(q, k), x, m) \in Nat
          BY <1>1, <2>6, <2>14, EndedType DEF Weight, Record
        <4>2. QED
          BY <2>13, <4>1
      <3>3. QED
        BY <3>1, <3>2
    <2>16. QED
      BY <2>3, <2>10, <2>14, <2>15 DEF r
  <1>6. QED
    BY <1>3, <1>4, <1>5

\* An event adds no time to any session.
LEMMA EventFits ==
    ASSUME IInv, now' = now, NEW s \in Sessions, NEW event \in Events,
           NEW p \in Pids \cup {Nobody}, ApplyEvent(s, event, p)
    PROVE  IInv'
  <1>1. /\ TypeOK /\ Clock /\ now \in Nat /\ now <= now /\ 0 \in 0..now
        /\ \A m \in 0..now : m \in Nat
    BY DEF IInv, TypeOK, Clock
  <1>2. PICK out \in SUBSET Sessions : out = Rotated(s, p)
    BY DEF Rotated
  <1>3. s \notin out /\ \A x \in out : active[x] \in ActiveOf(x, now) /\ active[x] # Nobody
    BY <1>1, <1>2 DEF Rotated, IsActive, TypeOK
  <1>4. PICK over : over = [x \in out |-> Over(active[x], now)]
    OBVIOUS
  <1>5. ASSUME NEW x \in out
        PROVE  /\ over[x] \in OverOf(now) /\ over[x].session = x
               /\ \A m \in 0..now : /\ Weight(over[x], x, m) \in Nat
                                    /\ Weight(over[x], x, m) <= Time(active[x], m, now)
    <2>1. over[x] = Over(active[x], now)
      BY <1>4
    <2>2. x \in Sessions /\ active[x] \in ActiveOf(x, now)
      BY <1>3
    <2>3. ASSUME NEW m \in 0..now
          PROVE  /\ Over(active[x], now) \in OverOf(now) /\ Over(active[x], now).session = x
                 /\ Weight(Over(active[x], now), x, m) \in Nat
                 /\ Weight(Over(active[x], now), x, m) <= Time(active[x], m, now)
      BY <1>1, <2>2, OverRecord
    <2>4. QED
      BY <1>1, <2>1, <2>3
  <1>6. over \in [out -> OverOf(now)]
    BY <1>4, <1>5
  <1>7. PICK q : q = EndAll(ended, {over[x] : x \in out})
    OBVIOUS
  <1>8. q = EndAll(ended, {Over(active[x], now) : x \in out})
    <2>1. {over[x] : x \in out} = {Over(active[x], now) : x \in out}
      BY <1>4
    <2>2. QED
      BY <1>7, <2>1
  <1>9. q \in Seq(OverOf(now))
    <2>1. ended \in Seq(OverOf(now)) /\ 0 \in Nat
      BY <1>1 DEF TypeOK
    <2>2. QED
      BY <1>5, <1>6, <1>7, <2>1, EndSessions
  <1>10. ASSUME NEW x \in Sessions, NEW m \in 0..now
         PROVE  EndedTime(q, x, m)
                    <= EndedTime(ended, x, m)
                        + IF x \in out THEN Spent(active[x], m, now) ELSE 0
    <2>1. ended \in Seq(OverOf(now)) /\ m \in Nat
      BY <1>1 DEF TypeOK
    <2>2. /\ x \in out => EndedTime(q, x, m) <= EndedTime(ended, x, m) + Weight(over[x], x, m)
          /\ x \notin out => EndedTime(q, x, m) <= EndedTime(ended, x, m)
      BY <1>5, <1>6, <1>7, <2>1, EndSessions
    <2>3. EndedTime(q, x, m) \in Nat /\ EndedTime(ended, x, m) \in Nat
      BY <1>9, <2>1, EndedType
    <2>4. x \in out => /\ Weight(over[x], x, m) \in Nat
                       /\ Weight(over[x], x, m) <= Spent(active[x], m, now)
      BY <1>3, <1>5 DEF Spent
    <2>5. Spent(active[x], m, now) \in Nat
      BY <1>1, <2>1, SpentType
    <2>6. QED
      BY <2>2, <2>3, <2>4, <2>5
  <1>11. PICK r, rest : r = Found(s, p, q) /\ rest = Remaining(s, q)
    OBVIOUS
  <1>12. /\ r \in ActiveOf(s, now) /\ rest \in Seq(OverOf(now))
         /\ \A m \in 0..now :
               /\ EndedTime(rest, s, m) + Time(r, m, now)
                      <= EndedTime(q, s, m) + Spent(active[s], m, now)
               /\ \A x \in Sessions \ {s} : EndedTime(rest, x, m) <= EndedTime(q, x, m)
    BY <1>1, <1>9, <1>11, FoundTime
  <1>13. PICK done : done = CASE event = "session-start" -> r
                              [] event \in {"turn-start", "activity"} -> Work(r)
                              [] event = "turn-end" -> Rest(r, now)
                              [] event = "session-end" -> Over(r, now)
    OBVIOUS
  <1>14. /\ active' = [x \in Sessions |->
                         IF x = s THEN (IF event = "session-end" THEN Nobody ELSE done)
                         ELSE IF x \in out THEN Nobody ELSE active[x]]
         /\ ended' = IF event = "session-end" THEN PushEnded(rest, done) ELSE rest
    BY <1>2, <1>8, <1>11, <1>13 DEF ApplyEvent, IsActive, Remaining
  <1>15. ASSUME NEW x \in Sessions, NEW m \in 0..now
         PROVE  /\ EndedTime(q, x, m) \in Nat /\ EndedTime(ended, x, m) \in Nat
                /\ EndedTime(rest, x, m) \in Nat /\ Spent(active[x], m, now) \in Nat
                /\ Time(r, m, now) \in Nat
    <2>1. ended \in Seq(OverOf(now)) /\ m \in Nat
      BY <1>1 DEF TypeOK
    <2>2. QED
      BY <1>1, <1>9, <1>12, <2>1, EndedType, SpentType, TimeType
  <1>16. CASE event = "session-end"
    <2>1. done = Over(r, now)
      BY <1>13, <1>16
    <2>2. ASSUME NEW m \in 0..now
          PROVE  /\ done \in OverOf(now) /\ done.session = s
                 /\ Weight(done, s, m) \in Nat /\ Weight(done, s, m) <= Time(r, m, now)
      <3>1. /\ Over(r, now) \in OverOf(now) /\ Over(r, now).session = s
            /\ Weight(Over(r, now), s, m) \in Nat /\ Weight(Over(r, now), s, m) <= Time(r, m, now)
        BY <1>1, <1>12, OverRecord
      <3>2. QED
        BY <2>1, <3>1
    <2>3. done \in OverOf(now) /\ done.session = s
      BY <1>1, <2>2
    <2>4. PICK V \in SUBSET Record : V = OverOf(now)
      BY DEF OverOf
    <2>5. ASSUME NEW x \in Sessions, NEW m \in 0..now
          PROVE  /\ ended' \in Seq(OverOf(now))
                 /\ EndedTime(ended', x, m) <= EndedTime(rest, x, m) + Weight(done, x, m)
      <3>1. rest \in Seq(V) /\ done \in V /\ m \in Nat
        BY <1>1, <1>12, <2>3, <2>4
      <3>2. /\ PushEnded(rest, done) \in Seq(V)
            /\ EndedTime(PushEnded(rest, done), x, m) <= EndedTime(rest, x, m) + Weight(done, x, m)
        BY <3>1, PushTime
      <3>3. ended' = PushEnded(rest, done)
        BY <1>14, <1>16
      <3>4. QED
        BY <2>4, <3>2, <3>3
    <2>6. ended' \in Seq(OverOf(now))
      BY <1>1, <2>5
    <2>7. \A x \in Sessions :
            active'[x] = IF x = s \/ x \in out THEN Nobody ELSE active[x]
      BY <1>14, <1>16
    <2>8. active' \in [Sessions -> Record \cup {Nobody}]
          /\ \A x \in Sessions : active'[x] \in ActiveOf(x, now) \cup {Nobody}
      BY <1>1, <1>14, <1>16, <2>7 DEF TypeOK
    <2>9. ASSUME NEW x \in Sessions, NEW m \in 0..now
          PROVE  EndedTime(ended', x, m) + Spent(active'[x], m, now)
                     <= EndedTime(ended, x, m) + Spent(active[x], m, now)
      <3>1. EndedTime(ended', x, m) \in Nat
        BY <1>1, <2>6, EndedType
      <3>2. Spent(active'[x], m, now) = IF x = s \/ x \in out THEN 0 ELSE Spent(active[x], m, now)
        BY <2>7 DEF Spent
      <3>3. Weight(done, x, m) \in Nat
        BY <2>3 DEF OverOf, Weight, Record
      <3>4. EndedTime(ended', x, m) <= EndedTime(rest, x, m) + Weight(done, x, m)
        BY <2>5
      <3>5. CASE x = s
        <4>1. Weight(done, x, m) <= Time(r, m, now)
          BY <2>2, <3>5
        <4>2. EndedTime(rest, x, m) + Time(r, m, now)
                  <= EndedTime(q, x, m) + Spent(active[x], m, now)
          BY <1>12, <3>5
        <4>3. EndedTime(q, x, m) <= EndedTime(ended, x, m)
          BY <1>3, <1>10, <1>15, <3>5
        <4>4. QED
          BY <1>15, <3>1, <3>2, <3>3, <3>4, <3>5, <4>1, <4>2, <4>3
      <3>6. CASE x # s
        <4>1. Weight(done, x, m) = 0
          BY <2>3, <3>6 DEF Weight
        <4>2. EndedTime(rest, x, m) <= EndedTime(q, x, m)
          BY <1>12, <3>6
        <4>3. QED
          BY <1>10, <1>15, <3>1, <3>2, <3>4, <3>6, <4>1, <4>2
      <3>7. QED
        BY <3>5, <3>6
    <2>10. NoMore(active', ended')
      BY <2>6, <2>8, <2>9 DEF NoMore
    <2>11. QED
      BY <2>10, NoMoreTime
  <1>17. CASE event # "session-end"
    <2>1. ASSUME NEW m \in 0..now
          PROVE  done \in ActiveOf(s, now) /\ Time(done, m, now) <= Time(r, m, now)
      <3>1. s \in Sessions /\ m \in Nat /\ Time(r, m, now) \in Nat
        BY <1>1, <1>15
      <3>2. CASE event = "session-start"
        BY <1>12, <1>13, <3>1, <3>2
      <3>3. CASE event \in {"turn-start", "activity"}
        <4>1. done = Work(r)
          BY <1>13, <3>3
        <4>2. Work(r) \in ActiveOf(s, now) /\ Time(Work(r), m, now) = Time(r, m, now)
          BY <1>1, <1>12, <3>1, WorkRecord
        <4>3. QED
          BY <3>1, <4>1, <4>2
      <3>4. CASE event = "turn-end"
        <4>1. done = Rest(r, now)
          BY <1>13, <3>4
        <4>2. Rest(r, now) \in ActiveOf(s, now) /\ Time(Rest(r, now), m, now) <= Time(r, m, now)
          BY <1>1, <1>12, <3>1, RestRecord
        <4>3. QED
          BY <4>1, <4>2
      <3>5. QED
        BY <1>17, <3>2, <3>3, <3>4 DEF Events
    <2>2. done \in ActiveOf(s, now)
      BY <1>1, <2>1
    <2>3. ended' = rest /\ ended' \in Seq(OverOf(now))
      BY <1>12, <1>14, <1>17
    <2>4. \A x \in Sessions :
            active'[x] = IF x = s THEN done ELSE IF x \in out THEN Nobody ELSE active[x]
      BY <1>14, <1>17
    <2>5. active' \in [Sessions -> Record \cup {Nobody}]
          /\ \A x \in Sessions : active'[x] \in ActiveOf(x, now) \cup {Nobody}
      <3>1. done \in Record
        BY <2>2 DEF ActiveOf
      <3>2. \A x \in Sessions : active'[x] \in ActiveOf(x, now) \cup {Nobody}
        BY <1>1, <2>2, <2>4 DEF TypeOK
      <3>3. \A x \in Sessions : active'[x] \in Record \cup {Nobody}
        BY <1>1, <2>4, <3>1 DEF TypeOK
      <3>4. QED
        BY <1>14, <3>2, <3>3
    <2>6. ASSUME NEW x \in Sessions, NEW m \in 0..now
          PROVE  EndedTime(ended', x, m) + Spent(active'[x], m, now)
                     <= EndedTime(ended, x, m) + Spent(active[x], m, now)
      <3>1. CASE x = s
        <4>1. Spent(active'[x], m, now) = Time(done, m, now)
          BY <2>2, <2>4, <3>1, NobodyIsNoRecord DEF Spent
        <4>2. Time(done, m, now) \in Nat /\ Time(done, m, now) <= Time(r, m, now)
          BY <1>1, <2>1, <2>2, TimeType
        <4>3. EndedTime(rest, x, m) + Time(r, m, now)
                  <= EndedTime(q, x, m) + Spent(active[x], m, now)
          BY <1>12, <3>1
        <4>4. EndedTime(q, x, m) <= EndedTime(ended, x, m)
          BY <1>3, <1>10, <1>15, <3>1
        <4>5. QED
          BY <1>15, <2>3, <4>1, <4>2, <4>3, <4>4
      <3>2. CASE x # s
        <4>1. EndedTime(rest, x, m) <= EndedTime(q, x, m)
          BY <1>12, <3>2
        <4>2. Spent(active'[x], m, now) = IF x \in out THEN 0 ELSE Spent(active[x], m, now)
          BY <2>4, <3>2 DEF Spent
        <4>3. QED
          BY <1>10, <1>15, <2>3, <4>1, <4>2
      <3>3. QED
        BY <3>1, <3>2
    <2>7. NoMore(active', ended')
      BY <2>3, <2>5, <2>6 DEF NoMore
    <2>8. QED
      BY <2>7, NoMoreTime
  <1>18. QED
    BY <1>16, <1>17
-----------------------------------------------------------------------------
(***************************************************************************)
(* The liveness tick                                                       *)
(***************************************************************************)

\* The tick adds no time to any session.
LEMMA SweepFits ==
    ASSUME IInv, LivenessTick
    PROVE  IInv'
  <1>1. PICK last : last = [s \in Sessions |-> LastActivity(s)]
    OBVIOUS
  <1>2. TypeOK /\ Clock /\ now \in Nat /\ now' = now /\ Sweep(last)
    BY <1>1 DEF IInv, TypeOK, Clock, LivenessTick, world
  <1>3. last \in [Sessions -> 0..now]
    <2>1. ASSUME NEW s \in Sessions
          PROVE  LastActivity(s) \in 0..now
      <3>1. CASE active[s] = Nobody
        BY <1>2, <3>1 DEF LastActivity, IsActive
      <3>2. CASE active[s] # Nobody
        <4>1. active[s] \in ActiveOf(s, now)
          BY <1>2, <3>2 DEF TypeOK
        <4>2. active[s].last \in 0..now
          BY <1>2, <4>1 DEF ActiveOf, Record
        <4>3. now \in 0..now
          BY <1>2
        <4>4. QED
          BY <3>2, <4>2, <4>3 DEF LastActivity, IsActive
      <3>3. QED
        BY <3>1, <3>2
    <2>2. QED
      BY <1>1, <2>1
  <1>4. PICK found \in SUBSET Sessions : found = {s \in Sessions : IsActive(s)}
    OBVIOUS
  <1>5. PICK died \in SUBSET found : died = {s \in found : Died(s)}
    OBVIOUS
  <1>6. PICK silent \in SUBSET (found \ died) :
              silent = {s \in found \ died : Silent(s, last[s])}
    OBVIOUS
  <1>7. PICK stuck : stuck = {s \in found \ (died \cup silent) : Stuck(s, last[s])}
    OBVIOUS
  <1>8. active' = [s \in Sessions |->
              IF s \notin found \/ s \in died \cup silent THEN Nobody
              ELSE IF s \in stuck THEN [Rest(active[s], last[s]) EXCEPT !.last = last[s]]
              ELSE [active[s] EXCEPT !.last = last[s]]]
    BY <1>2, <1>4, <1>5, <1>6, <1>7 DEF Sweep
  <1>9. PICK q : q = EndAll(ended, {Over(active[s], now) : s \in died})
    OBVIOUS
  <1>10. ended' = EndAll(q, {Over(active[s], last[s]) : s \in silent})
    BY <1>2, <1>4, <1>5, <1>6, <1>9 DEF Sweep
  <1>11. \A s \in found : active[s] \in ActiveOf(s, now) /\ active[s] \in Record /\ active[s] # Nobody
    BY <1>2, <1>4 DEF TypeOK, IsActive, ActiveOf
  <1>12. ended \in Seq(OverOf(now)) /\ 0 \in 0..now
    BY <1>2 DEF TypeOK
  <1>13. ASSUME NEW s, NEW m \in 0..now
         PROVE  /\ q \in Seq(OverOf(now))
                /\ s \in died => EndedTime(q, s, m)
                                   <= EndedTime(ended, s, m) + Time(active[s], m, now)
                /\ s \notin died => EndedTime(q, s, m) <= EndedTime(ended, s, m)
    <2>1. PICK over : over = [x \in died |-> Over(active[x], now)]
      OBVIOUS
    <2>2. ASSUME NEW x \in died, NEW i \in 0..now
          PROVE  /\ over[x] \in OverOf(now) /\ over[x].session = x
                 /\ Weight(over[x], x, i) \in Nat
                 /\ Weight(over[x], x, i) <= Time(active[x], i, now)
      <3>1. over[x] = Over(active[x], now)
        BY <2>1
      <3>2. /\ x \in Sessions /\ active[x] \in ActiveOf(x, now)
            /\ now \in Nat /\ now <= now /\ i \in Nat
        BY <1>2, <1>3, <1>11
      <3>3. /\ Over(active[x], now) \in OverOf(now) /\ Over(active[x], now).session = x
            /\ Weight(Over(active[x], now), x, i) \in Nat
            /\ Weight(Over(active[x], now), x, i) <= Time(active[x], i, now)
        BY <1>2, <3>2, OverRecord
      <3>4. QED
        BY <3>1, <3>3
    <2>3. over \in [died -> OverOf(now)] /\ died \in SUBSET Sessions
      BY <1>12, <2>1, <2>2
    <2>4. q = EndAll(ended, {over[x] : x \in died})
      <3>1. {over[x] : x \in died} = {Over(active[x], now) : x \in died}
        BY <2>1
      <3>2. QED
        BY <1>9, <3>1
    <2>5. ended \in Seq(OverOf(now)) /\ m \in Nat
      BY <1>2, <1>12
    <2>6. /\ q \in Seq(OverOf(now))
          /\ s \in died => EndedTime(q, s, m) <= EndedTime(ended, s, m) + Weight(over[s], s, m)
          /\ s \notin died => EndedTime(q, s, m) <= EndedTime(ended, s, m)
      BY <2>2, <2>3, <2>4, <2>5, EndSessions
    <2>7. EndedTime(q, s, m) \in Nat /\ EndedTime(ended, s, m) \in Nat
      BY <2>5, <2>6, EndedType
    <2>8. s \in died => Time(active[s], m, now) \in Nat
      BY <1>2, <1>11, <2>5, TimeType
    <2>9. QED
      BY <2>2, <2>6, <2>7, <2>8
  <1>14. ASSUME NEW s, NEW m \in 0..now
         PROVE  /\ ended' \in Seq(OverOf(now))
                /\ s \in silent => EndedTime(ended', s, m)
                                   <= EndedTime(q, s, m) + Time(active[s], m, now)
                /\ s \notin silent => EndedTime(ended', s, m) <= EndedTime(q, s, m)
    <2>1. PICK over : over = [x \in silent |-> Over(active[x], last[x])]
      OBVIOUS
    <2>2. ASSUME NEW x \in silent, NEW i \in 0..now
          PROVE  /\ over[x] \in OverOf(now) /\ over[x].session = x
                 /\ Weight(over[x], x, i) \in Nat
                 /\ Weight(over[x], x, i) <= Time(active[x], i, now)
      <3>1. over[x] = Over(active[x], last[x])
        BY <2>1
      <3>2. /\ x \in Sessions /\ active[x] \in ActiveOf(x, now)
            /\ last[x] \in Nat /\ last[x] <= now /\ i \in Nat
        BY <1>2, <1>3, <1>11
      <3>3. /\ Over(active[x], last[x]) \in OverOf(now) /\ Over(active[x], last[x]).session = x
            /\ Weight(Over(active[x], last[x]), x, i) \in Nat
            /\ Weight(Over(active[x], last[x]), x, i) <= Time(active[x], i, now)
        BY <1>2, <3>2, OverRecord
      <3>4. QED
        BY <3>1, <3>3
    <2>3. over \in [silent -> OverOf(now)] /\ silent \in SUBSET Sessions
      BY <1>12, <2>1, <2>2
    <2>4. ended' = EndAll(q, {over[x] : x \in silent})
      <3>1. {over[x] : x \in silent} = {Over(active[x], last[x]) : x \in silent}
        BY <2>1
      <3>2. QED
        BY <1>10, <3>1
    <2>5. q \in Seq(OverOf(now)) /\ m \in Nat
      BY <1>2, <1>13
    <2>6. /\ ended' \in Seq(OverOf(now))
          /\ s \in silent => EndedTime(ended', s, m) <= EndedTime(q, s, m) + Weight(over[s], s, m)
          /\ s \notin silent => EndedTime(ended', s, m) <= EndedTime(q, s, m)
      BY <2>2, <2>3, <2>4, <2>5, EndSessions
    <2>7. EndedTime(ended', s, m) \in Nat /\ EndedTime(q, s, m) \in Nat
      BY <2>5, <2>6, EndedType
    <2>8. s \in silent => Time(active[s], m, now) \in Nat
      BY <1>2, <1>11, <2>5, TimeType
    <2>9. QED
      BY <2>2, <2>6, <2>7, <2>8
  <1>15. q \in Seq(OverOf(now)) /\ ended' \in Seq(OverOf(now))
    BY <1>12, <1>13, <1>14
  <1>16. ASSUME NEW s \in Sessions, s \notin died \cup silent
        PROVE  active'[s] \in Fits(s)
    <2>1. CASE s \notin found
      BY <1>2, <1>8, <2>1, FitsStart
    <2>2. CASE s \in found
      <3>1. active[s] \in Fits(s) /\ active[s] # Nobody /\ active[s] \in Record
        BY <1>2, <1>11, <2>2, FitsStart
      <3>2. last[s] \in 0..now /\ last[s] \in Nat
        BY <1>2, <1>3
      <3>3. PICK r : r = IF s \in stuck THEN Rest(active[s], last[s]) ELSE active[s]
        OBVIOUS
      <3>4. r \in Fits(s) /\ r # Nobody /\ r \in Record
        <4>1. Rest(active[s], last[s]) \in Fits(s) /\ Rest(active[s], last[s]) # Nobody
          BY <1>2, <3>1, <3>2, FitsRecords
        <4>2. r \in Fits(s) /\ r # Nobody
          BY <3>1, <3>3, <4>1
        <4>3. QED
          BY <4>2 DEF Fits, ActiveOf
      <3>5. PICK v : v = [r EXCEPT !.last = last[s]]
        OBVIOUS
      <3>6. /\ v \in Record /\ v.last = last[s] /\ v.session = r.session /\ v.started = r.started
            /\ v.counted = r.counted /\ v.since = r.since /\ v.state = r.state
        BY <3>2, <3>4, <3>5 DEF Record
      <3>7. v.last <= now
        BY <1>2, <3>2, <3>6
      <3>8. v \in Fits(s)
        BY <1>2, <3>4, <3>6, <3>7, FitsSeen
      <3>9. active'[s] = v
        BY <1>8, <1>16, <2>2, <3>3, <3>5
      <3>10. QED
        BY <3>8, <3>9
    <2>3. QED
      BY <2>1, <2>2
  <1>17. ASSUME NEW s \in died \cup silent
        PROVE  active'[s] = Nobody
    BY <1>8
  <1>18. ASSUME NEW s \in Sessions
        PROVE  active'[s] \in ActiveOf(s, now) \cup {Nobody}
    BY <1>16, <1>17 DEF Fits
  <1>19. active' \in [Sessions -> Record \cup {Nobody}]
    <2>1. \A s \in Sessions : active'[s] \in Record \cup {Nobody}
      BY <1>18 DEF ActiveOf
    <2>2. QED
      BY <1>8, <2>1
  <1>20. ASSUME NEW s \in Sessions, NEW m \in 0..now
        PROVE  EndedTime(ended', s, m) + Spent(active'[s], m, now)
                   <= EndedTime(ended, s, m) + Spent(active[s], m, now)
    <2>1. m \in Nat
      BY <1>2
    <2>2. /\ EndedTime(ended, s, m) \in Nat /\ EndedTime(q, s, m) \in Nat
          /\ EndedTime(ended', s, m) \in Nat /\ Spent(active[s], m, now) \in Nat
      BY <1>2, <1>12, <1>15, <2>1, EndedType, SpentType
    <2>3. CASE s \in died \cup silent
      <3>1. Spent(active'[s], m, now) = 0
        BY <1>17, <2>3 DEF Spent
      <3>2. Spent(active[s], m, now) = Time(active[s], m, now)
        BY <1>11, <2>3 DEF Spent
      <3>3. ~(s \in died /\ s \in silent)
        OBVIOUS
      <3>4. QED
        BY <1>13, <1>14, <2>2, <2>3, <3>1, <3>2, <3>3
    <2>4. CASE s \notin died \cup silent
      <3>1. Spent(active'[s], m, now) <= Spent(active[s], m, now)
        BY <1>16, <2>4 DEF Fits
      <3>2. EndedTime(q, s, m) <= EndedTime(ended, s, m)
        BY <1>13, <2>4
      <3>3. EndedTime(ended', s, m) <= EndedTime(q, s, m)
        BY <1>14, <2>4
      <3>4. Spent(active'[s], m, now) \in Nat
        <4>1. active'[s] # Nobody => Time(active'[s], m, now) \in Nat
          BY <1>2, <1>18, <2>1, TimeType
        <4>2. QED
          BY <4>1 DEF Spent
      <3>5. QED
        BY <2>2, <3>1, <3>2, <3>3, <3>4
    <2>5. QED
      BY <2>3, <2>4
  <1>21. NoMore(active', ended')
    BY <1>15, <1>18, <1>19, <1>20 DEF NoMore
  <1>22. QED
    BY <1>2, <1>21, NoMoreTime
-----------------------------------------------------------------------------
(***************************************************************************)
(* The restart                                                             *)
(***************************************************************************)

\* A time counted in full is the time from the beginning on.
LEMMA CountedTime ==
    ASSUME NEW q \in Seq(Record), NEW s
    PROVE  Counted(s, q) = EndedTime(q, s, 0) /\ Counted(s, q) \in Nat
  <1>1. \A i \in DOMAIN q : q[i] \in Record
    OBVIOUS
  <1>2. \A i \in DOMAIN q : q[i].started >= 0
    BY <1>1 DEF Record
  <1>3. [i \in DOMAIN q |-> IF q[i].session = s THEN q[i].counted ELSE 0] = Weights(q, s, 0)
    BY <1>2 DEF Weights, Weight
  <1>4. Counted(s, q) = EndedTime(q, s, 0)
    BY <1>3 DEF Counted, EndedTime
  <1>5. 0 \in Nat
    OBVIOUS
  <1>6. QED
    BY <1>4, <1>5, WeightsType

\* When all its records started at m or later, that is the time from m on.
LEMMA CountedFrom ==
    ASSUME NEW q \in Seq(Record), NEW s, NEW m \in Nat, \A x \in Started(s, q) : x >= m
    PROVE  Counted(s, q) = EndedTime(q, s, m)
  <1>1. \A i \in DOMAIN q : q[i] \in Record
    OBVIOUS
  <1>2. \A i \in DOMAIN q : q[i].started >= 0
    BY <1>1 DEF Record
  <1>3. \A i \in DOMAIN q : q[i].session = s => q[i].started >= m
    BY DEF Started
  <1>4. Weights(q, s, m) = Weights(q, s, 0)
    BY <1>2, <1>3 DEF Weights, Weight
  <1>5. QED
    BY <1>4, CountedTime DEF EndedTime

\* The times at which the records of a session started.
LEMMA StartedType ==
    ASSUME NEW q \in Seq(Record), NEW s
    PROVE  Started(s, q) \in SUBSET Nat
  <1>1. \A i \in DOMAIN q : q[i] \in Record
    OBVIOUS
  <1>2. \A i \in DOMAIN q : q[i].started \in Nat
    BY <1>1 DEF Record
  <1>3. QED
    BY <1>2 DEF Started

\* The record that a twin becomes.
Twin(q, i) == [q[i] EXCEPT !.counted = Counted(q[i].session, q),
                           !.started = Min(Started(q[i].session, q))]

\* It is an ended record, and counts no more than the twins did.
LEMMA TwinTime ==
    ASSUME NEW t \in Nat, NEW q \in Seq(OverOf(t)), NEW i \in 1..Len(q)
    PROVE  /\ Twin(q, i) \in OverOf(t)
           /\ Twin(q, i).session = q[i].session
           /\ \A m \in Nat : Weight(Twin(q, i), q[i].session, m) <= EndedTime(q, q[i].session, m)
  <1>1. q \in Seq(Record) /\ q[i] \in OverOf(t) /\ i \in DOMAIN q
    <2>1. OverOf(t) \subseteq Record
      BY DEF OverOf
    <2>2. QED
      BY <2>1, SeqMonotonic
  <1>2. PICK s, c, b : s = q[i].session /\ c = Counted(s, q) /\ b = Min(Started(s, q))
    OBVIOUS
  <1>3. c \in Nat
    BY <1>1, <1>2, CountedTime
  <1>4. q[i].started \in Started(s, q) /\ Started(s, q) \in SUBSET Nat
    BY <1>1, <1>2, StartedType DEF Started
  <1>5. b \in Started(s, q) /\ \A x \in Started(s, q) : b <= x
    BY <1>2, <1>4, MinIsLeast
  <1>6. b \in Nat /\ b <= t
    BY <1>1, <1>4, <1>5 DEF OverOf
  <1>7. PICK u : u = Twin(q, i)
    OBVIOUS
  <1>8. /\ u \in Record /\ u.session = s /\ u.counted = c /\ u.started = b
        /\ u.state = q[i].state /\ u.since = q[i].since
    <2>1. PICK r \in Record : r = q[i]
      BY <1>1 DEF OverOf
    <2>2. u = [r EXCEPT !.counted = c, !.started = b]
      BY <1>2, <1>7, <2>1 DEF Twin
    <2>3. r.session = s
      BY <1>2, <2>1
    <2>4. /\ u \in Record /\ u.session = r.session /\ u.counted = c /\ u.started = b
          /\ u.state = r.state /\ u.since = r.since
      BY <1>3, <1>6, <2>2 DEF Record
    <2>5. QED
      BY <2>1, <2>3, <2>4
  <1>9. u \in OverOf(t)
    BY <1>1, <1>6, <1>8 DEF OverOf
  <1>10. ASSUME NEW m \in Nat
         PROVE  Weight(u, s, m) <= EndedTime(q, s, m)
    <2>1. EndedTime(q, s, m) \in Nat
      BY <1>1, WeightsType
    <2>2. CASE b >= m
      <3>1. \A x \in Started(s, q) : x >= m
        BY <1>4, <1>5, <1>6, <2>2
      <3>2. c = EndedTime(q, s, m)
        BY <1>1, <1>2, <3>1, CountedFrom
      <3>3. QED
        BY <1>8, <2>1, <2>2, <3>2 DEF Weight
    <2>3. CASE ~(b >= m)
      BY <1>8, <2>1, <2>3 DEF Weight
    <2>4. QED
      BY <2>2, <2>3
  <1>11. QED
    BY <1>2, <1>7, <1>8, <1>9, <1>10

\* The record at place i is not the first of twins, or has an active one.
Passed(found, q, i) ==
    found[q[i].session] # Nobody \/ \E j \in 1..i - 1 : q[j].session = q[i].session

\* The ended records that the loop over twins keeps after each of its turns.
LEMMA KeptUnfold ==
    ASSUME NEW t \in Nat, NEW q \in Seq(OverOf(t)), NEW found
    PROVE  /\ Kept(found, q) \in [0..Len(q) -> Seq(OverOf(t))]
           /\ Kept(found, q)[0] = <<>>
           /\ \A i \in 1..Len(q) :
                 Kept(found, q)[i] = IF Passed(found, q, i) THEN Kept(found, q)[i - 1]
                                     ELSE Append(Kept(found, q)[i - 1], Twin(q, i))
  <1>1. PICK n \in Nat : n = Len(q)
    OBVIOUS
  <1>2. PICK V : V = Seq(OverOf(t))
    OBVIOUS
  <1>3. PICK step : step = [x \in (1..n) \X V |-> IF Passed(found, q, x[1]) THEN x[2]
                                                 ELSE Append(x[2], Twin(q, x[1]))]
    OBVIOUS
  <1>4. ASSUME NEW i \in 1..n, NEW v \in V
        PROVE  (IF Passed(found, q, i) THEN v ELSE Append(v, Twin(q, i))) \in V
    <2>1. Twin(q, i) \in OverOf(t)
      BY <1>1, TwinTime
    <2>2. Append(v, Twin(q, i)) \in V
      BY <1>2, <2>1
    <2>3. QED
      BY <2>2
  <1>5. step \in [(1..n) \X V -> V]
    BY <1>3, <1>4
  <1>6. <<>> \in V
    BY <1>2
  <1>7. PICK f \in [0..n -> V] : f[0] = <<>> /\ \A i \in 1..n : f[i] = step[<<i, f[i - 1]>>]
    <2>1. Runs(V, <<>>, n, step) # {}
      BY <1>5, <1>6, LoopRuns
    <2>2. QED
      BY <2>1 DEF Runs
  <1>8. ASSUME NEW i \in 1..n
        PROVE  f[i] = IF Passed(found, q, i) THEN f[i - 1] ELSE Append(f[i - 1], Twin(q, i))
    <2>1. i - 1 \in 0..n
      OBVIOUS
    <2>2. f[i - 1] \in V
      BY <1>7, <2>1
    <2>3. <<i, f[i - 1]>> \in (1..n) \X V
      BY <2>2
    <2>4. QED
      BY <1>3, <1>7, <2>3
  <1>9. f = [i \in 0..n |-> IF i = 0 THEN <<>> ELSE IF Passed(found, q, i) THEN f[i - 1]
                            ELSE Append(f[i - 1], Twin(q, i))]
    <2>1. \A i \in 0..n : i = 0 \/ i \in 1..n
      OBVIOUS
    <2>2. \A i \in 0..n : f[i] = IF i = 0 THEN <<>> ELSE IF Passed(found, q, i) THEN f[i - 1]
                                 ELSE Append(f[i - 1], Twin(q, i))
      BY <1>7, <1>8, <2>1
    <2>3. QED
      BY <1>7, <2>2
  <1>10. \E g : g = [i \in 0..Len(q) |-> IF i = 0 THEN <<>> ELSE IF Passed(found, q, i) THEN g[i - 1]
                                         ELSE Append(g[i - 1], Twin(q, i))]
    BY <1>1, <1>9
  <1>11. Kept(found, q) = CHOOSE g : g = [i \in 0..Len(q) |->
              IF i = 0 THEN <<>> ELSE IF Passed(found, q, i) THEN g[i - 1]
              ELSE Append(g[i - 1], Twin(q, i))]
    BY DEF Kept, Passed, Twin
  <1>12. Kept(found, q) = [i \in 0..Len(q) |->
              IF i = 0 THEN <<>> ELSE IF Passed(found, q, i) THEN Kept(found, q)[i - 1]
              ELSE Append(Kept(found, q)[i - 1], Twin(q, i))]
    BY <1>10, <1>11
  <1> DEFINE K == Kept(found, q)
  <1>13. K = [i \in 0..n |-> IF i = 0 THEN <<>> ELSE IF Passed(found, q, i) THEN K[i - 1]
                             ELSE Append(K[i - 1], Twin(q, i))]
    BY <1>1, <1>12
  <1> HIDE DEF K
  <1>14. \A i \in 0..n : K[i] = IF i = 0 THEN <<>> ELSE IF Passed(found, q, i) THEN K[i - 1]
                               ELSE Append(K[i - 1], Twin(q, i))
    BY <1>13
  <1>15. /\ K[0] = <<>>
         /\ \A i \in 1..n : K[i] = IF Passed(found, q, i) THEN K[i - 1]
                                   ELSE Append(K[i - 1], Twin(q, i))
    <2>1. 0 \in 0..n /\ \A i \in 1..n : i \in 0..n /\ i # 0
      OBVIOUS
    <2>2. QED
      BY <1>14, <2>1
  <1>16. PICK S : S = {m \in Nat : m <= n => K[m] \in V}
    OBVIOUS
  <1>17. Nat \subseteq S
    <2>1. 0 \in S
      BY <1>6, <1>15, <1>16
    <2>2. ASSUME NEW m \in S \cap Nat
          PROVE  m + 1 \in S
      <3>1. SUFFICES ASSUME m + 1 <= n
                     PROVE  K[m + 1] \in V
        BY <1>16
      <3>2. m + 1 \in 1..n /\ K[m] \in V /\ (m + 1) - 1 = m
        BY <1>16, <3>1
      <3>3. K[m + 1] = IF Passed(found, q, m + 1) THEN K[m] ELSE Append(K[m], Twin(q, m + 1))
        BY <1>15, <3>2
      <3>4. QED
        BY <1>4, <3>2, <3>3
    <2>3. QED
      BY <2>1, <2>2, SetInduction
  <1>18. \A m \in 0..n : K[m] \in V
    BY <1>16, <1>17
  <1>19. K \in [0..n -> V]
    BY <1>13, <1>18
  <1>20. QED
    BY <1>1, <1>2, <1>15, <1>19 DEF K

\* What is kept counts no more than was there, and nothing for a session that is active.
LEMMA KeptTime ==
    ASSUME NEW t \in Nat, NEW q \in Seq(OverOf(t)), NEW found, NEW s, NEW m \in Nat
    PROVE  /\ Kept(found, q)[Len(q)] \in Seq(OverOf(t))
           /\ EndedTime(Kept(found, q)[Len(q)], s, m) <= EndedTime(q, s, m)
           /\ found[s] # Nobody => EndedTime(Kept(found, q)[Len(q)], s, m) = 0
  <1>1. PICK n \in Nat : n = Len(q)
    OBVIOUS
  <1>2. PICK K : K = Kept(found, q)
    OBVIOUS
  <1>3. /\ K \in [0..n -> Seq(OverOf(t))] /\ K[0] = <<>>
        /\ \A i \in 1..n : K[i] = IF Passed(found, q, i) THEN K[i - 1]
                                  ELSE Append(K[i - 1], Twin(q, i))
    BY <1>1, <1>2, KeptUnfold
  <1>4. PICK most \in Nat : most = EndedTime(q, s, m)
    BY EndedType
  <1> DEFINE Seen(i) == found[s] = Nobody /\ \E j \in 1..i : q[j].session = s
             Bound(i) == IF Seen(i) THEN most ELSE 0
  <1>5. PICK S : S = {i \in Nat : i <= n => EndedTime(K[i], s, m) <= Bound(i)}
    OBVIOUS
  <1>6. 0 \in S
    <2>1. <<>> \in Seq(Record)
      OBVIOUS
    <2>2. PICK w : w = Weights(<<>>, s, m)
      OBVIOUS
    <2>3. w \in Seq(Nat) /\ Len(w) = 0
      BY <2>1, <2>2, WeightsType
    <2>4. \A i \in 1..Len(w) : w[i] = 0
      BY <2>3
    <2>5. EndedTime(<<>>, s, m) = 0
      BY <2>2, <2>3, <2>4, SumOfNone DEF EndedTime
    <2>6. Bound(0) \in Nat
      BY <1>4
    <2> HIDE DEF Bound
    <2>7. QED
      BY <1>3, <1>5, <2>5, <2>6
  <1>7. ASSUME NEW k \in S \cap Nat
        PROVE  k + 1 \in S
    <2>1. SUFFICES ASSUME k + 1 <= n
                   PROVE  EndedTime(K[k + 1], s, m) <= Bound(k + 1)
      BY <1>5
    <2>2. k + 1 \in 1..n /\ (k + 1) - 1 = k /\ k \in 0..n /\ k + 1 \in 0..n
      BY <2>1
    <2>3. PICK l \in Seq(OverOf(t)), u \in Seq(OverOf(t)) : l = K[k] /\ u = K[k + 1]
      BY <1>3, <2>2
    <2>4. u = IF Passed(found, q, k + 1) THEN l ELSE Append(l, Twin(q, k + 1))
      BY <1>3, <2>2, <2>3
    <2>5. EndedTime(l, s, m) <= Bound(k)
      BY <1>5, <2>1, <2>3
    <2>6. Bound(k) \in Nat /\ Bound(k + 1) \in Nat /\ Bound(k) <= Bound(k + 1)
      <3>1. \A j \in 1..k : j \in 1..k + 1
        OBVIOUS
      <3>2. Seen(k) => Seen(k + 1)
        BY <3>1
      <3> HIDE DEF Seen
      <3>3. QED
        BY <1>4, <3>2
    <2>7. EndedTime(l, s, m) \in Nat
      BY <2>3, EndedType
    <2>8. CASE Passed(found, q, k + 1)
      <3>1. EndedTime(u, s, m) = EndedTime(l, s, m)
        BY <2>4, <2>8
      <3> HIDE DEF Bound
      <3>2. QED
        BY <2>3, <2>5, <2>6, <2>7, <3>1
    <2>9. CASE ~Passed(found, q, k + 1)
      <3>1. PICK v \in OverOf(t) : v = Twin(q, k + 1)
        BY <1>1, <2>2, TwinTime
      <3>2. v.session = q[k + 1].session
        BY <1>1, <2>2, <3>1, TwinTime
      <3>3. u = l \o <<v>>
        BY <2>3, <2>4, <2>9, <3>1, AppendIsConcat
      <3>4. PICK z : z = <<v>>
        OBVIOUS
      <3>5. v \in Record /\ l \in Seq(Record)
        <4>1. OverOf(t) \subseteq Record
          BY DEF OverOf
        <4>2. QED
          BY <2>3, <4>1, SeqMonotonic
      <3>6. z \in Seq(Record) /\ EndedTime(z, s, m) = Weight(v, s, m)
        BY <3>4, <3>5, OneTime
      <3>7. EndedTime(l \o z, s, m) = EndedTime(l, s, m) + EndedTime(z, s, m)
        BY <3>5, <3>6, ConcatTime
      <3>8. EndedTime(u, s, m) = EndedTime(l, s, m) + Weight(v, s, m)
        BY <3>3, <3>4, <3>6, <3>7
      <3>9. CASE q[k + 1].session = s
        <4>1. found[s] = Nobody /\ ~ \E j \in 1..k : q[j].session = s
          BY <2>2, <2>9, <3>9 DEF Passed
        <4>2. ~Seen(k) /\ Seen(k + 1)
          BY <2>2, <3>9, <4>1
        <4>3. Bound(k) = 0 /\ Bound(k + 1) = most
          BY <4>2
        <4>4. Weight(v, s, m) <= most
          <5>1. Weight(Twin(q, k + 1), q[k + 1].session, m) <= EndedTime(q, q[k + 1].session, m)
            BY <1>1, <2>2, TwinTime
          <5>2. QED
            BY <1>4, <3>1, <3>9, <5>1
        <4>5. Weight(v, s, m) \in Nat
          BY <3>5 DEF Weight, Record
        <4> HIDE DEF Bound, Seen
        <4>6. QED
          BY <1>4, <2>3, <2>5, <2>7, <3>8, <4>3, <4>4, <4>5
      <3>10. CASE q[k + 1].session # s
        <4>1. Weight(v, s, m) = 0
          BY <3>2, <3>10 DEF Weight
        <4> HIDE DEF Bound, Seen
        <4>2. QED
          BY <2>3, <2>5, <2>6, <2>7, <3>8, <4>1
      <3>11. QED
        BY <3>9, <3>10
    <2>10. QED
      BY <2>8, <2>9
  <1>8. Nat \subseteq S
    <2> HIDE DEF Bound
    <2> QED BY <1>6, <1>7, SetInduction
  <1>9. PICK u \in Seq(OverOf(t)) : u = K[n]
    BY <1>3
  <1>10. EndedTime(u, s, m) <= Bound(n) /\ EndedTime(u, s, m) \in Nat
    BY <1>5, <1>8, <1>9, EndedType
  <1>11. EndedTime(u, s, m) <= most
    BY <1>4, <1>10
  <1>12. found[s] # Nobody => EndedTime(u, s, m) = 0
    BY <1>10
  <1>13. QED
    BY <1>1, <1>2, <1>4, <1>9, <1>11, <1>12

\* An active record that takes the time and the start of its ended twins.
Merged(r, s, q) == [r EXCEPT !.counted = r.counted + Counted(s, q),
                             !.started = Min({r.started} \cup Started(s, q))]

\* It shows no more time than all of them did.
LEMMA MergedTime ==
    ASSUME TypeOK, NEW s \in Sessions, NEW r \in ActiveOf(s, now), NEW q \in Seq(OverOf(now)),
           NEW m \in Nat
    PROVE  /\ Merged(r, s, q) \in ActiveOf(s, now)
           /\ Time(Merged(r, s, q), m, now) <= Time(r, m, now) + EndedTime(q, s, m)
  <1>1. Clock /\ now \in Nat /\ r \in Record /\ q \in Seq(Record)
    <2>1. OverOf(now) \subseteq Record
      BY DEF OverOf
    <2>2. q \in Seq(Record)
      BY <2>1, SeqMonotonic
    <2>3. QED
      BY <2>2 DEF TypeOK, Clock, ActiveOf
  <1>2. /\ r.started \in Nat /\ r.counted \in Nat /\ r.since \in Nat /\ r.last \in Nat
        /\ r.started <= now /\ r.since <= now /\ r.last <= now /\ r.session = s
    BY <1>1 DEF ActiveOf, Record
  <1>3. PICK c, b : c = r.counted + Counted(s, q) /\ b = Min({r.started} \cup Started(s, q))
    OBVIOUS
  <1>4. Counted(s, q) \in Nat /\ c \in Nat
    BY <1>1, <1>2, <1>3, CountedTime
  <1>5. b \in Nat /\ b <= r.started /\ \A x \in Started(s, q) : b <= x
    <2>1. PICK B : B = {r.started} \cup Started(s, q)
      OBVIOUS
    <2>2. B \in SUBSET Nat /\ B # {} /\ r.started \in B /\ Started(s, q) \subseteq B
      BY <1>1, <1>2, <2>1, StartedType
    <2>3. b \in B /\ \A x \in B : b <= x
      BY <1>3, <2>1, <2>2, MinIsLeast
    <2>4. QED
      BY <2>2, <2>3
  <1>6. PICK u : u = Merged(r, s, q)
    OBVIOUS
  <1>7. /\ u \in Record /\ u.session = r.session /\ u.counted = c /\ u.started = b
        /\ u.state = r.state /\ u.since = r.since /\ u.last = r.last
    <2>1. u = [r EXCEPT !.counted = c, !.started = b]
      BY <1>3, <1>6 DEF Merged
    <2>2. QED
      BY <1>1, <1>4, <1>5, <2>1 DEF Record
  <1>8. b <= now
    BY <1>1, <1>2, <1>5
  <1>9. u \in ActiveOf(s, now)
    <2>1. r.state \in {"working", "idle"} /\ (r.state = "working" <=> r.since # 0)
      BY DEF ActiveOf
    <2>2. QED
      BY <1>2, <1>7, <1>8, <2>1 DEF ActiveOf
  <1>10. EndedTime(q, s, m) \in Nat /\ Time(r, m, now) \in Nat
    BY <1>1, EndedType, TimeType
  <1>11. Time(u, m, now) <= Time(r, m, now) + EndedTime(q, s, m)
    <2>1. CASE b >= m
      <3>1. r.started >= m
        BY <1>2, <1>5, <2>1
      <3>2. \A x \in Started(s, q) : x >= m
        <4>1. Started(s, q) \in SUBSET Nat
          BY <1>1, StartedType
        <4>2. QED
          BY <1>5, <2>1, <4>1
      <3>3. Counted(s, q) = EndedTime(q, s, m)
        BY <1>1, <3>2, CountedFrom
      <3>4. Time(u, m, now) = c + IF r.since = 0 THEN 0 ELSE now - r.since
        BY <1>7, <2>1 DEF Time
      <3>5. Time(r, m, now) = r.counted + IF r.since = 0 THEN 0 ELSE now - r.since
        BY <3>1 DEF Time
      <3>6. QED
        BY <1>1, <1>2, <1>3, <1>4, <3>3, <3>4, <3>5
    <2>2. CASE ~(b >= m)
      <3>1. Time(u, m, now) = 0
        BY <1>7, <2>2 DEF Time
      <3>2. QED
        BY <1>10, <3>1
    <2>3. QED
      BY <2>1, <2>2
  <1>12. QED
    BY <1>6, <1>9, <1>11

\* What each session's ended records count once a load put some in front.
LEMMA LoadSessions ==
    ASSUME NEW out \in SUBSET Sessions, NEW over \in [out -> OverOf(now)],
           \A x \in out : over[x].session = x,
           NEW q \in Seq(OverOf(now)), NEW s, NEW m \in Nat
    PROVE  /\ Newest(SetToSeq({over[x] : x \in out}) \o q) \in Seq(OverOf(now))
           /\ s \in out => EndedTime(Newest(SetToSeq({over[x] : x \in out}) \o q), s, m)
                               <= EndedTime(q, s, m) + Weight(over[s], s, m)
           /\ s \notin out => EndedTime(Newest(SetToSeq({over[x] : x \in out}) \o q), s, m)
                                  <= EndedTime(q, s, m)
  <1>1. PICK V \in SUBSET Record : V = OverOf(now)
    BY DEF OverOf
  <1>2. PICK S \in SUBSET V : S = {over[x] : x \in out}
    BY <1>1, OverSet
  <1>3. IsFiniteSet(S) /\ \A r, u \in S : r.session = u.session => r = u
    BY <1>2, OverSet
  <1>4. q \in Seq(V) /\ q \in Seq(Record)
    BY <1>1, SeqMonotonic
  <1>5. PICK most : most = IF s \in out THEN Weight(over[s], s, m) ELSE 0
    OBVIOUS
  <1>6. most \in Nat
    BY <1>1, <1>5 DEF Weight, Record
  <1>7. \A r \in S : Weight(r, s, m) <= most
    <2>1. ASSUME NEW x \in out
          PROVE  Weight(over[x], s, m) <= most
      <3>1. CASE x = s
        BY <1>5, <1>6, <3>1
      <3>2. CASE x # s
        BY <1>6, <3>2 DEF Weight
      <3>3. QED
        BY <3>1, <3>2
    <2>2. QED
      BY <1>2, <2>1
  <1>8. PICK l : l = SetToSeq(S)
    OBVIOUS
  <1>9. l \in Seq(V) /\ EndedTime(l, s, m) <= most
    BY <1>3, <1>6, <1>7, <1>8, SetTime
  <1>10. l \in Seq(Record) /\ EndedTime(l, s, m) \in Nat /\ EndedTime(q, s, m) \in Nat
    <2>1. l \in Seq(Record)
      BY <1>9, SeqMonotonic
    <2>2. QED
      BY <1>4, <2>1, WeightsType
  <1>11. PICK u : u = l \o q
    OBVIOUS
  <1>12. u \in Seq(V) /\ EndedTime(u, s, m) = EndedTime(l, s, m) + EndedTime(q, s, m)
    BY <1>4, <1>9, <1>10, <1>11, ConcatProperties, ConcatTime
  <1>13. Newest(u) \in Seq(V) /\ EndedTime(Newest(u), s, m) <= EndedTime(u, s, m)
    BY <1>12, NewestTime
  <1>14. EndedTime(Newest(u), s, m) \in Nat
    BY <1>13, SeqMonotonic, WeightsType
  <1>15. EndedTime(Newest(u), s, m) <= EndedTime(q, s, m) + most
    BY <1>6, <1>9, <1>10, <1>12, <1>13, <1>14
  <1>16. QED
    BY <1>1, <1>2, <1>5, <1>8, <1>10, <1>11, <1>13, <1>15

\* A restart and the merging of twins add no time to any session.
LEMMA RestartFits ==
    ASSUME IInv, RestartDaemon
    PROVE  IInv'
  <1>1. /\ TypeOK /\ Clock /\ now \in Nat /\ now <= now /\ now' = now
        /\ \A m \in 0..now : m \in Nat
    BY DEF IInv, TypeOK, Clock, RestartDaemon
  <1>2. PICK found \in SUBSET Sessions : found = {s \in Sessions : IsActive(s)}
    OBVIOUS
  <1>3. PICK restored : restored = [s \in found |->
                          IF active[s].state = "working" THEN StartActive(active[s])
                          ELSE StopActive(active[s], active[s].last)]
    OBVIOUS
  <1>4. PICK died \in SUBSET found : died = {s \in found : Died(s)}
    OBVIOUS
  <1>5. PICK q : q = Newest(SetToSeq({Over(restored[s], now) : s \in died}) \o ended)
    OBVIOUS
  <1>6. PICK live : live = [s \in Sessions |-> IF s \in found \ died THEN restored[s] ELSE Nobody]
    OBVIOUS
  <1>7. active' = MergeTwins(live, q).active /\ ended' = MergeTwins(live, q).ended
    BY <1>2, <1>3, <1>4, <1>5, <1>6 DEF RestartDaemon
  <1>8. \A s \in found : active[s] \in ActiveOf(s, now) /\ active[s] \in Record /\ active[s] # Nobody
    BY <1>1, <1>2 DEF TypeOK, IsActive, ActiveOf
  <1>9. ASSUME NEW s \in found
        PROVE  restored[s] = active[s]
    <2>1. PICK r \in ActiveOf(s, now) : r = active[s]
      BY <1>8
    <2>2. r \in Record /\ (r.state = "working" <=> r.since # 0)
      BY <2>1 DEF ActiveOf
    <2>3. CASE r.since = 0
      BY <1>3, <2>1, <2>2, <2>3 DEF StopActive
    <2>4. CASE r.since # 0
      <3>1. [r EXCEPT !.since = r.since] = r
        BY <2>2 DEF Record
      <3>2. StartActive(r) = r
        BY <2>4, <3>1 DEF StartActive
      <3>3. QED
        BY <1>3, <2>1, <2>2, <2>4, <3>2
    <2>5. QED
      BY <2>3, <2>4
  <1>10. ended \in Seq(OverOf(now))
    BY <1>1 DEF TypeOK
  <1>11. PICK over : over = [x \in died |-> Over(active[x], now)]
    OBVIOUS
  <1>12. ASSUME NEW x \in died, NEW m \in 0..now
         PROVE  /\ over[x] \in OverOf(now) /\ over[x].session = x
                /\ Weight(over[x], x, m) \in Nat
                /\ Weight(over[x], x, m) <= Time(active[x], m, now)
    <2>1. over[x] = Over(active[x], now)
      BY <1>11
    <2>2. x \in Sessions /\ active[x] \in ActiveOf(x, now) /\ m \in Nat
      BY <1>1, <1>8
    <2>3. /\ Over(active[x], now) \in OverOf(now) /\ Over(active[x], now).session = x
          /\ Weight(Over(active[x], now), x, m) \in Nat
          /\ Weight(Over(active[x], now), x, m) <= Time(active[x], m, now)
      BY <1>1, <2>2, OverRecord
    <2>4. QED
      BY <2>1, <2>3
  <1>13. over \in [died -> OverOf(now)] /\ died \in SUBSET Sessions
         /\ \A x \in died : over[x].session = x
    <2>1. 0 \in 0..now
      BY <1>1
    <2>2. \A x \in died : over[x] \in OverOf(now) /\ over[x].session = x
      BY <1>12, <2>1
    <2>3. QED
      BY <1>11, <2>2
  <1>14. q = Newest(SetToSeq({over[x] : x \in died}) \o ended)
    <2>1. \A x \in died : over[x] = Over(restored[x], now)
      BY <1>9, <1>11
    <2>2. {over[x] : x \in died} = {Over(restored[x], now) : x \in died}
      BY <2>1
    <2>3. QED
      BY <1>5, <2>2
  <1>15. ASSUME NEW s, NEW m \in 0..now
         PROVE  /\ q \in Seq(OverOf(now))
                /\ EndedTime(q, s, m) \in Nat /\ EndedTime(ended, s, m) \in Nat
                /\ s \in died =>
                     EndedTime(q, s, m) <= EndedTime(ended, s, m) + Time(active[s], m, now)
                /\ s \notin died => EndedTime(q, s, m) <= EndedTime(ended, s, m)
    <2>1. m \in Nat
      BY <1>1
    <2>2. /\ q \in Seq(OverOf(now))
          /\ s \in died => EndedTime(q, s, m) <= EndedTime(ended, s, m) + Weight(over[s], s, m)
          /\ s \notin died => EndedTime(q, s, m) <= EndedTime(ended, s, m)
      BY <1>10, <1>13, <1>14, <2>1, LoadSessions
    <2>3. EndedTime(q, s, m) \in Nat /\ EndedTime(ended, s, m) \in Nat
      BY <1>10, <2>1, <2>2, EndedType
    <2>4. s \in died => Time(active[s], m, now) \in Nat
      BY <1>1, <1>8, <2>1, TimeType
    <2>5. QED
      BY <1>12, <2>2, <2>3, <2>4
  <1>16. q \in Seq(OverOf(now)) /\ 0 \in 0..now
    <2>1. 0 \in 0..now
      BY <1>1
    <2>2. QED
      BY <1>15, <2>1
  <1>17. ended' = Kept(live, q)[Len(q)]
    BY <1>7 DEF MergeTwins
  <1>18. ASSUME NEW s, NEW m \in 0..now
         PROVE  /\ ended' \in Seq(OverOf(now))
                /\ EndedTime(ended', s, m) <= EndedTime(q, s, m)
                /\ live[s] # Nobody => EndedTime(ended', s, m) = 0
                /\ EndedTime(ended', s, m) \in Nat
    <2>1. m \in Nat
      BY <1>1
    <2>2. /\ ended' \in Seq(OverOf(now))
          /\ EndedTime(ended', s, m) <= EndedTime(q, s, m)
          /\ live[s] # Nobody => EndedTime(ended', s, m) = 0
      BY <1>1, <1>16, <1>17, <2>1, KeptTime
    <2>3. QED
      BY <2>1, <2>2, EndedType
  <1>19. ended' \in Seq(OverOf(now))
    BY <1>16, <1>18
  <1>20. active' = [s \in Sessions |->
                      IF live[s] = Nobody THEN Nobody ELSE Merged(live[s], s, q)]
    BY <1>7 DEF MergeTwins, Merged
  <1>21. ASSUME NEW s \in found \ died
         PROVE  /\ active'[s] = Merged(active[s], s, q) /\ live[s] # Nobody
                /\ active'[s] \in ActiveOf(s, now)
                /\ \A m \in 0..now :
                     Time(active'[s], m, now) <= Time(active[s], m, now) + EndedTime(q, s, m)
    <2>1. live[s] = active[s] /\ active[s] # Nobody
      BY <1>6, <1>8, <1>9
    <2>2. active'[s] = Merged(active[s], s, q)
      BY <1>20, <2>1
    <2>3. ASSUME NEW m \in 0..now
          PROVE  /\ Merged(active[s], s, q) \in ActiveOf(s, now)
                 /\ Time(Merged(active[s], s, q), m, now)
                        <= Time(active[s], m, now) + EndedTime(q, s, m)
      BY <1>1, <1>8, <1>16, MergedTime
    <2>4. QED
      BY <1>16, <2>1, <2>2, <2>3
  <1>22. ASSUME NEW s \in Sessions, s \notin found \ died
         PROVE  active'[s] = Nobody
    BY <1>6, <1>20, <1>22
  <1>23. ASSUME NEW s \in Sessions
         PROVE  active'[s] \in ActiveOf(s, now) \cup {Nobody}
    BY <1>21, <1>22
  <1>24. active' \in [Sessions -> Record \cup {Nobody}]
    <2>1. \A s \in Sessions : active'[s] \in Record \cup {Nobody}
      BY <1>23 DEF ActiveOf
    <2>2. QED
      BY <1>20, <2>1
  <1>25. ASSUME NEW s \in Sessions, NEW m \in 0..now
         PROVE  EndedTime(ended', s, m) + Spent(active'[s], m, now)
                    <= EndedTime(ended, s, m) + Spent(active[s], m, now)
    <2>1. /\ m \in Nat /\ EndedTime(ended', s, m) \in Nat
          /\ EndedTime(q, s, m) \in Nat /\ EndedTime(ended, s, m) \in Nat
          /\ Spent(active[s], m, now) \in Nat
      BY <1>1, <1>15, <1>18, SpentType
    <2>2. CASE s \in found \ died
      <3>1. Spent(active'[s], m, now) = Time(active'[s], m, now)
        BY <1>21, <2>2, NobodyIsNoRecord DEF Spent
      <3>2. Spent(active[s], m, now) = Time(active[s], m, now)
        BY <1>8, <2>2 DEF Spent
      <3>3. EndedTime(ended', s, m) = 0
        BY <1>18, <1>21, <2>2
      <3>4. EndedTime(q, s, m) <= EndedTime(ended, s, m)
        BY <1>15, <2>2
      <3>5. Time(active'[s], m, now) \in Nat
        BY <1>1, <1>21, <2>1, <2>2, TimeType
      <3>6. Time(active'[s], m, now) <= Time(active[s], m, now) + EndedTime(q, s, m)
        BY <1>21, <2>2
      <3>7. QED
        BY <2>1, <3>1, <3>2, <3>3, <3>4, <3>5, <3>6
    <2>3. CASE s \notin found \ died
      <3>1. Spent(active'[s], m, now) = 0
        BY <1>22, <2>3 DEF Spent
      <3>2. EndedTime(ended', s, m) <= EndedTime(q, s, m)
        BY <1>18
      <3>3. CASE s \in died
        <4>1. Spent(active[s], m, now) = Time(active[s], m, now)
          BY <1>8, <3>3 DEF Spent
        <4>2. EndedTime(q, s, m) <= EndedTime(ended, s, m) + Time(active[s], m, now)
          BY <1>15, <3>3
        <4>3. QED
          BY <2>1, <3>1, <3>2, <4>1, <4>2
      <3>4. CASE s \notin died
        <4>1. EndedTime(q, s, m) <= EndedTime(ended, s, m)
          BY <1>15, <3>4
        <4>2. QED
          BY <2>1, <3>1, <3>2, <4>1
      <3>5. QED
        BY <3>3, <3>4
    <2>4. QED
      BY <2>2, <2>3
  <1>26. NoMore(active', ended')
    BY <1>19, <1>23, <1>24, <1>25 DEF NoMore
  <1>27. QED
    BY <1>1, <1>26, NoMoreTime
-----------------------------------------------------------------------------
(***************************************************************************)
(* Every step, and the properties                                          *)
(***************************************************************************)

\* A second goes by: a session that works counts it, and none counts more.
LEMMA SecondPasses ==
    ASSUME IInv, Second
    PROVE  IInv'
  <1>1. /\ TypeOK /\ TimeBound /\ Clock /\ now \in Nat /\ now # 0
        /\ now' = now + 1 /\ active' = active /\ ended' = ended
    BY DEF IInv, TypeOK, Clock, Second
  <1>2. PICK t \in Nat : t = now + 1
    BY <1>1
  <1>3. t # 0 /\ now <= t
    BY <1>1, <1>2
  <1>4. OverOf(now) \subseteq OverOf(t)
    <2>1. \A r \in Record : r.started \in Nat
      BY DEF Record
    <2>2. QED
      BY <1>1, <1>3, <2>1 DEF OverOf
  <1>5. ended \in Seq(OverOf(t))
    <2>1. ended \in Seq(OverOf(now))
      BY <1>1 DEF TypeOK
    <2>2. QED
      BY <1>4, <2>1, SeqMonotonic
  <1>6. ASSUME NEW s \in Sessions
        PROVE  active[s] \in ActiveOf(s, t) \cup {Nobody}
    <2>1. CASE active[s] = Nobody
      BY <2>1
    <2>2. CASE active[s] # Nobody
      <3>1. PICK r \in ActiveOf(s, now) : r = active[s]
        BY <1>1, <2>2 DEF TypeOK
      <3>2. r.started \in Nat /\ r.since \in Nat /\ r.last \in Nat
        BY DEF ActiveOf, Record
      <3>3. r \in ActiveOf(s, t)
        BY <1>1, <1>3, <3>2 DEF ActiveOf
      <3>4. QED
        BY <3>1, <3>3
    <2>3. QED
      BY <2>1, <2>2
  <1>7. active \in [Sessions -> Record \cup {Nobody}]
    BY <1>1 DEF TypeOK
  <1>8. TypeOK'
    BY <1>1, <1>2, <1>3, <1>5, <1>6, <1>7 DEF TypeOK, Clock
  <1>9. ASSUME NEW s \in Sessions, NEW m \in 0..t
        PROVE  EndedTime(ended, s, m) + Spent(active[s], m, t) <= t - m
    <2>1. m \in Nat /\ ended \in Seq(OverOf(now))
      BY <1>1 DEF TypeOK
    <2>2. EndedTime(ended, s, m) \in Nat
      BY <2>1, EndedType
    <2>3. CASE m \in 0..now
      <3>1. EndedTime(ended, s, m) + Spent(active[s], m, now) <= now - m
        BY <1>1, <2>3 DEF TimeBound
      <3>2. Spent(active[s], m, now) \in Nat
        BY <1>1, <2>1, SpentType
      <3>3. Spent(active[s], m, t) \in Nat /\ Spent(active[s], m, t) <= Spent(active[s], m, now) + 1
        <4>1. CASE active[s] = Nobody
          BY <4>1 DEF Spent
        <4>2. CASE active[s] # Nobody
          <5>1. PICK r \in ActiveOf(s, now) : r = active[s]
            BY <1>1, <4>2 DEF TypeOK
          <5>2. r.started \in Nat /\ r.since \in Nat /\ r.counted \in Nat /\ r.since <= now
            BY DEF ActiveOf, Record
          <5>3. Time(r, m, t) \in Nat /\ Time(r, m, t) <= Time(r, m, now) + 1
            BY <1>1, <1>2, <2>1, <5>2 DEF Time
          <5>4. QED
            BY <4>2, <5>1, <5>3 DEF Spent
        <4>3. QED
          BY <4>1, <4>2
      <3>4. QED
        BY <1>1, <1>2, <2>1, <2>2, <3>1, <3>2, <3>3
    <2>4. CASE m \notin 0..now
      <3>1. m = t
        BY <1>1, <1>2, <2>1, <2>4
      <3>2. EndedTime(ended, s, m) = 0
        <4>1. PICK w : w = Weights(ended, s, m)
          OBVIOUS
        <4>2. ended \in Seq(Record) /\ \A i \in 1..Len(ended) : ended[i] \in OverOf(now)
          <5>1. OverOf(now) \subseteq Record
            BY DEF OverOf
          <5>2. QED
            BY <2>1, <5>1, SeqMonotonic
        <4>3. /\ w \in Seq(Nat) /\ Len(w) = Len(ended)
              /\ \A i \in 1..Len(ended) : w[i] = Weight(ended[i], s, m)
          BY <2>1, <4>1, <4>2, WeightsType
        <4>4. \A r \in OverOf(now) : Weight(r, s, m) = 0
          <5>1. \A r \in OverOf(now) : r.started \in Nat /\ r.started <= now
            BY DEF OverOf, Record
          <5>2. \A r \in OverOf(now) : ~(r.started >= m)
            BY <1>1, <1>2, <3>1, <5>1
          <5>3. QED
            BY <5>2 DEF Weight
        <4>5. \A i \in 1..Len(w) : w[i] = 0
          BY <4>2, <4>3, <4>4
        <4>6. QED
          BY <4>1, <4>3, <4>5, SumOfNone DEF EndedTime
      <3>3. Spent(active[s], m, t) = 0
        <4>1. CASE active[s] = Nobody
          BY <4>1 DEF Spent
        <4>2. CASE active[s] # Nobody
          <5>1. PICK r \in ActiveOf(s, now) : r = active[s]
            BY <1>1, <4>2 DEF TypeOK
          <5>2. r.started \in Nat /\ r.started <= now
            BY DEF ActiveOf, Record
          <5>3. ~(r.started >= m)
            BY <1>1, <1>2, <3>1, <5>2
          <5>4. QED
            BY <4>2, <5>1, <5>3 DEF Spent, Time
        <4>3. QED
          BY <4>1, <4>2
      <3>4. QED
        BY <3>1, <3>2, <3>3
    <2>5. QED
      BY <2>3, <2>4
  <1>10. TimeBound'
    BY <1>1, <1>2, <1>9 DEF TimeBound
  <1>11. QED
    BY <1>8, <1>10 DEF IInv

\* The registry starts empty.
LEMMA RegistryStarts ==
    ASSUME RegistryInit
    PROVE  IInv
  <1>1. TypeOK
    <2>1. now = 1 /\ active = [s \in Sessions |-> Nobody] /\ ended = <<>>
      BY DEF RegistryInit
    <2>2. <<>> \in Seq(OverOf(now))
      OBVIOUS
    <2>3. QED
      BY <2>1, <2>2 DEF TypeOK, Clock
  <1>2. ASSUME NEW s \in Sessions, NEW m \in 0..now
        PROVE  EndedTime(ended, s, m) + Spent(active[s], m, now) <= now - m
    <2>1. now = 1 /\ active[s] = Nobody /\ ended = <<>> /\ m \in Nat /\ m <= 1
      BY DEF RegistryInit
    <2>2. PICK w : w = Weights(<<>>, s, m)
      OBVIOUS
    <2>3. w \in Seq(Nat) /\ Len(w) = 0
      <3>1. <<>> \in Seq(Record)
        OBVIOUS
      <3>2. QED
        BY <2>1, <2>2, <3>1, WeightsType
    <2>4. \A i \in 1..Len(w) : w[i] = 0
      BY <2>3
    <2>5. EndedTime(<<>>, s, m) = 0
      BY <2>2, <2>3, <2>4, SumOfNone DEF EndedTime
    <2>6. Spent(active[s], m, now) = 0
      BY <2>1 DEF Spent
    <2>7. EndedTime(ended, s, m) = 0
      BY <2>1, <2>5
    <2>8. QED
      BY <2>1, <2>6, <2>7
  <1>3. QED
    BY <1>1, <1>2 DEF IInv, TimeBound

\* Every step keeps the invariant.
LEMMA RegistrySteps ==
    ASSUME IInv, [RegistryNext]_registryVars
    PROVE  IInv'
  <1>1. TypeOK /\ TimeBound
    BY DEF IInv
  <1>2. ASSUME NEW s \in Sessions, NEW event \in Events, NEW p \in Pids \cup {Nobody},
               Event(s, event, p)
        PROVE  IInv'
    <2>1. now' = now /\ ApplyEvent(s, event, p)
      BY <1>2 DEF Event, world
    <2>2. QED
      BY <2>1, EventFits
  <1>3. ASSUME NEW s \in Sessions, NEW p \in Pids \cup {Nobody}, SetTool(s, p)
        PROVE  IInv'
    BY <1>3, SetToolFits
  <1>4. ASSUME NEW s \in Sessions, ForceIdle(s)
        PROVE  IInv'
    BY <1>4, ForceIdleFits
  <1>5. ASSUME NEW s \in Sessions, Ask(s)
        PROVE  IInv'
    <2>1. now' = now /\ (UpsertWorking(s, Nobody) \/ TouchActivity(s, Nobody))
      BY <1>5 DEF Ask, world
    <2>2. Nobody \in Pids \cup {Nobody}
      OBVIOUS
    <2>3. QED
      BY <2>1, <2>2, QuestionFits
  <1>6. ASSUME NEW s \in Sessions, NEW p \in Pids, Resolve(s, p)
        PROVE  IInv'
    <2>1. now' = now /\ (UpsertWorking(s, p) \/ TouchActivity(s, p))
      BY <1>6 DEF Resolve, world
    <2>2. p \in Pids \cup {Nobody}
      OBVIOUS
    <2>3. QED
      BY <2>1, <2>2, QuestionFits
  <1>7. ASSUME NEW p \in Pids, AskByPid(p)
        PROVE  IInv'
    BY <1>7, AskByPidFits
  <1>8. ASSUME now' = now, active' = active, ended' = ended
        PROVE  IInv'
    BY <1>1, <1>8 DEF IInv, TypeOK, TimeBound, Clock
  <1>9. ASSUME NEW p \in Pids, ProcessEnds(p)
        PROVE  IInv'
    BY <1>8, <1>9 DEF ProcessEnds
  <1>10. ASSUME NEW ss, NEW ps, QuestionsEnd(ss, ps)
         PROVE  IInv'
    BY <1>8, <1>10 DEF QuestionsEnd, world
  <1>11. CASE LivenessTick
    BY <1>11, SweepFits
  <1>12. CASE RestartDaemon
    BY <1>12, RestartFits
  <1>13. CASE Second
    BY <1>13, SecondPasses
  <1>14. CASE UNCHANGED registryVars
    BY <1>8, <1>14 DEF registryVars
  <1>15. QED
    BY <1>2, <1>3, <1>4, <1>5, <1>6, <1>7, <1>9, <1>10, <1>11, <1>12, <1>13, <1>14
       DEF RegistryNext

\* The variables the records do not depend on.
CallersOK ==
    /\ dead \subseteq Pids /\ askers \subseteq Pids
    /\ asking \subseteq Callers /\ resolving \subseteq Callers
    /\ restarts \in 0..MaxRestarts

\* The questions in flight are those of callers, and of processes, that there are.
THEOREM CallersHold == RegistrySpec => []CallersOK
  <1>1. RegistryInit => CallersOK
    <2>1. MaxRestarts \in Nat
      BY RegistryAssumption
    <2>2. QED
      BY <2>1 DEF RegistryInit, CallersOK
  <1>2. CallersOK /\ [RegistryNext]_registryVars => CallersOK'
    <2> SUFFICES ASSUME CallersOK, [RegistryNext]_registryVars
                 PROVE  CallersOK'
      OBVIOUS
    <2>1. CASE UNCHANGED <<dead, askers, asking, resolving, restarts>>
      BY <2>1 DEF CallersOK
    <2>2. ASSUME NEW s \in Sessions, Ask(s)
          PROVE  CallersOK'
      BY <2>2 DEF CallersOK, Ask, world
    <2>3. ASSUME NEW s \in Sessions, NEW p \in Pids, Resolve(s, p)
          PROVE  CallersOK'
      BY <2>3 DEF CallersOK, Resolve, world
    <2>4. ASSUME NEW p \in Pids, AskByPid(p) \/ ProcessEnds(p)
          PROVE  CallersOK'
      BY <2>4 DEF CallersOK, AskByPid, ProcessEnds, world, callers
    <2>5. ASSUME NEW ss, NEW ps, QuestionsEnd(ss, ps)
          PROVE  CallersOK'
      BY <2>5 DEF CallersOK, QuestionsEnd, world
    <2>6. CASE RestartDaemon
      <3>1. /\ restarts < MaxRestarts /\ restarts' = restarts + 1
            /\ asking' = {} /\ askers' = {} /\ resolving' = {} /\ dead' = dead
        BY <2>6 DEF RestartDaemon
      <3>2. MaxRestarts \in Nat
        BY RegistryAssumption
      <3>3. QED
        BY <3>1, <3>2 DEF CallersOK
    <2>7. ASSUME NEW s \in Sessions, NEW event \in Events, NEW p \in Pids \cup {Nobody},
                 Event(s, event, p) \/ SetTool(s, p) \/ ForceIdle(s)
          PROVE  UNCHANGED <<dead, askers, asking, resolving, restarts>>
      BY <2>7 DEF Event, SetTool, ForceIdle, callers, world
    <2>8. ASSUME LivenessTick \/ Second \/ UNCHANGED registryVars
          PROVE  UNCHANGED <<dead, askers, asking, resolving, restarts>>
      BY <2>8 DEF LivenessTick, Second, registryVars, callers, world
    <2>9. QED
      <3>1. CASE \E s \in Sessions, event \in Events, p \in Pids \cup {Nobody} : Event(s, event, p)
        BY <2>1, <2>7, <3>1
      <3>2. CASE \E s \in Sessions, p \in Pids \cup {Nobody} : SetTool(s, p)
        <4>1. "activity" \in Events
          BY DEF Events
        <4>2. QED
          BY <2>1, <2>7, <3>2, <4>1
      <3>3. CASE \E s \in Sessions : ForceIdle(s)
        <4>1. "activity" \in Events /\ Nobody \in Pids \cup {Nobody}
          BY DEF Events
        <4>2. QED
          BY <2>1, <2>7, <3>3, <4>1
      <3>4. QED
        BY <2>1, <2>2, <2>3, <2>4, <2>5, <2>6, <2>8, <3>1, <3>2, <3>3 DEF RegistryNext
  <1>3. QED
    BY <1>1, <1>2, PTL DEF RegistrySpec

\* The invariant of the registry: what its records are, and that no session counted, from
\* any moment on, more time than went by.
THEOREM InvariantHolds == RegistrySpec => []IInv
  <1>1. RegistryInit => IInv
    BY RegistryStarts
  <1>2. IInv /\ [RegistryNext]_registryVars => IInv'
    BY RegistrySteps
  <1>3. QED
    BY <1>1, <1>2, PTL DEF RegistrySpec

\* Time is being counted for exactly the sessions that are shown as working, whatever
\* order hooks, questions, the tick and restarts come in.
THEOREM TimedWhileWorking == RegistrySpec => []WorkingIsTimed
  <1>1. IInv => WorkingIsTimed
    <2>1. SUFFICES ASSUME IInv
                   PROVE  WorkingIsTimed
      OBVIOUS
    <2>2. TypeOK
      BY <2>1 DEF IInv
    <2>3. ASSUME NEW s \in Sessions, IsActive(s)
          PROVE  /\ active[s].state \in {"working", "idle"}
                 /\ active[s].state = "working" <=> active[s].since # 0
      <3>1. active[s] \in ActiveOf(s, now)
        BY <2>2, <2>3 DEF TypeOK, IsActive
      <3>2. QED
        BY <3>1 DEF ActiveOf
    <2>4. ASSUME NEW i \in DOMAIN ended
          PROVE  ended[i].state = "ended" /\ ended[i].since = 0
      <3>1. ended[i] \in OverOf(now)
        BY <2>2 DEF TypeOK
      <3>2. QED
        BY <3>1 DEF OverOf
    <2>5. QED
      BY <2>3, <2>4 DEF WorkingIsTimed
  <1>2. QED
    BY <1>1, InvariantHolds, PTL

\* The active time shown for a session is no more than the time since it started: no
\* interval is counted twice, by no order of ends, revivals, restarts and merged twins.
THEOREM CountedOnce == RegistrySpec => []NoTimeCountedTwice
  <1>1. IInv => NoTimeCountedTwice
    <2>1. SUFFICES ASSUME IInv, NEW s \in Sessions, Starts(s) # {}
                   PROVE  Counted(s, ended) + (IF IsActive(s) THEN active[s].counted ELSE 0)
                              + Running(s) <= now - Min(Starts(s))
      BY DEF NoTimeCountedTwice
    <2>2. TypeOK /\ TimeBound /\ Clock /\ now \in Nat /\ ended \in Seq(OverOf(now))
      BY <2>1 DEF IInv, TypeOK, Clock
    <2>3. /\ ended \in Seq(Record)
          /\ \A i \in DOMAIN ended : ended[i].started \in Nat /\ ended[i].started <= now
      <3>1. OverOf(now) \subseteq Record
        BY DEF OverOf
      <3>2. \A r \in OverOf(now) : r.started \in Nat /\ r.started <= now
        BY DEF OverOf, Record
      <3>3. \A i \in DOMAIN ended : ended[i] \in OverOf(now)
        BY <2>2
      <3>4. QED
        BY <2>2, <3>1, <3>2, <3>3, SeqMonotonic
    <2>4. active[s] # Nobody =>
            /\ active[s] \in ActiveOf(s, now)
            /\ active[s].started \in Nat /\ active[s].started <= now
      <3>1. active[s] # Nobody => active[s] \in ActiveOf(s, now)
        BY <2>2 DEF TypeOK
      <3>2. QED
        BY <3>1 DEF ActiveOf, Record
    <2>5. Starts(s) \in SUBSET Nat /\ \A x \in Starts(s) : x <= now
      <3>1. \A x \in Started(s, ended) : x \in Nat /\ x <= now
        BY <2>3 DEF Started
      <3>2. QED
        BY <2>4, <3>1 DEF Starts, IsActive
    <2>6. PICK m : m = Min(Starts(s))
      OBVIOUS
    <2>7. m \in Starts(s) /\ \A x \in Starts(s) : m <= x
      BY <2>1, <2>5, <2>6, MinIsLeast
    <2>8. m \in Nat /\ m \in 0..now
      BY <2>2, <2>5, <2>7
    <2>9. Counted(s, ended) = EndedTime(ended, s, m)
      <3>1. ASSUME NEW x \in Started(s, ended)
            PROVE  x >= m
        <4>1. x \in Starts(s)
          BY DEF Starts
        <4>2. x \in Nat /\ m <= x
          BY <2>5, <2>7, <4>1
        <4>3. QED
          BY <2>8, <4>2
      <3>2. QED
        BY <2>3, <2>8, <3>1, CountedFrom
    <2>10. EndedTime(ended, s, m) + Spent(active[s], m, now) <= now - m
      BY <2>2, <2>8 DEF TimeBound
    <2>11. CASE active[s] = Nobody
      <3>1. Spent(active[s], m, now) = 0 /\ Running(s) = 0
            /\ (IF IsActive(s) THEN active[s].counted ELSE 0) = 0
        BY <2>11 DEF Spent, Running, IsActive
      <3>2. EndedTime(ended, s, m) \in Nat
        BY <2>2, <2>8, EndedType
      <3>3. QED
        BY <2>6, <2>9, <2>10, <3>1, <3>2
    <2>12. CASE active[s] # Nobody
      <3>1. PICK r \in ActiveOf(s, now) : r = active[s]
        BY <2>4, <2>12
      <3>2. r.counted \in Nat /\ r.since \in Nat /\ r.since <= now
        BY DEF ActiveOf, Record
      <3>3. active[s].started \in Starts(s)
        BY <2>12 DEF Starts, IsActive
      <3>4. r.started \in Nat /\ r.started >= m
        BY <2>5, <2>7, <2>8, <3>1, <3>3
      <3>5. Spent(active[s], m, now) = r.counted + IF r.since = 0 THEN 0 ELSE now - r.since
        BY <2>12, <3>1, <3>4 DEF Spent, Time
      <3>6. Running(s) = IF r.since = 0 THEN 0 ELSE now - r.since
        BY <2>12, <3>1 DEF Running, IsActive
      <3>7. (IF IsActive(s) THEN active[s].counted ELSE 0) = r.counted
        BY <2>12, <3>1 DEF IsActive
      <3>8. EndedTime(ended, s, m) \in Nat
        BY <2>2, <2>8, EndedType
      <3>9. PICK run : run = IF r.since = 0 THEN 0 ELSE now - r.since
        OBVIOUS
      <3>10. run \in Nat
        BY <2>2, <3>2, <3>9
      <3>11. EndedTime(ended, s, m) + (r.counted + run) <= now - m
        BY <2>10, <3>5, <3>9
      <3>12. (EndedTime(ended, s, m) + r.counted) + run <= now - m
        BY <2>2, <2>8, <3>2, <3>8, <3>10, <3>11
      <3>13. QED
        BY <2>6, <2>9, <3>6, <3>7, <3>9, <3>12
    <2>13. QED
      BY <2>11, <2>12
  <1>2. QED
    BY <1>1, InvariantHolds, PTL

\* The tick neither takes a waiting agent for idle nor ends it while its process lives.
WaitingStays ==
    LivenessTick => \A s \in Sessions : Asked(s) /\ IsActive(s) /\ ~Died(s) =>
        active'[s] # Nobody /\ active'[s].state = active[s].state

\* An agent that waits for a person's answer stays working through every liveness tick,
\* however long the answer takes: what the tick refreshes comes before what it ends.
THEOREM WaitingAgentsStay == RegistrySpec => WaitingAgentStaysWorking
  <1>1. IInv => WaitingStays
    <2>1. SUFFICES ASSUME IInv, LivenessTick, NEW s \in Sessions,
                          Asked(s), IsActive(s), ~Died(s)
                   PROVE  active'[s] # Nobody /\ active'[s].state = active[s].state
      BY DEF WaitingStays
    <2>2. TypeOK /\ now \in Nat /\ TtlSecs \in Nat /\ BackstopSecs \in Nat
      BY <2>1, RegistryAssumption DEF IInv, TypeOK, Clock
    <2>3. PICK last : last = [x \in Sessions |-> LastActivity(x)]
      OBVIOUS
    <2>4. last[s] = now /\ Sweep(last)
      BY <2>1, <2>3 DEF LastActivity, LivenessTick
    <2>5. ~Silent(s, last[s]) /\ ~Stuck(s, last[s])
      BY <2>2, <2>4 DEF Silent, Stuck
    <2>6. active'[s] = [active[s] EXCEPT !.last = now]
      BY <2>1, <2>4, <2>5 DEF Sweep
    <2>7. active[s] \in Record
      BY <2>1, <2>2 DEF TypeOK, IsActive
    <2>8. active'[s] \in Record /\ active'[s].state = active[s].state
      BY <2>2, <2>6, <2>7 DEF Record
    <2>9. QED
      BY <2>8, NobodyIsNoRecord
  <1>2. RegistrySpec => [][WaitingStays]_registryVars
    BY <1>1, InvariantHolds, PTL
  <1>3. WaitingAgentStaysWorking <=> [][WaitingStays]_registryVars
    BY DEF WaitingAgentStaysWorking, WaitingStays
  <1>4. QED
    BY <1>2, <1>3
=============================================================================
