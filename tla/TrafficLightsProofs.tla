-------------------------- MODULE TrafficLightsProofs ----------------------------
(***************************************************************************)
(* Proofs about a traffic light controller, for every cycle and every set  *)
(* of buses: the plan and the dates that Update, a reading, a snapshot or  *)
(* a restore leaves are those of the mode (IInv), so that each sequence    *)
(* that is looked for is found.  On that rest movements that cross, which  *)
(* are not allowed together, the green that the buses find (LeadInv), the  *)
(* return to the cycle (ReturnInv) and the next green announced.           *)
(*                                                                         *)
(* The hypotheses are about the cycle and the lines, and come with the     *)
(* theorems that need them: TotalPriority (a shared sequence may make a    *)
(* plan whose cycle is not positive), ExactTicks, LongGreens, NoDelays.    *)
(***************************************************************************)
EXTENDS TrafficLights, SequenceTheorems, FiniteSetTheorems, Induction

Sequence == [len : Int, signals : Seq(Signals)]

--------------------------------------------------------------------------------
(* Plans and sequences *)

\* The ends of the sequences of a plan, each after the one before but for endless ones.
LEMMA Ends ==
    ASSUME NEW seqs \in Seq(Sequence)
    PROVE  /\ EndOf(seqs) \in [0 .. Len(seqs) -> Int]
           /\ EndOf(seqs)[0] = 0
           /\ \A i \in 1 .. Len(seqs) :
                 EndOf(seqs)[i] = IF seqs[i].len = Endless THEN Endless
                                  ELSE EndOf(seqs)[i - 1] + seqs[i].len
<1> DEFINE n == Len(seqs)
           D(f) == f = [i \in 0 .. n |->
                      IF i = 0 THEN 0
                      ELSE IF seqs[i].len = Endless THEN Endless ELSE f[i - 1] + seqs[i].len]
           step == [i \in 1 .. n |-> [v \in Int |->
                      IF seqs[i].len = Endless THEN Endless ELSE v + seqs[i].len]]
<1>1. n \in Nat /\ \A i \in 1 .. n : seqs[i].len \in Int
  <2>1. n \in Nat
    BY LenProperties
  <2>2. \A i \in 1 .. n : seqs[i] \in Sequence
    BY ElementOfSeq
  <2> HIDE DEF n
  <2> QED
    BY <2>1, <2>2 DEF Sequence
<1>2. Endless \in Int
  BY DEF Endless
<1>3. step \in [1 .. n -> [Int -> Int]]
  <2> HIDE DEF n
  <2> QED
    BY <1>1, <1>2
<1>4. PICK f \in [0 .. n -> Int] : f[0] = 0 /\ \A i \in 1 .. n : f[i] = step[i][f[i - 1]]
  <2> DEFINE zero == 0
  <2>1. n \in Nat /\ zero \in Int
    BY <1>1
  <2>2. Recursive(n, Int, zero, step)
    <3> HIDE DEF n, step, zero
    <3> QED
      BY <1>3, <2>1, Recursion
  <2> HIDE DEF n, step
  <2> QED
    BY <2>2 DEF Recursive
<1>5. D(f)
  <2>1. \A i \in 1 .. n : step[i][f[i - 1]] =
           IF seqs[i].len = Endless THEN Endless ELSE f[i - 1] + seqs[i].len
    <3> TAKE i \in 1 .. n
    <3>1. f[i - 1] \in Int
      <4> HIDE DEF n, step
      <4> QED
        BY <1>1
    <3> HIDE DEF n
    <3> QED
      BY <3>1
  <2>2. f = [i \in 0 .. n |-> f[i]]
    OBVIOUS
  <2>3. \A i \in 0 .. n : f[i] = IF i = 0 THEN 0
           ELSE IF seqs[i].len = Endless THEN Endless ELSE f[i - 1] + seqs[i].len
    <3> HIDE DEF n, step
    <3> QED
      BY <1>1, <1>4, <2>1
  <2> HIDE DEF n, step
  <2> QED
    BY <2>2, <2>3
<1>6. EndOf(seqs) = CHOOSE g : D(g)
  BY DEF EndOf
<1>7. D(EndOf(seqs))
  <2> HIDE DEF D
  <2> QED
    BY <1>5, <1>6
<1> DEFINE e == EndOf(seqs)
<1>8. \A g : D(g) => /\ g \in [0 .. n -> Int] /\ g[0] = 0
                     /\ \A i \in 1 .. n : g[i] = IF seqs[i].len = Endless THEN Endless
                                                  ELSE g[i - 1] + seqs[i].len
  <2> TAKE g
  <2> HAVE D(g)
  <2>1. g[0] = 0 /\ \A i \in 1 .. n : g[i] = IF seqs[i].len = Endless THEN Endless
                                                  ELSE g[i - 1] + seqs[i].len
    <3> HIDE DEF n
    <3> QED
      BY <1>1
  <2>2. g = [i \in 0 .. n |-> g[i]]
    OBVIOUS
  <2> DEFINE A == {i \in Nat : i <= n => g[i] \in Int}
  <2>3. 0 \in A
    BY <2>1
  <2>4. \A i \in Nat : i \in A => i + 1 \in A
    <3> TAKE i \in Nat
    <3> HAVE i \in A
    <3>1. i + 1 <= n => i + 1 \in 1 .. n /\ (i + 1) - 1 = i
      BY <1>1
    <3> QED
      BY <1>1, <1>2, <2>1, <3>1
  <2>5. Nat \subseteq A
    <3> HIDE DEF A
    <3> QED
      BY <2>3, <2>4, NatSetInduction
  <2>6. \A i \in 0 .. n : g[i] \in Int
    BY <1>1, <2>5
  <2>7. g \in [0 .. n -> Int]
    <3> HIDE DEF n
    <3> QED
      BY <2>2, <2>6
  <2> QED
    BY <2>1, <2>7
<1> HIDE DEF D, n
<1> QED
  BY <1>7, <1>8 DEF n

\* A finite sequence of values has, above a bound its last value exceeds, a first one.
LEMMA FirstAbove ==
    ASSUME NEW n \in Nat \ {0}, NEW e \in [0 .. n -> Int], NEW at \in Int, e[n] > at
    PROVE  \E i \in 1 .. n : e[i] > at /\ \A j \in 1 .. (i - 1) : e[j] <= at
<1> DEFINE S == {i \in 1 .. n : e[i] > at}
<1>1. PICK x \in S : \A y \in S : x <= y
  <2>1. S \subseteq Nat /\ n \in S
    OBVIOUS
  <2> HIDE DEF S
  <2> QED
    BY <2>1, Smallest
<1>2. \A j \in 1 .. (x - 1) : e[j] <= at
  <2> TAKE j \in 1 .. (x - 1)
  <2>1. j \in 1 .. n /\ j < x /\ e[j] \in Int /\ x \in Int
    BY <1>1
  <2>2. j \notin S
    <3> HIDE DEF S
    <3> QED
      BY <1>1, <2>1
  <2> QED
    BY <2>1, <2>2
<1> QED
  BY <1>1, <1>2

\* The length of a plan is a number.
LEMMA TotalType ==
    ASSUME NEW seqs \in Seq(Sequence)
    PROVE  TotalLength(seqs) \in Int /\ PlanOf(seqs) \in Plans
<1>1. Len(seqs) \in Nat
  BY LenProperties
<1>2. TotalLength(seqs) \in Int
  BY <1>1, Ends DEF TotalLength
<1> QED
  BY <1>2 DEF PlanOf, Plans, Sequence

\* s is the first of the sequences to end after the instant at, counted from their start.
FoundAt(seqs, at, s) ==
    \E i \in 1 .. Len(seqs) :
        /\ EndOf(seqs)[i] > at /\ \A j \in 1 .. (i - 1) : EndOf(seqs)[j] <= at
        /\ s = [index |-> i, elapsed |-> at - EndOf(seqs)[i - 1], seq |-> seqs[i]]

\* PlanDeFeux::GetSequence finds the first sequence that ends after the instant, if
\* there is one.
LEMMA SequenceFound ==
    ASSUME NEW seqs \in Seq(Sequence), seqs # <<>>, NEW plan, plan.seqs = seqs,
           NEW sec, NEW at \in Int, at = Ticks * InCycle(sec, plan.cycle),
           TotalLength(seqs) > at
    PROVE  FoundAt(seqs, at, SequenceAt(plan, sec))
<1> DEFINE n == Len(seqs)
           e == EndOf(seqs)
           P(i) == e[i] > at /\ \A j \in 1 .. (i - 1) : e[j] <= at
           i0 == CHOOSE i \in DOMAIN seqs : P(i)
<1>1. n \in Nat \ {0} /\ DOMAIN seqs = 1 .. n
  BY LenProperties, EmptySeq
<1>2. e \in [0 .. n -> Int] /\ e[n] > at
  BY Ends DEF TotalLength
<1>3. \E i \in DOMAIN seqs : P(i)
  <2>1. \E i \in 1 .. n : e[i] > at /\ \A j \in 1 .. (i - 1) : e[j] <= at
    <3> HIDE DEF n, e
    <3> QED
      BY <1>1, <1>2, FirstAbove
  <2> HIDE DEF n, e
  <2> QED
    BY <1>1, <2>1
<1>4. i0 \in 1 .. n /\ P(i0)
  <2> HIDE DEF P, n
  <2> QED
    BY <1>1, <1>3
<1>5. SequenceAt(plan, sec) = [index |-> i0, elapsed |-> at - e[i0 - 1], seq |-> seqs[i0]]
  BY DEF SequenceAt
<1> HIDE DEF i0
<1> QED
  BY <1>4, <1>5 DEF FoundAt

--------------------------------------------------------------------------------
(* The cycle *)

\* A whole number of ticks, within one of the instant.
LEMMA Seconds ==
    ASSUME NEW t \in Nat, NEW k \in Nat, k > 0
    PROVE  t \div k \in Nat /\ k * (t \div k) <= t /\ t < k * (t \div k) + k
  OBVIOUS

\* A duration of whole seconds is nothing or a second at least.
LEMMA WholeSeconds ==
    ASSUME NEW x \in Nat, NEW k \in Nat, k > 0, x > 0, x % k = 0
    PROVE  x >= k
<1> SUFFICES ASSUME x < k PROVE FALSE
  OBVIOUS
<1>1. x % k = x
  <2>1. 0 <= x % k /\ x = k * (x \div k) + (x % k)
    OBVIOUS
  <2>2. x \div k = 0
    OBVIOUS
  <2> QED
    BY <2>1, <2>2
<1> QED
  BY <1>1

\* What the assumptions say of the numbers and of the sequences of the cycle.
LEMMA Constants ==
    /\ Ticks \in Nat /\ Ticks > 0 /\ Endless \in Nat
    /\ VertMin \in Nat /\ Degagement \in Nat /\ LastInstant \in Nat /\ MaxRollbacks \in Nat
    /\ LastInstant % Ticks = 0 /\ LastInstant + Ticks + Degagement < Endless
    /\ Estimates \subseteq Nat /\ \A est \in Estimates : Whole(est)
    /\ Plan \in Seq(Sequence) /\ Plan # <<>> /\ Len(Plan) \in Nat /\ Len(Plan) > 0
    /\ DOMAIN Plan = 1 .. Len(Plan)
    /\ \A i \in 1 .. Len(Plan) :
          /\ Plan[i].len \in Nat /\ Plan[i].len >= Ticks /\ Plan[i].len % Ticks = 0
          /\ Plan[i].len < Endless
          /\ Plan[i].signals \in Seq(Signals) /\ Plan[i].signals # <<>>
<1> DEFINE S == [len : Nat \ {0}, signals : Seq(Signals)]
<1>1. /\ Ticks \in Nat /\ Ticks > 0 /\ Endless \in Nat
      /\ VertMin \in Nat /\ Degagement \in Nat /\ LastInstant \in Nat /\ MaxRollbacks \in Nat
      /\ LastInstant % Ticks = 0 /\ LastInstant + Ticks + Degagement < Endless
      /\ Estimates \subseteq Nat /\ Plan \in Seq(S) /\ Len(Plan) > 0
  BY TrafficLightsAssumption DEF Endless, Whole
<1>2. \A i \in DOMAIN Plan :
          Plan[i].len % Ticks = 0 /\ Plan[i].len < Endless /\ Plan[i].signals # <<>>
  BY TrafficLightsAssumption DEF Whole
<1>3. Len(Plan) \in Nat /\ DOMAIN Plan = 1 .. Len(Plan) /\ Plan # <<>>
  BY <1>1, LenProperties, EmptySeq
<1>4. \A i \in 1 .. Len(Plan) : Plan[i] \in S
  BY <1>1, ElementOfSeq
<1>5. S \subseteq Sequence
  BY DEF Sequence
<1>6. Plan \in Seq(Sequence)
  BY <1>1, <1>5, SeqMonotonic
<1>7. ASSUME NEW i \in 1 .. Len(Plan)
      PROVE  /\ Plan[i].len \in Nat /\ Plan[i].len >= Ticks
             /\ Plan[i].signals \in Seq(Signals)
  <2>1. Plan[i].len \in Nat /\ Plan[i].len > 0 /\ Plan[i].signals \in Seq(Signals)
    BY <1>4
  <2>2. \A x \in Nat : x > 0 /\ x % Ticks = 0 => x >= Ticks
    BY <1>1, WholeSeconds
  <2> QED
    BY <1>2, <1>3, <2>1, <2>2
<1>8. \A est \in Estimates : Whole(est)
  BY TrafficLightsAssumption, Zenon
<1> QED
  BY <1>1, <1>2, <1>3, <1>6, <1>7, <1>8

\* The cycle lasts a second at least and is not endless.
LEMMA CycleLength ==
    /\ TotalLength(Plan) \in Int /\ Ticks <= TotalLength(Plan)
    /\ 2 * TotalLength(Plan) < Endless /\ TotalLength(Plan) < Endless
    /\ \A i \in 1 .. Len(Plan) : EndOf(Plan)[i] = EndOf(Plan)[i - 1] + Plan[i].len
<1> DEFINE n == Len(Plan)
           e == EndOf(Plan)
<1>1. /\ n \in Nat /\ n > 0 /\ e \in [0 .. n -> Int] /\ e[0] = 0
      /\ \A i \in 1 .. n : e[i] = e[i - 1] + Plan[i].len
  <2>1. \A i \in 1 .. n : Plan[i].len \in Nat /\ Plan[i].len # Endless
    BY Constants
  <2>2. n \in Nat /\ n > 0
    BY Constants
  <2> QED
    BY Constants, <2>1, <2>2, Ends
<1> DEFINE G == {i \in Nat : i + 1 <= n => e[i + 1] >= Ticks}
<1>2. \A i \in 1 .. n : Plan[i].len \in Nat /\ Plan[i].len >= Ticks
  BY Constants
<1>3. 0 \in G
  <2>1. 1 \in 1 .. n /\ 1 - 1 = 0
    BY <1>1
  <2> QED
    BY <1>1, <1>2, <2>1, Constants
<1>4. \A i \in Nat : i \in G => i + 1 \in G
  <2> TAKE i \in Nat
  <2> HAVE i \in G
  <2> SUFFICES ASSUME (i + 1) + 1 <= n PROVE e[(i + 1) + 1] >= Ticks
    OBVIOUS
  <2>1. (i + 1) + 1 \in 1 .. n /\ ((i + 1) + 1) - 1 = i + 1 /\ i + 1 \in 0 .. n
    BY <1>1
  <2>2. e[i + 1] >= Ticks /\ e[i + 1] \in Int
    <3>1. e[i + 1] \in Int
      BY <1>1, <2>1
    <3>2. i + 1 <= n
      BY <1>1
    <3> HIDE DEF e, n
    <3> QED
      BY <3>1, <3>2
  <2>3. e[(i + 1) + 1] = e[i + 1] + Plan[(i + 1) + 1].len
    BY <1>1, <2>1
  <2> HIDE DEF e, n
  <2> QED
    BY <1>2, <2>1, <2>2, <2>3, Constants
<1>5. \A i \in Nat : i \in G
  <2> HIDE DEF G
  <2> QED
    BY <1>3, <1>4, NatSetInduction
<1>6. e[n] >= Ticks
  <2>1. \E m \in Nat : n = m + 1
    <3>1. n - 1 \in Nat /\ n = (n - 1) + 1
      BY <1>1
    <3> QED
      BY <3>1
  <2>2. PICK m \in Nat : n = m + 1
    BY <2>1
  <2>3. m \in G
    <3> HIDE DEF G
    <3> QED
      BY <1>5
  <2> HIDE DEF e, n
  <2> QED
    BY <1>1, <2>2, <2>3
<1>7. 2 * e[n] < Endless
  BY CycleAssumption DEF TotalLength
<1>8. e[n] \in Nat /\ Endless \in Nat /\ e[n] < Endless
  <2> HIDE DEF e, n
  <2>1. e[n] \in Int
    BY <1>1
  <2> QED
    BY <1>6, <1>7, <2>1, Constants
<1> QED
  BY <1>1, <1>6, <1>7, <1>8 DEF TotalLength

\* Multiples are in the order of the numbers.
LEMMA Multiples ==
    ASSUME NEW k \in Nat, NEW a \in Nat, NEW b \in Nat, a <= b
    PROVE  k * a \in Nat /\ k * b \in Nat /\ k * a <= k * b
  OBVIOUS

\* What is a second before a bound of the cycle is in the cycle.
LEMMA Within ==
    ASSUME NEW p \in Nat, NEW q \in Int, NEW u \in Int, NEW w \in Int, NEW k \in Nat,
           NEW c \in Int, NEW t \in Int, k > 0, q = p + k, q <= u, u <= c, p <= w, w <= t
    PROVE  p < c /\ p <= t
  OBVIOUS

\* The place of an instant in a cycle of a second at least.
LEMMA PlaceInCycle ==
    ASSUME NEW t \in Nat, NEW cycle \in Nat, cycle >= Ticks,
           NEW at, at = Ticks * ((t \div Ticks) % (cycle \div Ticks))
    PROVE  at \in Nat /\ at < cycle /\ at <= t
<1> DEFINE s == t \div Ticks
           d == cycle \div Ticks
           r == s % d
<1>1. s \in Nat /\ Ticks * s <= t
  BY Constants, Seconds
<1>2. d \in Nat /\ Ticks * d <= cycle /\ cycle < Ticks * d + Ticks
  BY Constants, Seconds
<1>3. d > 0
  <2>1. d = 0 => Ticks * d = 0
    BY Constants
  <2> HIDE DEF d
  <2> QED
    BY <1>2, <2>1, Constants
<1>4. r \in Nat /\ r <= s /\ r + 1 <= d
  <2> HIDE DEF s, d
  <2> QED
    BY <1>1, <1>2, <1>3
<1> HIDE DEF s, d, r
<1>5. at = Ticks * r
  BY DEF s, d, r
<1>6. Ticks * r \in Nat /\ Ticks * r <= Ticks * s /\ Ticks * s \in Nat
  BY <1>1, <1>4, Constants, Multiples
<1>7. Ticks * (r + 1) <= Ticks * d /\ Ticks * (r + 1) = Ticks * r + Ticks /\ Ticks * d \in Nat
  <2>1. Ticks * (r + 1) <= Ticks * d /\ Ticks * d \in Nat
    BY <1>2, <1>4, Constants, Multiples
  <2>2. Ticks * (r + 1) = Ticks * r + Ticks
    BY <1>4, Constants
  <2> QED
    BY <2>1, <2>2
<1> DEFINE p == Ticks * r
           q == Ticks * (r + 1)
           u == Ticks * d
           w == Ticks * s
<1>8. at = p /\ p \in Nat /\ p <= w /\ w <= t /\ w \in Nat
  BY <1>1, <1>5, <1>6
<1>9. q <= u /\ q = p + Ticks /\ u <= cycle /\ u \in Nat /\ q \in Int
  BY <1>2, <1>7, <1>4, Constants
<1> HIDE DEF p, q, u, w
<1>10. p < cycle /\ p <= t
  BY <1>8, <1>9, Constants, Within
<1> QED
  BY <1>8, <1>10

\* Sums of durations of whole seconds are counted in seconds.
LEMMA SumOfSeconds ==
    ASSUME NEW x \in Nat, NEW y \in Nat, NEW k \in Nat, k > 0, x % k = 0, y % k = 0
    PROVE  (x + y) \div k = (x \div k) + (y \div k) /\ (x + y) % k = 0
<1> DEFINE p == x \div k
           q == y \div k
<1>1. p \in Nat /\ q \in Nat /\ x = k * p /\ y = k * q
  OBVIOUS
<1>2. x + y = k * (p + q)
  BY <1>1
<1> HIDE DEF p, q
<1>3. \A r \in Nat : (k * r) \div k = r /\ (k * r) % k = 0
  OBVIOUS
<1>4. p + q \in Nat
  BY <1>1
<1>5. (x + y) \div k = p + q /\ (x + y) % k = 0
  BY <1>2, <1>3, <1>4
<1> QED
  BY <1>5 DEF p, q

\* In the terms of the model.
LEMMA WholeSum ==
    ASSUME NEW x \in Nat, NEW y \in Nat, Whole(x), Whole(y)
    PROVE  Whole(x + y)
<1>1. Ticks \in Nat /\ Ticks > 0
  BY Constants
<1>2. x % Ticks = 0 /\ y % Ticks = 0
  BY DEF Whole
<1>3. (x + y) % Ticks = 0
  BY <1>1, <1>2, SumOfSeconds
<1> QED
  BY <1>3 DEF Whole

\* Differences too.
LEMMA WholeDifference ==
    ASSUME NEW x \in Nat, NEW y \in Nat, y <= x, Whole(x), Whole(y)
    PROVE  Whole(x - y)
<1> DEFINE k == Ticks
           p == x \div k
           q == y \div k
<1>1. k \in Nat /\ k > 0
  BY Constants
<1>2. x % k = 0 /\ y % k = 0
  BY DEF Whole
<1> HIDE DEF k
<1>3. p \in Nat /\ q \in Nat /\ x = k * p /\ y = k * q
  BY <1>1, <1>2
<1> HIDE DEF p, q
<1>4. q <= p
  <2> SUFFICES ASSUME p < q PROVE FALSE
    BY <1>3
  <2>1. k * (p + 1) <= k * q /\ k * (p + 1) = k * p + k
    BY <1>1, <1>3, Multiples
  <2> QED
    BY <1>1, <1>3, <2>1
<1>5. x - y = k * (p - q) /\ p - q \in Nat
  BY <1>1, <1>3, <1>4
<1>6. \A r \in Nat : (k * r) % k = 0
  BY <1>1
<1>7. (x - y) % k = 0
  BY <1>5, <1>6
<1> QED
  BY <1>7 DEF Whole, k

\* A number of seconds.
LEMMA WholeMultiple ==
    ASSUME NEW r \in Nat
    PROVE  Ticks * r \in Nat /\ Whole(Ticks * r)
<1> DEFINE k == Ticks
<1>1. k \in Nat /\ k > 0
  BY Constants
<1> HIDE DEF k
<1>2. k * r \in Nat /\ (k * r) % k = 0
  BY <1>1
<1> QED
  BY <1>2 DEF Whole, k

\* The sequence of the cycle under way at an instant, and the time elapsed in it.
LEMMA BaseFacts ==
    ASSUME NEW t \in Nat
    PROVE  /\ BaseAt(t).index \in 1 .. Len(Plan)
           /\ BaseAt(t).seq = Plan[BaseAt(t).index]
           /\ BaseAt(t).elapsed \in Nat /\ BaseAt(t).elapsed <= t
           /\ BaseAt(t).elapsed < BaseAt(t).seq.len
           /\ Whole(BaseAt(t).elapsed)
<1> DEFINE cycle == TotalLength(Plan)
           at == Ticks * ((t \div Ticks) % (cycle \div Ticks))
           e == EndOf(Plan)
<1>1. cycle \in Nat /\ cycle >= Ticks /\ cycle # Endless
  BY CycleLength, Constants
<1>2. at \in Nat /\ at < cycle /\ at <= t
  <2> HIDE DEF cycle
  <2> QED
    BY <1>1, PlaceInCycle
<1>3. at = Ticks * InCycle(t \div Ticks, Base.cycle) /\ Base.seqs = Plan
  BY <1>1 DEF InCycle, Base, PlanOf
<1>4. PICK i \in 1 .. Len(Plan) :
         /\ e[i] > at /\ \A j \in 1 .. (i - 1) : e[j] <= at
         /\ BaseAt(t) = [index |-> i, elapsed |-> at - e[i - 1], seq |-> Plan[i]]
  <2> DEFINE sec == t \div Ticks
  <2>1. at \in Int
    BY <1>2
  <2>2. at = Ticks * InCycle(sec, Base.cycle) /\ cycle > at
    BY <1>2, <1>3
  <2>3. FoundAt(Plan, at, SequenceAt(Base, sec))
    <3> HIDE DEF at, sec
    <3> QED
      BY <1>3, <2>1, <2>2, Constants, SequenceFound
  <2>4. BaseAt(t) = SequenceAt(Base, sec)
    BY DEF BaseAt
  <2> HIDE DEF at, sec
  <2> QED
    BY <2>3, <2>4 DEF FoundAt
<1>5. /\ e \in [0 .. Len(Plan) -> Int] /\ e[0] = 0 /\ e[i] = e[i - 1] + Plan[i].len
      /\ i - 1 \in 0 .. Len(Plan) /\ Plan[i].len \in Nat
  BY Ends, Constants, CycleLength
<1>6. e[i - 1] <= at
  <2> HIDE DEF e, at
  <2>1. CASE i = 1
    BY <2>1, <1>2, <1>5
  <2>2. CASE i # 1
    BY <2>2, <1>4
  <2> QED
    BY <2>1, <2>2
<1>7. e[i - 1] >= 0 /\ Whole(e[i - 1])
  <2> DEFINE G == {j \in Nat : j <= Len(Plan) => e[j] >= 0 /\ Whole(e[j])}
  <2>1. 0 \in G
    BY <1>5, Constants DEF Whole
  <2>2. \A j \in Nat : j \in G => j + 1 \in G
    <3> TAKE j \in Nat
    <3> HAVE j \in G
    <3> SUFFICES ASSUME j + 1 <= Len(Plan) PROVE e[j + 1] >= 0 /\ Whole(e[j + 1])
      OBVIOUS
    <3>1. j + 1 \in 1 .. Len(Plan) /\ (j + 1) - 1 = j /\ j \in 0 .. Len(Plan)
      BY Constants
    <3>2. /\ e[j + 1] = e[j] + Plan[j + 1].len
          /\ Plan[j + 1].len \in Nat /\ Whole(Plan[j + 1].len)
      BY <3>1, CycleLength, Constants DEF Whole
    <3>3. e[j] \in Nat /\ Whole(e[j])
      BY <1>5, <3>1
    <3> DEFINE x == e[j]
               y == Plan[j + 1].len
    <3>4. x \in Nat /\ Whole(x) /\ y \in Nat /\ Whole(y) /\ e[j + 1] = x + y
      BY <3>2, <3>3
    <3> HIDE DEF e, x, y
    <3>5. Whole(x + y) /\ x + y >= 0
      BY <3>4, WholeSum
    <3> QED
      BY <3>4, <3>5, Zenon
  <2>3. \A j \in Nat : j \in G
    <3> HIDE DEF G
    <3> QED
      BY <2>1, <2>2, NatSetInduction
  <2> HIDE DEF e
  <2> QED
    BY <2>3, Constants
<1>11. Whole(at)
  <2> DEFINE r == (t \div Ticks) % (cycle \div Ticks)
  <2>1. cycle \div Ticks \in Nat /\ cycle \div Ticks > 0
    <3> HIDE DEF cycle
    <3> DEFINE d == cycle \div Ticks
    <3>1. d \in Nat /\ cycle < Ticks * d + Ticks
      BY <1>1, Constants, Seconds
    <3> HIDE DEF d
    <3>2. d # 0
      BY <1>1, <3>1, Constants
    <3> QED
      BY <3>1, <3>2 DEF d
  <2>2. t \div Ticks \in Nat
    BY Constants, Seconds
  <2>3. r \in Nat
    BY <2>1, <2>2
  <2> HIDE DEF r
  <2> QED
    BY <2>3, WholeMultiple DEF r
<1> HIDE DEF e, at
<1>8. e[i - 1] \in Int
  BY <1>5
<1>9. /\ BaseAt(t).index = i /\ BaseAt(t).seq = Plan[i]
      /\ BaseAt(t).elapsed = at - e[i - 1]
  BY <1>4
<1> DEFINE b == BaseAt(t)
<1>10. b.elapsed \in Nat /\ b.elapsed <= t /\ b.elapsed < Plan[i].len /\ Whole(b.elapsed)
  <2> DEFINE x == e[i - 1]
             y == e[i]
  <2>1. /\ x \in Int /\ x >= 0 /\ x <= at /\ y > at /\ y = x + Plan[i].len
        /\ b.elapsed = at - x
    BY <1>4, <1>5, <1>6, <1>7, <1>8, <1>9
  <2>2. Whole(x)
    BY <1>7
  <2> HIDE DEF x, y, b
  <2>3. Whole(at - x)
    BY <1>2, <1>11, <2>1, <2>2, WholeDifference
  <2>4. Whole(b.elapsed)
    BY <2>1, <2>3, Zenon
  <2>5. b.elapsed \in Nat /\ b.elapsed <= t /\ b.elapsed < Plan[i].len
    BY <1>2, <1>5, <2>1
  <2> QED
    BY <2>4, <2>5
<1> HIDE DEF b
<1> QED
  BY <1>9, <1>10 DEF b

--------------------------------------------------------------------------------
(* Making sequences *)

\* A sequence is its length and its signals.
LEMMA SignalsReplaced ==
    ASSUME NEW r \in Sequence, NEW x
    PROVE  [r EXCEPT !.signals = x] = [len |-> r.len, signals |-> x]
BY DEF Sequence

\* A finite sequence of values has a least and a greatest one.
LEMMA Extremes ==
    ASSUME NEW n \in Nat, n > 0, NEW f \in [1 .. n -> Int]
    PROVE  /\ \E i \in 1 .. n : \A j \in 1 .. n : f[i] <= f[j]
           /\ \E i \in 1 .. n : \A j \in 1 .. n : f[i] >= f[j]
<1> DEFINE L(m) == \E i \in 1 .. m : \A j \in 1 .. m : f[i] <= f[j]
           H(m) == \E i \in 1 .. m : \A j \in 1 .. m : f[i] >= f[j]
           G == {m \in Nat : m # 0 /\ m <= n => L(m) /\ H(m)}
<1>1. 0 \in G
  OBVIOUS
<1>2. \A m \in Nat : m \in G => m + 1 \in G
  <2> TAKE m \in Nat
  <2> HAVE m \in G
  <2> SUFFICES ASSUME m + 1 <= n PROVE L(m + 1) /\ H(m + 1)
    OBVIOUS
  <2>1. CASE m = 0
    <3>1. f[1] \in Int /\ f[1] <= f[1] /\ f[1] >= f[1]
      OBVIOUS
    <3>2. \A j \in 1 .. (m + 1) : j = 1
      BY <2>1
    <3>3. 1 \in 1 .. (m + 1)
      BY <2>1
    <3> QED
      BY <3>1, <3>2, <3>3
  <2>2. CASE m # 0
    <3>1. L(m) /\ H(m)
      <4> HIDE DEF L, H
      <4> QED
        BY <2>2
    <3>2. PICK i \in 1 .. m : \A j \in 1 .. m : f[i] <= f[j]
      BY <3>1
    <3>3. PICK k \in 1 .. m : \A j \in 1 .. m : f[k] >= f[j]
      BY <3>1
    <3>4. \A j \in 1 .. (m + 1) : j \in 1 .. n /\ f[j] \in Int /\ (j \in 1 .. m \/ j = m + 1)
      OBVIOUS
    <3>5. i \in 1 .. (m + 1) /\ k \in 1 .. (m + 1) /\ m + 1 \in 1 .. (m + 1)
      OBVIOUS
    <3>6. L(m + 1)
      <4>1. CASE f[i] <= f[m + 1]
        BY <3>2, <3>4, <3>5, <4>1
      <4>2. CASE f[m + 1] < f[i]
        <5>1. \A j \in 1 .. (m + 1) : f[m + 1] <= f[j]
          BY <3>2, <3>4, <3>5, <4>2
        <5> QED
          BY <3>5, <5>1
      <4> QED
        BY <3>4, <3>5, <4>1, <4>2
    <3>7. H(m + 1)
      <4>1. CASE f[k] >= f[m + 1]
        BY <3>3, <3>4, <3>5, <4>1
      <4>2. CASE f[m + 1] > f[k]
        <5>1. \A j \in 1 .. (m + 1) : f[m + 1] >= f[j]
          BY <3>3, <3>4, <3>5, <4>2
        <5> QED
          BY <3>5, <5>1
      <4> QED
        BY <3>4, <3>5, <4>1, <4>2
    <3> QED
      BY <3>6, <3>7
  <2> QED
    BY <2>1, <2>2
<1>3. n \in G
  <2> HIDE DEF G
  <2> QED
    BY <1>1, <1>2, NatSetInduction
<1> QED
  BY <1>3

\* CDFSequence::GetMinDureeVert and GetMinDuree are numbers.
LEMMA Minima ==
    ASSUME NEW s \in Sequence, s.signals # <<>>
    PROVE  MinGreen(s) \in Int /\ MinLength(s) \in Int
<1> DEFINE n == Len(s.signals)
           greens == {s.signals[i].green : i \in DOMAIN s.signals}
           delays == {s.signals[i].delay : i \in DOMAIN s.signals}
           g == [i \in 1 .. n |-> s.signals[i].green]
           d == [i \in 1 .. n |-> s.signals[i].delay]
<1>1. s.signals \in Seq(Signals)
  BY DEF Sequence
<1>2. n \in Nat /\ n > 0 /\ DOMAIN s.signals = 1 .. n
  BY <1>1, LenProperties, EmptySeq
<1>3. \A i \in 1 .. n : s.signals[i].green \in Int /\ s.signals[i].delay \in Int
  <2>1. \A i \in 1 .. n : s.signals[i] \in Signals
    BY <1>1, ElementOfSeq
  <2> HIDE DEF n
  <2> QED
    BY <2>1 DEF Signals
<1>4. g \in [1 .. n -> Int] /\ d \in [1 .. n -> Int]
  <2> HIDE DEF n
  <2> QED
    BY <1>3
<1>5. \E x \in greens : \A y \in greens : x <= y
  <2>1. PICK i \in 1 .. n : \A j \in 1 .. n : g[i] <= g[j]
    <3> HIDE DEF g, n
    <3> QED
      BY <1>2, <1>4, Extremes
  <2> HIDE DEF n
  <2> QED
    BY <1>2, <1>3, <2>1
<1>6. \E x \in delays : \A y \in delays : y <= x
  <2>1. PICK i \in 1 .. n : \A j \in 1 .. n : d[i] >= d[j]
    <3> HIDE DEF d, n
    <3> QED
      BY <1>2, <1>4, Extremes
  <2> HIDE DEF n
  <2> QED
    BY <1>2, <1>3, <2>1
<1>7. MinGreen(s) \in greens
  <2> HIDE DEF greens
  <2>1. MinGreen(s) = CHOOSE x \in greens : \A y \in greens : x <= y
    BY DEF MinGreen, greens
  <2> QED
    BY <1>5, <2>1
<1>8. LongestSoFar(delays) \in delays
  <2> HIDE DEF delays
  <2> QED
    BY <1>6 DEF LongestSoFar
<1>9. MinLength(s) = VertMin + LongestSoFar(delays)
  BY DEF MinLength
<1>10. greens \subseteq Int /\ delays \subseteq Int
  <2> HIDE DEF n
  <2> QED
    BY <1>2, <1>3
<1>11. VertMin \in Int
  BY Constants
<1> DEFINE x == LongestSoFar(delays)
<1>12. x \in Int
  <2> HIDE DEF delays
  <2> QED
    BY <1>8, <1>10
<1>13. MinGreen(s) \in Int
  <2> HIDE DEF greens
  <2> QED
    BY <1>7, <1>10
<1> HIDE DEF greens, delays, x
<1> QED
  BY <1>9, <1>11, <1>12, <1>13 DEF x

\* The movements that have a signal in a sequence.
MovementsOf(s) == {s.signals[j].mv : j \in DOMAIN s.signals}

\* A sequence with the signals of another, of other durations.
Like(s, r) ==
    s \in Sequence /\ s.signals # <<>> /\ MovementsOf(s) = MovementsOf(r)

\* What is made of a sequence by changing its length and the durations of its signals.
LEMMA Remade ==
    ASSUME NEW r \in Sequence, r.signals # <<>>, NEW len \in Int,
           NEW g, g \in [DOMAIN r.signals -> Signals],
           \A i \in DOMAIN r.signals : g[i].mv = r.signals[i].mv
    PROVE  Like([len |-> len, signals |-> g], r)
<1>1. r.signals \in Seq(Signals)
  BY DEF Sequence
<1>2. Len(r.signals) \in Nat /\ Len(r.signals) > 0 /\ DOMAIN r.signals = 1 .. Len(r.signals)
  BY <1>1, LenProperties, EmptySeq
<1> DEFINE n == Len(r.signals)
<1>3. g \in [1 .. n -> Signals]
  BY <1>2
<1>4. g \in Seq(Signals)
  <2> HIDE DEF n
  <2> QED
    BY <1>2, <1>3, SeqDef
<1>5. g # <<>>
  <2>1. DOMAIN g = 1 .. n /\ 1 \in 1 .. n
    BY <1>2, <1>3
  <2>2. DOMAIN (<<>>) = {}
    OBVIOUS
  <2> QED
    BY <2>1, <2>2
<1>6. [len |-> len, signals |-> g] \in Sequence
  BY <1>4 DEF Sequence
<1>7. {g[i].mv : i \in DOMAIN g} = {r.signals[i].mv : i \in DOMAIN r.signals}
  <2>1. DOMAIN g = DOMAIN r.signals
    OBVIOUS
  <2> QED
    BY <2>1
<1> QED
  BY <1>5, <1>6, <1>7 DEF Like, MovementsOf

\* Another length, for a whole sequence.
LEMMA Lengthened ==
    ASSUME NEW r \in Sequence, r.signals # <<>>, NEW len \in Int
    PROVE  Like([r EXCEPT !.len = len], r) /\ [r EXCEPT !.len = len].len = len
<1>1. r.signals \in [DOMAIN r.signals -> Signals]
  BY LenProperties DEF Sequence
<1>2. [r EXCEPT !.len = len] = [len |-> len, signals |-> r.signals]
  BY DEF Sequence
<1>3. Like([len |-> len, signals |-> r.signals], r)
  BY <1>1, Remade
<1> QED
  BY <1>2, <1>3

\* The greens changed, and the length.
LEMMA Regreened ==
    ASSUME NEW r \in Sequence, r.signals # <<>>, NEW len \in Int,
           NEW green, green \in [DOMAIN r.signals -> Int],
           NEW g, g = [i \in DOMAIN r.signals |-> [r.signals[i] EXCEPT !.green = green[i]]]
    PROVE  Like([len |-> len, signals |-> g], r)
<1>1. \A i \in DOMAIN r.signals : r.signals[i] \in Signals
  BY LenProperties DEF Sequence
<1>2. \A i \in DOMAIN r.signals : g[i] \in Signals /\ g[i].mv = r.signals[i].mv
  BY <1>1 DEF Signals
<1>3. g \in [DOMAIN r.signals -> Signals]
  BY <1>2
<1> QED
  BY <1>2, <1>3, Remade

\* A sequence stretched or shrunk keeps its signals.
LEMMA ResizedLike ==
    ASSUME NEW r \in Sequence, r.signals # <<>>, NEW len \in Int
    PROVE  Like(Resized(r, len), r) /\ Resized(r, len).len = len
<1> DEFINE green == [i \in DOMAIN r.signals |-> r.signals[i].green + len - r.len]
           g == [i \in DOMAIN r.signals |-> [r.signals[i] EXCEPT !.green = green[i]]]
<1>1. \A i \in DOMAIN r.signals : r.signals[i] \in Signals
  BY LenProperties DEF Sequence
<1>2. green \in [DOMAIN r.signals -> Int]
  BY <1>1 DEF Signals, Sequence
<1>3. Resized(r, len) = [len |-> len, signals |-> g]
  <2>1. \A i \in DOMAIN r.signals :
           [r.signals[i] EXCEPT !.green = @ + len - r.len] = [r.signals[i] EXCEPT !.green = green[i]]
    OBVIOUS
  <2> HIDE DEF green
  <2> QED
    BY <2>1 DEF Resized
<1>4. Like([len |-> len, signals |-> g], r)
  <2> HIDE DEF green
  <2> QED
    BY <1>2, Regreened
<1> HIDE DEF g
<1> QED
  BY <1>3, <1>4

\* So does one raised to the minimum of green, which gets longer or stays.
LEMMA RaisedLike ==
    ASSUME NEW r \in Sequence, r.signals # <<>>
    PROVE  /\ Like(Raised(r), r)
           /\ MinGreen(r) < VertMin => Raised(r).len > r.len
<1> DEFINE len == r.len + VertMin - MinGreen(r)
           green == [i \in DOMAIN r.signals |->
                        IF r.signals[i].green < VertMin THEN VertMin ELSE r.signals[i].green]
           g == [i \in DOMAIN r.signals |-> [r.signals[i] EXCEPT !.green = green[i]]]
<1>1. MinGreen(r) \in Int /\ VertMin \in Int /\ r.len \in Int
  BY Minima, Constants DEF Sequence
<1>2. CASE MinGreen(r) >= VertMin
  <2>1. Raised(r) = r
    BY <1>2 DEF Raised
  <2> QED
    BY <1>1, <1>2, <2>1 DEF Like
<1>3. CASE ~(MinGreen(r) >= VertMin)
  <2>1. \A i \in DOMAIN r.signals : r.signals[i] \in Signals
    BY LenProperties DEF Sequence
  <2>2. green \in [DOMAIN r.signals -> Int]
    BY <1>1, <2>1 DEF Signals
  <2>3. len \in Int /\ len > r.len
    BY <1>1, <1>3
  <2>4. Raised(r) = [len |-> len, signals |-> g]
    <3>1. \A i \in DOMAIN r.signals :
             [r.signals[i] EXCEPT !.green = IF @ < VertMin THEN VertMin ELSE @]
             = [r.signals[i] EXCEPT !.green = green[i]]
      OBVIOUS
    <3> HIDE DEF green
    <3> QED
      BY <1>3, <3>1 DEF Raised
  <2>5. Like([len |-> len, signals |-> g], r)
    <3> HIDE DEF green, len
    <3> QED
      BY <2>2, <2>3, Regreened
  <2> HIDE DEF g, len
  <2> QED
    BY <2>3, <2>4, <2>5
<1> QED
  BY <1>2, <1>3

\* So do the sequences of the clearance.
LEMMA RedLike ==
    ASSUME NEW r \in Sequence, r.signals # <<>>, NEW mv
    PROVE  Like(RedFor(r, mv), r) /\ Like(AllRed(r), r)
<1> DEFINE zero == [i \in DOMAIN r.signals |-> 0]
           one == [i \in DOMAIN r.signals |->
                     IF r.signals[i].mv = mv /\ \A j \in 1 .. (i - 1) : r.signals[j].mv # mv
                     THEN 0 ELSE r.signals[i].green]
           g(green) == [i \in DOMAIN r.signals |-> [r.signals[i] EXCEPT !.green = green[i]]]
<1>1. \A i \in DOMAIN r.signals : r.signals[i] \in Signals
  BY LenProperties DEF Sequence
<1>2. zero \in [DOMAIN r.signals -> Int] /\ one \in [DOMAIN r.signals -> Int]
  BY <1>1 DEF Signals
<1>3. r.len \in Int
  BY DEF Sequence
<1>4. AllRed(r) = [len |-> r.len, signals |-> g(zero)]
  <2> DEFINE s == g(zero)
  <2>1. AllRed(r) = [r EXCEPT !.signals = s]
    BY DEF AllRed
  <2> HIDE DEF s
  <2>2. AllRed(r) = [len |-> r.len, signals |-> s]
    BY <2>1, SignalsReplaced
  <2> QED
    BY <2>2 DEF s
<1>5. RedFor(r, mv) = [len |-> r.len, signals |-> g(one)]
  <2>1. \A i \in DOMAIN r.signals :
           (IF r.signals[i].mv = mv /\ \A j \in 1 .. (i - 1) : r.signals[j].mv # mv
            THEN [r.signals[i] EXCEPT !.green = 0] ELSE r.signals[i])
           = [r.signals[i] EXCEPT !.green = one[i]]
    <3> TAKE i \in DOMAIN r.signals
    <3>1. r.signals[i] = [r.signals[i] EXCEPT !.green = r.signals[i].green]
      BY <1>1 DEF Signals
    <3> DEFINE first == r.signals[i].mv = mv /\ \A j \in 1 .. (i - 1) : r.signals[j].mv # mv
    <3>2. one[i] = IF first THEN 0 ELSE r.signals[i].green
      OBVIOUS
    <3> HIDE DEF first, one
    <3> QED
      BY <3>1, <3>2 DEF first
  <2>2. RedFor(r, mv) = [r EXCEPT !.signals =
          [i \in DOMAIN r.signals |->
            IF r.signals[i].mv = mv /\ \A j \in 1 .. (i - 1) : r.signals[j].mv # mv
            THEN [r.signals[i] EXCEPT !.green = 0] ELSE r.signals[i]]]
    BY DEF RedFor
  <2> HIDE DEF one
  <2>3. [i \in DOMAIN r.signals |->
            IF r.signals[i].mv = mv /\ \A j \in 1 .. (i - 1) : r.signals[j].mv # mv
            THEN [r.signals[i] EXCEPT !.green = 0] ELSE r.signals[i]] = g(one)
    BY <2>1
  <2> HIDE DEF g
  <2> QED
    BY <2>2, <2>3 DEF Sequence
<1>6. ASSUME NEW green \in [DOMAIN r.signals -> Int]
      PROVE  Like([len |-> r.len, signals |-> g(green)], r)
  BY <1>3, Regreened
<1> HIDE DEF g, zero, one
<1> QED
  BY <1>2, <1>4, <1>5, <1>6

\* The signal added for a bus.
LEMMA WithSignalFacts ==
    ASSUME NEW r \in Sequence, NEW mv \in Movements
    PROVE  /\ WithSignal(r, mv) \in Sequence /\ WithSignal(r, mv).signals # <<>>
           /\ WithSignal(r, mv).len = r.len
           /\ MovementsOf(WithSignal(r, mv)) = MovementsOf(r) \cup {mv}
<1> DEFINE x == PrioritySignal(mv, r)
           g == Append(r.signals, x)
<1>1. x \in Signals /\ x.mv = mv
  BY DEF PrioritySignal, Signals, Sequence
<1>2. r.signals \in Seq(Signals)
  BY DEF Sequence
<1>3. Len(r.signals) \in Nat /\ DOMAIN r.signals = 1 .. Len(r.signals)
  BY <1>2, LenProperties
<1>4. /\ g \in Seq(Signals) /\ Len(g) = Len(r.signals) + 1
      /\ DOMAIN g = 1 .. (Len(r.signals) + 1)
      /\ \A i \in 1 .. Len(r.signals) : g[i] = r.signals[i]
      /\ g[Len(r.signals) + 1] = x
  <2> HIDE DEF x
  <2> QED
    BY <1>1, <1>2, <1>3, AppendProperties, LenProperties
<1> HIDE DEF g, x
<1>5. WithSignal(r, mv) = [len |-> r.len, signals |-> g]
  <2>1. WithSignal(r, mv) = [r EXCEPT !.signals = g]
    BY DEF WithSignal, g, x
  <2> QED
    BY <2>1, SignalsReplaced
<1>6. g # <<>>
  BY <1>3, <1>4, EmptySeq
<1>7. {g[i].mv : i \in DOMAIN g} = {r.signals[i].mv : i \in DOMAIN r.signals} \cup {mv}
  <2>1. \A i \in DOMAIN g : g[i].mv \in {r.signals[j].mv : j \in DOMAIN r.signals} \cup {mv}
    BY <1>1, <1>3, <1>4
  <2>2. \A j \in DOMAIN r.signals : j \in DOMAIN g /\ g[j] = r.signals[j]
    BY <1>3, <1>4
  <2>3. Len(r.signals) + 1 \in DOMAIN g /\ g[Len(r.signals) + 1].mv = mv
    BY <1>1, <1>3, <1>4
  <2> QED
    BY <2>1, <2>2, <2>3
<1>8. WithSignal(r, mv) \in Sequence
  BY <1>4, <1>5 DEF Sequence
<1> QED
  BY <1>5, <1>6, <1>7, <1>8 DEF MovementsOf

\* The endless sequence for a bus.
LEMMA EndlessFacts ==
    ASSUME NEW mv \in Movements, NEW g \in Seq(Signals)
    PROVE  /\ EndlessFor(mv, g) \in Sequence /\ EndlessFor(mv, g).signals # <<>>
           /\ EndlessFor(mv, g).len = Endless
           /\ MovementsOf(EndlessFor(mv, g)) = {g[j].mv : j \in DOMAIN g} \cup {mv}
<1> DEFINE r == [len |-> Endless, signals |-> g]
<1>1. r \in Sequence
  BY Constants DEF Sequence
<1>2. r.len = Endless /\ MovementsOf(r) = {g[j].mv : j \in DOMAIN g}
  BY DEF MovementsOf
<1> HIDE DEF r
<1>3. EndlessFor(mv, g) = WithSignal(r, mv)
  BY DEF EndlessFor, r
<1> QED
  BY <1>1, <1>2, <1>3, WithSignalFacts

--------------------------------------------------------------------------------
(* The return plan *)

\* GetNextSequence gives a sequence of the cycle.
LEMMA NextType ==
    ASSUME NEW i \in 1 .. Len(Plan)
    PROVE  NextSequence(i) \in 1 .. Len(Plan)
<1> DEFINE n == Len(Plan)
<1>1. n \in Nat /\ n > 0 /\ i \in Nat
  BY Constants
<1> HIDE DEF n
<1>2. i % n \in 0 .. (n - 1)
  BY <1>1
<1> QED
  BY <1>1, <1>2 DEF NextSequence, n

\* The number of sequences that LengthUpTo adds up, and the k-th of them.
Turns(i, last) == ((last + Len(Plan) - i - 1) % Len(Plan)) + 1
Following(i, k) == ((i + k - 1) % Len(Plan)) + 1

\* The sums that LengthUpTo makes.
LEMMA LengthSums ==
    ASSUME NEW i \in 1 .. Len(Plan), NEW last \in 1 .. Len(Plan)
    PROVE  /\ Turns(i, last) \in Nat /\ Turns(i, last) > 0
           /\ \A k \in 1 .. Turns(i, last) : Following(i, k) \in 1 .. Len(Plan)
           /\ \E g : /\ LengthUpTo(i, last) = g[Turns(i, last)]
                     /\ g[0] = 0 /\ \A k \in 0 .. Turns(i, last) : g[k] \in Nat
                     /\ \A k \in 1 .. Turns(i, last) : g[k] = g[k - 1] + Plan[Following(i, k)].len
<1> DEFINE n == Len(Plan)
           turns == Turns(i, last)
           at(k) == Following(i, k)
           D(g) == g = [k \in 0 .. turns |-> IF k = 0 THEN 0 ELSE g[k - 1] + Plan[at(k)].len]
           step == [k \in 1 .. turns |-> [v \in Nat |-> v + Plan[at(k)].len]]
<1>1. /\ n \in Nat /\ n > 0
      /\ \A j \in 1 .. n : Plan[j].len \in Nat /\ Plan[j].len >= Ticks
  BY Constants
<1>2. turns \in Nat /\ turns > 0
  <2>1. last + n - i - 1 \in Int
    BY <1>1
  <2>2. turns = ((last + n - i - 1) % n) + 1
    BY DEF Turns
  <2> HIDE DEF n
  <2> QED
    BY <1>1, <2>1, <2>2
<1>3. \A k \in Nat : k > 0 => at(k) \in 1 .. n
  <2> TAKE k \in Nat
  <2> HAVE k > 0
  <2>3. at(k) = ((i + k - 1) % n) + 1
    BY DEF Following
  <2> HIDE DEF n, at
  <2>1. i + k - 1 \in Nat
    BY <1>1 DEF n
  <2>2. (i + k - 1) % n \in 0 .. (n - 1)
    BY <1>1, <2>1
  <2> QED
    BY <1>1, <2>2, <2>3
<1> HIDE DEF at, turns, n
<1>4. \A k \in 1 .. turns : Plan[at(k)].len \in Nat /\ Plan[at(k)].len >= Ticks
  <2> TAKE k \in 1 .. turns
  <2>1. at(k) \in 1 .. n
    BY <1>2, <1>3
  <2> QED
    BY <1>1, <2>1
<1>5. step \in [1 .. turns -> [Nat -> Nat]]
  BY <1>4
<1>6. Recursive(turns, Nat, 0, step)
  <2> DEFINE zero == 0
  <2>1. zero \in Nat
    OBVIOUS
  <2>2. Recursive(turns, Nat, zero, step)
    <3> HIDE DEF zero, step
    <3> QED
      BY <1>2, <1>5, <2>1, Recursion
  <2> QED
    BY <2>2
<1>7. PICK f \in [0 .. turns -> Nat] : f[0] = 0 /\ \A k \in 1 .. turns : f[k] = step[k][f[k - 1]]
  <2> HIDE DEF step
  <2> QED
    BY <1>6 DEF Recursive
<1>8. D(f)
  <2>1. \A k \in 1 .. turns : f[k] = f[k - 1] + Plan[at(k)].len
    <3> TAKE k \in 1 .. turns
    <3>1. f[k - 1] \in Nat
      <4> HIDE DEF step
      <4> QED
        BY <1>2
    <3> QED
      BY <1>7, <3>1
  <2>2. f = [k \in 0 .. turns |-> f[k]]
    OBVIOUS
  <2>3. \A k \in 0 .. turns : f[k] = IF k = 0 THEN 0 ELSE f[k - 1] + Plan[at(k)].len
    <3>1. f[0] = 0
      BY <1>7
    <3> HIDE DEF step
    <3> QED
      BY <1>2, <3>1, <2>1
  <2> HIDE DEF step
  <2> QED
    BY <2>2, <2>3
<1> DEFINE g == CHOOSE h : D(h)
<1>9. D(g)
  <2> HIDE DEF D
  <2> QED
    BY <1>8
<1>10. LengthUpTo(i, last) = g[turns]
  BY DEF LengthUpTo, Turns, Following, turns, at, n
<1> HIDE DEF g
<1>11. \A h : D(h) => h[0] = 0 /\ \A k \in 1 .. turns : h[k] = h[k - 1] + Plan[at(k)].len
  <2> TAKE h
  <2> HAVE D(h)
  <2> DEFINE y(k) == IF k = 0 THEN 0 ELSE h[k - 1] + Plan[at(k)].len
  <2>1. h = [k \in 0 .. turns |-> y(k)]
    OBVIOUS
  <2>2. \A k \in 0 .. turns : h[k] = y(k)
    <3> HIDE DEF y
    <3> QED
      BY <2>1
  <2>3. h[0] = 0
    BY <1>2, <2>2
  <2>4. \A k \in 1 .. turns : k \in 0 .. turns /\ k # 0
    BY <1>2
  <2>5. \A k \in 1 .. turns : h[k] = h[k - 1] + Plan[at(k)].len
    BY <2>2, <2>4
  <2> QED
    BY <2>3, <2>5
<1> HIDE DEF D
<1>12. /\ g[0] = 0 /\ \A k \in 1 .. turns : g[k] = g[k - 1] + Plan[at(k)].len
       /\ \A k \in 0 .. turns : g[k] \in Nat
  <2>1. g[0] = 0 /\ \A k \in 1 .. turns : g[k] = g[k - 1] + Plan[at(k)].len
    BY <1>9, <1>11
  <2>2. g[0] \in Nat /\ \A k \in 1 .. turns : g[k - 1] \in Nat => g[k] \in Nat
    BY <1>4, <2>1
  <2>3. \A k \in 0 .. turns : g[k] \in Nat
    <3> DEFINE V == Nat
    <3>1. g[0] \in V /\ \A k \in 1 .. turns : g[k - 1] \in V => g[k] \in V
      BY <2>2
    <3>2. \A k \in 0 .. turns : g[k] \in V
      <4> HIDE DEF V
      <4> QED
        BY <1>2, <3>1, RecursionType
    <3> QED
      BY <3>2
  <2> QED
    BY <2>1, <2>3
<1>13. \A k \in 1 .. turns : at(k) \in 1 .. n
  <2> TAKE k \in 1 .. turns
  <2>1. k \in Nat /\ k > 0
    BY <1>2
  <2> QED
    BY <1>3, <2>1
<1>14. /\ LengthUpTo(i, last) = g[turns]
       /\ g[0] = 0 /\ \A k \in 0 .. turns : g[k] \in Nat
       /\ \A k \in 1 .. turns : g[k] = g[k - 1] + Plan[at(k)].len
  BY <1>10, <1>12, Zenon
<1> QED
  BY <1>2, <1>13, <1>14, Zenon DEF turns, at, n

\* The sequences that follow one under way last a second at least.
LEMMA LengthType ==
    ASSUME NEW i \in 1 .. Len(Plan), NEW last \in 1 .. Len(Plan)
    PROVE  LengthUpTo(i, last) \in Nat /\ LengthUpTo(i, last) >= Ticks
<1>0. PICK g : /\ LengthUpTo(i, last) = g[Turns(i, last)]
               /\ g[0] = 0 /\ \A k \in 0 .. Turns(i, last) : g[k] \in Nat
               /\ \A k \in 1 .. Turns(i, last) : g[k] = g[k - 1] + Plan[Following(i, k)].len
  BY LengthSums, Zenon
<1> DEFINE turns == Turns(i, last)
<1>1. turns \in Nat /\ turns > 0 /\ \A k \in 1 .. turns : Following(i, k) \in 1 .. Len(Plan)
  BY LengthSums
<1>2. /\ LengthUpTo(i, last) = g[turns]
      /\ \A k \in 0 .. turns : g[k] \in Nat
      /\ \A k \in 1 .. turns : g[k] = g[k - 1] + Plan[Following(i, k)].len
  BY <1>0, Zenon
<1> HIDE DEF turns
<1>3. turns \in 1 .. turns /\ turns - 1 \in 0 .. turns
  BY <1>1
<1>4. /\ g[turns - 1] \in Nat /\ g[turns] = g[turns - 1] + Plan[Following(i, turns)].len
      /\ Following(i, turns) \in 1 .. Len(Plan)
  BY <1>1, <1>2, <1>3
<1> DEFINE x == g[turns - 1]
           y == Plan[Following(i, turns)].len
<1>5. y \in Nat /\ y >= Ticks
  BY <1>4, Constants
<1> HIDE DEF x, y
<1>6. LengthUpTo(i, last) = x + y /\ x \in Nat
  BY <1>2, <1>4 DEF x, y
<1> QED
  BY <1>5, <1>6, Constants

\* Quotients in order.
LEMMA Quotients ==
    ASSUME NEW x \in Nat, NEW y \in Nat, NEW k \in Nat, k > 0, x <= y
    PROVE  x \div k <= y \div k
<1> DEFINE p == x \div k
           q == y \div k
<1>1. p \in Nat /\ q \in Nat /\ k * p <= x /\ y < k * q + k
  BY Seconds
<1> HIDE DEF p, q
<1> SUFFICES ASSUME q < p PROVE FALSE
  BY <1>1 DEF p, q
<1>2. k * (q + 1) <= k * p
  BY <1>1, Multiples
<1>3. k * (q + 1) = k * q + k
  BY <1>1
<1> QED
  BY <1>1, <1>2, <1>3

\* The parts of a duration shared out in proportion are short of it by less than their
\* number, each by less than one.
LEMMA Shared ==
    ASSUME NEW a \in Nat, NEW back \in Nat, NEW u \in Nat, u > 0, NEW q, q = (a * back) \div u
    PROVE  q \in Nat /\ u * q + u > a * back
<1> DEFINE m == a * back
<1>1. m \in Nat
  OBVIOUS
<1> HIDE DEF m
<1>2. q = m \div u
  BY DEF m
<1>3. q \in Nat /\ m < u * q + u
  BY <1>1, <1>2, Seconds
<1>4. u * q \in Nat
  BY <1>3
<1> QED
  BY <1>1, <1>3, <1>4 DEF m

\* Two parts of a duration, each rounded down, are together short of it by one at most.
LEMMA ShareTwo ==
    ASSUME NEW a \in Nat, NEW b \in Nat, NEW back \in Nat, a + b > 0,
           NEW q \in Nat, NEW r \in Nat, NEW u, u = a + b,
           u * q + u > a * back, u * r + u > b * back
    PROVE  q + r >= back - 1
<1> SUFFICES ASSUME q + r + 2 <= back PROVE FALSE
  OBVIOUS
<1>1. u \in Nat
  OBVIOUS
<1>2. a * back + b * back = u * back
  OBVIOUS
<1>3. u * (q + r + 2) = u * q + u * r + u + u
  OBVIOUS
<1>4. u * (q + r + 2) <= u * back
  <2>1. q + r + 2 \in Nat
    OBVIOUS
  <2> QED
    BY <1>1, <2>1, Multiples
<1> DEFINE x == a * back
           y == b * back
           z == u * back
           v == u * q
           w == u * r
<1>5. x \in Nat /\ y \in Nat /\ z \in Nat /\ v \in Nat /\ w \in Nat
  OBVIOUS
<1>6. x + y = z /\ v + w + u + u <= z /\ v + u > x /\ w + u > y
  BY <1>2, <1>3, <1>4
<1> HIDE DEF x, y, z, v, w
<1> QED
  BY <1>1, <1>5, <1>6

\* Three parts, of a whole that may be taken too small, are short of it by two at most.
LEMMA ShareThree ==
    ASSUME NEW a \in Nat, NEW b \in Nat, NEW c \in Nat, NEW back \in Nat,
           NEW u \in Nat, u <= a + b + c,
           NEW q \in Nat, NEW r \in Nat, NEW s \in Nat,
           u * q + u > a * back, u * r + u > b * back, u * s + u > c * back
    PROVE  q + r + s >= back - 2
<1> SUFFICES ASSUME q + r + s + 3 <= back PROVE FALSE
  OBVIOUS
<1>2. a * back + b * back + c * back = (a + b + c) * back
  OBVIOUS
<1>3. u * (q + r + s + 3) = u * q + u * r + u * s + u + u + u
  OBVIOUS
<1>4. u * (q + r + s + 3) <= u * back
  <2>1. q + r + s + 3 \in Nat
    OBVIOUS
  <2> QED
    BY <2>1, Multiples
<1>7. u * back <= (a + b + c) * back
  <2>1. back * u <= back * (a + b + c)
    BY Multiples
  <2>2. back * u = u * back /\ back * (a + b + c) = (a + b + c) * back
    OBVIOUS
  <2> QED
    BY <2>1, <2>2
<1> DEFINE x == a * back
           y == b * back
           z == c * back
           m == (a + b + c) * back
           n == u * back
           v == u * q
           w == u * r
           k == u * s
<1>5. /\ x \in Nat /\ y \in Nat /\ z \in Nat /\ v \in Nat /\ w \in Nat /\ k \in Nat
      /\ m \in Nat /\ n \in Nat
  OBVIOUS
<1>6. /\ x + y + z = m /\ v + w + k + u + u + u <= n /\ n <= m
      /\ v + u > x /\ w + u > y /\ k + u > z
  BY <1>2, <1>3, <1>4, <1>7
<1> HIDE DEF x, y, z, v, w, k, m, n
<1> QED
  BY <1>5, <1>6

\* No two of these movements cross.
Free(mvs) == \A pair \in Crossing : ~(pair \subseteq mvs)

\* Each sequence of the plan lets movements go that do not cross.
FreeOfConflicts(plan) == \A i \in DOMAIN plan.seqs : Free(MovementsOf(plan.seqs[i]))

\* A return plan, whose cycle is the length of its sequences.
ReturnOK(plan) ==
    /\ plan.seqs \in Seq(Sequence) /\ plan.seqs # <<>>
    /\ plan.cycle = TotalLength(plan.seqs) /\ plan.cycle \in Int /\ plan.cycle >= Ticks
    /\ FreeOfConflicts(plan)

\* A sequence made from one of the cycle lets the same movements go.
LEMMA LikeFree ==
    ASSUME NEW i \in 1 .. Len(Plan), NEW s, Like(s, Plan[i])
    PROVE  Free(MovementsOf(s))
<1>1. MovementsOf(s) = SignalledIn(i)
  BY DEF Like, MovementsOf, SignalledIn
<1>2. \A pair \in Crossing : ~(pair \subseteq SignalledIn(i))
  BY Constants, TrafficLightsAssumption
<1> QED
  BY <1>1, <1>2 DEF Free

\* Two sequences make a plan.
LEMMA PlanOfTwo ==
    ASSUME NEW s1 \in Sequence, NEW s2 \in Sequence
    PROVE  /\ <<s1, s2>> \in Seq(Sequence) /\ <<s1, s2>> # <<>>
           /\ Len(<<s1, s2>>) = 2 /\ DOMAIN <<s1, s2>> = {1, 2}
           /\ s2.len = Endless => TotalLength(<<s1, s2>>) = Endless
           /\ s1.len \in Nat /\ s2.len \in Nat /\ s1.len + s2.len >= Ticks =>
                 TotalLength(<<s1, s2>>) >= Ticks
<1> DEFINE seqs == <<s1, s2>>
           e == EndOf(seqs)
<1>1. /\ seqs \in Seq(Sequence) /\ Len(seqs) = 2 /\ seqs[1] = s1 /\ seqs[2] = s2
      /\ DOMAIN seqs = {1, 2} /\ seqs # <<>>
  OBVIOUS
<1>2. e[0] = 0 /\ \A i \in 1 .. 2 : e[i] = IF seqs[i].len = Endless THEN Endless
                                             ELSE e[i - 1] + seqs[i].len
  <2> HIDE DEF seqs
  <2> QED
    BY <1>1, Ends
<1>3. TotalLength(seqs) = e[2]
  BY <1>1 DEF TotalLength
<1>4. /\ e[1] = IF s1.len = Endless THEN Endless ELSE s1.len
      /\ e[2] = IF s2.len = Endless THEN Endless ELSE e[1] + s2.len
  <2>1. s1.len \in Int /\ s2.len \in Int
    BY DEF Sequence
  <2> HIDE DEF seqs, e
  <2>2. e[1] = IF seqs[1].len = Endless THEN Endless ELSE e[0] + seqs[1].len
    BY <1>2
  <2>3. e[2] = IF seqs[2].len = Endless THEN Endless ELSE e[1] + seqs[2].len
    BY <1>2
  <2> QED
    BY <1>1, <1>2, <2>1, <2>2, <2>3
<1>5. Endless \in Nat /\ Endless > Ticks /\ Ticks \in Nat
  BY Constants
<1> HIDE DEF seqs, e
<1> QED
  BY <1>1, <1>3, <1>4, <1>5 DEF seqs

\* And three.
LEMMA PlanOfThree ==
    ASSUME NEW s1 \in Sequence, NEW s2 \in Sequence, NEW s3 \in Sequence
    PROVE  /\ <<s1, s2, s3>> \in Seq(Sequence) /\ <<s1, s2, s3>> # <<>>
           /\ Len(<<s1, s2, s3>>) = 3 /\ DOMAIN <<s1, s2, s3>> = {1, 2, 3}
           /\ s3.len = Endless => TotalLength(<<s1, s2, s3>>) = Endless
           /\ /\ s1.len \in Nat /\ s2.len \in Nat /\ s3.len \in Nat
              /\ s1.len + s2.len + s3.len >= Ticks
              => TotalLength(<<s1, s2, s3>>) >= Ticks
<1> DEFINE seqs == <<s1, s2, s3>>
           e == EndOf(seqs)
<1>1. /\ seqs \in Seq(Sequence) /\ Len(seqs) = 3 /\ seqs[1] = s1 /\ seqs[2] = s2
      /\ seqs[3] = s3 /\ DOMAIN seqs = {1, 2, 3} /\ seqs # <<>>
  OBVIOUS
<1>2. e[0] = 0 /\ \A i \in 1 .. 3 : e[i] = IF seqs[i].len = Endless THEN Endless
                                             ELSE e[i - 1] + seqs[i].len
  <2> HIDE DEF seqs
  <2> QED
    BY <1>1, Ends
<1>3. TotalLength(seqs) = e[3]
  BY <1>1 DEF TotalLength
<1>4. /\ e[1] = IF s1.len = Endless THEN Endless ELSE s1.len
      /\ e[2] = IF s2.len = Endless THEN Endless ELSE e[1] + s2.len
      /\ e[3] = IF s3.len = Endless THEN Endless ELSE e[2] + s3.len
  <2>1. s1.len \in Int /\ s2.len \in Int /\ s3.len \in Int
    BY DEF Sequence
  <2> HIDE DEF seqs, e
  <2>2. e[1] = IF seqs[1].len = Endless THEN Endless ELSE e[0] + seqs[1].len
    BY <1>2
  <2>3. e[2] = IF seqs[2].len = Endless THEN Endless ELSE e[1] + seqs[2].len
    BY <1>2
  <2>4. e[3] = IF seqs[3].len = Endless THEN Endless ELSE e[2] + seqs[3].len
    BY <1>2
  <2> QED
    BY <1>1, <1>2, <2>1, <2>2, <2>3, <2>4
<1>5. Endless \in Nat /\ Endless > Ticks /\ Ticks \in Nat
  BY Constants
<1> HIDE DEF seqs, e
<1> QED
  BY <1>1, <1>3, <1>4, <1>5 DEF seqs

\* The two lengths of a return plan: together the time left, but for the roundings.
LEMMA TwoShares ==
    ASSUME NEW i \in 1 .. Len(Plan), NEW j \in 1 .. Len(Plan),
           NEW back \in Nat, back > Ticks,
           NEW l1, l1 = Share(Plan[i].len, back, Plan[i].len + Plan[j].len),
           NEW l2, l2 = Share(Plan[j].len, back, Plan[i].len + Plan[j].len)
    PROVE  l1 \in Nat /\ l2 \in Nat /\ l1 + l2 >= Ticks
<1> DEFINE x == Plan[i].len
           y == Plan[j].len
           a == x \div Ticks
           b == y \div Ticks
           u == (x + y) \div Ticks
<1>1. /\ x \in Nat /\ y \in Nat /\ x >= Ticks /\ y >= Ticks
      /\ x % Ticks = 0 /\ y % Ticks = 0 /\ Ticks \in Nat /\ Ticks > 0
  BY Constants
<1> HIDE DEF x, y
<1>2. a \in Nat /\ b \in Nat /\ u = a + b
  <2>1. a \in Nat /\ b \in Nat
    BY <1>1, Seconds
  <2>2. u = a + b
    BY <1>1, SumOfSeconds
  <2> QED
    BY <2>1, <2>2
<1>3. a > 0
  <2>1. Ticks \div Ticks <= x \div Ticks
    BY <1>1, Quotients
  <2>2. Ticks \div Ticks = 1
    BY <1>1
  <2> QED
    BY <1>2, <2>1, <2>2
<1>4. l1 = (a * back) \div u /\ l2 = (b * back) \div u
  BY DEF Share, x, y
<1> HIDE DEF a, b, u
<1>5. u \in Nat /\ u > 0
  BY <1>2, <1>3
<1>6. /\ l1 \in Nat /\ u * l1 + u > a * back
      /\ l2 \in Nat /\ u * l2 + u > b * back
  BY <1>2, <1>4, <1>5, Shared
<1>7. l1 + l2 >= back - 1
  BY <1>2, <1>3, <1>6, ShareTwo
<1> QED
  BY <1>1, <1>6, <1>7

\* The three lengths of a return plan of three sequences.
LEMMA ThreeShares ==
    ASSUME NEW i \in 1 .. Len(Plan), NEW j \in 1 .. Len(Plan), NEW k \in 1 .. Len(Plan),
           NEW back \in Nat, back > Ticks + 1,
           NEW usual \in Nat, usual >= Ticks,
           usual <= Plan[i].len + Plan[j].len + Plan[k].len,
           NEW l1, l1 = Share(Plan[i].len, back, usual),
           NEW l2, l2 = Share(Plan[j].len, back, usual),
           NEW l3, l3 = Share(Plan[k].len, back, usual)
    PROVE  l1 \in Nat /\ l2 \in Nat /\ l3 \in Nat /\ l1 + l2 + l3 >= Ticks
<1> DEFINE x == Plan[i].len
           y == Plan[j].len
           z == Plan[k].len
           a == x \div Ticks
           b == y \div Ticks
           c == z \div Ticks
           u == usual \div Ticks
<1>1. /\ x \in Nat /\ y \in Nat /\ z \in Nat
      /\ x % Ticks = 0 /\ y % Ticks = 0 /\ z % Ticks = 0 /\ Ticks \in Nat /\ Ticks > 0
  BY Constants
<1>0. usual <= x + y + z
  OBVIOUS
<1>4. l1 = (a * back) \div u /\ l2 = (b * back) \div u /\ l3 = (c * back) \div u
  BY DEF Share
<1> HIDE DEF x, y, z
<1>2. a \in Nat /\ b \in Nat /\ c \in Nat /\ u \in Nat
  BY <1>1, Seconds
<1>3. u > 0
  <2>1. Ticks \div Ticks <= usual \div Ticks
    BY <1>1, Quotients
  <2>2. Ticks \div Ticks = 1
    BY <1>1
  <2> QED
    BY <1>2, <2>1, <2>2
<1>5. u <= a + b + c
  <2>1. (x + y) \div Ticks = a + b /\ (x + y) % Ticks = 0 /\ x + y \in Nat
    BY <1>1, SumOfSeconds
  <2>2. (x + y + z) \div Ticks = a + b + c
    <3> DEFINE w == x + y
    <3>1. (w + z) \div Ticks = (w \div Ticks) + c
      <4>1. w \in Nat /\ w % Ticks = 0
        BY <2>1
      <4> HIDE DEF w
      <4> QED
        BY <1>1, <4>1, SumOfSeconds
    <3> HIDE DEF a, b, c
    <3> QED
      BY <2>1, <3>1
  <2>3. usual \div Ticks <= (x + y + z) \div Ticks
    <3>1. x + y + z \in Nat
      BY <1>1
    <3> QED
      BY <1>0, <1>1, <3>1, Quotients
  <2> QED
    BY <2>2, <2>3
<1> HIDE DEF a, b, c, u
<1>6. /\ l1 \in Nat /\ u * l1 + u > a * back
      /\ l2 \in Nat /\ u * l2 + u > b * back
      /\ l3 \in Nat /\ u * l3 + u > c * back
  BY <1>2, <1>3, <1>4, Shared
<1>7. l1 + l2 + l3 >= back - 2
  BY <1>2, <1>5, <1>6, ShareThree
<1>8. l1 \in Nat /\ l2 \in Nat /\ l3 \in Nat
  BY <1>6
<1>9. Ticks \in Nat /\ Ticks <= back - 2
  BY <1>1
<1>10. ASSUME NEW m1 \in Nat, NEW m2 \in Nat, NEW m3 \in Nat, m1 + m2 + m3 >= back - 2
       PROVE  m1 + m2 + m3 >= Ticks
  BY <1>9, <1>10
<1>11. l1 + l2 + l3 >= Ticks
  BY <1>7, <1>8, <1>10
<1> QED
  BY <1>8, <1>11

\* The instants at which the sequences of the cycle end are whole seconds, in order.
LEMMA CycleEnds ==
    /\ EndOf(Plan)[0] = 0
    /\ \A a \in 0 .. Len(Plan) : EndOf(Plan)[a] \in Nat /\ Whole(EndOf(Plan)[a])
    /\ \A a, b \in 0 .. Len(Plan) : a < b => EndOf(Plan)[a] < EndOf(Plan)[b]
<1> DEFINE n == Len(Plan)
           e == EndOf(Plan)
<1>1. /\ n \in Nat /\ n > 0 /\ e \in [0 .. n -> Int] /\ e[0] = 0
      /\ \A i \in 1 .. n : e[i] = e[i - 1] + Plan[i].len
  BY Constants, Ends, CycleLength
<1>2. \A i \in 1 .. n : Plan[i].len \in Nat /\ Plan[i].len > 0 /\ Whole(Plan[i].len)
  <2> TAKE i \in 1 .. n
  <2>1. Plan[i].len \in Nat /\ Plan[i].len >= Ticks /\ Plan[i].len % Ticks = 0
    BY Constants
  <2>2. Whole(Plan[i].len)
    BY <2>1 DEF Whole
  <2> QED
    BY <2>1, <2>2, Constants
<1> HIDE DEF n, e
<1>3. ASSUME NEW j \in Nat, j + 1 <= n
      PROVE  e[j] \in Int /\ Plan[j + 1].len \in Nat /\ Plan[j + 1].len > 0
             /\ Whole(Plan[j + 1].len) /\ e[j + 1] = e[j] + Plan[j + 1].len
  <2>1. j + 1 \in 1 .. n /\ (j + 1) - 1 = j /\ j \in 0 .. n
    BY <1>1, <1>3
  <2> QED
    BY <1>1, <1>2, <2>1
<1>4. \A a \in 0 .. n : e[a] \in Nat /\ Whole(e[a])
  <2> DEFINE G == {j \in Nat : j <= n => e[j] \in Nat /\ Whole(e[j])}
  <2>1. 0 \in G
    BY <1>1, Constants DEF Whole
  <2>2. \A j \in Nat : j \in G => j + 1 \in G
    <3> TAKE j \in Nat
    <3> HAVE j \in G
    <3> SUFFICES ASSUME j + 1 <= n PROVE e[j + 1] \in Nat /\ Whole(e[j + 1])
      OBVIOUS
    <3> DEFINE x == e[j]
               y == Plan[j + 1].len
    <3>1. x \in Nat /\ Whole(x) /\ y \in Nat /\ Whole(y) /\ e[j + 1] = x + y
      BY <1>1, <1>3
    <3> HIDE DEF x, y
    <3>2. x + y \in Nat /\ Whole(x + y)
      BY <3>1, WholeSum
    <3> QED
      BY <3>1, <3>2, Zenon
  <2>3. \A j \in Nat : j \in G
    <3> HIDE DEF G
    <3> QED
      BY <2>1, <2>2, NatSetInduction
  <2> QED
    BY <1>1, <2>3
<1>5. \A a, b \in 0 .. n : a < b => e[a] < e[b]
  <2> TAKE a \in 0 .. n
  <2> DEFINE G == {k \in Nat : a + k + 1 <= n => e[a] < e[a + k + 1]}
  <2>1. a \in Nat /\ e[a] \in Nat
    BY <1>4
  <2>2. 0 \in G
    <3> SUFFICES ASSUME a + 1 <= n PROVE e[a] < e[a + 1]
      BY <2>1
    <3>1. e[a + 1] = e[a] + Plan[a + 1].len /\ Plan[a + 1].len \in Nat /\ Plan[a + 1].len > 0
      BY <1>3, <2>1
    <3> QED
      BY <2>1, <3>1
  <2>3. \A k \in Nat : k \in G => k + 1 \in G
    <3> TAKE k \in Nat
    <3> HAVE k \in G
    <3> SUFFICES ASSUME a + (k + 1) + 1 <= n PROVE e[a] < e[a + (k + 1) + 1]
      OBVIOUS
    <3> DEFINE j == a + k + 1
    <3>1. j \in Nat /\ j + 1 <= n /\ a + (k + 1) + 1 = j + 1 /\ e[a] < e[j]
      BY <1>1, <2>1
    <3> HIDE DEF j
    <3>2. e[j] \in Int /\ e[j + 1] = e[j] + Plan[j + 1].len
          /\ Plan[j + 1].len \in Nat /\ Plan[j + 1].len > 0
      BY <1>3, <3>1
    <3> QED
      BY <2>1, <3>1, <3>2
  <2>4. \A k \in Nat : k \in G
    <3> HIDE DEF G
    <3> QED
      BY <2>2, <2>3, NatSetInduction
  <2> TAKE b \in 0 .. n
  <2> HAVE a < b
  <2>5. b - a - 1 \in Nat /\ a + (b - a - 1) + 1 = b /\ b <= n
    BY <1>1
  <2>6. b - a - 1 \in G
    <3> HIDE DEF G
    <3> QED
      BY <2>4, <2>5
  <2> QED
    BY <2>5, <2>6
<1> QED
  BY <1>1, <1>4, <1>5 DEF n, e

\* The remainder of what is not twice the divisor.
LEMMA Wrap ==
    ASSUME NEW x \in Nat, NEW n \in Nat, n > 0, x < n + n
    PROVE  x % n = IF x < n THEN x ELSE x - n
<1> DEFINE q == x \div n
           r == x % n
<1>1. q \in Nat /\ r \in 0 .. (n - 1) /\ x = n * q + r
  OBVIOUS
<1> HIDE DEF q, r
<1>2. q = 0 \/ q = 1
  <2> SUFFICES ASSUME q >= 2 PROVE FALSE
    BY <1>1
  <2>1. n * 2 <= n * q
    BY <1>1, Multiples
  <2> QED
    BY <1>1, <2>1
<1>3. CASE q = 0
  BY <1>1, <1>3 DEF r
<1>4. CASE q = 1
  BY <1>1, <1>4 DEF r
<1> QED
  BY <1>2, <1>3, <1>4

\* What LengthUpTo adds up goes from the end of sequence i to the next end of sequence last.
LEMMA LengthIs ==
    ASSUME NEW i \in 1 .. Len(Plan), NEW last \in 1 .. Len(Plan)
    PROVE  LengthUpTo(i, last) =
              IF i < last THEN EndOf(Plan)[last] - EndOf(Plan)[i]
              ELSE TotalLength(Plan) - EndOf(Plan)[i] + EndOf(Plan)[last]
<1>0. PICK g : /\ LengthUpTo(i, last) = g[Turns(i, last)]
               /\ g[0] = 0 /\ \A k \in 0 .. Turns(i, last) : g[k] \in Nat
               /\ \A k \in 1 .. Turns(i, last) : g[k] = g[k - 1] + Plan[Following(i, k)].len
  BY LengthSums, Zenon
<1> DEFINE n == Len(Plan)
           e == EndOf(Plan)
           turns == Turns(i, last)
           Sum(k) == IF i + k <= n THEN e[i + k] - e[i] ELSE e[n] - e[i] + e[i + k - n]
<1>1. /\ n \in Nat /\ n > 0 /\ i \in 1 .. n /\ last \in 1 .. n
      /\ e[0] = 0 /\ \A a \in 0 .. n : e[a] \in Nat
      /\ \A j \in 1 .. n : e[j] = e[j - 1] + Plan[j].len /\ Plan[j].len \in Nat
  BY Constants, CycleEnds, CycleLength
<1>2. turns \in Nat /\ LengthUpTo(i, last) = g[turns] /\ g[0] = 0
  BY <1>0, LengthSums
<1>3. \A k \in 1 .. turns : g[k] = g[k - 1] + Plan[Following(i, k)].len
  BY <1>0
<1>4. turns = IF i < last THEN last - i ELSE last + n - i
  <2> DEFINE x == last + n - i - 1
  <2>1. turns = (x % n) + 1
    BY DEF Turns
  <2> HIDE DEF n
  <2>2. x \in Nat /\ x < n + n /\ (x < n <=> ~(i < last))
    BY <1>1
  <2>3. x = last + n - i - 1
    OBVIOUS
  <2> HIDE DEF x, turns
  <2>4. x % n = IF x < n THEN x ELSE x - n
    BY <1>1, <2>2, Wrap
  <2> QED
    BY <1>1, <2>1, <2>2, <2>3, <2>4
<1>5. \A k \in Nat : k < turns => Following(i, k + 1) = IF i + k < n THEN i + k + 1 ELSE i + k - n + 1
  <2> TAKE k \in Nat
  <2> HAVE k < turns
  <2> DEFINE x == i + k
  <2>1. Following(i, k + 1) = ((i + (k + 1) - 1) % n) + 1
    BY DEF Following
  <2>2. i + (k + 1) - 1 = x
    BY <1>1
  <2>3. x \in Nat /\ x < n + n
    <3> HIDE DEF n, turns
    <3> QED
      BY <1>1, <1>2, <1>4
  <2> HIDE DEF n
  <2> DEFINE y == x % n
  <2>4. y = IF x < n THEN x ELSE x - n
    <3> HIDE DEF x
    <3> QED
      BY <1>1, <2>3, Wrap
  <2>5. Following(i, k + 1) = y + 1
    BY <2>1, <2>2
  <2> HIDE DEF y
  <2> QED
    BY <1>1, <2>4, <2>5
<1> HIDE DEF n, e, turns
<1>6. Sum(0) = 0 /\ Sum(turns) = IF i < last THEN e[last] - e[i] ELSE e[n] - e[i] + e[last]
  <2>1. Sum(0) = 0
    BY <1>1
  <2>2. CASE i < last
    <3>1. i + turns = last
      BY <1>1, <1>4, <2>2
    <3> QED
      BY <1>1, <2>1, <2>2, <3>1
  <2>3. CASE ~(i < last)
    <3>1. i + turns = last + n /\ i + turns - n = last
      BY <1>1, <1>4, <2>3
    <3> QED
      BY <1>1, <2>1, <2>3, <3>1
  <2> QED
    BY <2>2, <2>3
<1> DEFINE G == {k \in Nat : k <= turns => g[k] = Sum(k)}
<1>7. 0 \in G
  BY <1>2, <1>6
<1>8. \A k \in Nat : k \in G => k + 1 \in G
  <2> TAKE k \in Nat
  <2> HAVE k \in G
  <2> SUFFICES ASSUME k + 1 <= turns PROVE g[k + 1] = Sum(k + 1)
    OBVIOUS
  <2>1. k + 1 \in 1 .. turns /\ (k + 1) - 1 = k /\ k < turns /\ k <= turns
    BY <1>2
  <2>2. g[k] = Sum(k) /\ g[k + 1] = g[k] + Plan[Following(i, k + 1)].len
    BY <1>3, <2>1
  <2>3. CASE i + k < n
    <3> DEFINE j == i + k + 1
    <3>1. j \in 1 .. n /\ Following(i, k + 1) = j /\ j - 1 = i + k /\ i + (k + 1) = j
      BY <1>1, <1>5, <2>1, <2>3
    <3>2. g[k] = e[j - 1] - e[i]
      <4>1. g[k] = e[i + k] - e[i]
        BY <1>1, <2>2, <2>3
      <4> HIDE DEF j, Sum
      <4> QED
        BY <3>1, <4>1
    <3>3. Sum(k + 1) = e[j] - e[i]
      BY <3>1
    <3> HIDE DEF j, Sum
    <3>4. g[k + 1] = g[k] + Plan[j].len
      BY <2>2, <3>1
    <3>5. e[j] = e[j - 1] + Plan[j].len /\ Plan[j].len \in Nat /\ e[j - 1] \in Nat /\ e[i] \in Nat
      <4>1. j - 1 \in 0 .. n /\ i \in 0 .. n
        BY <1>1, <3>1
      <4> QED
        BY <1>1, <3>1, <4>1
    <3> QED
      BY <3>2, <3>3, <3>4, <3>5
  <2>4. CASE ~(i + k < n)
    <3> DEFINE j == i + k - n + 1
    <3>1. /\ j \in 1 .. n /\ Following(i, k + 1) = j /\ j - 1 = i + k - n
          /\ i + (k + 1) - n = j /\ ~(i + (k + 1) < n)
      <4>1. turns <= n
        BY <1>1, <1>4
      <4> QED
        BY <1>1, <1>2, <1>5, <2>1, <2>4, <4>1
    <3>2. g[k] = e[n] - e[i] + e[j - 1]
      <4>1. CASE i + k = n
        <5>1. g[k] = e[n] - e[i]
          <6>1. g[k] = e[i + k] - e[i]
            BY <1>1, <2>2, <4>1
          <6> HIDE DEF Sum
          <6> QED
            BY <4>1, <6>1
        <5>2. j - 1 = 0 /\ e[n] \in Nat /\ e[i] \in Nat
          BY <1>1, <3>1, <4>1
        <5> HIDE DEF j
        <5> QED
          BY <1>1, <5>1, <5>2
      <4>2. CASE i + k # n
        BY <1>1, <2>2, <2>4, <3>1, <4>2
      <4> QED
        BY <4>1, <4>2
    <3>3. Sum(k + 1) = e[n] - e[i] + e[j]
      BY <1>1, <2>4, <3>1
    <3> HIDE DEF j, Sum
    <3>4. g[k + 1] = g[k] + Plan[j].len
      BY <2>2, <3>1
    <3>5. /\ e[j] = e[j - 1] + Plan[j].len /\ Plan[j].len \in Nat /\ e[j - 1] \in Nat
          /\ e[i] \in Nat /\ e[n] \in Nat
      <4>1. j - 1 \in 0 .. n /\ i \in 0 .. n /\ n \in 0 .. n
        BY <1>1, <3>1
      <4> QED
        BY <1>1, <3>1, <4>1
    <3> QED
      BY <3>2, <3>3, <3>4, <3>5
  <2> QED
    BY <2>3, <2>4
<1>9. turns \in G
  <2>1. \A k \in Nat : k \in G
    <3> HIDE DEF G
    <3> QED
      BY <1>7, <1>8, NatSetInduction
  <2> QED
    BY <1>2, <2>1
<1>10. LengthUpTo(i, last) = Sum(turns)
  <2> HIDE DEF Sum
  <2> QED
    BY <1>2, <1>9
<1> HIDE DEF Sum
<1> QED
  BY <1>6, <1>10 DEF e, n, TotalLength

\* Only in the first of the two sequences the return goes through is less time left than
\* they last: from any other one both are still to come.
LEMMA FirstUnderWay ==
    ASSUME NEW t \in Nat, NEW i \in 1 .. Len(Plan), NEW j, j = NextSequence(i),
           TimeToEnd(t, j) < Plan[i].len + Plan[j].len
    PROVE  BaseAt(t).index = i
<1> DEFINE n == Len(Plan)
           e == EndOf(Plan)
           x == BaseAt(t).index
           left == BaseAt(t).seq.len - BaseAt(t).elapsed
<1>1. /\ n \in Nat /\ n > 0 /\ e[0] = 0 /\ TotalLength(Plan) = e[n]
      /\ \A a \in 0 .. n : e[a] \in Nat
      /\ \A a, b \in 0 .. n : a < b => e[a] < e[b]
  BY Constants, CycleEnds DEF TotalLength
<1>2. x \in 1 .. n /\ left \in Nat /\ left > 0
  <2>1. /\ x \in 1 .. n /\ BaseAt(t).seq = Plan[x] /\ BaseAt(t).elapsed \in Nat
        /\ BaseAt(t).elapsed < BaseAt(t).seq.len
    BY BaseFacts
  <2>2. BaseAt(t).seq.len \in Nat
    BY <2>1, Constants
  <2> QED
    BY <2>1, <2>2
<1>3. j \in 1 .. n /\ j = IF i < n THEN i + 1 ELSE 1
  <2>1. n \in Nat /\ n > 0 /\ i \in 1 .. n
    BY <1>1
  <2>2. j = (i % n) + 1
    BY DEF NextSequence
  <2> HIDE DEF n
  <2>3. i \in Nat /\ i < n + n
    BY <2>1
  <2>4. i % n = IF i < n THEN i ELSE i - n
    BY <2>1, <2>3, Wrap
  <2> QED
    BY <2>1, <2>2, <2>4
<1>4. /\ Plan[i].len = e[i] - e[i - 1] /\ Plan[j].len = e[j] - e[j - 1]
      /\ i \in 0 .. n /\ i - 1 \in 0 .. n /\ j \in 0 .. n /\ j - 1 \in 0 .. n
  <2>1. i \in 0 .. n /\ i - 1 \in 0 .. n /\ j \in 0 .. n /\ j - 1 \in 0 .. n
    BY <1>1, <1>3
  <2>2. e[i] = e[i - 1] + Plan[i].len /\ e[j] = e[j - 1] + Plan[j].len
        /\ Plan[i].len \in Nat /\ Plan[j].len \in Nat
    BY <1>3, CycleLength, Constants
  <2>3. e[i] \in Nat /\ e[i - 1] \in Nat /\ e[j] \in Nat /\ e[j - 1] \in Nat
    BY <1>1, <2>1
  <2> DEFINE li == Plan[i].len
             lj == Plan[j].len
  <2>4. li = e[i] - e[i - 1] /\ lj = e[j] - e[j - 1]
    <3>1. li \in Nat /\ lj \in Nat /\ e[i] = e[i - 1] + li /\ e[j] = e[j - 1] + lj
      BY <2>2
    <3> HIDE DEF e, li, lj
    <3> QED
      BY <2>3, <3>1
  <2> QED
    BY <2>1, <2>4
<1>5. TimeToEnd(t, j) =
         left + (IF x < j THEN e[j] - e[x] ELSE TotalLength(Plan) - e[x] + e[j])
  <2>1. LengthUpTo(x, j) = IF x < j THEN e[j] - e[x] ELSE TotalLength(Plan) - e[x] + e[j]
    <3> HIDE DEF x, e, n
    <3> QED
      BY <1>2, <1>3, LengthIs DEF e, n
  <2>2. TimeToEnd(t, j) = left + LengthUpTo(x, j)
    BY DEF TimeToEnd
  <2> QED
    BY <2>1, <2>2
<1>6. \A a, b \in 0 .. n : a <= b => e[a] <= e[b]
  <2> HIDE DEF n, e
  <2> TAKE a, b \in 0 .. n
  <2>1. e[a] \in Nat /\ e[b] \in Nat
    BY <1>1
  <2>2. a < b => e[a] < e[b]
    BY <1>1
  <2>3. a = b => e[a] = e[b]
    OBVIOUS
  <2> QED
    BY <1>1, <2>1, <2>2, <2>3
<1> HIDE DEF n, e, x, left
<1> SUFFICES ASSUME x # i PROVE FALSE
  BY DEF x
<1>7. x \in 0 .. n /\ n \in 0 .. n /\ e[x] \in Nat /\ e[n] \in Nat /\ e[x] <= e[n]
  <2>1. x \in 0 .. n /\ n \in 0 .. n /\ x <= n
    BY <1>1, <1>2
  <2> QED
    BY <1>1, <1>6, <2>1
<1>8. e[i] \in Nat /\ e[i - 1] \in Nat /\ e[j] \in Nat /\ e[j - 1] \in Nat
  BY <1>1, <1>4
<1>9. CASE i < n
  <2>1. j - 1 = i /\ Plan[i].len + Plan[j].len = e[j] - e[i - 1]
    BY <1>3, <1>4, <1>8, <1>9
  <2>2. CASE x < j
    <3>1. x <= i - 1
      BY <1>2, <1>3, <1>9, <2>2
    <3>2. e[x] <= e[i - 1]
      BY <1>4, <1>6, <1>7, <3>1
    <3>3. left + (e[j] - e[x]) < e[j] - e[i - 1]
      BY <1>5, <2>1, <2>2
    <3> DEFINE b == e[x]
               c == e[i - 1]
               d == e[j]
    <3>4. /\ b \in Nat /\ c \in Nat /\ d \in Nat /\ left \in Nat
          /\ b <= c /\ left + (d - b) < d - c
      BY <1>2, <1>7, <1>8, <3>2, <3>3
    <3> HIDE DEF b, c, d
    <3> QED
      BY <3>4
  <2>3. CASE ~(x < j)
    <3>1. left + (e[n] - e[x] + e[j]) < e[j] - e[i - 1]
      BY <1>1, <1>5, <2>1, <2>3
    <3> DEFINE a == e[n]
               b == e[x]
               c == e[i - 1]
               d == e[j]
    <3>2. /\ a \in Nat /\ b \in Nat /\ c \in Nat /\ d \in Nat /\ left \in Nat
          /\ b <= a /\ left + (a - b + d) < d - c
      BY <1>2, <1>7, <1>8, <3>1
    <3> HIDE DEF a, b, c, d
    <3> QED
      BY <3>2
  <2> QED
    BY <2>2, <2>3
<1>10. CASE i = n
  <2>1. j = 1 /\ e[j - 1] = 0 /\ Plan[i].len + Plan[j].len = e[n] - e[i - 1] + e[j] /\ ~(x < j)
    <3>1. j = 1 /\ j - 1 = 0 /\ ~(x < j)
      BY <1>1, <1>2, <1>3, <1>10
    <3>2. e[j - 1] = 0
      BY <1>1, <3>1
    <3> QED
      BY <1>4, <1>7, <1>8, <1>10, <3>1, <3>2
  <2>2. x <= i - 1
    BY <1>2, <1>10
  <2>3. e[x] <= e[i - 1]
    BY <1>4, <1>6, <1>7, <2>2
  <2>4. TimeToEnd(t, j) = left + (e[n] - e[x] + e[j])
    BY <1>1, <1>5, <2>1
  <2>5. left + (e[n] - e[x] + e[j]) < e[n] - e[i - 1] + e[j]
    BY <2>1, <2>4
  <2> DEFINE a == e[n]
             b == e[x]
             c == e[i - 1]
             d == e[j]
  <2>6. /\ a \in Nat /\ b \in Nat /\ c \in Nat /\ d \in Nat
        /\ b <= c /\ left + (a - b + d) < a - c + d
    BY <1>7, <1>8, <2>3, <2>5
  <2>7. left \in Nat
    BY <1>2
  <2> HIDE DEF a, b, c, d
  <2> QED
    BY <2>6, <2>7
<1> QED
  BY <1>1, <1>4, <1>9, <1>10

\* The time to the end of the second sequence is more than a second.
LEMMA TimeLeft ==
    ASSUME NEW t \in Nat, NEW last \in 1 .. Len(Plan)
    PROVE  TimeToEnd(t, last) \in Nat /\ TimeToEnd(t, last) > Ticks
<1> DEFINE b == BaseAt(t)
           l == LengthUpTo(b.index, last)
<1>1. b.index \in 1 .. Len(Plan) /\ b.seq = Plan[b.index]
      /\ b.elapsed \in Nat /\ b.elapsed < b.seq.len
  BY BaseFacts
<1>2. b.seq.len \in Nat
  BY <1>1, Constants
<1>3. l \in Nat /\ l >= Ticks
  <2> HIDE DEF b
  <2> QED
    BY <1>1, LengthType
<1> DEFINE x == b.seq.len
           y == b.elapsed
<1>4. TimeToEnd(t, last) = x - y + l
  BY DEF TimeToEnd
<1>5. x \in Nat /\ y \in Nat /\ y < x /\ Ticks \in Nat
  BY <1>1, <1>2, Constants
<1> HIDE DEF b, l, x, y
<1> QED
  BY <1>3, <1>4, <1>5

\* A length longer than another by whole seconds.
LEMMA LongerBySeconds ==
    ASSUME NEW x \in Nat, NEW y \in Nat, NEW k \in Nat, k > 0,
           x % k = 0, y % k = 0, x < y
    PROVE  y - x >= k
<1> DEFINE p == x \div k
           q == y \div k
<1>1. p \in Nat /\ q \in Nat /\ x = k * p /\ y = k * q
  OBVIOUS
<1> HIDE DEF p, q
<1>2. p < q
  <2> SUFFICES ASSUME q <= p PROVE FALSE
    BY <1>1
  <2>1. k * q <= k * p
    BY <1>1, Multiples
  <2> QED
    BY <1>1, <2>1
<1>3. k * (p + 1) <= k * q /\ k * (p + 1) = k * p + k
  BY <1>1, <1>2, Multiples
<1> QED
  BY <1>1, <1>3

\* Priority, when the last bus has left: the plan that brings the signals back is well
\* formed, lasts a second at least and has no conflict.
LEMMA ReturnPlanOK ==
    ASSUME NEW c, NEW t \in Nat,
           c.ret1 \in 1 .. Len(Plan), c.ret2 = NextSequence(c.ret1)
    PROVE  ReturnOK(ReturnPlan(c, t))
<1> DEFINE i == c.ret1
           j == c.ret2
           k == NextSequence(c.ret2)
           r1 == Plan[i]
           r2 == Plan[j]
           r3 == Plan[k]
           back == TimeToEnd(t, j)
           usual == r1.len + r2.len
           l1 == Share(r1.len, back, usual)
           l2 == Share(r2.len, back, usual)
           s1 == Resized(r1, l1)
           s2 == Resized(r2, l2)
           tooShort == back < usual /\ (MinGreen(s1) < VertMin \/ MinGreen(s2) < VertMin)
           Length(s, r) == IF MinGreen(s) < VertMin THEN Raised(s).len ELSE r.len
           back3 == r3.len + Length(s1, r1) + Length(s2, r2)
           usual3 == r1.len - BaseAt(t).elapsed + r2.len + r3.len
           Third(s, r, l) == ResizedFrom(Raised(s), r.len, l)
           m1 == Share(r1.len, back3, usual3)
           m2 == Share(r2.len, back3, usual3)
           m3 == Share(r3.len, back3, usual3)
           three == <<Third(s1, r1, m1), Third(s2, r2, m2), Resized(r3, m3)>>
<1>1. i \in 1 .. Len(Plan) /\ j \in 1 .. Len(Plan) /\ k \in 1 .. Len(Plan)
  BY NextType
<1>2. /\ r1 \in Sequence /\ r2 \in Sequence /\ r3 \in Sequence
      /\ r1.signals # <<>> /\ r2.signals # <<>> /\ r3.signals # <<>>
      /\ r1.len \in Nat /\ r2.len \in Nat /\ r3.len \in Nat
      /\ r1.len >= Ticks /\ r2.len >= Ticks /\ r3.len >= Ticks
      /\ r1.len % Ticks = 0 /\ r2.len % Ticks = 0 /\ r3.len % Ticks = 0
  BY <1>1, Constants, ElementOfSeq
<1>3. ReturnPlan(c, t) = IF tooShort THEN PlanOf(three) ELSE PlanOf(<<s1, s2>>)
  BY DEF ReturnPlan
<1>4. back \in Nat /\ back > Ticks
  BY <1>1, TimeLeft
<1> HIDE DEF back
<1>5. l1 \in Nat /\ l2 \in Nat /\ l1 + l2 >= Ticks
  <2> HIDE DEF l1, l2, i, j
  <2> QED
    BY <1>1, <1>4, TwoShares DEF l1, l2
<1> HIDE DEF l1, l2
<1>6. /\ Like(s1, r1) /\ s1.len = l1 /\ Like(s2, r2) /\ s2.len = l2
  <2> HIDE DEF r1, r2
  <2> QED
    BY <1>2, <1>5, ResizedLike
<1> HIDE DEF s1, s2
<1>7. s1 \in Sequence /\ s1.signals # <<>> /\ s2 \in Sequence /\ s2.signals # <<>>
  BY <1>6 DEF Like
<1>8. CASE ~tooShort
  <2> DEFINE seqs == <<s1, s2>>
  <2>1. /\ seqs \in Seq(Sequence) /\ seqs # <<>> /\ DOMAIN seqs = {1, 2}
        /\ seqs[1] = s1 /\ seqs[2] = s2 /\ TotalLength(seqs) >= Ticks
    BY <1>5, <1>6, <1>7, PlanOfTwo
  <2>2. Free(MovementsOf(s1)) /\ Free(MovementsOf(s2))
    BY <1>1, <1>6, LikeFree
  <2>3. ReturnPlan(c, t) = PlanOf(seqs)
    <3> HIDE DEF tooShort, three
    <3> QED
      BY <1>3, <1>8
  <2> HIDE DEF seqs
  <2> QED
    BY <2>1, <2>2, <2>3, TotalType DEF ReturnOK, FreeOfConflicts, PlanOf
<1>9. CASE tooShort
  <2>1. /\ Length(s1, r1) \in Nat /\ Length(s1, r1) > 0
        /\ Length(s2, r2) \in Nat /\ Length(s2, r2) > 0
    <3>1. ASSUME NEW s \in Sequence, s.signals # <<>>, s.len \in Nat,
                 NEW r, r.len \in Nat, r.len >= Ticks
          PROVE  Length(s, r) \in Nat /\ Length(s, r) > 0
      <4>1. Raised(s).len \in Int /\ (MinGreen(s) < VertMin => Raised(s).len > s.len)
        BY <3>1, RaisedLike DEF Like, Sequence
      <4>2. Ticks \in Nat /\ Ticks > 0
        BY Constants
      <4> QED
        BY <3>1, <4>1, <4>2
    <3> HIDE DEF Length, r1, r2
    <3> QED
      BY <1>2, <1>5, <1>6, <1>7, <3>1
  <2> DEFINE n1 == Length(s1, r1)
             n2 == Length(s2, r2)
  <2> HIDE DEF n1, n2
  <2>2. back3 \in Nat /\ back3 > Ticks + 1
    <3>1. back3 = r3.len + n1 + n2
      BY DEF n1, n2
    <3>2. n1 \in Nat /\ n1 > 0 /\ n2 \in Nat /\ n2 > 0
      BY <2>1 DEF n1, n2
    <3> DEFINE x == r3.len
    <3>3. x \in Nat /\ x >= Ticks /\ back3 = x + n1 + n2 /\ Ticks \in Nat
      BY <1>2, <3>1, Constants
    <3> HIDE DEF x, back3
    <3> QED
      BY <3>2, <3>3
  <2> HIDE DEF back3
  <2>3. usual3 \in Nat /\ usual3 >= Ticks /\ usual3 <= r1.len + r2.len + r3.len
    <3> DEFINE b == BaseAt(t)
               x == r1.len
               y == r2.len
               z == r3.len
               w == b.seq.len
               v == b.elapsed
    <3>1. v \in Nat /\ v < w /\ b.index \in 1 .. Len(Plan) /\ b.seq = Plan[b.index]
      BY BaseFacts
    <3>2. w \in Nat /\ w % Ticks = 0 /\ Ticks \in Nat /\ Ticks > 0
      BY <3>1, Constants
    <3>3. w < x + y + z
      <4>1. b.index = i
        <5>1. TimeToEnd(t, j) < Plan[i].len + Plan[j].len
          BY <1>9 DEF back
        <5> HIDE DEF i, j
        <5>2. i \in 1 .. Len(Plan) /\ j = NextSequence(i)
          BY <1>1 DEF i, j
        <5> QED
          BY <5>1, <5>2, FirstUnderWay
      <4>2. w = x /\ x \in Nat /\ y \in Nat /\ z \in Nat /\ y > 0
        <5>1. r1.len \in Nat /\ r2.len \in Nat /\ r3.len \in Nat /\ r2.len >= Ticks /\ Ticks \in Nat /\ Ticks > 0
          BY <1>2, Constants
        <5>2. w = x
          BY <3>1, <4>1
        <5> QED
          BY <5>1, <5>2
      <4> HIDE DEF w, x, y, z
      <4> QED
        BY <4>2
    <3>4. /\ x \in Nat /\ y \in Nat /\ z \in Nat
          /\ x % Ticks = 0 /\ y % Ticks = 0 /\ z % Ticks = 0
      BY <1>2
    <3>5. usual3 = x - v + y + z
      OBVIOUS
    <3> HIDE DEF b, x, y, z, w, v, usual3
    <3> DEFINE xy == x + y
               sum == xy + z
    <3>6. xy \in Nat /\ sum \in Nat
      <4>1. x \in Nat /\ y \in Nat /\ z \in Nat
        BY <3>4
      <4> QED
        BY <4>1
    <3>7. Whole(xy)
      <4>1. x \in Nat /\ y \in Nat /\ Whole(x) /\ Whole(y)
        BY <3>4 DEF Whole
      <4> QED
        BY <4>1, WholeSum
    <3> HIDE DEF xy
    <3>8. sum % Ticks = 0
      <4>1. z \in Nat /\ Whole(z)
        BY <3>4 DEF Whole
      <4>2. Whole(sum)
        BY <3>6, <3>7, <4>1, WholeSum
      <4> HIDE DEF sum
      <4> QED
        BY <4>2 DEF Whole
    <3> HIDE DEF sum
    <3>9. sum \in Nat /\ sum % Ticks = 0 /\ w < sum /\ usual3 = sum - v /\ sum = x + y + z
      <4>1. x \in Nat /\ y \in Nat /\ z \in Nat /\ v \in Nat
        BY <3>1, <3>4
      <4>2. sum = x + y + z /\ usual3 = sum - v
        BY <3>5, <4>1 DEF sum, xy
      <4> QED
        BY <3>3, <3>6, <3>8, <4>2
    <3>10. sum - w >= Ticks
      BY <3>2, <3>9, LongerBySeconds
    <3>11. sum \in Nat /\ w \in Nat /\ v \in Nat /\ v < w /\ Ticks \in Nat
      BY <3>1, <3>2, <3>9
    <3>12. usual3 \in Nat /\ usual3 >= Ticks /\ usual3 <= sum
      <4>1. usual3 = sum - v
        BY <3>9
      <4> QED
        BY <3>10, <3>11, <4>1
    <3> QED
      BY <3>9, <3>12 DEF x, y, z
  <2> HIDE DEF usual3
  <2>4. m1 \in Nat /\ m2 \in Nat /\ m3 \in Nat /\ m1 + m2 + m3 >= Ticks
    <3> HIDE DEF m1, m2, m3, i, j, k
    <3> QED
      BY <1>1, <2>2, <2>3, ThreeShares DEF m1, m2, m3
  <2> HIDE DEF m1, m2, m3
  <2> DEFINE t1 == Third(s1, r1, m1)
             t2 == Third(s2, r2, m2)
             t3 == Resized(r3, m3)
             seqs == <<t1, t2, t3>>
  <2>5. /\ Like(t1, r1) /\ t1.len = m1 /\ Like(t2, r2) /\ t2.len = m2
        /\ Like(t3, r3) /\ t3.len = m3
    <3>1. ASSUME NEW s \in Sequence, s.signals # <<>>, NEW r \in Sequence, NEW m \in Nat,
                 Like(s, r), r.len \in Nat
          PROVE  Like(Third(s, r, m), r) /\ Third(s, r, m).len = m
      <4> DEFINE u == Raised(s)
                 v == [u EXCEPT !.len = r.len]
      <4>1. Like(u, s)
        BY <3>1, RaisedLike
      <4> HIDE DEF u
      <4>2. Like(v, u)
        BY <3>1, <4>1, Lengthened DEF Like
      <4>3. Third(s, r, m) = Resized(v, m)
        BY DEF ResizedFrom, u
      <4> HIDE DEF v
      <4>4. Like(Resized(v, m), v) /\ Resized(v, m).len = m
        <5>1. v \in Sequence /\ v.signals # <<>> /\ m \in Int
          BY <3>1, <4>2 DEF Like
        <5> QED
          BY <5>1, ResizedLike
      <4> HIDE DEF Third
      <4> QED
        BY <3>1, <4>1, <4>2, <4>3, <4>4 DEF Like
    <3>2. Like(t3, r3) /\ t3.len = m3
      <4> HIDE DEF r3
      <4> QED
        BY <1>2, <2>4, ResizedLike
    <3> HIDE DEF Third, r1, r2, r3, t3
    <3> QED
      BY <1>2, <1>6, <1>7, <2>4, <3>1, <3>2
  <2>6. Free(MovementsOf(t1)) /\ Free(MovementsOf(t2)) /\ Free(MovementsOf(t3))
    <3> HIDE DEF t1, t2, t3, i, j, k
    <3> QED
      BY <1>1, <2>5, LikeFree
  <2>7. ReturnPlan(c, t) = PlanOf(seqs)
    <3>1. three = seqs
      OBVIOUS
    <3> HIDE DEF tooShort, seqs, three
    <3> QED
      BY <1>3, <1>9, <3>1
  <2> HIDE DEF t1, t2, t3
  <2>8. /\ seqs \in Seq(Sequence) /\ seqs # <<>> /\ DOMAIN seqs = {1, 2, 3}
        /\ seqs[1] = t1 /\ seqs[2] = t2 /\ seqs[3] = t3 /\ TotalLength(seqs) >= Ticks
    BY <2>4, <2>5, PlanOfThree DEF Like
  <2> HIDE DEF seqs
  <2> QED
    BY <2>6, <2>7, <2>8, TotalType DEF ReturnOK, FreeOfConflicts, PlanOf
<1> HIDE DEF tooShort
<1> QED
  BY <1>8, <1>9

--------------------------------------------------------------------------------
(* The plans of priority *)

\* Every line has total priority: none shares a sequence of the cycle.
TotalPriority == \A b \in Buses : SharedSeq[b] = 0

\* Movements that no bus crosses.
Clear(mvs) == \A mv \in mvs, b \in Buses : {mv, Movement[b]} \notin Crossing

\* A plan that ends with an endless sequence for the buses.
Guides(plan) ==
    /\ plan.cycle = Endless /\ FreeOfConflicts(plan)
    /\ plan.seqs[Len(plan.seqs)].len = Endless
    /\ Clear(MovementsOf(plan.seqs[Len(plan.seqs)]))

\* A plan of priority: with a line that shares a sequence its end is not kept apart.
PriorityPlan(plan) ==
    plan \in Plans /\ plan.seqs # <<>> /\ (TotalPriority => Guides(plan))

\* The assumptions on the movements that the proofs use.
LEMMA Crossings ==
    /\ Movement \in [Buses -> Movements]
    /\ \A pair \in Crossing : \E a, b \in Movements : pair = {a, b}
    /\ \A a, b \in Buses : {Movement[a], Movement[b]} \notin Crossing
BY TrafficLightsAssumption

\* The movement of a bus can be added to movements that it does not cross.
LEMMA OneMore ==
    ASSUME NEW mvs, Free(mvs), Clear(mvs), NEW b \in Buses
    PROVE  Free(mvs \cup {Movement[b]}) /\ Clear(mvs \cup {Movement[b]})
<1>1. Free(mvs \cup {Movement[b]})
  <2> SUFFICES ASSUME NEW pair \in Crossing, pair \subseteq mvs \cup {Movement[b]}
               PROVE  FALSE
    BY DEF Free
  <2>1. PICK x \in Movements, y \in Movements : pair = {x, y}
    BY Crossings
  <2>2. CASE x \in mvs /\ y \in mvs
    BY <2>1, <2>2 DEF Free
  <2>3. CASE x \in mvs /\ y = Movement[b]
    BY <2>1, <2>3 DEF Clear
  <2>4. CASE y \in mvs /\ x = Movement[b]
    <3>1. pair = {y, Movement[b]}
      BY <2>1, <2>4
    <3> QED
      BY <2>4, <3>1 DEF Clear
  <2>5. CASE x = Movement[b] /\ y = Movement[b]
    <3>1. pair = {Movement[b], Movement[b]}
      BY <2>1, <2>5
    <3> QED
      BY <3>1, Crossings
  <2> QED
    BY <2>1, <2>2, <2>3, <2>4, <2>5
<1>2. Clear(mvs \cup {Movement[b]})
  BY Crossings DEF Clear
<1> QED
  BY <1>1, <1>2

\* The endless sequence for a bus.
LEMMA GuideOfBus ==
    ASSUME NEW b \in Buses
    PROVE  LET s == EndlessFor(Movement[b], <<>>)
           IN  /\ s \in Sequence /\ s.signals # <<>> /\ s.len = Endless
               /\ Free(MovementsOf(s)) /\ Clear(MovementsOf(s))
<1> DEFINE s == EndlessFor(Movement[b], <<>>)
<1>1. Movement[b] \in Movements /\ <<>> \in Seq(Signals) /\ DOMAIN <<>> = {}
  BY Crossings
<1>2. /\ s \in Sequence /\ s.signals # <<>> /\ s.len = Endless
      /\ MovementsOf(s) = {<<>>[j].mv : j \in DOMAIN <<>>} \cup {Movement[b]}
  BY <1>1, EndlessFacts
<1>3. MovementsOf(s) = {} \cup {Movement[b]}
  BY <1>1, <1>2
<1>4. Free({}) /\ Clear({})
  <2>1. \A pair \in Crossing : ~(pair \subseteq {})
    <3> SUFFICES ASSUME NEW pair \in Crossing, pair \subseteq {} PROVE FALSE
      OBVIOUS
    <3>1. PICK x \in Movements, y \in Movements : pair = {x, y}
      BY Crossings
    <3> QED
      BY <3>1
  <2> QED
    BY <2>1 DEF Free, Clear
<1>5. Free(MovementsOf(s)) /\ Clear(MovementsOf(s))
  <2> HIDE DEF s
  <2> QED
    BY <1>3, <1>4, OneMore
<1> HIDE DEF s
<1>6. s = EndlessFor(Movement[b], <<>>)
  BY DEF s
<1> QED
  BY <1>2, <1>5, <1>6

\* A sequence of the cycle and the endless sequence of a bus.
LEMMA GuideAfterOne ==
    ASSUME NEW i \in 1 .. Len(Plan), NEW s, Like(s, Plan[i]), NEW b \in Buses
    PROVE  PriorityPlan(PlanOf(<<s, EndlessFor(Movement[b], <<>>)>>))
<1> DEFINE e == EndlessFor(Movement[b], <<>>)
           seqs == <<s, e>>
<1>1. /\ e \in Sequence /\ e.len = Endless /\ Free(MovementsOf(e)) /\ Clear(MovementsOf(e))
  BY GuideOfBus
<1>2. s \in Sequence /\ Free(MovementsOf(s))
  BY LikeFree DEF Like
<1> HIDE DEF e
<1>3. /\ seqs \in Seq(Sequence) /\ seqs # <<>> /\ Len(seqs) = 2 /\ DOMAIN seqs = {1, 2}
      /\ seqs[1] = s /\ seqs[2] = e /\ TotalLength(seqs) = Endless
  BY <1>1, <1>2, PlanOfTwo
<1> HIDE DEF seqs
<1>4. PriorityPlan(PlanOf(seqs))
  BY <1>1, <1>2, <1>3, TotalType DEF PriorityPlan, Guides, FreeOfConflicts, PlanOf
<1> QED
  BY <1>4 DEF seqs, e

\* A plan of priority of the first type.
LEMMA MinimumRespectedOK ==
    ASSUME NEW b \in Buses, NEW t \in Int, NEW est \in Int, NEW deb \in Int, NEW zone,
           zone.index \in 1 .. Len(Plan), zone.seq = Plan[zone.index]
    PROVE  PriorityPlan(MinimumRespected(b, t, est, zone, deb))
<1> DEFINE i == zone.index
           r == zone.seq
           len == est - (deb - t) - Degagement
           kept == [r EXCEPT !.len = len]
           plan == MinimumRespected(b, t, est, zone, deb)
<1>1. r \in Sequence /\ r.signals # <<>> /\ r = Plan[i]
  BY Constants, ElementOfSeq
<1>2. len \in Int /\ Endless \in Int
  BY Constants
<1> HIDE DEF len
<1>3. Like(kept, Plan[i])
  <2> HIDE DEF r
  <2> QED
    BY <1>1, <1>2, Lengthened
<1>4. plan = IF Shares(b, zone)
             THEN [PlanOf(<<kept>>) EXCEPT !.seqs =
                    <<WithSignal([kept EXCEPT !.len = Endless], Movement[b])>>]
             ELSE PlanOf(<<kept, EndlessFor(Movement[b], <<>>)>>)
  BY DEF MinimumRespected, len
<1> HIDE DEF kept, plan
<1>5. CASE ~Shares(b, zone)
  <2>1. PriorityPlan(PlanOf(<<kept, EndlessFor(Movement[b], <<>>)>>))
    BY <1>3, GuideAfterOne
  <2> QED
    BY <1>4, <1>5, <2>1 DEF plan
<1>6. CASE Shares(b, zone)
  <2> DEFINE w == WithSignal([kept EXCEPT !.len = Endless], Movement[b])
             cycle == TotalLength(<<kept>>)
             seqs == <<w>>
  <2>1. ~TotalPriority
    <3>1. SharedSeq[b] = i /\ i # 0
      BY <1>6 DEF Shares
    <3> QED
      BY <3>1 DEF TotalPriority
  <2>2. kept \in Sequence /\ kept.signals # <<>>
    BY <1>3 DEF Like
  <2>3. [kept EXCEPT !.len = Endless] \in Sequence
    BY <1>2, <2>2, Lengthened DEF Like
  <2>4. w \in Sequence
    <3>1. Movement[b] \in Movements
      BY Crossings
    <3> QED
      BY <2>3, <3>1, WithSignalFacts
  <2>5. cycle \in Int
    <3>1. <<kept>> \in Seq(Sequence)
      BY <2>2
    <3> QED
      BY <3>1, TotalType
  <2>6. plan = [seqs |-> seqs, cycle |-> cycle]
    BY <1>4, <1>6 DEF PlanOf
  <2> HIDE DEF w, cycle
  <2>7. seqs \in Seq(Sequence) /\ seqs # <<>>
    BY <2>4
  <2> HIDE DEF seqs
  <2>8. plan \in Plans
    BY <2>5, <2>6, <2>7 DEF Plans, Sequence
  <2> QED
    BY <2>1, <2>6, <2>7, <2>8 DEF PriorityPlan, plan
<1> QED
  BY <1>5, <1>6 DEF plan

\* A plan of priority of the second type.
LEMMA CurrentShortenedOK ==
    ASSUME NEW b \in Buses, NEW zone,
           zone.index \in 1 .. Len(Plan), zone.seq = Plan[zone.index]
    PROVE  PriorityPlan(CurrentShortened(b, zone))
<1> DEFINE i == zone.index
           r == zone.seq
           u1 == [r EXCEPT !.len = MinLength(r)]
           u2 == [r EXCEPT !.len = Degagement]
           s1 == RedFor(u1, Movement[b])
           s2 == AllRed(u2)
           e == EndlessFor(Movement[b], <<>>)
           seqs == <<s1, s2, e>>
<1>1. r \in Sequence /\ r.signals # <<>> /\ r = Plan[i] /\ i \in 1 .. Len(Plan)
  BY Constants, ElementOfSeq
<1>2. MinLength(r) \in Int /\ Degagement \in Int
  BY <1>1, Minima, Constants
<1>3. CurrentShortened(b, zone) = PlanOf(seqs)
  BY DEF CurrentShortened
<1>4. /\ e \in Sequence /\ e.len = Endless /\ Free(MovementsOf(e)) /\ Clear(MovementsOf(e))
  BY GuideOfBus
<1> HIDE DEF r, e
<1>5. Like(u1, r) /\ Like(u2, r)
  BY <1>1, <1>2, Lengthened
<1> HIDE DEF u1, u2, i
<1>6. Like(s1, r) /\ Like(s2, r)
  BY <1>5, RedLike DEF Like
<1>7. Free(MovementsOf(s1)) /\ Free(MovementsOf(s2)) /\ s1 \in Sequence /\ s2 \in Sequence
  BY <1>1, <1>6, LikeFree DEF Like
<1> HIDE DEF s1, s2
<1>8. /\ seqs \in Seq(Sequence) /\ seqs # <<>> /\ Len(seqs) = 3 /\ DOMAIN seqs = {1, 2, 3}
      /\ seqs[1] = s1 /\ seqs[2] = s2 /\ seqs[3] = e /\ TotalLength(seqs) = Endless
  BY <1>4, <1>7, PlanOfThree
<1> HIDE DEF seqs
<1> DEFINE plan == PlanOf(seqs)
<1>9. plan \in Plans /\ plan.seqs = seqs /\ plan.cycle = Endless
  BY <1>8, TotalType DEF PlanOf
<1> HIDE DEF plan
<1>10. FreeOfConflicts(plan)
  BY <1>4, <1>7, <1>8, <1>9 DEF FreeOfConflicts
<1>11. PriorityPlan(plan)
  BY <1>4, <1>8, <1>9, <1>10 DEF PriorityPlan, Guides
<1> QED
  BY <1>3, <1>11 DEF plan

\* A plan of priority of the third type.
LEMMA CurrentProlongedOK ==
    ASSUME NEW b \in Buses, NEW arrival \in Int, NEW deb \in Int, NEW zone, NEW act,
           zone.index \in 1 .. Len(Plan), zone.seq = Plan[zone.index],
           act.index \in 1 .. Len(Plan), act.seq = Plan[act.index]
    PROVE  PriorityPlan(CurrentProlonged(b, arrival, zone, act, deb))
<1> DEFINE i == act.index
           r == act.seq
           z == zone.seq
           len == arrival - deb
           s == [r EXCEPT !.len = len]
           plan == CurrentProlonged(b, arrival, zone, act, deb)
<1>1. r \in Sequence /\ r.signals # <<>> /\ r = Plan[i] /\ z \in Sequence
  BY Constants, ElementOfSeq
<1>2. len \in Int
  OBVIOUS
<1>3. plan = PlanOf(<<s, EndlessFor(Movement[b], IF Shares(b, zone) THEN z.signals ELSE <<>>)>>)
  BY DEF CurrentProlonged
<1> HIDE DEF len
<1>4. Like(s, Plan[i])
  <2> HIDE DEF r
  <2> QED
    BY <1>1, <1>2, Lengthened
<1> HIDE DEF s, plan
<1>5. CASE ~Shares(b, zone)
  <2>1. PriorityPlan(PlanOf(<<s, EndlessFor(Movement[b], <<>>)>>))
    <3> HIDE DEF i
    <3> QED
      BY <1>4, GuideAfterOne DEF i
  <2> QED
    BY <1>3, <1>5, <2>1 DEF plan
<1>6. CASE Shares(b, zone)
  <2> DEFINE e == EndlessFor(Movement[b], z.signals)
             seqs == <<s, e>>
  <2>1. ~TotalPriority
    <3>1. SharedSeq[b] = zone.index /\ zone.index # 0
      BY <1>6 DEF Shares
    <3> QED
      BY <3>1 DEF TotalPriority
  <2>2. e \in Sequence
    <3>1. z.signals \in Seq(Signals) /\ Movement[b] \in Movements
      BY <1>1, Crossings DEF Sequence
    <3> QED
      BY <3>1, EndlessFacts
  <2>3. plan = PlanOf(seqs)
    BY <1>3, <1>6
  <2> HIDE DEF e
  <2>4. seqs \in Seq(Sequence) /\ seqs # <<>>
    BY <1>4, <2>2, PlanOfTwo DEF Like
  <2> HIDE DEF seqs
  <2> QED
    BY <2>1, <2>3, <2>4, TotalType DEF PriorityPlan, PlanOf, plan
<1> QED
  BY <1>5, <1>6 DEF plan

--------------------------------------------------------------------------------
(* The operations of Update keep the controller consistent *)

\* Buses are processed.
Served(c) == c.mode \in {"O", "P"}

\* A controller whose plan and dates are those of its mode.
Good(c) ==
    /\ c \in Controllers
    /\ c.vgps # {} => Served(c)
    /\ Served(c) => /\ PriorityPlan(c.ex) /\ c.fin = Endless /\ c.deb >= 0
                    /\ c.ret2 = NextSequence(c.ret1)
    /\ c.mode = "Q" /\ c.ex # NoPlan =>
          ReturnOK(c.ex) /\ c.deb >= 0 /\ c.fin = c.deb + c.ex.cycle
    /\ c.mode = "N" => c.ex = NoPlan
    /\ c.shared => c.mode # "N"

\* What becomes of a plan shared with the snapshot: if it still is, the mode is of the
\* same kind, and a return plan is as it was.
Keeps(c, d) ==
    d.shared => /\ c.shared
                /\ \/ Served(c) /\ Served(d)
                   \/ c.mode = "Q" /\ d.mode = "Q" /\ d.ex = c.ex

\* While buses are processed in pre-priority there is one.
SomeBus(c) == c.mode = "O" => c.vgps # {}

\* Two operations that keep a shared plan keep it one after the other.
LEMMA KeepsTransitive ==
    ASSUME NEW c, NEW d, NEW e, Keeps(c, d), Keeps(d, e)
    PROVE  Keeps(c, e)
BY DEF Keeps, Served

\* So does an operation that changes nothing.
LEMMA KeepsItself ==
    ASSUME NEW c, Good(c)
    PROVE  Keeps(c, c)
BY DEF Keeps, Served, Good, Controllers

\* A plan of priority is a plan.
LEMMA SomePlan ==
    ASSUME NEW plan, PriorityPlan(plan)
    PROVE  plan # NoPlan
BY DEF PriorityPlan, NoPlan

\* The detection of the first bus makes a plan of priority, whatever its type.
LEMMA FirstOK ==
    ASSUME NEW c, Good(c), NEW b \in Buses, NEW t \in Nat, NEW est \in Nat
    PROVE  LET d == DetectFirst(c, b, t, est)
           IN  Good(d) /\ Keeps(c, d) /\ SomeBus(d)
<1> DEFINE zone == BaseAt(t + est)
           act == BaseAt(t)
           previous == IF zone.index = 1 THEN Len(Plan) ELSE zone.index - 1
           early == t + est - zone.elapsed - Plan[previous].len
           start == IF t <= early THEN early ELSE t
           kind == IF zone.index # act.index THEN 3
                   ELSE IF act.elapsed + est >= MinLength(zone.seq) + Degagement THEN 1 ELSE 2
           deb == IF kind = 1 THEN start ELSE start - act.elapsed
           ex == CASE kind = 1 -> MinimumRespected(b, t, est, zone, deb)
                   [] kind = 2 -> CurrentShortened(b, zone)
                   [] kind = 3 -> CurrentProlonged(b, t + est, zone, act, deb)
           due == IF kind = 2 THEN deb + MinLength(zone.seq) + Degagement ELSE t + est
           d == DetectFirst(c, b, t, est)
<1>1. t + est \in Nat
  OBVIOUS
<1>2. /\ zone.index \in 1 .. Len(Plan) /\ zone.seq = Plan[zone.index]
      /\ zone.elapsed \in Nat
      /\ act.index \in 1 .. Len(Plan) /\ act.seq = Plan[act.index]
      /\ act.elapsed \in Nat /\ act.elapsed <= t
  <2>1. /\ zone.index \in 1 .. Len(Plan) /\ zone.seq = Plan[zone.index]
        /\ zone.elapsed \in Nat
    BY <1>1, BaseFacts
  <2>2. /\ act.index \in 1 .. Len(Plan) /\ act.seq = Plan[act.index]
        /\ act.elapsed \in Nat /\ act.elapsed <= t
    BY BaseFacts
  <2> QED
    BY <2>1, <2>2
<1>3. d = [c EXCEPT !.mode = "O", !.vgps = {b}, !.shared = FALSE, !.ex = ex, !.deb = deb,
                    !.fin = Endless, !.ret1 = NextSequence(act.index),
                    !.ret2 = NextSequence(NextSequence(act.index)), !.due = due]
  BY DEF DetectFirst
<1> HIDE DEF zone, act, d
<1>4. MinLength(zone.seq) \in Int /\ Degagement \in Nat
  <2>1. zone.seq \in Sequence /\ zone.seq.signals # <<>>
    BY <1>2, Constants, ElementOfSeq
  <2> QED
    BY <2>1, Minima, Constants
<1>5. early \in Int
  <2>1. previous \in 1 .. Len(Plan)
    BY <1>2, Constants
  <2> HIDE DEF previous
  <2> DEFINE x == Plan[previous].len
             y == zone.elapsed
  <2>2. x \in Nat /\ y \in Nat
    BY <1>2, <2>1, Constants
  <2>3. early = t + est - y - x
    OBVIOUS
  <2> HIDE DEF x, y, early
  <2> QED
    BY <2>2, <2>3
<1> HIDE DEF early
<1>6. start \in Int /\ start >= t
  BY <1>5
<1> HIDE DEF start
<1>7. kind \in {1, 2, 3}
  OBVIOUS
<1> HIDE DEF kind
<1>8. deb \in Int /\ deb >= 0
  BY <1>2, <1>6
<1> HIDE DEF deb
<1>9. due \in Int
  BY <1>4, <1>8
<1> HIDE DEF due
<1>10. PriorityPlan(ex)
  <2>1. CASE kind = 1
    BY <1>2, <1>8, <2>1, MinimumRespectedOK
  <2>2. CASE kind = 2
    BY <1>2, <2>2, CurrentShortenedOK
  <2>3. CASE kind = 3
    BY <1>1, <1>2, <1>8, <2>3, CurrentProlongedOK
  <2> QED
    BY <1>7, <2>1, <2>2, <2>3
<1> HIDE DEF ex
<1>11. ex \in Plans
  BY <1>10 DEF PriorityPlan
<1> DEFINE n1 == NextSequence(act.index)
           n2 == NextSequence(NextSequence(act.index))
<1>12. n1 \in DOMAIN Plan /\ n2 \in DOMAIN Plan /\ n2 = NextSequence(n1)
  BY <1>2, NextType, Constants
<1> HIDE DEF n1, n2
<1>13. d = [c EXCEPT !.mode = "O", !.vgps = {b}, !.shared = FALSE, !.ex = ex, !.deb = deb,
                    !.fin = Endless, !.ret1 = n1, !.ret2 = n2, !.due = due]
  BY <1>3 DEF n1, n2
<1>14. c \in Controllers /\ Endless \in Int
  BY Constants DEF Good
<1>15. /\ d \in Controllers /\ d.mode = "O" /\ d.vgps = {b} /\ d.shared = FALSE /\ d.ex = ex
       /\ d.deb = deb /\ d.fin = Endless /\ d.ret1 = n1 /\ d.ret2 = n2
  <2>1. /\ d.mode = "O" /\ d.vgps = {b} /\ d.shared = FALSE /\ d.ex = ex
        /\ d.deb = deb /\ d.fin = Endless /\ d.ret1 = n1 /\ d.ret2 = n2 /\ d.due = due
    BY <1>13, <1>14 DEF Controllers
  <2> DEFINE r == [mode |-> "O", vgps |-> {b}, ex |-> ex, deb |-> deb, fin |-> Endless,
                  ret1 |-> n1, ret2 |-> n2, shared |-> FALSE, due |-> due]
  <2>2. r \in Controllers
    BY <1>8, <1>9, <1>11, <1>12, <1>14 DEF Controllers
  <2>3. d = r
    BY <1>13, <1>14 DEF Controllers
  <2> HIDE DEF r
  <2>4. d \in Controllers
    BY <2>2, <2>3
  <2> QED
    BY <2>1, <2>4
<1>16. Good(d)
  BY <1>8, <1>10, <1>12, <1>15 DEF Good, Served
<1>17. Keeps(c, d) /\ SomeBus(d)
  BY <1>15 DEF Keeps, SomeBus
<1> QED
  BY <1>16, <1>17 DEF d

\* A further bus is added to the last sequence of the plan of priority.
LEMMA FurtherOK ==
    ASSUME NEW c, Good(c), c.vgps # {}, NEW b \in Buses
    PROVE  LET d == DetectFurther(c, b)
           IN  Good(d) /\ Keeps(c, d) /\ SomeBus(d)
<1> DEFINE seqs == c.ex.seqs
           n == Len(seqs)
           last == WithSignal(seqs[n], Movement[b])
           new == [seqs EXCEPT ![n] = last]
           d == DetectFurther(c, b)
<1>1. /\ c \in Controllers /\ Served(c) /\ PriorityPlan(c.ex)
  BY DEF Good
<1>2. /\ seqs \in Seq(Sequence) /\ seqs # <<>> /\ c.ex \in Plans
      /\ n \in Nat /\ n > 0 /\ DOMAIN seqs = 1 .. n
  <2>1. c.ex \in Plans /\ seqs # <<>>
    BY <1>1 DEF PriorityPlan
  <2>2. seqs \in Seq(Sequence)
    BY <2>1 DEF Plans, Sequence
  <2> QED
    BY <2>1, <2>2, LenProperties, EmptySeq
<1>3. /\ last \in Sequence /\ last.len = seqs[n].len
      /\ MovementsOf(last) = MovementsOf(seqs[n]) \cup {Movement[b]}
  <2>1. seqs[n] \in Sequence /\ Movement[b] \in Movements
    BY <1>2, ElementOfSeq, Crossings
  <2> QED
    BY <2>1, WithSignalFacts
<1>4. d = [c EXCEPT !.vgps = @ \cup {b}, !.ex = [@ EXCEPT !.seqs = new]]
  BY DEF DetectFurther
<1> HIDE DEF last, d
<1>5. /\ new \in Seq(Sequence) /\ new # <<>> /\ Len(new) = n /\ DOMAIN new = 1 .. n
      /\ new[n] = last /\ \A i \in 1 .. n : i # n => new[i] = seqs[i]
  <2>1. new \in [1 .. n -> Sequence]
    BY <1>2, <1>3, ElementOfSeq
  <2>2. new[n] = last /\ \A i \in 1 .. n : i # n => new[i] = seqs[i]
    BY <1>2
  <2> HIDE DEF new
  <2> QED
    BY <1>2, <2>1, <2>2, LenProperties, IsASeq, EmptySeq
<1> HIDE DEF new
<1> DEFINE ex == [c.ex EXCEPT !.seqs = new]
<1>6. ex \in Plans /\ ex.seqs = new /\ ex.cycle = c.ex.cycle
  BY <1>2, <1>5 DEF Plans, Sequence
<1>7. d = [c EXCEPT !.vgps = c.vgps \cup {b}, !.ex = ex]
  BY <1>1, <1>4 DEF Controllers
<1> HIDE DEF ex
<1>8. ASSUME TotalPriority PROVE Guides(ex)
  <2>1. /\ c.ex.cycle = Endless /\ FreeOfConflicts(c.ex) /\ seqs[n].len = Endless
        /\ Clear(MovementsOf(seqs[n]))
    BY <1>1, <1>8 DEF PriorityPlan, Guides
  <2>2. Free(MovementsOf(seqs[n]))
    BY <1>2, <2>1 DEF FreeOfConflicts
  <2>3. Free(MovementsOf(last)) /\ Clear(MovementsOf(last))
    BY <1>3, <2>1, <2>2, OneMore
  <2>4. FreeOfConflicts(ex)
    <3>1. \A i \in 1 .. n : Free(MovementsOf(new[i]))
      BY <1>2, <1>5, <2>1, <2>3 DEF FreeOfConflicts
    <3> QED
      BY <1>5, <1>6, <3>1 DEF FreeOfConflicts
  <2>5. ex.seqs[Len(ex.seqs)] = last
    BY <1>5, <1>6
  <2>6. last.len = Endless /\ ex.cycle = Endless
    BY <1>3, <1>6, <2>1
  <2> QED
    BY <2>3, <2>4, <2>5, <2>6 DEF Guides
<1>9. PriorityPlan(ex)
  BY <1>5, <1>6, <1>8 DEF PriorityPlan
<1>10. /\ d \in Controllers /\ d.mode = c.mode /\ d.vgps = c.vgps \cup {b} /\ d.ex = ex
       /\ d.shared = c.shared /\ d.deb = c.deb /\ d.fin = c.fin
       /\ d.ret1 = c.ret1 /\ d.ret2 = c.ret2
  BY <1>1, <1>6, <1>7 DEF Controllers
<1>11. Good(d)
  BY <1>1, <1>9, <1>10 DEF Good, Served
<1>12. Keeps(c, d) /\ SomeBus(d)
  BY <1>1, <1>10 DEF Keeps, SomeBus, Served
<1> QED
  BY <1>11, <1>12 DEF d

\* A plan read after its end is discarded, but never a plan of priority.
LEMMA ReadingOK ==
    ASSUME NEW c, Good(c), NEW t \in Int, t < Endless
    PROVE  LET d == AfterReading(c, t)
           IN  /\ Good(d) /\ Keeps(c, d)
               /\ d.mode = c.mode /\ d.vgps = c.vgps /\ d.fin = c.fin
<1> DEFINE d == AfterReading(c, t)
           dropped == [c EXCEPT !.ex = NoPlan, !.shared = FALSE]
<1>1. c \in Controllers /\ Endless \in Int
  BY Constants DEF Good
<1>2. CASE d = c
  <2> HIDE DEF d
  <2> QED
    BY <1>2, KeepsItself DEF d
<1>3. CASE d # c
  <2>1. d = dropped /\ c.ex # NoPlan /\ t > c.fin
    BY <1>3 DEF AfterReading
  <2>2. ~Served(c)
    BY <1>1, <2>1 DEF Good, Controllers
  <2>3. c.mode = "Q" /\ c.vgps = {}
    BY <1>1, <2>1, <2>2 DEF Good, Served, Controllers
  <2>4. NoPlan \in Plans
    BY DEF NoPlan, Plans
  <2>5. /\ d \in Controllers /\ d.mode = "Q" /\ d.vgps = {} /\ d.ex = NoPlan
        /\ d.shared = FALSE /\ d.fin = c.fin
    BY <1>1, <2>1, <2>3, <2>4 DEF Controllers
  <2> HIDE DEF d
  <2>6. Good(d) /\ Keeps(c, d)
    BY <2>5 DEF Good, Keeps, Served
  <2> QED
    BY <2>3, <2>5, <2>6 DEF d
<1> QED
  BY <1>2, <1>3

\* Detection of a bus, the first or a further one.
LEMMA DetectOK ==
    ASSUME NEW c, Good(c), NEW b \in Buses, NEW t \in Nat, NEW est \in Nat
    PROVE  LET d == Detect(c, b, t, est)
           IN  Good(d) /\ Keeps(c, d) /\ SomeBus(d)
<1>1. CASE c.vgps = {}
  BY <1>1, FirstOK DEF Detect
<1>2. CASE c.vgps # {}
  BY <1>2, FurtherOK DEF Detect
<1> QED
  BY <1>1, <1>2

\* The entry of a bus in the zone.
LEMMA PrePriorityOK ==
    ASSUME NEW c, Good(c), NEW entering
    PROVE  LET d == PrePriority(c, entering)
           IN  Good(d) /\ Keeps(c, d) /\ (SomeBus(c) => SomeBus(d))
<1> DEFINE d == PrePriority(c, entering)
<1>1. c \in Controllers
  BY DEF Good
<1>2. CASE d = c
  <2> HIDE DEF d
  <2> QED
    BY <1>2, KeepsItself DEF d
<1>3. CASE d # c
  <2>1. d = [c EXCEPT !.mode = "P"] /\ c.mode = "O"
    BY <1>3 DEF PrePriority
  <2>2. /\ d \in Controllers /\ d.mode = "P" /\ d.vgps = c.vgps /\ d.ex = c.ex
        /\ d.deb = c.deb /\ d.fin = c.fin /\ d.shared = c.shared
        /\ d.ret1 = c.ret1 /\ d.ret2 = c.ret2
    BY <1>1, <2>1 DEF Controllers
  <2> HIDE DEF d
  <2> QED
    BY <2>1, <2>2 DEF Good, Keeps, Served, SomeBus, d
<1> QED
  BY <1>2, <1>3

\* The exits of buses from the zone, and the return plan when none is left.
LEMMA PriorityOK ==
    ASSUME NEW c, Good(c), NEW t \in Nat, NEW leaving
    PROVE  LET d == Priority(c, t, leaving)
           IN  /\ Good(d) /\ Keeps(c, d) /\ (SomeBus(c) => SomeBus(d))
               /\ d.mode = "P" => d.vgps # {} /\ \A b \in d.vgps : b \notin leaving
<1> DEFINE d == Priority(c, t, leaving)
           left == c.vgps \ leaving
           plan == ReturnPlan(c, t)
<1>1. c \in Controllers /\ DOMAIN Plan = 1 .. Len(Plan)
  BY Constants DEF Good
<1>2. CASE c.mode # "P"
  <2>1. d = c
    BY <1>2 DEF Priority
  <2> HIDE DEF d
  <2> QED
    BY <1>2, <2>1, KeepsItself DEF d
<1>3. CASE c.mode = "P" /\ left # {}
  <2>1. d = [c EXCEPT !.vgps = left]
    BY <1>3 DEF Priority
  <2>2. /\ d \in Controllers /\ d.mode = "P" /\ d.vgps = left /\ d.ex = c.ex
        /\ d.deb = c.deb /\ d.fin = c.fin /\ d.shared = c.shared
        /\ d.ret1 = c.ret1 /\ d.ret2 = c.ret2
    BY <1>1, <1>3, <2>1 DEF Controllers
  <2>3. Good(c) /\ Served(c)
    BY <1>3 DEF Served
  <2> HIDE DEF d
  <2>4. Good(d) /\ Keeps(c, d) /\ SomeBus(d)
    BY <1>3, <2>2, <2>3 DEF Good, Keeps, Served, SomeBus
  <2> QED
    BY <1>3, <2>2, <2>4 DEF d
<1>4. CASE c.mode = "P" /\ left = {}
  <2>1. ReturnOK(plan)
    <3>1. c.ret1 \in 1 .. Len(Plan) /\ c.ret2 = NextSequence(c.ret1)
      BY <1>1, <1>4 DEF Good, Served, Controllers
    <3> QED
      BY <3>1, ReturnPlanOK
  <2>2. plan \in Plans /\ plan.cycle \in Int
    <3>1. plan = [seqs |-> plan.seqs, cycle |-> plan.cycle]
      BY DEF ReturnPlan, PlanOf
    <3> HIDE DEF plan
    <3> QED
      BY <2>1, <3>1 DEF ReturnOK, Plans, Sequence
  <2>3. d = [c EXCEPT !.mode = "Q", !.vgps = {}, !.ex = plan, !.shared = FALSE,
                      !.deb = t, !.fin = t + plan.cycle]
    BY <1>4 DEF Priority
  <2> DEFINE fin == t + plan.cycle
  <2>4. fin \in Int
    BY <2>2
  <2> HIDE DEF plan, fin
  <2>5. /\ d.mode = "Q" /\ d.vgps = {} /\ d.ex = plan /\ d.shared = FALSE
        /\ d.deb = t /\ d.fin = fin
    BY <1>1, <2>3 DEF Controllers, fin
  <2>6. d \in Controllers
    <3> DEFINE r == [mode |-> "Q", vgps |-> {}, ex |-> plan, deb |-> t, fin |-> fin,
                     ret1 |-> c.ret1, ret2 |-> c.ret2, shared |-> FALSE, due |-> c.due]
    <3>1. r \in Controllers
      BY <1>1, <2>2, <2>4 DEF Controllers
    <3>2. d = r
      BY <1>1, <2>3 DEF Controllers, fin
    <3> QED
      BY <3>1, <3>2
  <2> HIDE DEF d
  <2>7. Good(d) /\ Keeps(c, d) /\ SomeBus(d)
    BY <2>1, <2>5, <2>6 DEF Good, Keeps, Served, SomeBus, fin
  <2> QED
    BY <2>5, <2>7 DEF d
<1> QED
  BY <1>2, <1>3, <1>4

\* The end of the return plan.
LEMMA PostPriorityOK ==
    ASSUME NEW c, Good(c), NEW t \in Nat
    PROVE  LET d == PostPriority(c, t)
           IN  /\ Good(d) /\ Keeps(c, d) /\ (SomeBus(c) => SomeBus(d))
               /\ d.mode = "P" => c.mode = "P" /\ d.vgps = c.vgps
               /\ d.mode = "Q" => t < d.fin
<1> DEFINE d == PostPriority(c, t)
<1>1. c \in Controllers
  BY DEF Good
<1>2. CASE c.mode = "Q" /\ t >= c.fin
  <2>1. d = [c EXCEPT !.mode = "N", !.ex = NoPlan, !.shared = FALSE, !.fin = 0, !.vgps = {}]
    BY <1>2 DEF PostPriority
  <2>2. NoPlan \in Plans
    BY DEF NoPlan, Plans
  <2> DEFINE r == [mode |-> "N", vgps |-> {}, ex |-> NoPlan, deb |-> c.deb, fin |-> 0,
                  ret1 |-> c.ret1, ret2 |-> c.ret2, shared |-> FALSE, due |-> c.due]
  <2>3. /\ d \in Controllers /\ d.mode = "N" /\ d.vgps = {} /\ d.ex = NoPlan /\ d.shared = FALSE
    <3>1. r \in Controllers
      BY <1>1, <2>2 DEF Controllers
    <3>2. d = r
      BY <1>1, <2>1 DEF Controllers
    <3> QED
      BY <3>1, <3>2
  <2> HIDE DEF d
  <2> QED
    BY <2>3 DEF Good, Keeps, Served, SomeBus, d
<1>3. CASE ~(c.mode = "Q" /\ t >= c.fin)
  <2>1. d = c
    BY <1>3 DEF PostPriority
  <2>2. c.mode = "Q" => t < c.fin
    BY <1>1, <1>3 DEF Controllers
  <2>3. Keeps(c, c)
    BY KeepsItself
  <2> HIDE DEF d
  <2> QED
    BY <2>1, <2>2, <2>3 DEF d
<1> QED
  BY <1>2, <1>3

\* The buses detected, in any order, make a sequence.
LEMMA Detected ==
    ASSUME NEW S, S \subseteq Buses
    PROVE  SetToSeq(S) \in Seq(Buses)
<1> DEFINE n == Cardinality(S)
           P(g) == IsInjective(g)
<1>1. IsFiniteSet(S)
  BY TrafficLightsAssumption, FS_Subset
<1>2. n \in Nat /\ ExistsBijection(1 .. n, S)
  BY <1>1, FS_CardinalityType
<1>3. PICK f \in [1 .. n -> S] : P(f)
  <2>1. PICK f \in Bijection(1 .. n, S) : TRUE
    BY <1>2 DEF ExistsBijection
  <2>2. f \in [1 .. n -> S] /\ \A x, y \in 1 .. n : f[x] = f[y] => x = y
    BY <2>1 DEF Bijection, Injection, IsInjective
  <2> HIDE DEF n
  <2>3. IsInjective(f)
    BY <2>2 DEF IsInjective
  <2> QED
    BY <2>2, <2>3
<1>4. SetToSeq(S) = CHOOSE g \in [1 .. n -> S] : P(g)
  BY DEF SetToSeq
<1> HIDE DEF n, P
<1>5. SetToSeq(S) \in [1 .. n -> S]
  BY <1>3, <1>4
<1>6. SetToSeq(S) \in [1 .. n -> Buses]
  BY <1>5
<1> QED
  BY <1>2, <1>6, IsASeq

\* What the controller becomes from c, one bus after the other.
SeenFrom(c) == {d \in Controllers : Good(d) /\ Keeps(c, d) /\ (SomeBus(c) => SomeBus(d))}

\* Detect does not leave them.
LEMMA SeenOK ==
    ASSUME NEW c, Good(c), NEW t \in Nat, NEW est \in Nat,
           NEW d \in SeenFrom(c), NEW b \in Buses
    PROVE  Detect(d, b, t, est) \in SeenFrom(c)
<1> DEFINE e == Detect(d, b, t, est)
<1>1. Good(d) /\ Keeps(c, d)
  BY DEF SeenFrom
<1>2. Good(e) /\ Keeps(d, e) /\ SomeBus(e)
  BY <1>1, DetectOK
<1> HIDE DEF e
<1>3. Keeps(c, e)
  BY <1>1, <1>2, KeepsTransitive
<1>4. e \in SeenFrom(c)
  BY <1>2, <1>3 DEF SeenFrom, Good
<1> QED
  BY <1>4 DEF e

\* Update takes the buses detected one after the other, then their entries and exits:
\* what Detect never leaves holds the controller between the two.
LEMMA AllDetected ==
    ASSUME NEW V, NEW c \in V, NEW t, NEW est, NEW detected \in Seq(Buses),
           \A d \in V, b \in Buses : Detect(d, b, t, est) \in V,
           NEW entering, NEW leaving
    PROVE  \E d \in V : Update(c, t, detected, est, entering, leaving)
                           = PostPriority(Priority(PrePriority(d, entering), t, leaving), t)
<1> DEFINE n == Len(detected)
           D(f) == f = [k \in 0 .. n |-> IF k = 0 THEN c ELSE Detect(f[k - 1], detected[k], t, est)]
           step == [k \in 1 .. n |-> [d \in V |-> Detect(d, detected[k], t, est)]]
<1>1. n \in Nat /\ \A k \in 1 .. n : detected[k] \in Buses
  BY LenProperties, ElementOfSeq
<1> HIDE DEF n
<1>3. step \in [1 .. n -> [V -> V]]
  BY <1>1
<1>4. PICK f \in [0 .. n -> V] : f[0] = c /\ \A k \in 1 .. n : f[k] = step[k][f[k - 1]]
  <2> HIDE DEF step
  <2>1. Recursive(n, V, c, step)
    BY <1>1, <1>3, Recursion
  <2> QED
    BY <2>1 DEF Recursive
<1>5. D(f)
  <2>1. \A k \in 1 .. n : f[k] = Detect(f[k - 1], detected[k], t, est)
    <3> TAKE k \in 1 .. n
    <3>1. f[k - 1] \in V
      <4> HIDE DEF step
      <4> QED
        BY <1>1
    <3> QED
      BY <1>4, <3>1
  <2>2. f = [k \in 0 .. n |-> f[k]]
    OBVIOUS
  <2>3. \A k \in 0 .. n : f[k] = IF k = 0 THEN c ELSE Detect(f[k - 1], detected[k], t, est)
    <3>1. f[0] = c
      BY <1>4
    <3> HIDE DEF step
    <3> QED
      BY <1>1, <3>1, <2>1
  <2> HIDE DEF step
  <2> QED
    BY <2>2, <2>3
<1> DEFINE g == CHOOSE h : D(h)
<1>6. D(g)
  <2> HIDE DEF D
  <2> QED
    BY <1>5
<1>7. Update(c, t, detected, est, entering, leaving)
        = PostPriority(Priority(PrePriority(g[n], entering), t, leaving), t)
  BY DEF Update, n
<1> HIDE DEF g
<1>8. g[0] = c /\ \A k \in 1 .. n : g[k] = Detect(g[k - 1], detected[k], t, est)
  <2> DEFINE y(k) == IF k = 0 THEN c ELSE Detect(g[k - 1], detected[k], t, est)
  <2>1. g = [k \in 0 .. n |-> y(k)]
    BY <1>6
  <2>2. \A k \in 0 .. n : g[k] = y(k)
    <3> HIDE DEF y
    <3> QED
      BY <2>1
  <2>3. g[0] = c
    BY <1>1, <2>2
  <2>4. \A k \in 1 .. n : k \in 0 .. n /\ k # 0
    BY <1>1
  <2> HIDE DEF D
  <2> QED
    BY <2>2, <2>3, <2>4
<1> HIDE DEF D
<1>9. g[n] \in V
  <2>1. \A k \in 1 .. n : g[k - 1] \in V => g[k] \in V
    BY <1>1, <1>8
  <2>2. \A k \in 0 .. n : g[k] \in V
    BY <1>1, <1>8, <2>1, RecursionType
  <2> QED
    BY <1>1, <2>2
<1> QED
  BY <1>7, <1>9

\* The controller after Update.
LEMMA UpdateOK ==
    ASSUME NEW c, Good(c), NEW t \in Nat, NEW detected \in Seq(Buses),
           NEW est \in Nat, NEW entering, NEW leaving
    PROVE  LET d == Update(c, t, detected, est, entering, leaving)
           IN  /\ Good(d) /\ Keeps(c, d) /\ (SomeBus(c) => SomeBus(d))
               /\ d.mode = "P" => d.vgps # {} /\ \A b \in d.vgps : b \notin leaving
               /\ d.mode = "Q" => t < d.fin
<1> DEFINE V == SeenFrom(c)
<1>1. c \in V
  BY KeepsItself DEF SeenFrom, Good
<1>2. \A d \in V, b \in Buses : Detect(d, b, t, est) \in V
  BY SeenOK
<1> HIDE DEF V
<1>7. PICK c0 \in V : Update(c, t, detected, est, entering, leaving)
                         = PostPriority(Priority(PrePriority(c0, entering), t, leaving), t)
  BY <1>1, <1>2, AllDetected
<1> DEFINE c1 == PrePriority(c0, entering)
           c2 == Priority(c1, t, leaving)
           c3 == PostPriority(c2, t)
<1>10. Good(c0) /\ Keeps(c, c0) /\ (SomeBus(c) => SomeBus(c0))
  BY DEF V, SeenFrom
<1>11. Good(c1) /\ Keeps(c0, c1) /\ (SomeBus(c0) => SomeBus(c1))
  BY <1>10, PrePriorityOK
<1> HIDE DEF c1
<1>12. /\ Good(c2) /\ Keeps(c1, c2) /\ (SomeBus(c1) => SomeBus(c2))
       /\ c2.mode = "P" => c2.vgps # {} /\ \A b \in c2.vgps : b \notin leaving
  BY <1>11, PriorityOK
<1> HIDE DEF c2
<1>13. /\ Good(c3) /\ Keeps(c2, c3) /\ (SomeBus(c2) => SomeBus(c3))
       /\ c3.mode = "P" => c2.mode = "P" /\ c3.vgps = c2.vgps
       /\ c3.mode = "Q" => t < c3.fin
  BY <1>12, PostPriorityOK
<1> HIDE DEF c3
<1>14. Keeps(c, c1)
  BY <1>10, <1>11, KeepsTransitive
<1>15. Keeps(c, c2)
  BY <1>12, <1>14, KeepsTransitive
<1>16. Keeps(c, c3)
  BY <1>13, <1>15, KeepsTransitive
<1>17. Update(c, t, detected, est, entering, leaving) = c3
  BY <1>7 DEF c1, c2, c3
<1> QED
  BY <1>10, <1>11, <1>12, <1>13, <1>16, <1>17

--------------------------------------------------------------------------------
(* What a snapshot does to the controller *)

\* A plan that ends with an endless sequence is endless.
LEMMA EndlessPlan ==
    ASSUME NEW seqs \in Seq(Sequence), seqs # <<>>, seqs[Len(seqs)].len = Endless
    PROVE  TotalLength(seqs) = Endless
<1>1. Len(seqs) \in 1 .. Len(seqs)
  BY LenProperties, EmptySeq
<1>2. EndOf(seqs)[Len(seqs)] = Endless
  BY <1>1, Ends
<1> QED
  BY <1>2 DEF TotalLength

\* The copy of the plan, whose lengths are added up again, is as good as the plan.
LEMMA CopyOK ==
    ASSUME NEW c, Good(c)
    PROVE  LET d == [c EXCEPT !.ex = PlanOf(@.seqs), !.shared = FALSE]
           IN  /\ Good(d) /\ d.mode = c.mode /\ d.vgps = c.vgps /\ d.fin = c.fin
               /\ d.shared = FALSE
<1> DEFINE ex == PlanOf(c.ex.seqs)
           d == [c EXCEPT !.ex = PlanOf(@.seqs), !.shared = FALSE]
<1>1. c \in Controllers
  BY DEF Good
<1>2. c.ex \in Plans /\ c.ex.seqs \in Seq(Sequence)
  BY <1>1 DEF Controllers, Plans, Sequence
<1>3. ex \in Plans /\ ex.seqs = c.ex.seqs /\ ex.cycle = TotalLength(c.ex.seqs)
  BY <1>2, TotalType DEF PlanOf
<1>4. d = [c EXCEPT !.ex = ex, !.shared = FALSE]
  BY <1>1 DEF Controllers
<1> HIDE DEF ex, d
<1>5. /\ d \in Controllers /\ d.mode = c.mode /\ d.vgps = c.vgps /\ d.fin = c.fin
      /\ d.shared = FALSE /\ d.ex = ex /\ d.deb = c.deb
      /\ d.ret1 = c.ret1 /\ d.ret2 = c.ret2
  BY <1>1, <1>3, <1>4 DEF Controllers
<1>6. ASSUME PriorityPlan(c.ex) PROVE PriorityPlan(ex)
  <2>1. ASSUME TotalPriority PROVE Guides(ex)
    <3>1. Guides(c.ex) /\ c.ex.seqs # <<>>
      BY <1>6, <2>1 DEF PriorityPlan
    <3>2. ex.cycle = Endless
      BY <1>2, <1>3, <3>1, EndlessPlan DEF Guides
    <3> QED
      BY <1>3, <3>1, <3>2 DEF Guides, FreeOfConflicts
  <2> QED
    BY <1>3, <1>6, <2>1 DEF PriorityPlan
<1>7. ASSUME ReturnOK(c.ex) PROVE ReturnOK(ex) /\ ex.cycle = c.ex.cycle
  BY <1>3, <1>7 DEF ReturnOK, FreeOfConflicts
<1>8. ASSUME c.ex = NoPlan PROVE ex = NoPlan
  <2> DEFINE none == <<>>
  <2>1. none \in Seq(Sequence) /\ Len(none) = 0
    OBVIOUS
  <2>2. c.ex.seqs = none
    BY <1>8 DEF NoPlan
  <2> HIDE DEF none
  <2>3. TotalLength(none) = 0
    BY <2>1, Ends DEF TotalLength
  <2> QED
    BY <2>2, <2>3 DEF PlanOf, NoPlan, ex, none
<1>9. Good(d)
  <2>1. c.mode = "Q" /\ ex # NoPlan =>
           ReturnOK(ex) /\ d.deb >= 0 /\ d.fin = d.deb + ex.cycle
    BY <1>5, <1>7, <1>8 DEF Good
  <2> QED
    BY <1>5, <1>6, <1>8, <2>1 DEF Good, Served
<1> QED
  BY <1>5, <1>9 DEF d

\* So is the controller that a restore puts back.
LEMMA RestoredOK ==
    ASSUME NEW c, Good(c), ~c.shared, NEW at
    PROVE  LET d == [c EXCEPT !.vgps = {b \in @ : at[b] # "gone"},
                              !.shared = (@ \/ c.ex # NoPlan)]
           IN  /\ Good(d) /\ d.mode = c.mode /\ d.fin = c.fin /\ d.ex = c.ex
               /\ d.vgps = {b \in c.vgps : at[b] # "gone"}
               /\ d.shared => c.mode # "N"
<1> DEFINE d == [c EXCEPT !.vgps = {b \in @ : at[b] # "gone"}, !.shared = (@ \/ c.ex # NoPlan)]
           found == {b \in c.vgps : at[b] # "gone"}
           shared == (c.ex # NoPlan)
<1>1. c \in Controllers /\ c.shared = FALSE
  BY DEF Good, Controllers
<1>2. found \in SUBSET Buses /\ (found # {} => c.vgps # {}) /\ shared \in BOOLEAN
  BY <1>1 DEF Controllers
<1>3. d = [c EXCEPT !.vgps = found, !.shared = shared]
  BY <1>1 DEF Controllers
<1> HIDE DEF found, shared, d
<1>4. /\ d \in Controllers /\ d.mode = c.mode /\ d.vgps = found /\ d.fin = c.fin
      /\ d.ex = c.ex /\ d.deb = c.deb /\ d.ret1 = c.ret1 /\ d.ret2 = c.ret2
      /\ d.shared = shared
  BY <1>1, <1>2, <1>3 DEF Controllers
<1>5. shared => c.mode # "N"
  BY DEF Good, shared
<1>6. Good(d)
  BY <1>2, <1>4, <1>5 DEF Good, Served
<1> QED
  BY <1>4, <1>5, <1>6 DEF d, found

\* A plan of priority can take the place of another.
LEMMA RelinkedOK ==
    ASSUME NEW c, Good(c), Served(c), NEW plan, PriorityPlan(plan)
    PROVE  LET d == [c EXCEPT !.ex = plan]
           IN  /\ Good(d) /\ d.mode = c.mode /\ d.vgps = c.vgps /\ d.fin = c.fin
               /\ d.shared = c.shared /\ d.ex = plan
<1> DEFINE d == [c EXCEPT !.ex = plan]
<1>1. c \in Controllers /\ plan \in Plans
  BY DEF Good, PriorityPlan
<1>2. /\ d \in Controllers /\ d.mode = c.mode /\ d.vgps = c.vgps /\ d.fin = c.fin
      /\ d.shared = c.shared /\ d.ex = plan /\ d.deb = c.deb
      /\ d.ret1 = c.ret1 /\ d.ret2 = c.ret2
  BY <1>1 DEF Controllers
<1> HIDE DEF d
<1>3. Good(d)
  BY <1>2 DEF Good, Served
<1> QED
  BY <1>2, <1>3 DEF d

--------------------------------------------------------------------------------
(* The inductive invariant *)

\* The controller, with the buses at these places, at this instant.
Standing(c, at, now) ==
    /\ Good(c)
    /\ c.mode = "Q" => now < c.fin
    /\ c.mode = "P" => c.vgps # {} /\ \A b \in c.vgps : at[b] # "gone"

\* The snapshot holds such a controller.
SnapshotOK ==
    snap # NoSnapshot =>
        /\ snap \in Snapshots /\ Whole(snap.instant)
        /\ Standing(snap.cdf, snap.place, snap.instant) /\ ~snap.cdf.shared

\* A plan shared with the snapshot is the plan of a mode of the same kind.
Linked ==
    cdf.shared =>
        /\ snap # NoSnapshot
        /\ \/ Served(cdf) /\ Served(snap.cdf)
           \/ cdf.mode = "Q" /\ snap.cdf.mode = "Q" /\ cdf.ex = snap.cdf.ex

IInv ==
    /\ instant \in 0..LastInstant /\ Whole(instant)
    /\ rollbacks \in 0..MaxRollbacks /\ place \in [Buses -> Places]
    /\ Standing(cdf, place, instant)
    /\ rollbacks = 0 => SomeBus(cdf)
    /\ SnapshotOK
    /\ Linked

\* A snapshot is not the absence of one.
LEMMA SnapshotTaken ==
    ASSUME NEW s \in Snapshots
    PROVE  s # NoSnapshot
<1>1. s.instant \in 0..LastInstant /\ LastInstant \in Nat
  BY Constants DEF Snapshots
<1>2. s.instant # -1
  BY <1>1
<1> QED
  BY <1>2 DEF NoSnapshot

\* The initial state.
LEMMA InitOK ==
    Init => IInv
<1> SUFFICES ASSUME Init PROVE IInv
  OBVIOUS
<1> DEFINE c == [mode |-> "N", vgps |-> {}, ex |-> NoPlan, deb |-> 0, fin |-> 0,
                 ret1 |-> 1, ret2 |-> 1, shared |-> FALSE, due |-> 0]
<1>1. cdf = c
  BY DEF Init
<1>2. c \in Controllers
  <2>1. NoPlan \in Plans /\ 1 \in DOMAIN Plan
    BY Constants DEF NoPlan, Plans
  <2> QED
    BY <2>1 DEF Controllers
<1>3. /\ c.mode = "N" /\ c.vgps = {} /\ c.ex = NoPlan /\ c.shared = FALSE
  OBVIOUS
<1> HIDE DEF c
<1>4. Good(c) /\ SomeBus(c)
  BY <1>2, <1>3 DEF Good, Served, SomeBus
<1>5. Standing(c, place, instant)
  BY <1>3, <1>4 DEF Standing
<1>6. Whole(0)
  BY Constants DEF Whole
<1>7. /\ instant \in 0..LastInstant /\ Whole(instant)
      /\ rollbacks \in 0..MaxRollbacks /\ place \in [Buses -> Places]
  BY <1>6, Constants DEF Init, Places
<1>8. SnapshotOK
  BY DEF Init, SnapshotOK
<1>9. Linked
  BY <1>1, <1>3 DEF Linked
<1> QED
  BY <1>1, <1>4, <1>5, <1>7, <1>8, <1>9 DEF IInv

\* The clock advances by a second, up to the last instant.
LEMMA NextInstant ==
    ASSUME NEW t \in 0..LastInstant, Whole(t), t < LastInstant
    PROVE  t + Ticks \in 0..LastInstant /\ Whole(t + Ticks)
<1>1. /\ Ticks \in Nat /\ Ticks > 0 /\ LastInstant \in Nat /\ LastInstant % Ticks = 0
      /\ t \in Nat
  BY Constants
<1>2. t % Ticks = 0
  BY DEF Whole
<1>3. LastInstant - t >= Ticks
  BY <1>1, <1>2, LongerBySeconds
<1>4. Whole(Ticks)
  <2>1. Ticks % Ticks = 0
    BY <1>1
  <2> QED
    BY <2>1 DEF Whole
<1>5. Whole(t + Ticks)
  BY <1>1, <1>4, WholeSum
<1> QED
  BY <1>1, <1>3, <1>5

\* A step of the simulation.
LEMMA StepOK ==
    ASSUME IInv, Step
    PROVE  IInv'
<1> DEFINE t == instant'
           c == AfterReading(cdf, t)
           detected == SetToSeq(Moved({"upstream"}, {"approach"}))
           entering == Moved({"approach"}, {"zone"})
           leaving == Moved({"zone"}, {"out"}) \cup {b \in Buses : place'[b] = "gone"}
<1>1. /\ instant \in 0..LastInstant /\ Whole(instant) /\ Standing(cdf, place, instant)
      /\ rollbacks = 0 => SomeBus(cdf)
      /\ SnapshotOK /\ Linked /\ rollbacks \in 0..MaxRollbacks
  BY DEF IInv
<1>2. /\ instant < LastInstant /\ t = instant + Ticks /\ place' \in [Buses -> Places]
      /\ rollbacks' = rollbacks /\ snap' = SharedPlan
  BY DEF Step
<1>3. PICK est \in Estimates : cdf' = Update(c, t, detected, est, entering, leaving)
  BY DEF Step
<1>4. t \in 0..LastInstant /\ Whole(t) /\ t \in Nat /\ t < Endless
  <2>1. t \in 0..LastInstant /\ Whole(t)
    BY <1>1, <1>2, NextInstant
  <2>2. LastInstant \in Nat /\ LastInstant < Endless /\ Endless \in Nat
    BY Constants
  <2> QED
    BY <2>1, <2>2
<1>5. /\ Good(c) /\ Keeps(cdf, c) /\ c.mode = cdf.mode /\ c.vgps = cdf.vgps
  BY <1>1, <1>4, ReadingOK DEF Standing
<1>6. detected \in Seq(Buses)
  <2>1. Moved({"upstream"}, {"approach"}) \subseteq Buses
    BY DEF Moved
  <2> QED
    BY <2>1, Detected
<1>7. est \in Nat
  BY Constants
<1> HIDE DEF c, t, detected, entering, leaving
<1> DEFINE d == Update(c, t, detected, est, entering, leaving)
<1>8. /\ Good(d) /\ Keeps(c, d) /\ (SomeBus(c) => SomeBus(d))
      /\ d.mode = "P" => d.vgps # {} /\ \A b \in d.vgps : b \notin leaving
      /\ d.mode = "Q" => t < d.fin
  BY <1>4, <1>5, <1>6, <1>7, UpdateOK
<1>9. cdf' = d
  BY <1>3
<1> HIDE DEF d
<1>10. Standing(cdf', place', instant')
  <2>1. \A b \in Buses : b \notin leaving => place'[b] # "gone"
    BY DEF leaving
  <2>2. d.vgps \subseteq Buses
    BY <1>8 DEF Good, Controllers
  <2>3. Standing(d, place', t)
    BY <1>8, <2>1, <2>2 DEF Standing
  <2> QED
    BY <1>9, <2>3 DEF t
<1>11. rollbacks' = 0 => SomeBus(cdf')
  <2>1. SomeBus(cdf) => SomeBus(c)
    BY <1>5 DEF SomeBus
  <2>2. SomeBus(cdf)' <=> SomeBus(d)
    BY <1>9 DEF SomeBus
  <2> QED
    BY <1>1, <1>2, <1>8, <1>9, <2>1
<1>12. Keeps(cdf, cdf')
  <2>1. Keeps(cdf, d)
    BY <1>5, <1>8, KeepsTransitive
  <2> QED
    BY <1>9, <2>1
<1>13. SnapshotOK' /\ Linked'
  <2>1. CASE ~cdf'.shared
    <3>1. snap' = snap
      BY <1>2, <2>1 DEF SharedPlan
    <3> QED
      BY <1>1, <2>1, <3>1 DEF SnapshotOK, Linked, Standing, NoSnapshot, Snapshots, Controllers, Plans
  <2>2. CASE cdf'.shared
    <3> DEFINE old == snap.cdf
               new == [old EXCEPT !.ex = cdf'.ex]
    <3>1. cdf.shared /\ snap # NoSnapshot
      BY <1>1, <1>12, <2>2 DEF Keeps, Linked
    <3>2. /\ snap \in Snapshots /\ Whole(snap.instant)
          /\ Standing(old, snap.place, snap.instant) /\ ~old.shared
      BY <1>1, <3>1 DEF SnapshotOK
    <3>3. snap' = [snap EXCEPT !.cdf = new]
      BY <1>2, <2>2, <3>1 DEF SharedPlan
    <3>4. /\ Good(new) /\ new.mode = old.mode /\ new.vgps = old.vgps /\ new.fin = old.fin
          /\ new.shared = old.shared /\ new.ex = cdf'.ex
          /\ \/ Served(cdf') /\ Served(new)
             \/ cdf'.mode = "Q" /\ new.mode = "Q"
      <4>1. CASE Served(cdf) /\ Served(old)
        <5>1. Served(cdf')
          BY <1>12, <2>2, <4>1 DEF Keeps, Served
        <5>2. PriorityPlan(cdf'.ex)
          <6>1. Served(d)
            BY <1>9, <5>1
          <6>2. PriorityPlan(d.ex)
            BY <1>8, <6>1 DEF Good
          <6> QED
            BY <1>9, <6>2
        <5>3. Good(old)
          BY <3>2 DEF Standing
        <5> DEFINE plan == cdf'.ex
        <5> HIDE DEF old, plan
        <5>4. LET e == [old EXCEPT !.ex = plan]
              IN  /\ Good(e) /\ e.mode = old.mode /\ e.vgps = old.vgps /\ e.fin = old.fin
                  /\ e.shared = old.shared /\ e.ex = plan
          BY <4>1, <5>2, <5>3, RelinkedOK DEF plan
        <5>5. Served(new)
          BY <4>1, <5>4 DEF Served, plan
        <5> QED
          BY <5>1, <5>4, <5>5 DEF plan
      <4>2. CASE cdf.mode = "Q" /\ old.mode = "Q" /\ cdf.ex = old.ex
        <5>1. cdf'.mode = "Q" /\ cdf'.ex = old.ex
          BY <1>12, <2>2, <4>2 DEF Keeps, Served
        <5>2. old \in Controllers /\ Good(old)
          BY <3>2 DEF Standing, Good
        <5>3. new = old
          BY <5>1, <5>2 DEF Controllers
        <5> HIDE DEF new, old
        <5> QED
          BY <4>2, <5>1, <5>2, <5>3
      <4> QED
        BY <1>1, <3>1, <4>1, <4>2 DEF Linked
    <3> HIDE DEF new
    <3>5. new \in Controllers
      BY <3>4 DEF Good
    <3>6. /\ snap' \in Snapshots /\ snap'.cdf = new
          /\ snap'.place = snap.place /\ snap'.instant = snap.instant
      BY <3>2, <3>3, <3>5 DEF Snapshots
    <3>7. Standing(new, snap.place, snap.instant) /\ ~new.shared
      BY <3>2, <3>4 DEF Standing
    <3>8. SnapshotOK'
      <4>1. Standing(snap'.cdf, snap'.place, snap'.instant) /\ ~snap'.cdf.shared
        BY <3>6, <3>7
      <4>2. Whole(snap'.instant)
        BY <3>2, <3>6
      <4> QED
        BY <3>6, <4>1, <4>2 DEF SnapshotOK
    <3>9. Linked'
      <4>1. snap' # NoSnapshot
        BY <3>6, SnapshotTaken
      <4>2. \/ Served(cdf') /\ Served(snap'.cdf)
            \/ cdf'.mode = "Q" /\ snap'.cdf.mode = "Q" /\ cdf'.ex = snap'.cdf.ex
        BY <3>4, <3>6
      <4> QED
        BY <4>1, <4>2 DEF Linked
    <3> QED
      BY <3>8, <3>9
  <2> QED
    BY <2>1, <2>2
<1>14. /\ instant' \in 0..LastInstant /\ Whole(instant') /\ rollbacks' \in 0..MaxRollbacks
       /\ place' \in [Buses -> Places]
  BY <1>1, <1>2, <1>4 DEF t
<1> QED
  BY <1>10, <1>11, <1>13, <1>14 DEF IInv

\* A reading of the lights at a later time.
LEMMA ReadAheadOK ==
    ASSUME IInv, ReadAhead
    PROVE  IInv'
<1>1. PICK t \in {cdf.fin + Ticks} \cap (instant..LastInstant) : cdf' = AfterReading(cdf, t)
  BY DEF ReadAhead
<1>2. instant' = instant /\ place' = place /\ snap' = snap /\ rollbacks' = rollbacks
  BY DEF ReadAhead
<1>3. /\ instant \in 0..LastInstant /\ Standing(cdf, place, instant) /\ Linked
      /\ rollbacks = 0 => SomeBus(cdf)
  BY DEF IInv
<1>4. t \in Int /\ t < Endless
  <2>1. t \in instant..LastInstant
    OBVIOUS
  <2>2. LastInstant \in Nat /\ LastInstant < Endless /\ Endless \in Nat /\ instant \in Nat
    BY <1>3, Constants
  <2> QED
    BY <2>1, <2>2
<1> DEFINE d == AfterReading(cdf, t)
<1>5. /\ Good(d) /\ Keeps(cdf, d) /\ d.mode = cdf.mode /\ d.vgps = cdf.vgps /\ d.fin = cdf.fin
  BY <1>3, <1>4, ReadingOK DEF Standing
<1>6. cdf' = d
  BY <1>1
<1> HIDE DEF d
<1>7. Standing(cdf', place', instant')
  <2>1. Standing(d, place, instant)
    BY <1>3, <1>5 DEF Standing
  <2> QED
    BY <1>2, <1>6, <2>1
<1>8. rollbacks' = 0 => SomeBus(cdf')
  BY <1>2, <1>3, <1>5, <1>6 DEF SomeBus
<1>9. Linked'
  <2>1. cdf'.shared =>
           /\ snap' # NoSnapshot
           /\ \/ Served(cdf') /\ Served(snap'.cdf)
              \/ cdf'.mode = "Q" /\ snap'.cdf.mode = "Q" /\ cdf'.ex = snap'.cdf.ex
    BY <1>2, <1>3, <1>5, <1>6 DEF Linked, Keeps, Served
  <2> QED
    BY <2>1 DEF Linked
<1>10. SnapshotOK'
  BY <1>2 DEF IInv, SnapshotOK, Standing, NoSnapshot
<1> QED
  BY <1>2, <1>7, <1>8, <1>9, <1>10 DEF IInv

\* The snapshot is taken.
LEMMA TakeSnapshotOK ==
    ASSUME IInv, TakeSnapshot
    PROVE  IInv'
<1> DEFINE c == [cdf EXCEPT !.ex = PlanOf(@.seqs), !.shared = FALSE]
           d == [cdf EXCEPT !.shared = FALSE]
           s == [instant |-> instant, place |-> place, cdf |-> c]
<1>1. /\ snap' = s /\ cdf' = d
      /\ instant' = instant /\ place' = place /\ rollbacks' = rollbacks
  BY DEF TakeSnapshot
<1>2. /\ instant \in 0..LastInstant /\ Whole(instant) /\ place \in [Buses -> Places]
      /\ Standing(cdf, place, instant)
      /\ rollbacks = 0 => SomeBus(cdf)
  BY DEF IInv
<1>3. Good(cdf) /\ cdf \in Controllers
  BY <1>2 DEF Standing, Good
<1>4. Good(c) /\ c.mode = cdf.mode /\ c.vgps = cdf.vgps /\ c.fin = cdf.fin /\ c.shared = FALSE
  <2>1. LET e == [cdf EXCEPT !.ex = PlanOf(@.seqs), !.shared = FALSE]
        IN  Good(e) /\ e.mode = cdf.mode /\ e.vgps = cdf.vgps /\ e.fin = cdf.fin
            /\ e.shared = FALSE
    BY <1>3, CopyOK, Zenon
  <2> QED
    BY <2>1, Zenon DEF c
<1>5. /\ d \in Controllers /\ d.mode = cdf.mode /\ d.vgps = cdf.vgps /\ d.fin = cdf.fin
      /\ d.shared = FALSE /\ d.ex = cdf.ex /\ d.deb = cdf.deb
      /\ d.ret1 = cdf.ret1 /\ d.ret2 = cdf.ret2
  BY <1>3 DEF Controllers
<1> HIDE DEF c, d
<1>6. Good(d)
  BY <1>3, <1>5 DEF Good, Served
<1>7. Standing(d, place, instant) /\ (rollbacks = 0 => SomeBus(d))
  BY <1>2, <1>5, <1>6 DEF Standing, SomeBus
<1>8. Standing(c, place, instant) /\ ~c.shared
  BY <1>2, <1>4 DEF Standing
<1>9. s \in Snapshots
  BY <1>2, <1>4 DEF Snapshots, Good
<1>10. SnapshotOK'
  <2>1. /\ snap' \in Snapshots /\ Whole(snap'.instant)
        /\ Standing(snap'.cdf, snap'.place, snap'.instant) /\ ~snap'.cdf.shared
    BY <1>1, <1>2, <1>8, <1>9
  <2> QED
    BY <2>1 DEF SnapshotOK
<1>11. Linked'
  <2>1. ~cdf'.shared
    BY <1>1, <1>5
  <2> QED
    BY <2>1 DEF Linked
<1>12. Standing(cdf', place', instant')
  BY <1>1, <1>7
<1>13. rollbacks' = 0 => SomeBus(cdf')
  BY <1>1, <1>7
<1> QED
  BY <1>1, <1>10, <1>11, <1>12, <1>13 DEF IInv

\* The network is put back at the snapshot.
LEMMA RestoreOK ==
    ASSUME IInv, Restore
    PROVE  IInv'
<1> DEFINE c == snap.cdf
           at == snap.place
           d == [c EXCEPT !.vgps = {b \in @ : at[b] # "gone"}, !.shared = (@ \/ c.ex # NoPlan)]
<1>1. /\ snap # NoSnapshot /\ rollbacks < MaxRollbacks /\ rollbacks' = rollbacks + 1
      /\ instant' = snap.instant /\ place' = at /\ cdf' = d /\ snap' = snap
  BY DEF Restore
<1>2. /\ snap \in Snapshots /\ Whole(snap.instant)
      /\ Standing(c, at, snap.instant) /\ ~c.shared
  BY <1>1 DEF IInv, SnapshotOK
<1>3. Good(c)
  BY <1>2 DEF Standing
<1> HIDE DEF c, at
<1>4. /\ Good(d) /\ d.mode = c.mode /\ d.fin = c.fin /\ d.ex = c.ex
      /\ d.vgps = {b \in c.vgps : at[b] # "gone"}
      /\ d.shared => c.mode # "N"
  <2>1. LET e == [c EXCEPT !.vgps = {b \in @ : at[b] # "gone"},
                           !.shared = (@ \/ c.ex # NoPlan)]
        IN  /\ Good(e) /\ e.mode = c.mode /\ e.fin = c.fin /\ e.ex = c.ex
            /\ e.vgps = {b \in c.vgps : at[b] # "gone"}
            /\ e.shared => c.mode # "N"
    BY <1>2, <1>3, RestoredOK, Zenon
  <2> QED
    BY <2>1, Zenon DEF d
<1> HIDE DEF d
<1>5. Standing(d, at, snap.instant)
  BY <1>2, <1>4 DEF Standing
<1>6. Standing(cdf', place', instant')
  BY <1>1, <1>5
<1>7. rollbacks \in Nat /\ MaxRollbacks \in Nat
  BY Constants DEF IInv
<1>8. rollbacks' \in 0..MaxRollbacks /\ rollbacks' # 0
  BY <1>1, <1>7
<1>9. instant' \in 0..LastInstant /\ Whole(instant') /\ place' \in [Buses -> Places]
  BY <1>1, <1>2 DEF Snapshots, at
<1>10. SnapshotOK'
  BY <1>1 DEF IInv, SnapshotOK, Standing, NoSnapshot
<1>11. Linked'
  <2>1. d.shared => \/ Served(d) /\ Served(c)
                    \/ d.mode = "Q" /\ c.mode = "Q" /\ d.ex = c.ex
    BY <1>3, <1>4 DEF Served, Good, Controllers
  <2>2. snap'.cdf = c
    BY <1>1 DEF c
  <2>3. cdf'.shared =>
           /\ snap' # NoSnapshot
           /\ \/ Served(cdf') /\ Served(snap'.cdf)
              \/ cdf'.mode = "Q" /\ snap'.cdf.mode = "Q" /\ cdf'.ex = snap'.cdf.ex
    BY <1>1, <2>1, <2>2
  <2> QED
    BY <2>3 DEF Linked
<1> QED
  BY <1>6, <1>8, <1>9, <1>10, <1>11 DEF IInv

\* The invariant, which the theorems below rest on: the plan and the dates of a controller,
\* and of the snapshot, are those of its mode, whatever is restored.
THEOREM LightsInvariance ==
    Spec => []IInv
<1>1. IInv /\ [Next]_vars => IInv'
  <2> SUFFICES ASSUME IInv, [Next]_vars PROVE IInv'
    OBVIOUS
  <2>1. CASE Step
    BY <2>1, StepOK
  <2>2. CASE ReadAhead
    BY <2>2, ReadAheadOK
  <2>3. CASE TakeSnapshot
    BY <2>3, TakeSnapshotOK
  <2>4. CASE Restore
    BY <2>4, RestoreOK
  <2>5. CASE UNCHANGED vars
    BY <2>5 DEF vars, IInv, Standing, SnapshotOK, Linked, SomeBus, Served
  <2> QED
    BY <2>1, <2>2, <2>3, <2>4, <2>5 DEF Next
<1> QED
  BY <1>1, InitOK, PTL DEF Spec

\* The state of the controller keeps its type: no date, length or index of a sequence
\* computed for the priority of a bus or for the return leaves it.
THEOREM LightsTypeOK ==
    Spec => []TypeOK
<1>1. IInv => TypeOK
  <2> SUFFICES ASSUME IInv PROVE TypeOK
    OBVIOUS
  <2>1. cdf \in Controllers
    BY DEF IInv, Standing, Good
  <2>2. snap # NoSnapshot => snap \in Snapshots
    BY DEF IInv, SnapshotOK
  <2> QED
    BY <2>1, <2>2 DEF IInv, TypeOK
<1> QED
  BY <1>1, LightsInvariance, PTL

\* Update meets the state it asserts: a controller with buses to process has an endless
\* plan of priority, a priority mode has buses to process, and a return plan ends.
THEOREM PriorityHasItsPlan ==
    Spec => []PriorityPlanInForce
<1>1. IInv => PriorityPlanInForce
  <2> SUFFICES ASSUME IInv PROVE PriorityPlanInForce
    OBVIOUS
  <2>1. /\ Good(cdf) /\ (cdf.mode = "Q" => instant < cdf.fin)
        /\ (cdf.mode = "P" => cdf.vgps # {}) /\ (rollbacks = 0 => SomeBus(cdf))
    BY DEF IInv, Standing
  <2>2. cdf.vgps # {} => cdf.mode \in {"O", "P"}
    BY <2>1 DEF Good, Served
  <2>3. cdf.mode \in {"O", "P"} => cdf.ex # NoPlan /\ cdf.fin = Endless
    BY <2>1, SomePlan DEF Good, Served
  <2>4. cdf.mode = "P" \/ (cdf.mode = "O" /\ rollbacks = 0) => cdf.vgps # {}
    BY <2>1 DEF SomeBus
  <2>5. cdf.mode = "N" => cdf.ex = NoPlan
    BY <2>1 DEF Good
  <2> QED
    BY <2>1, <2>2, <2>3, <2>4, <2>5 DEF PriorityPlanInForce
<1> QED
  BY <1>1, LightsInvariance, PTL

--------------------------------------------------------------------------------
(* The colours *)

\* The sequence found in a plan that is longer than the time spent in it.
LEMMA FoundFree ==
    ASSUME NEW plan \in Plans, plan.seqs # <<>>, FreeOfConflicts(plan),
           NEW sec, NEW at \in Int, at = Ticks * InCycle(sec, plan.cycle),
           TotalLength(plan.seqs) > at
    PROVE  Free(MovementsOf(SequenceAt(plan, sec).seq))
<1> DEFINE seqs == plan.seqs
           s == SequenceAt(plan, sec)
<1>1. seqs \in Seq(Sequence)
  BY DEF Plans, Sequence
<1>2. FoundAt(seqs, at, s)
  <2> HIDE DEF seqs, s
  <2>1. plan.seqs = seqs /\ seqs # <<>> /\ TotalLength(seqs) > at
    BY DEF seqs
  <2> QED
    BY <1>1, <2>1, SequenceFound DEF s
<1> HIDE DEF s
<1>3. PICK i \in 1 .. Len(seqs) : s.seq = seqs[i]
  BY <1>2 DEF FoundAt
<1>4. Free(MovementsOf(seqs[i]))
  BY <1>1, LenProperties DEF FreeOfConflicts
<1> QED
  BY <1>3, <1>4 DEF s

\* Whatever plan is in force, the sequence read lets movements go that do not cross.
LEMMA SequenceFree ==
    ASSUME TotalPriority, NEW c, Good(c), NEW t \in Nat, t < Endless
    PROVE  Free(MovementsOf(GetSequence(c, t).seq))
<1> DEFINE inForce == c.ex # NoPlan /\ c.deb <= t /\ t <= c.fin
<1>1. c \in Controllers /\ Ticks \in Nat /\ Ticks > 0 /\ Endless \in Nat
  BY Constants DEF Good
<1>2. CASE inForce
  <2> DEFINE plan == c.ex
             u == t - c.deb
             sec == u \div Ticks
             at == Ticks * InCycle(sec, plan.cycle)
  <2>1. GetSequence(c, t) = SequenceAt(plan, sec)
    BY <1>2 DEF GetSequence
  <2>2. plan \in Plans /\ c.deb \in Int /\ plan.cycle \in Int
    BY <1>1 DEF Controllers, Plans
  <2>3. /\ plan.seqs # <<>> /\ FreeOfConflicts(plan) /\ c.deb >= 0
        /\ \/ plan.cycle = TotalLength(plan.seqs) /\ plan.cycle >= Ticks
           \/ plan.cycle = Endless
        /\ plan.cycle = Endless => TotalLength(plan.seqs) = Endless
    <3>1. CASE Served(c)
      <4>1. PriorityPlan(plan) /\ c.deb >= 0
        BY <3>1 DEF Good
      <4>2. Guides(plan) /\ plan.seqs # <<>>
        BY <4>1 DEF PriorityPlan
      <4>3. plan.seqs \in Seq(Sequence)
        BY <2>2 DEF Plans, Sequence
      <4>4. TotalLength(plan.seqs) = Endless
        BY <4>2, <4>3, EndlessPlan DEF Guides
      <4> QED
        BY <4>1, <4>2, <4>4 DEF Guides
    <3>2. CASE c.mode = "Q"
      BY <1>2, <3>2 DEF Good, ReturnOK
    <3>3. CASE c.mode = "N"
      BY <1>2, <3>3 DEF Good
    <3> QED
      BY <1>1, <3>1, <3>2, <3>3 DEF Controllers, Served
  <2>4. u \in Nat /\ u <= t
    BY <1>2, <2>2, <2>3
  <2> HIDE DEF u
  <2>5. sec \in Nat /\ Ticks * sec \in Nat /\ Ticks * sec <= u
    <3>1. sec \in Nat /\ Ticks * sec <= u
      BY <1>1, <2>4, Seconds
    <3> HIDE DEF sec
    <3> QED
      BY <1>1, <3>1
  <2>6. at \in Int /\ TotalLength(plan.seqs) > at
    <3>1. CASE plan.cycle = Endless
      <4>1. at = Ticks * sec
        BY <3>1 DEF InCycle
      <4> HIDE DEF at, sec, plan
      <4> DEFINE x == Ticks * sec
                 y == TotalLength(plan.seqs)
      <4>2. at = x /\ x \in Nat /\ x <= u /\ y = Endless
        BY <2>3, <2>5, <3>1, <4>1
      <4> HIDE DEF x, y
      <4>3. at \in Int /\ y > at
        BY <1>1, <2>4, <4>2
      <4> QED
        BY <4>3 DEF y
    <3>2. CASE plan.cycle # Endless
      <4> DEFINE cycle == plan.cycle
      <4>1. cycle = TotalLength(plan.seqs) /\ cycle \in Nat /\ cycle >= Ticks
        BY <1>1, <2>2, <2>3, <3>2
      <4>2. at = Ticks * ((u \div Ticks) % (cycle \div Ticks))
        BY <3>2 DEF InCycle
      <4> HIDE DEF at, cycle
      <4>3. at \in Nat /\ at < cycle
        BY <2>4, <4>1, <4>2, PlaceInCycle
      <4> QED
        BY <4>1, <4>3
    <3> QED
      BY <3>1, <3>2
  <2> HIDE DEF at, sec
  <2>7. at = Ticks * InCycle(sec, plan.cycle)
    BY DEF at
  <2> HIDE DEF plan
  <2> QED
    BY <2>1, <2>2, <2>3, <2>6, <2>7, FoundFree
<1>3. CASE ~inForce
  <2> DEFINE i == BaseAt(t).index
             s == BaseAt(t).seq
  <2>1. GetSequence(c, t) = BaseAt(t)
    BY <1>3 DEF GetSequence
  <2>2. i \in 1 .. Len(Plan) /\ s = Plan[i]
    BY BaseFacts
  <2> HIDE DEF i, s
  <2>3. Like(s, Plan[i])
    BY <2>2, Constants, ElementOfSeq DEF Like
  <2>4. Free(MovementsOf(s))
    BY <2>2, <2>3, LikeFree
  <2> QED
    BY <2>1, <2>4 DEF s
<1> QED
  BY <1>2, <1>3

\* With total priority, no two movements that cross are allowed together, whatever plans
\* were made for the buses and for the return, and whatever snapshot was restored.
THEOREM GreensDoNotConflict ==
    ASSUME TotalPriority
    PROVE  Spec => []NoConflictingGreens
<1>1. IInv => NoConflictingGreens
  <2> SUFFICES ASSUME IInv, NEW t \in {instant, instant + Ticks}, NEW pair \in Crossing
               PROVE  \E mv \in pair : Colour(cdf, t, mv) = "red"
    BY DEF NoConflictingGreens
  <2> DEFINE s == GetSequence(cdf, t).seq
  <2>1. Good(cdf) /\ instant \in 0..LastInstant
    BY DEF IInv, Standing
  <2>2. t \in Nat /\ t < Endless
    BY <2>1, Constants
  <2>3. Free(MovementsOf(s))
    BY <2>1, <2>2, SequenceFree
  <2>4. PICK mv \in pair : mv \notin MovementsOf(s)
    BY <2>3 DEF Free
  <2>5. SignalsOf(s, mv) = {}
    BY <2>4 DEF SignalsOf, MovementsOf
  <2>6. Colour(cdf, t, mv) = "red"
    BY <2>5 DEF Colour
  <2> QED
    BY <2>6
<1> QED
  BY <1>1, LightsInvariance, PTL

--------------------------------------------------------------------------------
(* The buses find their green *)

\* The sequence that a plan of priority ends with.
Guide(plan) == plan.seqs[Len(plan.seqs)]

\* The signals of a sequence that are green from its start and as long as it lasts.
AlwaysGreen(s) ==
    \A j \in DOMAIN s.signals : s.signals[j].delay = 0 /\ s.signals[j].green = Endless

\* The sequences before the last end within this time.  The first may be of a negative
\* length, when a bus is detected less than the clearance before it enters the zone.
Prepares(seqs, lead) ==
    \/ Len(seqs) = 2 /\ -Degagement <= seqs[1].len /\ seqs[1].len <= lead
    \/ /\ Len(seqs) = 3 /\ 0 <= seqs[1].len /\ 0 <= seqs[2].len
       /\ seqs[1].len + seqs[2].len <= lead

\* The plan of priority is in its last sequence when the buses are due, and that sequence
\* is green for each of them.
Leads(c) ==
    Served(c) =>
        /\ c.deb <= c.due /\ Whole(c.deb)
        /\ Prepares(c.ex.seqs, c.due - c.deb)
        /\ AlwaysGreen(Guide(c.ex))
        /\ \A b \in c.vgps : Movement[b] \in MovementsOf(Guide(c.ex))

\* What becomes of a plan shared with the snapshot: its dates stay, and the movements
\* that its last sequence lets go.
Grows(c, d) ==
    d.shared /\ Served(d) =>
        /\ c.shared /\ Served(c) /\ d.deb = c.deb /\ d.due = c.due
        /\ MovementsOf(Guide(c.ex)) \subseteq MovementsOf(Guide(d.ex))

\* A duration of whole seconds is read as it is.
LEMMA ExactSeconds ==
    ASSUME NEW x \in Nat, Whole(x)
    PROVE  Ticks * (x \div Ticks) = x
<1> DEFINE k == Ticks
<1>1. k \in Nat /\ k > 0 /\ x % k = 0
  BY Constants DEF Whole
<1> HIDE DEF k
<1>2. k * (x \div k) = x
  BY <1>1
<1> QED
  BY <1>2 DEF k

\* The signal added for a bus to a sequence that is endless and green.
LEMMA GreenAdded ==
    ASSUME NEW s \in Sequence, s.len = Endless, AlwaysGreen(s), NEW mv
    PROVE  AlwaysGreen(WithSignal(s, mv))
<1> DEFINE x == PrioritySignal(mv, s)
           g == Append(s.signals, x)
           w == WithSignal(s, mv)
<1>1. s.signals \in Seq(Signals)
  BY DEF Sequence
<1>2. w.signals = g
  BY DEF WithSignal, Sequence
<1>3. x.delay = 0 /\ x.green = Endless
  BY DEF PrioritySignal
<1> HIDE DEF x, w
<1>4. /\ Len(s.signals) \in Nat /\ DOMAIN s.signals = 1 .. Len(s.signals)
      /\ DOMAIN g = 1 .. (Len(s.signals) + 1)
      /\ \A i \in 1 .. Len(s.signals) : g[i] = s.signals[i]
      /\ g[Len(s.signals) + 1] = x
  BY <1>1
<1> HIDE DEF g
<1>5. \A j \in DOMAIN g : g[j].delay = 0 /\ g[j].green = Endless
  <2> TAKE j \in DOMAIN g
  <2>1. CASE j = Len(s.signals) + 1
    BY <1>3, <1>4, <2>1
  <2>2. CASE j # Len(s.signals) + 1
    BY <1>4, <2>2 DEF AlwaysGreen
  <2> QED
    BY <2>1, <2>2
<1> QED
  BY <1>2, <1>5 DEF AlwaysGreen, w

\* The endless sequence of a bus is green for it.
LEMMA GuideIsGreen ==
    ASSUME NEW b \in Buses
    PROVE  LET s == EndlessFor(Movement[b], <<>>)
           IN  AlwaysGreen(s) /\ Movement[b] \in MovementsOf(s)
<1> DEFINE r == [len |-> Endless, signals |-> <<>>]
           s == EndlessFor(Movement[b], <<>>)
<1>1. Movement[b] \in Movements /\ <<>> \in Seq(Signals) /\ DOMAIN <<>> = {}
  BY Crossings
<1>2. r \in Sequence /\ r.len = Endless /\ AlwaysGreen(r)
  BY <1>1, Constants DEF Sequence, AlwaysGreen
<1>3. s = WithSignal(r, Movement[b])
  BY DEF EndlessFor
<1>4. MovementsOf(s) = {<<>>[j].mv : j \in DOMAIN <<>>} \cup {Movement[b]}
  BY <1>1, EndlessFacts
<1> HIDE DEF r, s
<1>5. AlwaysGreen(s)
  BY <1>2, <1>3, GreenAdded
<1>6. Movement[b] \in MovementsOf(s)
  BY <1>4
<1> QED
  BY <1>5, <1>6 DEF s

\* A plan brings a bus to its green within this time.
Brings(plan, b, lead) ==
    /\ Prepares(plan.seqs, lead)
    /\ AlwaysGreen(Guide(plan)) /\ Movement[b] \in MovementsOf(Guide(plan))

\* A plan of two sequences does if the first is short enough.
LEMMA BroughtByTwo ==
    ASSUME NEW s \in Sequence, NEW b \in Buses, NEW lead,
           -Degagement <= s.len, s.len <= lead
    PROVE  Brings(PlanOf(<<s, EndlessFor(Movement[b], <<>>)>>), b, lead)
<1> DEFINE e == EndlessFor(Movement[b], <<>>)
           seqs == <<s, e>>
           plan == PlanOf(seqs)
<1>1. AlwaysGreen(e) /\ Movement[b] \in MovementsOf(e)
  BY GuideIsGreen
<1> HIDE DEF e
<1>2. Len(seqs) = 2 /\ seqs[1] = s /\ seqs[2] = e
  OBVIOUS
<1>3. plan.seqs = seqs
  BY DEF PlanOf
<1> HIDE DEF seqs, plan
<1>4. Guide(plan) = e
  BY <1>2, <1>3 DEF Guide
<1>5. Prepares(plan.seqs, lead)
  BY <1>2, <1>3 DEF Prepares
<1>6. Brings(plan, b, lead)
  BY <1>1, <1>4, <1>5 DEF Brings
<1> QED
  BY <1>6 DEF plan, seqs, e

\* With total priority no bus meets the sequence that its line shares.
LEMMA NoShare ==
    ASSUME TotalPriority, NEW b \in Buses, NEW zone, zone.index \in 1 .. Len(Plan)
    PROVE  ~Shares(b, zone)
BY Constants DEF TotalPriority, Shares

\* The first type: the sequence under way is kept until the clearance before the arrival.
LEMMA MinimumRespectedBrings ==
    ASSUME TotalPriority, NEW b \in Buses, NEW t \in Nat, NEW est \in Nat, NEW deb \in Nat,
           deb <= t + est, NEW zone,
           zone.index \in 1 .. Len(Plan), zone.seq = Plan[zone.index]
    PROVE  Brings(MinimumRespected(b, t, est, zone, deb), b, t + est - deb)
<1> DEFINE r == zone.seq
           len == est - (deb - t) - Degagement
           kept == [r EXCEPT !.len = len]
<1>1. r \in Sequence /\ r.signals # <<>> /\ Degagement \in Nat
  BY Constants, ElementOfSeq
<1>2. len \in Int /\ -Degagement <= len /\ len <= t + est - deb
  BY <1>1
<1>3. MinimumRespected(b, t, est, zone, deb) = PlanOf(<<kept, EndlessFor(Movement[b], <<>>)>>)
  BY NoShare DEF MinimumRespected
<1> HIDE DEF r, len
<1>4. kept \in Sequence /\ kept.len = len
  BY <1>1, <1>2, Lengthened DEF Like
<1> HIDE DEF kept
<1> QED
  BY <1>2, <1>3, <1>4, BroughtByTwo

\* The third type: the sequence under way is prolonged until the arrival.
LEMMA CurrentProlongedBrings ==
    ASSUME TotalPriority, NEW b \in Buses, NEW arrival \in Nat, NEW deb \in Nat,
           deb <= arrival, NEW zone, NEW act,
           zone.index \in 1 .. Len(Plan), act.index \in 1 .. Len(Plan),
           act.seq = Plan[act.index]
    PROVE  Brings(CurrentProlonged(b, arrival, zone, act, deb), b, arrival - deb)
<1> DEFINE r == act.seq
           len == arrival - deb
           kept == [r EXCEPT !.len = len]
<1>1. r \in Sequence /\ r.signals # <<>> /\ Degagement \in Nat
  BY Constants, ElementOfSeq
<1>2. len \in Int /\ -Degagement <= len
  BY <1>1
<1>3. CurrentProlonged(b, arrival, zone, act, deb)
         = PlanOf(<<kept, EndlessFor(Movement[b], <<>>)>>)
  BY NoShare DEF CurrentProlonged
<1> HIDE DEF r, len
<1>4. kept \in Sequence /\ kept.len = len
  BY <1>1, <1>2, Lengthened DEF Like
<1>5. len <= len
  BY <1>2
<1> HIDE DEF kept
<1>6. Brings(CurrentProlonged(b, arrival, zone, act, deb), b, len)
  BY <1>2, <1>3, <1>4, <1>5, BroughtByTwo
<1> QED
  BY <1>6 DEF len

\* The shortest length of a sequence of the cycle is one.
LEMMA MinLengthOfPlan ==
    ASSUME NEW i \in 1 .. Len(Plan)
    PROVE  MinLength(Plan[i]) \in Nat
<1> DEFINE s == Plan[i]
           n == Len(s.signals)
           delays == {s.signals[j].delay : j \in DOMAIN s.signals}
           d == [j \in 1 .. n |-> s.signals[j].delay]
<1>1. s.signals \in Seq(Signals) /\ s.signals # <<>>
  BY Constants
<1> HIDE DEF s
<1>2. n \in Nat /\ n > 0 /\ DOMAIN s.signals = 1 .. n
  BY <1>1, LenProperties, EmptySeq
<1>3. \A j \in 1 .. n : s.signals[j].delay \in Nat
  <2>1. \A j \in 1 .. n : s.signals[j] \in Signals
    BY <1>1, ElementOfSeq DEF n
  <2> QED
    BY <2>1 DEF Signals
<1> HIDE DEF n
<1>4. d \in [1 .. n -> Int]
  BY <1>3
<1>5. PICK j \in 1 .. n : \A k \in 1 .. n : d[j] >= d[k]
  BY <1>2, <1>4, Extremes
<1>6. d[j] \in delays /\ \A y \in delays : y <= d[j]
  BY <1>2, <1>5
<1>7. LongestSoFar(delays) \in delays
  <2> HIDE DEF delays, d
  <2> QED
    BY <1>6 DEF LongestSoFar
<1>8. delays \subseteq Nat
  BY <1>2, <1>3
<1>9. MinLength(s) = VertMin + LongestSoFar(delays)
  BY DEF MinLength
<1> HIDE DEF delays
<1>10. MinLength(s) \in Nat
  <2> DEFINE l == LongestSoFar(delays)
  <2>1. l \in Nat
    BY <1>7, <1>8
  <2> HIDE DEF l
  <2> QED
    BY <1>9, <2>1, Constants DEF l
<1> QED
  BY <1>10 DEF s

\* The second type: the shortest sequence, then the clearance.
LEMMA CurrentShortenedBrings ==
    ASSUME NEW b \in Buses, NEW zone,
           zone.index \in 1 .. Len(Plan), zone.seq = Plan[zone.index]
    PROVE  Brings(CurrentShortened(b, zone), b, MinLength(zone.seq) + Degagement)
<1> DEFINE r == zone.seq
           m == MinLength(r)
           u1 == [r EXCEPT !.len = m]
           u2 == [r EXCEPT !.len = Degagement]
           s1 == RedFor(u1, Movement[b])
           s2 == AllRed(u2)
           e == EndlessFor(Movement[b], <<>>)
           seqs == <<s1, s2, e>>
           plan == PlanOf(seqs)
<1>1. r \in Sequence /\ m \in Nat /\ Degagement \in Nat
  BY Constants, ElementOfSeq, MinLengthOfPlan
<1>2. CurrentShortened(b, zone) = plan
  BY DEF CurrentShortened
<1>3. AlwaysGreen(e) /\ Movement[b] \in MovementsOf(e)
  BY GuideIsGreen
<1> HIDE DEF e, m
<1>4. s1.len = m /\ s2.len = Degagement
  BY <1>1 DEF RedFor, AllRed, Sequence
<1> HIDE DEF s1, s2
<1>5. Len(seqs) = 3 /\ seqs[1] = s1 /\ seqs[2] = s2 /\ seqs[3] = e
  OBVIOUS
<1>6. plan.seqs = seqs
  BY DEF PlanOf
<1> HIDE DEF seqs, plan
<1>7. Guide(plan) = e
  BY <1>5, <1>6 DEF Guide
<1>8. Prepares(plan.seqs, m + Degagement)
  BY <1>1, <1>4, <1>5, <1>6 DEF Prepares
<1>9. Brings(plan, b, m + Degagement)
  BY <1>3, <1>7, <1>8 DEF Brings
<1> QED
  BY <1>2, <1>9 DEF m, r

\* The instants from which a plan of priority counts are whole seconds.
LEMMA StartOfPlan ==
    ASSUME NEW t \in Nat, Whole(t), NEW est \in Nat, Whole(est),
           NEW elapsed \in Nat, Whole(elapsed), NEW len \in Nat, Whole(len),
           NEW early, early = t + est - elapsed - len,
           NEW start, t <= early => start = early, ~(t <= early) => start = t
    PROVE  start \in Nat /\ Whole(start) /\ t <= start /\ start <= t + est
<1>1. CASE t <= early
  <2>1. t + est \in Nat /\ Whole(t + est)
    BY WholeSum
  <2>2. elapsed + len \in Nat /\ Whole(elapsed + len)
    BY WholeSum
  <2> DEFINE x == t + est
             y == elapsed + len
  <2>3. early = x - y /\ y <= x /\ start = x - y
    BY <1>1
  <2>4. Whole(x - y)
    <3> HIDE DEF x, y
    <3>1. x \in Nat /\ y \in Nat /\ y <= x /\ Whole(x) /\ Whole(y)
      BY <2>1, <2>2, <2>3 DEF x, y
    <3> QED
      BY <3>1, WholeDifference
  <2>5. Whole(start)
    BY <2>3, <2>4, Zenon
  <2>6. start \in Nat /\ t <= start /\ start <= t + est
    BY <1>1
  <2> QED
    BY <2>5, <2>6
<1>2. CASE ~(t <= early)
  <2>1. start = t
    BY <1>2
  <2> QED
    BY <2>1
<1> QED
  BY <1>1, <1>2

\* The plan made for the first bus leads it to its green, and is not shared.
LEMMA FirstLeads ==
    ASSUME TotalPriority, NEW c, Good(c), NEW b \in Buses,
           NEW t \in Nat, Whole(t), NEW est \in Nat, Whole(est)
    PROVE  LET d == DetectFirst(c, b, t, est)
           IN  Leads(d) /\ Grows(c, d)
<1> DEFINE zone == BaseAt(t + est)
           act == BaseAt(t)
           previous == IF zone.index = 1 THEN Len(Plan) ELSE zone.index - 1
           early == t + est - zone.elapsed - Plan[previous].len
           start == IF t <= early THEN early ELSE t
           kind == IF zone.index # act.index THEN 3
                   ELSE IF act.elapsed + est >= MinLength(zone.seq) + Degagement THEN 1 ELSE 2
           deb == IF kind = 1 THEN start ELSE start - act.elapsed
           ex == CASE kind = 1 -> MinimumRespected(b, t, est, zone, deb)
                   [] kind = 2 -> CurrentShortened(b, zone)
                   [] kind = 3 -> CurrentProlonged(b, t + est, zone, act, deb)
           due == IF kind = 2 THEN deb + MinLength(zone.seq) + Degagement ELSE t + est
           d == DetectFirst(c, b, t, est)
<1>1. /\ zone.index \in 1 .. Len(Plan) /\ zone.seq = Plan[zone.index]
      /\ zone.elapsed \in Nat /\ Whole(zone.elapsed)
  <2>1. t + est \in Nat
    OBVIOUS
  <2> QED
    BY <2>1, BaseFacts
<1>2. /\ act.index \in 1 .. Len(Plan) /\ act.seq = Plan[act.index]
      /\ act.elapsed \in Nat /\ act.elapsed <= t /\ Whole(act.elapsed)
  BY BaseFacts
<1>3. d = [c EXCEPT !.mode = "O", !.vgps = {b}, !.shared = FALSE, !.ex = ex, !.deb = deb,
                    !.fin = Endless, !.ret1 = NextSequence(act.index),
                    !.ret2 = NextSequence(NextSequence(act.index)), !.due = due]
  BY DEF DetectFirst
<1> HIDE DEF zone, act, d
<1> DEFINE m == MinLength(zone.seq)
<1>4. m \in Nat /\ Degagement \in Nat
  BY <1>1, MinLengthOfPlan, Constants
<1>5. start \in Nat /\ Whole(start) /\ t <= start /\ start <= t + est
  <2>1. previous \in 1 .. Len(Plan)
    BY <1>1, Constants
  <2> HIDE DEF previous
  <2> DEFINE len == Plan[previous].len
             elapsed == zone.elapsed
  <2>2. len \in Nat /\ Whole(len) /\ elapsed \in Nat /\ Whole(elapsed)
    BY <1>1, <2>1, Constants DEF Whole
  <2>3. /\ early = t + est - elapsed - len
        /\ (t <= early => start = early) /\ (~(t <= early) => start = t)
    OBVIOUS
  <2> HIDE DEF len, elapsed, early, start
  <2> QED
    BY <2>2, <2>3, StartOfPlan
<1> HIDE DEF early, start
<1>6. kind \in {1, 2, 3}
  OBVIOUS
<1> HIDE DEF kind
<1>7. deb \in Nat /\ Whole(deb) /\ deb <= t + est
  <2> DEFINE y == act.elapsed
  <2>1. y \in Nat /\ y <= start /\ Whole(y)
    BY <1>2, <1>5
  <2> HIDE DEF y
  <2>2. start - y \in Nat /\ Whole(start - y) /\ start - y <= t + est
    BY <1>5, <2>1, WholeDifference
  <2>3. CASE kind = 1
    BY <1>5, <2>3
  <2>4. CASE kind # 1
    <3>1. deb = start - y
      BY <2>4 DEF y
    <3> HIDE DEF deb
    <3> QED
      BY <2>2, <3>1
  <2> QED
    BY <2>3, <2>4
<1> HIDE DEF deb
<1>8. due \in Int /\ deb <= due
  <2>1. due = deb + m + Degagement \/ due = t + est
    OBVIOUS
  <2> HIDE DEF m, due
  <2> QED
    BY <1>4, <1>7, <2>1
<1>9. Brings(ex, b, due - deb)
  <2>1. CASE kind = 1
    <3>1. ex = MinimumRespected(b, t, est, zone, deb) /\ due = t + est
      BY <2>1
    <3> HIDE DEF ex, due
    <3>2. Brings(ex, b, t + est - deb)
      BY <1>1, <1>7, <3>1, MinimumRespectedBrings
    <3>3. due - deb = t + est - deb
      BY <1>7, <3>1
    <3> QED
      BY <3>2, <3>3, Zenon
  <2>2. CASE kind = 2
    <3>1. ex = CurrentShortened(b, zone) /\ due = deb + m + Degagement
      BY <2>2
    <3> HIDE DEF ex, due
    <3>2. Brings(ex, b, m + Degagement)
      BY <1>1, <3>1, CurrentShortenedBrings DEF m
    <3> HIDE DEF m
    <3>3. due - deb = m + Degagement
      BY <1>4, <1>7, <3>1
    <3> QED
      BY <3>2, <3>3, Zenon
  <2>3. CASE kind = 3
    <3>1. ex = CurrentProlonged(b, t + est, zone, act, deb) /\ due = t + est
      BY <2>3
    <3> HIDE DEF ex, due
    <3>2. t + est \in Nat
      OBVIOUS
    <3>3. Brings(ex, b, t + est - deb)
      BY <1>1, <1>2, <1>7, <3>1, <3>2, CurrentProlongedBrings
    <3>4. due - deb = t + est - deb
      BY <1>7, <3>1
    <3> QED
      BY <3>3, <3>4, Zenon
  <2> QED
    BY <1>6, <2>1, <2>2, <2>3
<1> HIDE DEF ex, due
<1>10. /\ d.vgps = {b} /\ d.shared = FALSE /\ d.ex = ex /\ d.deb = deb /\ d.due = due
  BY <1>3 DEF Good, Controllers
<1>11. Leads(d)
  <2>1. Prepares(d.ex.seqs, d.due - d.deb)
    BY <1>9, <1>10 DEF Brings
  <2> QED
    BY <1>7, <1>8, <1>9, <1>10, <2>1 DEF Leads, Brings
<1>12. Grows(c, d)
  BY <1>10 DEF Grows
<1> QED
  BY <1>11, <1>12 DEF d

\* The signal of a further bus is added to the last sequence, which stays green.
LEMMA FurtherLeads ==
    ASSUME TotalPriority, NEW c, Good(c), Leads(c), c.vgps # {}, NEW b \in Buses
    PROVE  LET d == DetectFurther(c, b)
           IN  Leads(d) /\ Grows(c, d)
<1> DEFINE seqs == c.ex.seqs
           n == Len(seqs)
           last == WithSignal(seqs[n], Movement[b])
           new == [seqs EXCEPT ![n] = last]
           d == DetectFurther(c, b)
<1>1. c \in Controllers /\ Served(c) /\ PriorityPlan(c.ex)
  BY DEF Good
<1>2. /\ seqs \in Seq(Sequence) /\ n \in Nat /\ n > 0 /\ DOMAIN seqs = 1 .. n
      /\ c.ex \in Plans
  <2>1. c.ex \in Plans /\ seqs # <<>>
    BY <1>1 DEF PriorityPlan
  <2>2. seqs \in Seq(Sequence)
    BY <2>1 DEF Plans, Sequence
  <2> QED
    BY <2>1, <2>2, LenProperties, EmptySeq
<1>3. seqs[n] \in Sequence /\ seqs[n].len = Endless /\ Movement[b] \in Movements
  BY <1>1, <1>2, ElementOfSeq, Crossings DEF PriorityPlan, Guides
<1>4. /\ c.deb <= c.due /\ Whole(c.deb) /\ Prepares(seqs, c.due - c.deb)
      /\ AlwaysGreen(seqs[n])
      /\ \A x \in c.vgps : Movement[x] \in MovementsOf(seqs[n])
  BY <1>1 DEF Leads, Guide
<1>5. /\ AlwaysGreen(last)
      /\ MovementsOf(last) = MovementsOf(seqs[n]) \cup {Movement[b]}
  BY <1>3, <1>4, GreenAdded, WithSignalFacts
<1>6. d = [c EXCEPT !.vgps = @ \cup {b}, !.ex = [@ EXCEPT !.seqs = new]]
  BY DEF DetectFurther
<1> HIDE DEF last, d
<1>7. /\ Len(new) = n /\ new[n] = last /\ \A i \in 1 .. n : i # n => new[i] = seqs[i]
  BY <1>2
<1> HIDE DEF new
<1>8. /\ d.ex.seqs = new /\ d.vgps = c.vgps \cup {b} /\ d.deb = c.deb /\ d.due = c.due
      /\ d.shared = c.shared /\ d.mode = c.mode
  BY <1>1, <1>2, <1>6 DEF Controllers, Plans
<1>9. Prepares(new, c.due - c.deb)
  <2>1. CASE n = 2
    <3>1. new[1] = seqs[1]
      BY <1>7, <2>1
    <3> HIDE DEF seqs
    <3> QED
      BY <1>4, <1>7, <2>1, <3>1 DEF Prepares, n
  <2>2. CASE n = 3
    <3>1. new[1] = seqs[1] /\ new[2] = seqs[2]
      BY <1>7, <2>2
    <3> HIDE DEF seqs
    <3> QED
      BY <1>4, <1>7, <2>2, <3>1 DEF Prepares, n
  <2> QED
    BY <1>4, <2>1, <2>2 DEF Prepares
<1>10. Guide(d.ex) = last /\ Guide(c.ex) = seqs[n]
  BY <1>7, <1>8 DEF Guide
<1>11. Leads(d)
  <2>1. \A x \in d.vgps : Movement[x] \in MovementsOf(last)
    BY <1>4, <1>5, <1>8
  <2>2. Prepares(d.ex.seqs, d.due - d.deb) /\ d.deb <= d.due /\ Whole(d.deb)
    BY <1>4, <1>8, <1>9, Zenon
  <2> QED
    BY <1>5, <1>10, <2>1, <2>2 DEF Leads
<1>12. Grows(c, d)
  BY <1>1, <1>5, <1>8, <1>10 DEF Grows
<1> QED
  BY <1>11, <1>12 DEF d

\* An operation that leaves the sequences and the dates of a plan of priority, and adds no
\* bus, keeps what is said of it.
LEMMA LeftAsItIs ==
    ASSUME NEW c, Leads(c), NEW d,
           Served(d) => /\ Served(c) /\ d.deb = c.deb /\ d.due = c.due
                        /\ d.ex.seqs = c.ex.seqs /\ d.vgps \subseteq c.vgps
    PROVE  Leads(d) /\ ((Served(d) /\ d.shared => c.shared) => Grows(c, d))
<1>1. ASSUME Served(d) PROVE Guide(d.ex) = Guide(c.ex)
  BY <1>1 DEF Guide
<1>2. Leads(d)
  <2> SUFFICES ASSUME Served(d)
               PROVE  /\ d.deb <= d.due /\ Whole(d.deb)
                      /\ Prepares(d.ex.seqs, d.due - d.deb)
                      /\ AlwaysGreen(Guide(d.ex))
                      /\ \A b \in d.vgps : Movement[b] \in MovementsOf(Guide(d.ex))
    BY DEF Leads
  <2>1. /\ c.deb <= c.due /\ Whole(c.deb) /\ Prepares(c.ex.seqs, c.due - c.deb)
        /\ AlwaysGreen(Guide(c.ex))
        /\ \A b \in c.vgps : Movement[b] \in MovementsOf(Guide(c.ex))
    BY DEF Leads
  <2>2. \A b \in d.vgps : Movement[b] \in MovementsOf(Guide(d.ex))
    BY <1>1, <2>1
  <2>3. AlwaysGreen(Guide(d.ex))
    BY <1>1, <2>1
  <2>4. d.deb <= d.due /\ Whole(d.deb) /\ Prepares(d.ex.seqs, d.due - d.deb)
    BY <2>1, Zenon
  <2> QED
    BY <2>2, <2>3, <2>4
<1>3. (Served(d) /\ d.shared => c.shared) => Grows(c, d)
  BY <1>1 DEF Grows
<1> QED
  BY <1>2, <1>3

\* One operation after the other.
LEMMA GrowsTransitive ==
    ASSUME NEW c, NEW d, NEW e, Grows(c, d), Grows(d, e)
    PROVE  Grows(c, e)
BY DEF Grows

\* A reading does not touch a plan of priority.
LEMMA ReadingLeads ==
    ASSUME NEW c, Good(c), Leads(c), NEW t \in Int, t < Endless
    PROVE  Leads(AfterReading(c, t)) /\ Grows(c, AfterReading(c, t))
<1> DEFINE d == AfterReading(c, t)
<1>1. Served(d) => d = c
  <2>1. c \in Controllers /\ Endless \in Int
    BY Constants DEF Good
  <2>2. d = c \/ (d = [c EXCEPT !.ex = NoPlan, !.shared = FALSE] /\ t > c.fin)
    BY DEF AfterReading
  <2>3. CASE d = [c EXCEPT !.ex = NoPlan, !.shared = FALSE] /\ t > c.fin
    <3>1. ~Served(c)
      BY <2>1, <2>3 DEF Good, Controllers
    <3>2. d.mode = c.mode
      BY <2>1, <2>3 DEF Controllers
    <3> HIDE DEF d
    <3> QED
      BY <3>1, <3>2 DEF Served
  <2> HIDE DEF d
  <2> QED
    BY <2>2, <2>3
<1> HIDE DEF d
<1>2. Leads(d) /\ Grows(c, d)
  BY <1>1, LeftAsItIs
<1> QED
  BY <1>2 DEF d

\* Nor does the entry of a bus in the zone.
LEMMA PrePriorityLeads ==
    ASSUME NEW c, Good(c), Leads(c), NEW entering
    PROVE  Leads(PrePriority(c, entering)) /\ Grows(c, PrePriority(c, entering))
<1> DEFINE d == PrePriority(c, entering)
<1>1. c \in Controllers
  BY DEF Good
<1>2. CASE d = c
  <2> HIDE DEF d
  <2> QED
    BY <1>2, LeftAsItIs DEF d
<1>3. CASE d # c
  <2>1. d = [c EXCEPT !.mode = "P"] /\ c.mode = "O"
    BY <1>3 DEF PrePriority
  <2>2. /\ d.vgps = c.vgps /\ d.ex = c.ex /\ d.deb = c.deb /\ d.due = c.due
        /\ d.shared = c.shared /\ Served(c)
    BY <1>1, <2>1 DEF Controllers, Served
  <2> HIDE DEF d
  <2>3. Leads(d) /\ Grows(c, d)
    BY <2>2, LeftAsItIs
  <2> QED
    BY <2>3 DEF d
<1> QED
  BY <1>2, <1>3

\* The exits of buses leave the plan to the others, or end the priority.
LEMMA PriorityLeads ==
    ASSUME NEW c, Good(c), Leads(c), NEW t \in Nat, NEW leaving
    PROVE  Leads(Priority(c, t, leaving)) /\ Grows(c, Priority(c, t, leaving))
<1> DEFINE d == Priority(c, t, leaving)
           left == c.vgps \ leaving
           plan == ReturnPlan(c, t)
<1>1. c \in Controllers
  BY DEF Good
<1>2. CASE c.mode # "P"
  <2>1. d = c
    BY <1>2 DEF Priority
  <2> HIDE DEF d
  <2> QED
    BY <2>1, LeftAsItIs DEF d
<1>3. CASE c.mode = "P" /\ left # {}
  <2>1. d = [c EXCEPT !.vgps = left]
    BY <1>3 DEF Priority
  <2>2. /\ d.vgps \subseteq c.vgps /\ d.ex = c.ex /\ d.deb = c.deb /\ d.due = c.due
        /\ d.shared = c.shared /\ Served(c)
    BY <1>1, <1>3, <2>1 DEF Controllers, Served
  <2> HIDE DEF d
  <2>3. Leads(d) /\ Grows(c, d)
    BY <2>2, LeftAsItIs
  <2> QED
    BY <2>3 DEF d
<1>4. CASE c.mode = "P" /\ left = {}
  <2>1. d = [c EXCEPT !.mode = "Q", !.vgps = {}, !.ex = plan, !.shared = FALSE,
                      !.deb = t, !.fin = t + plan.cycle]
    BY <1>4 DEF Priority
  <2> HIDE DEF plan
  <2>2. ~Served(d)
    BY <1>1, <2>1 DEF Controllers, Served
  <2> HIDE DEF d
  <2>3. Leads(d) /\ Grows(c, d)
    BY <2>2, LeftAsItIs
  <2> QED
    BY <2>3 DEF d
<1> QED
  BY <1>2, <1>3, <1>4

\* The end of the return plan is of another mode.
LEMMA PostPriorityLeads ==
    ASSUME NEW c, Good(c), Leads(c), NEW t \in Nat
    PROVE  Leads(PostPriority(c, t)) /\ Grows(c, PostPriority(c, t))
<1> DEFINE d == PostPriority(c, t)
<1>1. Served(d) => d = c
  <2>1. c \in Controllers
    BY DEF Good
  <2>2. CASE c.mode = "Q" /\ t >= c.fin
    <3>1. d = [c EXCEPT !.mode = "N", !.ex = NoPlan, !.shared = FALSE, !.fin = 0, !.vgps = {}]
      BY <2>2 DEF PostPriority
    <3>2. d.mode = "N"
      BY <2>1, <3>1 DEF Controllers
    <3> HIDE DEF d
    <3> QED
      BY <3>2 DEF Served
  <2>3. CASE ~(c.mode = "Q" /\ t >= c.fin)
    BY <2>3 DEF PostPriority
  <2> QED
    BY <2>2, <2>3
<1> HIDE DEF d
<1>2. Leads(d) /\ Grows(c, d)
  BY <1>1, LeftAsItIs
<1> QED
  BY <1>2 DEF d

\* What the controller becomes from c, one bus after the other.
LedFrom(c) == {d \in Controllers : Good(d) /\ Leads(d) /\ Grows(c, d)}

\* Detect does not leave them.
LEMMA DetectLeads ==
    ASSUME TotalPriority, NEW c, NEW t \in Nat, Whole(t), NEW est \in Nat, Whole(est),
           NEW d \in LedFrom(c), NEW b \in Buses
    PROVE  Detect(d, b, t, est) \in LedFrom(c)
<1> DEFINE e == Detect(d, b, t, est)
<1>1. Good(d) /\ Leads(d) /\ Grows(c, d)
  BY DEF LedFrom
<1>2. Good(e)
  BY <1>1, DetectOK
<1>3. Leads(e) /\ Grows(d, e)
  <2>1. CASE d.vgps = {}
    BY <1>1, <2>1, FirstLeads DEF Detect
  <2>2. CASE d.vgps # {}
    BY <1>1, <2>2, FurtherLeads DEF Detect
  <2> QED
    BY <2>1, <2>2
<1> HIDE DEF e
<1>4. Grows(c, e)
  BY <1>1, <1>3, GrowsTransitive
<1>5. e \in LedFrom(c)
  BY <1>2, <1>3, <1>4 DEF LedFrom, Good
<1> QED
  BY <1>5 DEF e

\* The controller after Update leads its buses.
LEMMA UpdateLeads ==
    ASSUME TotalPriority, NEW c, Good(c), Leads(c), NEW t \in Nat, Whole(t),
           NEW detected \in Seq(Buses), NEW est \in Nat, Whole(est), NEW entering, NEW leaving
    PROVE  LET d == Update(c, t, detected, est, entering, leaving)
           IN  Leads(d) /\ Grows(c, d)
<1> DEFINE V == LedFrom(c)
<1>1. c \in V
  <2>1. Grows(c, c)
    BY DEF Grows
  <2> QED
    BY <2>1 DEF LedFrom, Good
<1>2. \A d \in V, b \in Buses : Detect(d, b, t, est) \in V
  BY DetectLeads
<1> HIDE DEF V
<1>3. PICK c0 \in V : Update(c, t, detected, est, entering, leaving)
                         = PostPriority(Priority(PrePriority(c0, entering), t, leaving), t)
  BY <1>1, <1>2, AllDetected
<1> DEFINE c1 == PrePriority(c0, entering)
           c2 == Priority(c1, t, leaving)
           c3 == PostPriority(c2, t)
<1>4. Good(c0) /\ Leads(c0) /\ Grows(c, c0)
  BY DEF V, LedFrom
<1>5. Good(c1) /\ Leads(c1) /\ Grows(c0, c1)
  BY <1>4, PrePriorityOK, PrePriorityLeads
<1> HIDE DEF c1
<1>6. Good(c2) /\ Leads(c2) /\ Grows(c1, c2)
  BY <1>5, PriorityOK, PriorityLeads
<1> HIDE DEF c2
<1>7. Leads(c3) /\ Grows(c2, c3)
  BY <1>6, PostPriorityLeads
<1> HIDE DEF c3
<1>8. Grows(c, c1)
  BY <1>4, <1>5, GrowsTransitive
<1>9. Grows(c, c2)
  BY <1>6, <1>8, GrowsTransitive
<1>10. Grows(c, c3)
  BY <1>7, <1>9, GrowsTransitive
<1>11. Update(c, t, detected, est, entering, leaving) = c3
  BY <1>3 DEF c1, c2, c3
<1> QED
  BY <1>7, <1>10, <1>11

\* The strengthening of the invariant: the plan of the controller and that of the snapshot
\* lead their buses, and while the two are one their dates are the same.
LeadInv ==
    /\ IInv
    /\ Leads(cdf)
    /\ snap # NoSnapshot => Leads(snap.cdf)
    /\ cdf.shared /\ Served(cdf) =>
          cdf.deb = snap.cdf.deb /\ cdf.due = snap.cdf.due /\ cdf.ex = snap.cdf.ex

\* No plan of priority is in force at first.
LEMMA InitLeads ==
    Init => LeadInv
<1> SUFFICES ASSUME Init PROVE LeadInv
  OBVIOUS
<1>1. ~Served(cdf) /\ snap = NoSnapshot
  BY DEF Init, Served
<1> QED
  BY <1>1, InitOK DEF LeadInv, Leads

\* A step of the simulation.
LEMMA StepLeads ==
    ASSUME TotalPriority, LeadInv, Step
    PROVE  LeadInv'
<1> DEFINE t == instant'
           c == AfterReading(cdf, t)
           detected == SetToSeq(Moved({"upstream"}, {"approach"}))
           entering == Moved({"approach"}, {"zone"})
           leaving == Moved({"zone"}, {"out"}) \cup {b \in Buses : place'[b] = "gone"}
           old == snap.cdf
           new == [old EXCEPT !.ex = cdf'.ex]
<1>1. /\ IInv /\ Leads(cdf) /\ (snap # NoSnapshot => Leads(old))
      /\ cdf.shared /\ Served(cdf) =>
            cdf.deb = old.deb /\ cdf.due = old.due /\ cdf.ex = old.ex
  BY DEF LeadInv
<1>2. IInv'
  BY <1>1, StepOK
<1>3. /\ t \in Nat /\ t < Endless /\ Whole(t)
  <2>1. instant' \in 0..LastInstant /\ Whole(instant')
    BY <1>2 DEF IInv
  <2> QED
    BY <2>1, Constants
<1>4. PICK est \in Estimates : cdf' = Update(c, t, detected, est, entering, leaving)
  BY DEF Step
<1>5. Good(cdf)
  BY <1>1 DEF IInv, Standing
<1>6. Good(c) /\ Leads(c) /\ Grows(cdf, c)
  BY <1>1, <1>3, <1>5, ReadingOK, ReadingLeads
<1>7. detected \in Seq(Buses)
  <2>1. Moved({"upstream"}, {"approach"}) \subseteq Buses
    BY DEF Moved
  <2> QED
    BY <2>1, Detected
<1>8. est \in Nat /\ Whole(est)
  BY Constants
<1> HIDE DEF c, t, detected, entering, leaving
<1> DEFINE d == Update(c, t, detected, est, entering, leaving)
<1>9. Leads(d) /\ Grows(c, d)
  BY <1>3, <1>6, <1>7, <1>8, UpdateLeads
<1>10. cdf' = d
  BY <1>4
<1> HIDE DEF d
<1>11. Leads(cdf') /\ Grows(cdf, cdf')
  <2>1. Grows(cdf, d)
    BY <1>6, <1>9, GrowsTransitive
  <2> QED
    BY <1>9, <1>10, <2>1
<1>12. snap' = SharedPlan
  BY DEF Step
<1>13. CASE ~(cdf'.shared /\ snap # NoSnapshot)
  <2>1. snap' = snap
    BY <1>12, <1>13 DEF SharedPlan
  <2>2. ~cdf'.shared
    <3>1. cdf'.shared => snap' # NoSnapshot
      BY <1>2 DEF IInv, Linked, NoSnapshot
    <3> QED
      BY <1>13, <2>1, <3>1
  <2>3. Leads(cdf)'
    BY <1>11 DEF Leads, Served, Guide, MovementsOf, AlwaysGreen, Prepares, Whole
  <2>4. (snap # NoSnapshot => Leads(snap.cdf))'
    BY <1>1, <2>1 DEF Leads, Served, Guide, MovementsOf, AlwaysGreen, Prepares, Whole, NoSnapshot
  <2> QED
    BY <1>2, <2>2, <2>3, <2>4 DEF LeadInv
<1>14. CASE cdf'.shared /\ snap # NoSnapshot
  <2>1. snap' = [snap EXCEPT !.cdf.ex = cdf'.ex]
    BY <1>12, <1>14 DEF SharedPlan
  <2>2. snap \in Snapshots /\ Good(old)
    BY <1>1, <1>14 DEF IInv, SnapshotOK, Standing
  <2>3. old \in Controllers
    BY <2>2 DEF Good
  <2>4. snap'.cdf = new
    BY <2>1, <2>2 DEF Snapshots
  <2>5. /\ new.ex = cdf'.ex /\ new.deb = old.deb /\ new.due = old.due
        /\ new.mode = old.mode /\ new.vgps = old.vgps
    BY <2>3 DEF Controllers
  <2> HIDE DEF new
  <2>6. Served(cdf') => /\ cdf.shared /\ Served(cdf)
                        /\ cdf'.deb = old.deb /\ cdf'.due = old.due
                        /\ MovementsOf(Guide(old.ex)) \subseteq MovementsOf(Guide(cdf'.ex))
    BY <1>1, <1>11, <1>14 DEF Grows
  <2>7. Leads(new)
    <3>1. CASE ~Served(new)
      BY <3>1 DEF Leads
    <3>2. CASE Served(new) /\ ~Served(cdf')
      <4>1. snap' # NoSnapshot /\ Linked'
        BY <1>2, <1>14 DEF IInv, Linked, NoSnapshot
      <4>2. \/ Served(cdf') /\ Served(snap'.cdf)
            \/ cdf'.mode = "Q" /\ snap'.cdf.mode = "Q" /\ cdf'.ex = snap'.cdf.ex
        BY <1>14, <4>1 DEF Linked, Served
      <4>3. new.mode = "Q"
        BY <2>4, <3>2, <4>2
      <4> QED
        BY <3>2, <4>3 DEF Served
    <3>3. CASE Served(new) /\ Served(cdf')
      <4>1. /\ cdf'.deb <= cdf'.due /\ Whole(cdf'.deb)
            /\ Prepares(cdf'.ex.seqs, cdf'.due - cdf'.deb)
            /\ AlwaysGreen(Guide(cdf'.ex))
        BY <1>11, <3>3 DEF Leads
      <4>2. /\ new.deb = cdf'.deb /\ new.due = cdf'.due /\ new.ex = cdf'.ex
        BY <2>5, <2>6, <3>3
      <4>3. Served(old)
        BY <2>5, <3>3 DEF Served
      <4>4. \A b \in old.vgps : Movement[b] \in MovementsOf(Guide(old.ex))
        BY <1>1, <1>14, <4>3 DEF Leads
      <4>5. \A b \in new.vgps : Movement[b] \in MovementsOf(Guide(new.ex))
        BY <2>5, <2>6, <3>3, <4>2, <4>4
      <4>6. /\ new.deb <= new.due /\ Whole(new.deb)
            /\ Prepares(new.ex.seqs, new.due - new.deb)
            /\ AlwaysGreen(Guide(new.ex))
        BY <4>1, <4>2, Zenon
      <4> QED
        BY <4>5, <4>6 DEF Leads
    <3> QED
      BY <3>1, <3>2, <3>3
  <2>8. Served(cdf') => /\ cdf'.deb = snap'.cdf.deb /\ cdf'.due = snap'.cdf.due
                        /\ cdf'.ex = snap'.cdf.ex
    BY <2>4, <2>5, <2>6
  <2>9. Leads(cdf)'
    BY <1>11 DEF Leads, Served, Guide, MovementsOf, AlwaysGreen, Prepares, Whole
  <2>10. Leads(snap'.cdf)
    BY <2>4, <2>7
  <2>11. Leads(snap.cdf)'
    BY <2>10 DEF Leads, Served, Guide, MovementsOf, AlwaysGreen, Prepares, Whole
  <2>12. (cdf.shared /\ Served(cdf) =>
             cdf.deb = snap.cdf.deb /\ cdf.due = snap.cdf.due /\ cdf.ex = snap.cdf.ex)'
    BY <2>8 DEF Served
  <2> QED
    BY <1>2, <2>9, <2>11, <2>12 DEF LeadInv
<1> QED
  BY <1>13, <1>14

\* A reading of the lights at a later time.
LEMMA ReadAheadLeads ==
    ASSUME LeadInv, ReadAhead
    PROVE  LeadInv'
<1>1. PICK t \in {cdf.fin + Ticks} \cap (instant..LastInstant) : cdf' = AfterReading(cdf, t)
  BY DEF ReadAhead
<1>2. instant' = instant /\ place' = place /\ snap' = snap /\ rollbacks' = rollbacks
  BY DEF ReadAhead
<1>3. IInv /\ Leads(cdf) /\ Good(cdf) /\ cdf' # cdf
  BY DEF LeadInv, IInv, Standing, ReadAhead
<1>4. IInv'
  BY <1>3, ReadAheadOK
<1>5. ~Served(cdf')
  <2>1. cdf \in Controllers /\ Endless \in Int
    BY <1>3, Constants DEF Good
  <2>2. t \in Int /\ t < Endless
    <3>1. instant \in 0..LastInstant /\ t \in instant..LastInstant
      BY <1>3 DEF IInv
    <3> QED
      BY <3>1, Constants
  <2>3. cdf' = [cdf EXCEPT !.ex = NoPlan, !.shared = FALSE] /\ t > cdf.fin
    BY <1>1, <1>3 DEF AfterReading
  <2>4. ~Served(cdf)
    BY <1>3, <2>1, <2>2, <2>3 DEF Good, Controllers
  <2>5. cdf'.mode = cdf.mode
    BY <2>1, <2>3 DEF Controllers
  <2> QED
    BY <2>4, <2>5 DEF Served
<1>6. ~Served(cdf)'
  BY <1>5 DEF Served
<1>7. Leads(cdf)'
  BY <1>6 DEF Leads
<1>8. (snap # NoSnapshot => Leads(snap.cdf))'
  BY <1>2 DEF LeadInv, Leads, Served, Guide, MovementsOf, AlwaysGreen, Prepares, Whole, NoSnapshot
<1> QED
  BY <1>4, <1>6, <1>7, <1>8 DEF LeadInv

\* The snapshot is taken: its plan is a copy.
LEMMA TakeSnapshotLeads ==
    ASSUME LeadInv, TakeSnapshot
    PROVE  LeadInv'
<1> DEFINE c == [cdf EXCEPT !.ex = PlanOf(@.seqs), !.shared = FALSE]
           d == [cdf EXCEPT !.shared = FALSE]
           s == [instant |-> instant, place |-> place, cdf |-> c]
<1>1. snap' = s /\ cdf' = d
  BY DEF TakeSnapshot
<1>2. IInv /\ Leads(cdf) /\ cdf \in Controllers
  BY DEF LeadInv, IInv, Standing, Good
<1>3. IInv'
  BY <1>2, TakeSnapshotOK
<1>4. /\ c.mode = cdf.mode /\ c.vgps = cdf.vgps /\ c.deb = cdf.deb /\ c.due = cdf.due
      /\ c.ex.seqs = cdf.ex.seqs /\ c.shared = FALSE
  BY <1>2 DEF Controllers, PlanOf
<1>5. /\ d.mode = cdf.mode /\ d.vgps = cdf.vgps /\ d.deb = cdf.deb /\ d.due = cdf.due
      /\ d.ex.seqs = cdf.ex.seqs /\ d.shared = FALSE
  BY <1>2 DEF Controllers
<1> HIDE DEF c, d
<1>6. Leads(c)
  BY <1>2, <1>4, LeftAsItIs DEF Served
<1>7. Leads(d)
  BY <1>2, <1>5, LeftAsItIs DEF Served
<1>8. Leads(cdf') /\ Leads(snap'.cdf) /\ ~cdf'.shared
  BY <1>1, <1>5, <1>6, <1>7
<1>9. Leads(cdf)'
  BY <1>8 DEF Leads, Served, Guide, MovementsOf, AlwaysGreen, Prepares, Whole
<1>10. Leads(snap.cdf)'
  BY <1>8 DEF Leads, Served, Guide, MovementsOf, AlwaysGreen, Prepares, Whole
<1>11. ~(cdf.shared)'
  BY <1>8
<1> QED
  BY <1>3, <1>9, <1>10, <1>11 DEF LeadInv

\* The network is put back at the snapshot, with the plan of the snapshot.
LEMMA RestoreLeads ==
    ASSUME LeadInv, Restore
    PROVE  LeadInv'
<1> DEFINE c == snap.cdf
           at == snap.place
           d == [c EXCEPT !.vgps = {b \in @ : at[b] # "gone"}, !.shared = (@ \/ c.ex # NoPlan)]
<1>1. snap # NoSnapshot /\ cdf' = d /\ snap' = snap
  BY DEF Restore
<1>2. IInv /\ Leads(c) /\ c \in Controllers /\ ~c.shared
  BY <1>1 DEF LeadInv, IInv, SnapshotOK, Standing, Good
<1>3. IInv'
  BY <1>2, RestoreOK
<1> HIDE DEF c, at
<1>4. /\ d.mode = c.mode /\ d.vgps \subseteq c.vgps /\ d.deb = c.deb /\ d.due = c.due
      /\ d.ex = c.ex
  BY <1>2 DEF Controllers
<1> HIDE DEF d
<1>5. Leads(d)
  BY <1>2, <1>4, LeftAsItIs DEF Served
<1>6. Leads(cdf)'
  BY <1>1, <1>5 DEF Leads, Served, Guide, MovementsOf, AlwaysGreen, Prepares, Whole
<1>7. (snap # NoSnapshot => Leads(snap.cdf))'
  BY <1>1, <1>2 DEF Leads, Served, Guide, MovementsOf, AlwaysGreen, Prepares, Whole, NoSnapshot, c
<1>8. (cdf.deb = snap.cdf.deb /\ cdf.due = snap.cdf.due /\ cdf.ex = snap.cdf.ex)'
  BY <1>1, <1>4 DEF c
<1> QED
  BY <1>3, <1>6, <1>7, <1>8 DEF LeadInv

\* The strengthened invariant: neither a further bus, nor a departure, nor a snapshot and
\* its restore spoils the plan that leads the buses.
THEOREM LeadInvariance ==
    ASSUME TotalPriority
    PROVE  Spec => []LeadInv
<1>1. LeadInv /\ [Next]_vars => LeadInv'
  <2> SUFFICES ASSUME LeadInv, [Next]_vars PROVE LeadInv'
    OBVIOUS
  <2>1. CASE Step
    BY <2>1, StepLeads
  <2>2. CASE ReadAhead
    BY <2>2, ReadAheadLeads
  <2>3. CASE TakeSnapshot
    BY <2>3, TakeSnapshotLeads
  <2>4. CASE Restore
    BY <2>4, RestoreLeads
  <2>5. CASE UNCHANGED vars
    <3>1. IInv'
      BY <2>5 DEF vars, LeadInv, IInv, Standing, SnapshotOK, Linked, SomeBus, Served
    <3>2. cdf' = cdf /\ snap' = snap
      BY <2>5 DEF vars
    <3>3. Leads(cdf)'
      BY <3>2 DEF LeadInv, Leads, Served, Guide, MovementsOf, AlwaysGreen, Prepares, Whole
    <3>4. (snap # NoSnapshot => Leads(snap.cdf))'
      BY <3>2 DEF LeadInv, Leads, Served, Guide, MovementsOf, AlwaysGreen, Prepares, Whole,
                  NoSnapshot
    <3>5. (cdf.shared /\ Served(cdf) =>
              cdf.deb = snap.cdf.deb /\ cdf.due = snap.cdf.due /\ cdf.ex = snap.cdf.ex)'
      BY <3>2 DEF LeadInv, Served
    <3> QED
      BY <3>1, <3>3, <3>4, <3>5 DEF LeadInv
  <2> QED
    BY <2>1, <2>2, <2>3, <2>4, <2>5 DEF Next
<1> QED
  BY <1>1, InitLeads, PTL DEF Spec

\* The signal that decides is one of those of the movement.
LEMMA ActiveSignal ==
    ASSUME NEW s \in Sequence, NEW mv \in MovementsOf(s)
    PROVE  SignalsOf(s, mv) # {} /\ \E j \in DOMAIN s.signals : GetSignalActif(s, mv) = s.signals[j]
<1> DEFINE n == Len(s.signals)
           S == SignalsOf(s, mv)
           f == [j \in 1 .. n |-> IF j \in S THEN j ELSE n + 1]
<1>1. n \in Nat /\ DOMAIN s.signals = 1 .. n
  BY LenProperties DEF Sequence
<1> HIDE DEF n
<1>2. PICK i \in 1 .. n : i \in S
  BY <1>1 DEF MovementsOf, SignalsOf
<1>3. S \subseteq 1 .. n
  BY <1>1 DEF SignalsOf
<1> HIDE DEF S
<1>4. f \in [1 .. n -> Int] /\ n > 0
  BY <1>1, <1>2
<1>5. PICK j \in 1 .. n : \A k \in 1 .. n : f[j] <= f[k]
  BY <1>1, <1>4, Extremes
<1>6. j \in S
  <2>1. f[j] <= f[i] /\ f[i] = i
    BY <1>2, <1>5
  <2> QED
    BY <1>1, <1>2, <2>1
<1>7. \A k \in S : j <= k
  BY <1>3, <1>5, <1>6
<1>8. Min(S) \in S
  BY <1>6, <1>7 DEF Min
<1> QED
  BY <1>1, <1>2, <1>3, <1>8 DEF GetSignalActif, S

\* Once the time needed to prepare it has passed, the last sequence is read.
LEMMA GuideFound ==
    ASSUME NEW seqs \in Seq(Sequence), NEW lead \in Int, Prepares(seqs, lead),
           NEW at \in Nat, lead <= at, at + Degagement < Endless,
           NEW s, FoundAt(seqs, at, s)
    PROVE  s.seq = seqs[Len(seqs)] /\ s.elapsed \in Nat /\ s.elapsed < Endless
<1> DEFINE n == Len(seqs)
           e == EndOf(seqs)
<1>1. Degagement \in Nat /\ Endless \in Nat
  BY Constants
<1>2. n = 2 \/ n = 3
  BY DEF Prepares
<1>3. Endless > at
  BY <1>1
<1>5. PICK i \in 1 .. n :
         /\ e[i] > at /\ \A j \in 1 .. (i - 1) : e[j] <= at
         /\ s = [index |-> i, elapsed |-> at - e[i - 1], seq |-> seqs[i]]
  BY DEF FoundAt
<1>6. /\ e[0] = 0
      /\ \A j \in 1 .. n : e[j] = IF seqs[j].len = Endless THEN Endless ELSE e[j - 1] + seqs[j].len
  BY Ends
<1>7. \A j \in 1 .. n : seqs[j].len \in Int
  <2>1. \A j \in 1 .. n : seqs[j] \in Sequence
    BY ElementOfSeq
  <2> QED
    BY <2>1 DEF Sequence
<1> DEFINE x == seqs[1].len
           y == seqs[2].len
<1>8. \/ n = 2 /\ -Degagement <= x /\ x <= lead
      \/ n = 3 /\ 0 <= x /\ 0 <= y /\ x + y <= lead
  BY DEF Prepares
<1>9. s.elapsed = at - e[i - 1] /\ s.seq = seqs[i]
  BY <1>5
<1> HIDE DEF e, n
<1>10. 1 \in 1 .. n /\ 2 \in 1 .. n /\ n \in Nat
  BY <1>2
<1>11. x \in Int /\ y \in Int
  BY <1>7, <1>10
<1>12. e[1] = x \/ (x = Endless /\ e[1] = Endless)
  <2>1. 1 - 1 = 0
    OBVIOUS
  <2>2. e[1] = IF x = Endless THEN Endless ELSE 0 + x
    BY <1>6, <1>10, <2>1
  <2> HIDE DEF x
  <2> QED
    BY <1>11, <2>2
<1>13. e[2] = IF y = Endless THEN Endless ELSE e[1] + y
  <2>1. 2 - 1 = 1
    OBVIOUS
  <2> QED
    BY <1>6, <1>10, <2>1
<1> HIDE DEF x, y
<1>14. CASE n = 2
  <2>1. /\ -Degagement <= x /\ x <= lead /\ e[1] = x
    BY <1>1, <1>8, <1>12, <1>14
  <2>2. i = 2
    <3>1. i # 1
      BY <1>5, <1>11, <2>1
    <3> QED
      BY <1>14, <3>1
  <2>3. s.elapsed = at - x /\ s.seq = seqs[n]
    <3>1. 2 - 1 = 1
      OBVIOUS
    <3> QED
      BY <1>9, <1>14, <2>1, <2>2, <3>1
  <2>4. at - x \in Nat /\ at - x < Endless
    BY <1>1, <1>11, <2>1
  <2> QED
    BY <2>3, <2>4 DEF n
<1>15. CASE n = 3
  <2>1. 0 <= x /\ 0 <= y /\ x + y <= lead
    BY <1>8, <1>15
  <2>2. x <= at /\ y <= at /\ x + y <= at /\ x # Endless /\ y # Endless
    BY <1>1, <1>3, <1>11, <2>1
  <2>3. e[1] = x /\ e[2] = x + y
    BY <1>12, <1>13, <2>2
  <2>4. i = 3
    <3>1. i # 1 /\ i # 2
      BY <1>5, <1>11, <2>2, <2>3
    <3> QED
      BY <1>15, <3>1
  <2>5. s.elapsed = at - (x + y) /\ s.seq = seqs[n]
    <3>1. 3 - 1 = 2
      OBVIOUS
    <3> QED
      BY <1>9, <1>15, <2>3, <2>4, <3>1
  <2>6. at - (x + y) \in Nat /\ at - (x + y) < Endless
    BY <1>1, <1>3, <1>11, <2>1, <2>2
  <2> QED
    BY <2>5, <2>6 DEF n
<1> QED
  BY <1>2, <1>14, <1>15

\* With total priority, a bus finds its green from the time it is due until it has passed,
\* whichever way the plan was prepared and whatever other buses and restores came between.
THEOREM BusesFindTheirGreen ==
    ASSUME TotalPriority
    PROVE  Spec => []ProcessedBusGreen
<1>1. LeadInv => ProcessedBusGreen
  <2> SUFFICES ASSUME LeadInv, Served(cdf), instant >= cdf.due, NEW b \in cdf.vgps
               PROVE  Colour(cdf, instant, Movement[b]) = "green"
    BY DEF ProcessedBusGreen, Served
  <2> DEFINE plan == cdf.ex
             seqs == plan.seqs
             u == instant - cdf.deb
             sec == u \div Ticks
             lead == cdf.due - cdf.deb
             s == SequenceAt(plan, sec)
             mv == Movement[b]
  <2>1. /\ cdf \in Controllers /\ PriorityPlan(plan) /\ cdf.fin = Endless /\ cdf.deb >= 0
        /\ instant \in 0..LastInstant /\ Whole(instant)
    BY DEF LeadInv, IInv, Standing, Good
  <2>2. /\ cdf.deb <= cdf.due /\ Whole(cdf.deb) /\ Prepares(seqs, lead)
        /\ AlwaysGreen(Guide(plan)) /\ mv \in MovementsOf(Guide(plan))
    BY DEF LeadInv, Leads
  <2>3. Guides(plan) /\ plan # NoPlan /\ plan \in Plans /\ seqs # <<>>
    BY <2>1, SomePlan DEF PriorityPlan
  <2>4. cdf.deb \in Nat /\ cdf.due \in Int /\ instant \in Nat
    BY <2>1, Constants DEF Controllers
  <2>5. u \in Nat /\ Whole(u) /\ lead \in Int /\ lead <= u /\ u <= instant
    <3>1. cdf.deb <= instant
      BY <2>2, <2>4
    <3>2. Whole(u)
      BY <2>1, <2>2, <2>4, <3>1, WholeDifference
    <3>3. u \in Nat /\ lead \in Int /\ lead <= u /\ u <= instant
      BY <2>4, <3>1
    <3> QED
      BY <3>2, <3>3
  <2>6. u + Degagement < Endless /\ instant <= Endless
    <3> HIDE DEF u
    <3> QED
      BY <2>1, <2>4, <2>5, Constants
  <2>7. GetSequence(cdf, instant) = s
    BY <2>1, <2>2, <2>3, <2>4, <2>6 DEF GetSequence
  <2>8. u = Ticks * InCycle(sec, plan.cycle)
    <3>1. plan.cycle = Endless
      BY <2>3 DEF Guides
    <3>2. InCycle(sec, plan.cycle) = sec
      BY <3>1 DEF InCycle
    <3> HIDE DEF u
    <3> QED
      BY <2>5, <3>2, ExactSeconds
  <2>9. seqs \in Seq(Sequence) /\ seqs[Len(seqs)].len = Endless
    BY <2>3 DEF Plans, Sequence, Guides
  <2> HIDE DEF u, lead, sec
  <2>10. s.seq = Guide(plan) /\ s.elapsed \in Nat /\ s.elapsed < Endless
    <3>1. plan.seqs = seqs /\ Guide(plan) = seqs[Len(seqs)]
      BY DEF Guide
    <3> HIDE DEF seqs, plan, s
    <3>2. TotalLength(seqs) = Endless
      BY <2>3, <2>9, EndlessPlan DEF seqs
    <3>3. TotalLength(seqs) > u /\ u \in Int /\ seqs # <<>>
      BY <2>3, <2>5, <2>6, <3>2, Constants DEF seqs
    <3>4. FoundAt(seqs, u, s)
      BY <2>8, <2>9, <3>1, <3>3, SequenceFound DEF s
    <3> QED
      BY <2>2, <2>5, <2>6, <2>9, <3>1, <3>4, GuideFound DEF seqs
  <2>11. Guide(plan) \in Sequence
    BY <2>3, <2>9, ElementOfSeq, LenProperties, EmptySeq DEF Guide
  <2> DEFINE guide == Guide(plan)
             signal == GetSignalActif(guide, mv)
  <2> HIDE DEF guide, s, plan, mv
  <2>12. /\ SignalsOf(guide, mv) # {} /\ signal.delay = 0 /\ signal.green = Endless
    BY <2>2, <2>11, ActiveSignal DEF AlwaysGreen, guide
  <2>13. SignalColour(signal, s.elapsed) = "green"
    <3> DEFINE x == s.elapsed
    <3>1. x \in Nat /\ x < Endless /\ Endless \in Nat
      BY <2>10, Constants
    <3>2. ~(x < 0) /\ x < 0 + Endless
      <4> HIDE DEF x
      <4> QED
        BY <3>1
    <3> HIDE DEF x, signal
    <3>3. SignalColour(signal, x) = "green"
      BY <2>12, <3>2 DEF SignalColour, signal
    <3> QED
      BY <3>3 DEF x
  <2>14. Colour(cdf, instant, mv) = SignalColour(signal, s.elapsed)
    BY <2>7, <2>10, <2>12 DEF Colour, guide
  <2> QED
    BY <2>13, <2>14 DEF mv
<1> QED
  BY <1>1, LeadInvariance, PTL

--------------------------------------------------------------------------------
(* The controller comes back in phase *)

\* The remainder of a number written with its quotient.
LEMMA Remainder ==
    ASSUME NEW q \in Nat, NEW r \in Nat, NEW d \in Nat, r < d
    PROVE  (d * q + r) % d = r
<1> DEFINE x == d * q + r
           p == x \div d
           s == x % d
           u == d * q
           v == d * p
<1>1. x \in Nat /\ u \in Nat /\ x = u + r /\ d > 0
  OBVIOUS
<1> HIDE DEF x
<1>2. p \in Nat /\ s \in 0 .. (d - 1) /\ x = v + s /\ v \in Nat
  BY <1>1
<1> HIDE DEF p, s
<1>3. ~(p < q)
  <2> SUFFICES ASSUME p < q PROVE FALSE
    OBVIOUS
  <2>1. d * (p + 1) <= d * q /\ d * (p + 1) = d * p + d
    BY <1>2, Multiples
  <2>2. v + d <= u
    BY <2>1
  <2> HIDE DEF u, v
  <2> QED
    BY <1>1, <1>2, <2>2
<1>4. ~(q < p)
  <2> SUFFICES ASSUME q < p PROVE FALSE
    OBVIOUS
  <2>1. d * (q + 1) <= d * p /\ d * (q + 1) = d * q + d
    BY <1>2, Multiples
  <2>2. u + d <= v
    BY <2>1
  <2> HIDE DEF u, v
  <2> QED
    BY <1>1, <1>2, <2>2
<1>5. u = v
  BY <1>2, <1>3, <1>4
<1> HIDE DEF u, v
<1>6. s = r
  BY <1>1, <1>2, <1>5
<1> QED
  BY <1>6 DEF s, x

\* The cycle is a number of seconds.
LEMMA CycleInSeconds ==
    \E d \in Nat : /\ d > 0 /\ TotalLength(Plan) = Ticks * d
                   /\ TotalLength(Plan) \div Ticks = d
<1> DEFINE c == TotalLength(Plan)
           d == c \div Ticks
<1>1. c \in Nat /\ c >= Ticks /\ Whole(c)
  <2>1. Len(Plan) \in 0 .. Len(Plan)
    BY Constants
  <2> QED
    BY <2>1, CycleEnds, CycleLength DEF TotalLength
<1>2. Ticks \in Nat /\ Ticks > 0 /\ c % Ticks = 0
  BY <1>1, Constants DEF Whole
<1> HIDE DEF c
<1>3. d \in Nat /\ c = Ticks * d
  BY <1>1, <1>2
<1>4. d > 0
  <2> HIDE DEF d
  <2> QED
    BY <1>1, <1>2, <1>3
<1> QED
  BY <1>3, <1>4 DEF c

\* An instant of whole seconds is in a cycle, at a place of whole seconds.
LEMMA InACycle ==
    ASSUME NEW t \in Nat, Whole(t)
    PROVE  \E m \in Nat, x \in Nat :
              x < TotalLength(Plan) /\ Whole(x) /\ t = m * TotalLength(Plan) + x
<1> DEFINE c == TotalLength(Plan)
           k == Ticks
           s == t \div k
<1>1. PICK d \in Nat : d > 0 /\ c = k * d
  BY CycleInSeconds
<1>2. k \in Nat /\ k > 0 /\ t % k = 0
  BY Constants DEF Whole
<1>3. \A r \in Nat : k * r \in Nat /\ Whole(k * r)
  BY WholeMultiple
<1> HIDE DEF c, k
<1>4. s \in Nat /\ t = k * s
  BY <1>2
<1> HIDE DEF s
<1> DEFINE m == s \div d
           y == s % d
<1>5. m \in Nat /\ y \in 0 .. (d - 1) /\ s = d * m + y
  BY <1>1, <1>4
<1> HIDE DEF m, y
<1> DEFINE x == k * y
<1>6. x \in Nat /\ Whole(x)
  BY <1>3, <1>5
<1>7. t = m * c + x
  BY <1>1, <1>2, <1>4, <1>5
<1>8. x < c
  <2>1. k * (y + 1) <= k * d /\ k * (y + 1) = k * y + k
    BY <1>1, <1>2, <1>5, Multiples
  <2>2. x + k <= c
    BY <1>1, <2>1
  <2>3. c \in Nat
    BY <1>1, <1>2
  <2> HIDE DEF x
  <2> QED
    BY <1>2, <1>6, <2>2, <2>3
<1> QED
  BY <1>5, <1>6, <1>7, <1>8 DEF c

\* The sequence under way is the one that its place in the cycle gives.
LEMMA BaseAtPlace ==
    ASSUME NEW m \in Nat, NEW x \in Nat, x < TotalLength(Plan), Whole(x),
           NEW t, t = m * TotalLength(Plan) + x
    PROVE  LET i == BaseAt(t).index
           IN  /\ i \in 1 .. Len(Plan) /\ BaseAt(t).seq = Plan[i]
               /\ BaseAt(t).elapsed = x - EndOf(Plan)[i - 1]
               /\ EndOf(Plan)[i] > x /\ \A j \in 1 .. (i - 1) : EndOf(Plan)[j] <= x
<1> DEFINE c == TotalLength(Plan)
           k == Ticks
           at == k * ((t \div k) % (c \div k))
           e == EndOf(Plan)
<1>1. PICK d \in Nat : d > 0 /\ c = k * d /\ c \div k = d
  BY CycleInSeconds
<1>2. k \in Nat /\ k > 0 /\ x % k = 0 /\ x < c /\ t = m * c + x
  BY Constants DEF Whole
<1>3. at = x
  <2> DEFINE y == x \div k
  <2> HIDE DEF c, k
  <2>1. y \in Nat /\ x = k * y
    BY <1>2
  <2> HIDE DEF y
  <2>2. y < d
    <3> SUFFICES ASSUME d <= y PROVE FALSE
      BY <1>1, <2>1
    <3>1. k * d <= k * y
      BY <1>1, <1>2, <2>1, Multiples
    <3>2. c <= x
      BY <1>1, <2>1, <3>1
    <3>3. c \in Nat
      BY <1>1, <1>2
    <3> QED
      BY <1>2, <3>2, <3>3
  <2> DEFINE s == d * m + y
  <2>3. s \in Nat /\ t = k * s
    BY <1>1, <1>2, <2>1
  <2>4. s % d = y
    BY <1>1, <2>1, <2>2, Remainder
  <2> HIDE DEF s
  <2>5. t \div k = s
    <3>1. \A r \in Nat : (k * r) \div k = r
      BY <1>2
    <3> QED
      BY <2>3, <3>1
  <2> QED
    BY <1>1, <2>1, <2>4, <2>5
<1>4. c \in Nat /\ c # Endless
  BY CycleLength, Constants
<1>5. at = Ticks * InCycle(t \div Ticks, Base.cycle) /\ Base.seqs = Plan
  BY <1>4 DEF InCycle, Base, PlanOf
<1> DEFINE sec == t \div Ticks
<1>6. at \in Int /\ at = Ticks * InCycle(sec, Base.cycle) /\ c > at
  <2>1. x \in Nat /\ x < c
    OBVIOUS
  <2>2. at \in Int /\ c > at
    <3> HIDE DEF at, c
    <3> QED
      BY <1>3, <1>4, <2>1
  <2> QED
    BY <1>5, <2>2
<1>7. FoundAt(Plan, at, SequenceAt(Base, sec))
  <2> HIDE DEF at, sec
  <2> QED
    BY <1>5, <1>6, Constants, SequenceFound
<1>8. BaseAt(t) = SequenceAt(Base, sec)
  BY DEF BaseAt
<1>9. FoundAt(Plan, x, BaseAt(t))
  <2> HIDE DEF at, sec
  <2> QED
    BY <1>3, <1>7, <1>8
<1> QED
  BY <1>9 DEF FoundAt

\* Where a sequence of the cycle ends, the next one begins.
LEMMA AtTheEnd ==
    ASSUME NEW m \in Nat, NEW last \in 1 .. Len(Plan),
           NEW t, t = m * TotalLength(Plan) + EndOf(Plan)[last]
    PROVE  BaseAt(t).elapsed = 0 /\ BaseAt(t).index = NextSequence(last)
<1> DEFINE n == Len(Plan)
           e == EndOf(Plan)
           c == TotalLength(Plan)
           b == BaseAt(t)
<1>1. /\ n \in Nat /\ n > 0 /\ last \in 1 .. n /\ e[0] = 0 /\ c = e[n]
      /\ \A a \in 0 .. n : e[a] \in Nat /\ Whole(e[a])
      /\ \A a, j \in 0 .. n : a < j => e[a] < e[j]
  BY Constants, CycleEnds DEF TotalLength
<1>2. NextSequence(last) = (last % n) + 1
  BY DEF NextSequence
<1>3. CASE last < n
  <2> DEFINE x == e[last]
  <2>1. x \in Nat /\ x < c /\ Whole(x) /\ t = m * c + x
    <3>1. last \in 0 .. n /\ n \in 0 .. n
      BY <1>1
    <3>2. x \in Nat /\ Whole(x)
      BY <1>1, <3>1
    <3>3. x < c
      <4> HIDE DEF n, e
      <4> QED
        BY <1>1, <1>3, <3>1
    <3> QED
      BY <3>2, <3>3
  <2>2. /\ b.index \in 1 .. n /\ b.elapsed = x - e[b.index - 1]
        /\ e[b.index] > x /\ \A j \in 1 .. (b.index - 1) : e[j] <= x
    <3> HIDE DEF x
    <3> QED
      BY <2>1, BaseAtPlace
  <2> DEFINE i == b.index
  <2> HIDE DEF n, e, c, b
  <2>3. i > last
    <3> SUFFICES ASSUME i <= last PROVE FALSE
      BY <1>1, <2>2
    <3>1. i \in 0 .. n /\ last \in 0 .. n
      BY <1>1, <2>2
    <3>2. e[i] <= e[last] /\ e[i] \in Nat /\ e[last] \in Nat
      <4>1. CASE i = last
        BY <1>1, <3>1, <4>1
      <4>2. CASE i # last
        <5> HIDE DEF i
        <5> QED
          BY <1>1, <3>1, <4>2
      <4> QED
        BY <4>1, <4>2
    <3> QED
      BY <2>2, <3>2
  <2>4. ~(i > last + 1)
    <3> SUFFICES ASSUME i > last + 1 PROVE FALSE
      OBVIOUS
    <3>1. last + 1 \in 1 .. (i - 1) /\ last + 1 \in 0 .. n /\ last \in 0 .. n
      BY <1>1, <1>3, <2>2
    <3>2. e[last + 1] <= x
      BY <2>2, <3>1
    <3>3. e[last] < e[last + 1] /\ e[last] \in Nat /\ e[last + 1] \in Nat
      BY <1>1, <3>1
    <3> QED
      BY <3>2, <3>3
  <2>5. i = last + 1 /\ i - 1 = last
    <3>1. i \in Nat /\ last \in Nat
      BY <1>1, <2>2
    <3> HIDE DEF i
    <3> QED
      BY <2>3, <2>4, <3>1
  <2>6. b.elapsed = e[last] - e[last] /\ e[last] \in Nat
    <3>1. last \in 0 .. n
      BY <1>1
    <3> QED
      BY <1>1, <2>2, <2>5, <3>1
  <2>7. b.elapsed = 0
    <3> HIDE DEF i
    <3> QED
      BY <2>6
  <2>8. last % n = last
    <3>1. last \in Nat /\ last < n + n
      BY <1>1, <1>3
    <3> QED
      BY <1>1, <1>3, <3>1, Wrap
  <2> QED
    BY <1>2, <2>5, <2>7, <2>8 DEF b, i
<1>4. CASE last = n
  <2> DEFINE x == 0
             q == m + 1
  <2>1. q \in Nat /\ x \in Nat /\ x < c /\ Whole(x) /\ t = q * c + x
    <3>1. 0 \in 0 .. n /\ n \in 0 .. n /\ 0 < n
      BY <1>1
    <3>2. c \in Nat /\ 0 < c
      <4> HIDE DEF n, e
      <4> QED
        BY <1>1, <3>1
    <3>3. t = m * c + c
      BY <1>1, <1>4
    <3>4. m * c + c = q * c + x
      <4> HIDE DEF c
      <4> QED
        BY <3>2
    <3>5. Whole(x)
      BY Constants DEF Whole
    <3> HIDE DEF c
    <3> QED
      BY <3>2, <3>3, <3>4, <3>5
  <2>2. /\ b.index \in 1 .. n /\ b.elapsed = x - e[b.index - 1]
        /\ e[b.index] > x /\ \A j \in 1 .. (b.index - 1) : e[j] <= x
    <3> HIDE DEF x, q
    <3> QED
      BY <2>1, BaseAtPlace
  <2> DEFINE i == b.index
  <2> HIDE DEF n, e, c, b
  <2>3. ~(i > 1)
    <3> SUFFICES ASSUME i > 1 PROVE FALSE
      OBVIOUS
    <3>1. 1 \in 1 .. (i - 1) /\ 1 \in 0 .. n /\ 0 \in 0 .. n
      BY <1>1, <2>2
    <3>2. e[1] <= 0
      BY <2>2, <3>1
    <3>3. e[0] < e[1] /\ e[1] \in Nat
      BY <1>1, <3>1
    <3> QED
      BY <1>1, <3>2, <3>3
  <2>4. i = 1 /\ i - 1 = 0
    BY <1>1, <2>2, <2>3
  <2>5. b.elapsed = 0
    BY <1>1, <2>2, <2>4
  <2>6. last % n = 0
    BY <1>1, <1>4
  <2> QED
    BY <1>2, <2>4, <2>5, <2>6 DEF b, i
<1> QED
  BY <1>1, <1>3, <1>4

\* The time to the end of a sequence leads there, and is of two cycles at most.
LEMMA LeadsToTheEnd ==
    ASSUME NEW t \in Nat, Whole(t), NEW last \in 1 .. Len(Plan)
    PROVE  /\ TimeToEnd(t, last) <= 2 * TotalLength(Plan)
           /\ \E m \in Nat :
                 t + TimeToEnd(t, last) = m * TotalLength(Plan) + EndOf(Plan)[last]
<1> DEFINE n == Len(Plan)
           e == EndOf(Plan)
           c == TotalLength(Plan)
           b == BaseAt(t)
           i == b.index
           l == LengthUpTo(i, last)
<1>1. PICK m \in Nat, x \in Nat : x < c /\ Whole(x) /\ t = m * c + x
  BY InACycle
<1>2. i \in 1 .. n /\ b.seq = Plan[i] /\ b.elapsed = x - e[i - 1] /\ e[i] > x
  <2> HIDE DEF n, e, i
  <2> QED
    BY <1>1, BaseAtPlace DEF n, e, i
<1>3. /\ n \in Nat /\ n > 0 /\ c = e[n] /\ last \in 0 .. n /\ i \in 0 .. n /\ i - 1 \in 0 .. n
      /\ e[i] \in Nat /\ e[i - 1] \in Nat /\ e[last] \in Nat /\ c \in Nat /\ e[last] <= c
      /\ e[i] = e[i - 1] + Plan[i].len
  <2>1. n \in Nat /\ n > 0 /\ c = e[n]
    BY Constants DEF TotalLength
  <2>2. last \in 0 .. n /\ i \in 0 .. n /\ i - 1 \in 0 .. n /\ n \in 0 .. n
    <3> HIDE DEF i
    <3> QED
      BY <1>2, <2>1
  <2>3. /\ \A a \in 0 .. n : e[a] \in Nat
        /\ \A a, j \in 0 .. n : a < j => e[a] < e[j]
    BY CycleEnds
  <2>4. e[i] = e[i - 1] + Plan[i].len
    <3> HIDE DEF i
    <3> QED
      BY <1>2, CycleLength
  <2>5. e[last] <= e[n]
    <3> HIDE DEF e, n
    <3>1. CASE last = n
      BY <2>2, <2>3, <3>1
    <3>2. CASE last # n
      <4>1. last < n
        BY <2>2, <3>2
      <4>2. e[last] < e[n] /\ e[last] \in Nat /\ e[n] \in Nat
        BY <2>2, <2>3, <4>1
      <4> QED
        BY <4>2
    <3> QED
      BY <3>1, <3>2
  <2> HIDE DEF e, n, i, c
  <2> QED
    BY <2>1, <2>2, <2>3, <2>4, <2>5
<1>4. l = IF i < last THEN e[last] - e[i] ELSE c - e[i] + e[last]
  <2> HIDE DEF i
  <2> QED
    BY <1>2, LengthIs
<1>5. TimeToEnd(t, last) = Plan[i].len - (x - e[i - 1]) + l
  BY <1>2 DEF TimeToEnd
<1> DEFINE y == Plan[i].len
           z == e[i - 1]
           w == e[i]
           v == e[last]
           back == TimeToEnd(t, last)
<1>6. y \in Nat
  <2> HIDE DEF i
  <2> QED
    BY <1>2, Constants
<1>7. /\ w = z + y /\ back = y - (x - z) + l /\ l = IF i < last THEN v - w ELSE c - w + v
      /\ y \in Nat /\ z \in Nat /\ w \in Nat /\ v \in Nat /\ c \in Nat /\ v <= c
  BY <1>3, <1>4, <1>5, <1>6
<1> DEFINE p == m * c
           r == (m + 1) * c
<1>8. p \in Nat /\ r \in Nat /\ r = p + c /\ t = p + x /\ m + 1 \in Nat
  <2>1. c \in Nat /\ t = m * c + x
    BY <1>1, <1>7
  <2> HIDE DEF c
  <2> QED
    BY <2>1
<1> HIDE DEF y, z, w, v, back, l, c, i
<1>9. CASE i < last
  <2>1. back <= 2 * c /\ t + back = p + v
    <3> HIDE DEF p, r
    <3> QED
      BY <1>7, <1>8, <1>9
  <2> QED
    BY <2>1 DEF p, v, back, c
<1>10. CASE ~(i < last)
  <2>1. back <= 2 * c /\ t + back = r + v
    <3> HIDE DEF p, r
    <3> QED
      BY <1>7, <1>8, <1>10
  <2> QED
    BY <1>8, <2>1 DEF r, v, back, c
<1> QED
  BY <1>9, <1>10

\* Two sequences that follow one another last a number of seconds that divides the ticks of
\* one: a return plan of the two is shared out without rounding.
ExactTicks ==
    \A i \in 1 .. Len(Plan) :
        Ticks % ((Plan[i].len + Plan[NextSequence(i)].len) \div Ticks) = 0

\* The two parts of a time of whole seconds make up that time.
LEMMA ExactShares ==
    ASSUME NEW i \in 1 .. Len(Plan), NEW j \in 1 .. Len(Plan),
           Ticks % ((Plan[i].len + Plan[j].len) \div Ticks) = 0,
           NEW back \in Nat, Whole(back)
    PROVE  Share(Plan[i].len, back, Plan[i].len + Plan[j].len)
              + Share(Plan[j].len, back, Plan[i].len + Plan[j].len) = back
<1> DEFINE x == Plan[i].len
           y == Plan[j].len
           k == Ticks
           a == x \div k
           b == y \div k
           u == (x + y) \div k
           l1 == (a * back) \div u
           l2 == (b * back) \div u
<1>1. /\ x \in Nat /\ y \in Nat /\ x >= k /\ y >= k
      /\ x % k = 0 /\ y % k = 0 /\ k \in Nat /\ k > 0 /\ back % k = 0
  BY Constants DEF Whole
<1>2. k % u = 0
  OBVIOUS
<1> HIDE DEF x, y, k
<1>3. a \in Nat /\ b \in Nat /\ u = a + b
  <2>1. a \in Nat /\ b \in Nat
    BY <1>1, Seconds
  <2>2. u = a + b
    BY <1>1, SumOfSeconds
  <2> QED
    BY <2>1, <2>2
<1>4. a > 0
  <2>1. k \div k <= x \div k
    BY <1>1, Quotients
  <2>2. k \div k = 1
    BY <1>1
  <2> QED
    BY <1>3, <2>1, <2>2
<1> HIDE DEF a, b, u
<1>5. u \in Nat /\ u > 0
  BY <1>3, <1>4
<1>6. \E q \in Nat : back = u * q
  <2> DEFINE v == k \div u
             w == back \div k
  <2>1. v \in Nat /\ k = u * v
    BY <1>1, <1>2, <1>5
  <2>2. w \in Nat /\ back = k * w
    BY <1>1
  <2> HIDE DEF v, w
  <2>3. back = u * (v * w) /\ v * w \in Nat
    BY <1>5, <2>1, <2>2
  <2> QED
    BY <2>3
<1>7. PICK q \in Nat : back = u * q
  BY <1>6
<1>8. \A r \in Nat : (u * r) \div u = r
  BY <1>5
<1>9. /\ a * back = u * (a * q) /\ a * q \in Nat
      /\ b * back = u * (b * q) /\ b * q \in Nat
  BY <1>3, <1>5, <1>7
<1>10. l1 = a * q /\ l2 = b * q
  BY <1>8, <1>9
<1>11. a * q + b * q = back
  BY <1>3, <1>7
<1> HIDE DEF l1, l2
<1>12. l1 + l2 = back
  BY <1>10, <1>11
<1> QED
  BY <1>12 DEF Share, l1, l2, a, b, u, x, y, k

\* Priority, when the last bus has left: a return plan of two sequences ends where the
\* second of them ends in the cycle.
LEMMA ReturnPlanInPhase ==
    ASSUME ExactTicks, NEW c, NEW t \in Nat, Whole(t),
           c.ret1 \in 1 .. Len(Plan), c.ret2 = NextSequence(c.ret1),
           Len(ReturnPlan(c, t).seqs) = 2
    PROVE  LET fin == t + ReturnPlan(c, t).cycle
           IN  /\ Whole(fin) /\ BaseAt(fin).elapsed = 0
               /\ BaseAt(fin).index = NextSequence(c.ret2)
<1> DEFINE i == c.ret1
           j == c.ret2
           r1 == Plan[i]
           r2 == Plan[j]
           r3 == Plan[NextSequence(j)]
           back == TimeToEnd(t, j)
           usual == r1.len + r2.len
           l1 == Share(r1.len, back, usual)
           l2 == Share(r2.len, back, usual)
           s1 == Resized(r1, l1)
           s2 == Resized(r2, l2)
           tooShort == back < usual /\ (MinGreen(s1) < VertMin \/ MinGreen(s2) < VertMin)
           plan == ReturnPlan(c, t)
           total == TotalLength(Plan)
           fin == t + back
<1>1. i \in 1 .. Len(Plan) /\ j \in 1 .. Len(Plan) /\ j = NextSequence(i)
  BY NextType
<1>2. PICK m \in Nat : fin = m * total + EndOf(Plan)[j]
  <2> HIDE DEF j
  <2> QED
    BY <1>1, LeadsToTheEnd
<1>3. back \in Nat /\ back > Ticks /\ back <= 2 * total /\ 2 * total < Endless
  <2> HIDE DEF j
  <2> QED
    BY <1>1, TimeLeft, LeadsToTheEnd, CycleLength
<1>4. fin \in Nat /\ Whole(fin)
  <2> DEFINE x == m * total
             y == EndOf(Plan)[j]
  <2>1. PICK d \in Nat : total = Ticks * d
    BY CycleInSeconds
  <2>2. x \in Nat /\ Whole(x)
    <3> DEFINE r == d * m
    <3>1. r \in Nat
      OBVIOUS
    <3>2. x = Ticks * r
      <4> HIDE DEF total
      <4> QED
        BY <2>1, Constants
    <3> HIDE DEF r, x
    <3> QED
      BY <3>1, <3>2, WholeMultiple
  <2>3. y \in Nat /\ Whole(y)
    <3>1. j \in 0 .. Len(Plan)
      BY <1>1, Constants
    <3> HIDE DEF j
    <3> QED
      BY <3>1, CycleEnds
  <2>4. fin = x + y
    BY <1>2
  <2> HIDE DEF x, y, fin
  <2>5. x + y \in Nat /\ Whole(x + y)
    BY <2>2, <2>3, WholeSum
  <2> QED
    BY <2>4, <2>5, Zenon
<1>5. Whole(back)
  <2>1. Whole(fin - t)
    <3>1. t <= fin
      BY <1>3
    <3> HIDE DEF fin
    <3> QED
      BY <1>4, <3>1, WholeDifference
  <2>2. fin - t = back
    BY <1>3
  <2> HIDE DEF fin, back
  <2> QED
    BY <2>1, <2>2, Zenon
<1>6. l1 + l2 = back
  <2>1. Ticks % ((Plan[i].len + Plan[j].len) \div Ticks) = 0
    <3>1. Ticks % ((Plan[i].len + Plan[NextSequence(i)].len) \div Ticks) = 0
      <4> HIDE DEF i
      <4> QED
        BY <1>1 DEF ExactTicks
    <3> HIDE DEF i, j
    <3> QED
      BY <1>1, <3>1
  <2> HIDE DEF i, j, back
  <2> QED
    BY <1>1, <1>3, <1>5, <2>1, ExactShares
<1>7. l1 \in Nat /\ l2 \in Nat
  <2> HIDE DEF i, j, back, l1, l2
  <2> QED
    BY <1>1, <1>3, TwoShares DEF l1, l2
<1>8. r1 \in Sequence /\ r2 \in Sequence /\ r1.signals # <<>> /\ r2.signals # <<>>
  BY <1>1, Constants, ElementOfSeq
<1> HIDE DEF l1, l2, fin, back, usual
<1>9. /\ s1 \in Sequence /\ s1.len = l1 /\ s2 \in Sequence /\ s2.len = l2
  <2> HIDE DEF r1, r2
  <2> QED
    BY <1>7, <1>8, ResizedLike DEF Like
<1> HIDE DEF s1, s2
<1>10. TotalLength(<<s1, s2>>) = back
  <2> DEFINE seqs == <<s1, s2>>
             e == EndOf(seqs)
  <2>1. /\ seqs \in Seq(Sequence) /\ Len(seqs) = 2 /\ seqs[1] = s1 /\ seqs[2] = s2
    BY <1>9
  <2>2. e[0] = 0 /\ \A a \in 1 .. 2 : e[a] = IF seqs[a].len = Endless THEN Endless
                                              ELSE e[a - 1] + seqs[a].len
    <3> HIDE DEF seqs
    <3> QED
      BY <2>1, Ends
  <2>3. total \in Int /\ Endless \in Nat
    BY CycleLength, Constants
  <2>4. l1 # Endless /\ l2 # Endless
    <3> HIDE DEF total
    <3> QED
      BY <1>3, <1>6, <1>7, <2>3
  <2>5. TotalLength(seqs) = e[2]
    BY <2>1 DEF TotalLength
  <2> HIDE DEF seqs, e
  <2>6. e[1] = e[0] + l1
    BY <1>9, <2>1, <2>2, <2>4
  <2>7. e[2] = e[1] + l2
    BY <1>9, <2>1, <2>2, <2>4
  <2>8. e[2] = back
    BY <1>6, <1>7, <2>2, <2>6, <2>7
  <2> QED
    BY <2>5, <2>8 DEF seqs
<1>11. plan.cycle = back
  <2>1. ~tooShort
    <3> SUFFICES ASSUME tooShort PROVE FALSE
      OBVIOUS
    <3>1. \E a, b, d : plan = PlanOf(<<a, b, d>>)
      BY DEF ReturnPlan, r1, r2, s1, s2, l1, l2, back, usual
    <3> QED
      BY <3>1 DEF PlanOf
  <2>2. plan = PlanOf(<<s1, s2>>)
    BY <2>1 DEF ReturnPlan, s1, s2, l1, l2, back, usual
  <2> QED
    BY <1>10, <2>2 DEF PlanOf
<1>12. BaseAt(fin).elapsed = 0 /\ BaseAt(fin).index = NextSequence(j)
  <2> HIDE DEF j
  <2> QED
    BY <1>1, <1>2, AtTheEnd
<1>13. t + plan.cycle = fin
  <2> HIDE DEF plan
  <2> QED
    BY <1>11 DEF fin
<1> HIDE DEF plan
<1> QED
  BY <1>4, <1>12, <1>13, Zenon DEF plan, j

--------------------------------------------------------------------------------
(* The return plan keeps the minimum of green *)

\* The greens of the cycle last the minimum at least.
LongGreens == \A i \in 1 .. Len(Plan) : MinGreen(Plan[i]) >= VertMin

\* The shortest green is a duration at least when each green is.
LEMMA ShortestGreen ==
    ASSUME NEW s \in Sequence, s.signals # <<>>, NEW m \in Int
    PROVE  MinGreen(s) >= m <=> \A i \in DOMAIN s.signals : s.signals[i].green >= m
<1> DEFINE n == Len(s.signals)
           greens == {s.signals[i].green : i \in DOMAIN s.signals}
           g == [i \in 1 .. n |-> s.signals[i].green]
<1>1. s.signals \in Seq(Signals)
  BY DEF Sequence
<1>2. n \in Nat /\ n > 0 /\ DOMAIN s.signals = 1 .. n
  BY <1>1, LenProperties, EmptySeq
<1>3. \A i \in 1 .. n : s.signals[i].green \in Int
  <2>1. \A i \in 1 .. n : s.signals[i] \in Signals
    BY <1>1, ElementOfSeq
  <2> HIDE DEF n
  <2> QED
    BY <2>1 DEF Signals
<1>4. g \in [1 .. n -> Int] /\ \A i \in 1 .. n : g[i] = s.signals[i].green
  <2> HIDE DEF n
  <2> QED
    BY <1>3
<1>5. \E x \in greens : \A y \in greens : x <= y
  <2>1. PICK i \in 1 .. n : \A j \in 1 .. n : g[i] <= g[j]
    <3> HIDE DEF g, n
    <3> QED
      BY <1>2, <1>4, Extremes
  <2>2. g[i] \in greens
    BY <1>2, <1>4
  <2>3. \A y \in greens : g[i] <= y
    BY <1>2, <1>4, <2>1
  <2> QED
    BY <2>2, <2>3
<1>6. MinGreen(s) \in greens /\ \A y \in greens : MinGreen(s) <= y
  <2>1. MinGreen(s) = CHOOSE x \in greens : \A y \in greens : x <= y
    BY DEF MinGreen
  <2> HIDE DEF greens
  <2> QED
    BY <1>5, <2>1
<1>7. greens \subseteq Int
  <2> HIDE DEF n
  <2> QED
    BY <1>2, <1>3
<1> DEFINE x == MinGreen(s)
<1>8. x \in greens /\ x \in Int /\ \A y \in greens : y \in Int /\ x <= y
  BY <1>6, <1>7
<1> HIDE DEF x
<1>9. x >= m <=> \A y \in greens : y >= m
  <2> HIDE DEF greens
  <2> QED
    BY <1>8
<1>10. (\A y \in greens : y >= m) <=> \A i \in DOMAIN s.signals : s.signals[i].green >= m
  OBVIOUS
<1> QED
  BY <1>9, <1>10 DEF x

\* A sequence stretched or shrunk: so are its greens.
LEMMA ResizedGreens ==
    ASSUME NEW r \in Sequence, r.signals # <<>>, NEW len \in Int
    PROVE  MinGreen(Resized(r, len)) = MinGreen(r) + len - r.len
<1> DEFINE s == Resized(r, len)
           x == MinGreen(s)
           y == MinGreen(r) + len - r.len
<1>1. /\ s \in Sequence /\ s.signals # <<>> /\ DOMAIN s.signals = DOMAIN r.signals
      /\ \A i \in DOMAIN r.signals :
            r.signals[i].green \in Int /\ s.signals[i].green = r.signals[i].green + len - r.len
  <2>1. s \in Sequence /\ s.signals # <<>>
    BY ResizedLike DEF Like
  <2>2. \A i \in DOMAIN r.signals : r.signals[i] \in Signals
    BY LenProperties DEF Sequence
  <2>3. \A i \in DOMAIN r.signals :
           r.signals[i].green \in Int /\ s.signals[i].green = r.signals[i].green + len - r.len
    BY <2>2 DEF Resized, Signals
  <2>4. DOMAIN s.signals = DOMAIN r.signals
    BY DEF Resized
  <2> HIDE DEF s
  <2> QED
    BY <2>1, <2>3, <2>4
<1> HIDE DEF s
<1>2. r.len \in Int /\ MinGreen(r) \in Int /\ x \in Int /\ y \in Int
  BY <1>1, Minima DEF Sequence
<1>3. ASSUME NEW m \in Int PROVE x >= m <=> y >= m
  <2> DEFINE k == m - len + r.len
  <2>1. k \in Int
    BY <1>2
  <2>2. x >= m <=> \A i \in DOMAIN s.signals : s.signals[i].green >= m
    BY <1>1, ShortestGreen
  <2> HIDE DEF k
  <2>3. MinGreen(r) >= k <=> \A i \in DOMAIN r.signals : r.signals[i].green >= k
    BY <2>1, ShortestGreen
  <2>4. \A i \in DOMAIN r.signals : s.signals[i].green >= m <=> r.signals[i].green >= k
    BY <1>1, <1>2, <2>1 DEF k
  <2>5. MinGreen(r) >= k <=> y >= m
    BY <1>2 DEF k
  <2> HIDE DEF x, y
  <2> QED
    BY <1>1, <2>2, <2>3, <2>4, <2>5
<1> HIDE DEF x, y
<1>4. x = y
  BY <1>2, <1>3
<1> QED
  BY <1>4 DEF x, y, s

\* A sequence raised has the minimum of green.
LEMMA RaisedGreens ==
    ASSUME NEW s \in Sequence, s.signals # <<>>
    PROVE  MinGreen(Raised(s)) >= VertMin
<1> DEFINE r == Raised(s)
<1>1. VertMin \in Int /\ MinGreen(s) \in Int
  BY Constants, Minima
<1>2. CASE MinGreen(s) >= VertMin
  BY <1>2 DEF Raised
<1>3. CASE ~(MinGreen(s) >= VertMin)
  <2>1. r \in Sequence /\ r.signals # <<>>
    BY RaisedLike DEF Like
  <2>2. \A i \in DOMAIN s.signals : s.signals[i] \in Signals
    BY LenProperties DEF Sequence
  <2>3. r.signals = [i \in DOMAIN s.signals |->
                       [s.signals[i] EXCEPT !.green = IF @ < VertMin THEN VertMin ELSE @]]
    BY <1>3 DEF Raised
  <2>4. \A i \in DOMAIN r.signals : r.signals[i].green >= VertMin
    BY <1>1, <2>2, <2>3 DEF Signals
  <2> HIDE DEF r
  <2>5. MinGreen(r) >= VertMin
    BY <1>1, <2>1, <2>4, ShortestGreen
  <2> QED
    BY <2>5 DEF r
<1> QED
  BY <1>2, <1>3

\* A sequence of whole seconds shared out over more time than usual gets longer.
LEMMA LongerShare ==
    ASSUME NEW len \in Nat, Whole(len), NEW usual \in Nat, usual >= Ticks,
           NEW back \in Nat, back >= usual
    PROVE  Share(len, back, usual) \in Nat /\ Share(len, back, usual) >= len
<1> DEFINE a == len \div Ticks
           u == usual \div Ticks
           k == Ticks
           q == (a * back) \div u
<1>1. k \in Nat /\ k > 0 /\ len % k = 0
  BY Constants DEF Whole
<1>2. u \in Nat /\ k * u <= usual
  BY <1>1, Seconds
<1>3. u > 0
  <2>1. k \div k <= usual \div k
    BY <1>1, Quotients
  <2>2. k \div k = 1
    BY <1>1
  <2> QED
    BY <1>2, <2>1, <2>2
<1>4. a \in Nat /\ len = k * a
  BY <1>1
<1> HIDE DEF a, u, k
<1>5. q \in Nat /\ u * q + u > a * back
  <2> HIDE DEF q
  <2> QED
    BY <1>2, <1>3, <1>4, Shared DEF q
<1>6. k * u \in Nat /\ k * u <= back
  BY <1>1, <1>2
<1>7. a * (k * u) <= a * back /\ a * back \in Nat
  BY <1>4, <1>6, Multiples
<1>8. a * (k * u) = u * len
  BY <1>1, <1>2, <1>4
<1> HIDE DEF q
<1>9. q >= len
  <2> SUFFICES ASSUME q + 1 <= len PROVE FALSE
    BY <1>5
  <2>1. u * (q + 1) <= u * len /\ u * (q + 1) = u * q + u
    <3>1. q + 1 \in Nat
      BY <1>5
    <3> QED
      BY <1>2, <1>5, <3>1, Multiples
  <2> DEFINE x == u * len
             y == u * q
             z == a * back
  <2>2. x \in Nat /\ y \in Nat /\ z \in Nat /\ y + u <= x /\ x <= z /\ y + u > z
    BY <1>2, <1>5, <1>7, <1>8, <2>1
  <2> HIDE DEF x, y, z
  <2> QED
    BY <1>2, <2>2
<1>10. Share(len, back, usual) = q
  BY DEF Share, q, a, u, k
<1> QED
  BY <1>5, <1>9, <1>10
\* What a part of a time cut by e lacks for the whole, in proportion of the time cut.
LEMMA ShareLacks ==
    ASSUME NEW a \in Nat, NEW k \in Nat, NEW u \in Nat, u > 0, NEW e \in Nat,
           NEW back \in Nat, back + e = k * u,
           NEW q, q = (a * back) \div u, NEW lack \in Nat, q + lack < k * a
    PROVE  u * lack <= a * e
<1>1. q \in Nat /\ u * q + u > a * back
  BY Shared
<1>2. u * (q + lack + 1) <= u * (k * a)
  <2>1. q + lack + 1 \in Nat /\ k * a \in Nat /\ q + lack + 1 <= k * a
    BY <1>1
  <2> QED
    BY <2>1, Multiples
<1>3. u * (q + lack + 1) = u * q + u * lack + u
  BY <1>1
<1>4. a * back + a * e = u * (k * a)
  <2>1. a * back + a * e = a * (back + e)
    OBVIOUS
  <2>2. a * (back + e) = a * (k * u)
    OBVIOUS
  <2>3. a * (k * u) = u * (k * a)
    OBVIOUS
  <2> QED
    BY <2>1, <2>2, <2>3
<1> DEFINE x == u * q
           y == u * lack
           z == a * back
           w == a * e
           v == u * (k * a)
<1>5. x \in Nat /\ y \in Nat /\ z \in Nat /\ w \in Nat /\ v \in Nat
  BY <1>1
<1>6. x + u > z /\ x + y + u <= v /\ z + w = v
  BY <1>1, <1>2, <1>3, <1>4
<1> HIDE DEF x, y, z, w, v
<1>7. y <= w
  BY <1>5, <1>6
<1> QED
  BY <1>7 DEF y, w

\* What the two parts lack is together no more than the time cut.
LEMMA LacksTogether ==
    ASSUME NEW a \in Nat, NEW b \in Nat, NEW u, u = a + b, u > 0, NEW e \in Nat,
           NEW m \in Nat, NEW n \in Nat, u * m <= a * e, u * n <= b * e
    PROVE  m + n <= e
<1> SUFFICES ASSUME e + 1 <= m + n PROVE FALSE
  OBVIOUS
<1>1. u \in Nat
  OBVIOUS
<1>2. u * (e + 1) <= u * (m + n)
  <2>1. e + 1 \in Nat /\ m + n \in Nat
    OBVIOUS
  <2> QED
    BY <1>1, <2>1, Multiples
<1>3. u * (e + 1) = u * e + u /\ u * (m + n) = u * m + u * n /\ a * e + b * e = u * e
  OBVIOUS
<1> DEFINE x == u * e
           y == u * m
           z == u * n
           v == a * e
           w == b * e
<1>4. x \in Nat /\ y \in Nat /\ z \in Nat /\ v \in Nat /\ w \in Nat
  BY <1>1
<1>5. x + u <= y + z /\ y <= v /\ z <= w /\ v + w = x
  BY <1>2, <1>3
<1> HIDE DEF x, y, z, v, w
<1> QED
  BY <1>1, <1>4, <1>5

\* In the first of the two sequences, the time left is the two but for the time spent.
LEMMA SpentInFirst ==
    ASSUME NEW t \in Nat, NEW i \in 1 .. Len(Plan), NEW j, j = NextSequence(i),
           TimeToEnd(t, j) < Plan[i].len + Plan[j].len
    PROVE  /\ BaseAt(t).elapsed \in Nat /\ BaseAt(t).elapsed < Plan[i].len
           /\ TimeToEnd(t, j) = Plan[i].len - BaseAt(t).elapsed + Plan[j].len
<1> DEFINE n == Len(Plan)
           e == EndOf(Plan)
<1>1. BaseAt(t).index = i
  BY FirstUnderWay
<1>2. /\ BaseAt(t).seq = Plan[i] /\ BaseAt(t).elapsed \in Nat /\ BaseAt(t).elapsed < Plan[i].len
  BY <1>1, BaseFacts
<1>3. /\ n \in Nat /\ n > 0 /\ e[0] = 0 /\ TotalLength(Plan) = e[n]
      /\ \A a \in 0 .. n : e[a] \in Nat
  BY Constants, CycleEnds DEF TotalLength
<1>4. j \in 1 .. n /\ j = IF i < n THEN i + 1 ELSE 1
  <2>1. n \in Nat /\ n > 0 /\ i \in 1 .. n
    BY <1>3
  <2>2. j = (i % n) + 1
    BY DEF NextSequence
  <2> HIDE DEF n
  <2>3. i \in Nat /\ i < n + n
    BY <2>1
  <2>4. i % n = IF i < n THEN i ELSE i - n
    BY <2>1, <2>3, Wrap
  <2> QED
    BY <2>1, <2>2, <2>4
<1>5. e[j] = e[j - 1] + Plan[j].len /\ Plan[j].len \in Nat
  BY <1>4, CycleLength, Constants
<1>6. LengthUpTo(i, j) = IF i < j THEN e[j] - e[i] ELSE TotalLength(Plan) - e[i] + e[j]
  BY <1>4, LengthIs
<1>7. i \in 0 .. n /\ j \in 0 .. n /\ n \in 0 .. n
  BY <1>3, <1>4
<1> HIDE DEF e, n
<1>8. LengthUpTo(i, j) = Plan[j].len
  <2>1. CASE i < n
    <3>1. j - 1 = i /\ i < j
      BY <1>4, <1>7, <2>1
    <3>2. e[j - 1] = e[i]
      BY <3>1
    <3>3. e[i] \in Nat
      BY <1>3, <1>7
    <3> QED
      BY <1>5, <1>6, <3>1, <3>2, <3>3
  <2>2. CASE i = n
    <3>1. j = 1 /\ j - 1 = 0 /\ ~(i < j)
      BY <1>3, <1>4, <2>2
    <3>2. e[j - 1] = 0 /\ TotalLength(Plan) = e[i] /\ e[i] \in Nat
      BY <1>3, <1>7, <2>2, <3>1
    <3> QED
      BY <1>5, <1>6, <3>1, <3>2
  <2> QED
    BY <1>3, <1>7, <2>1, <2>2
<1>9. TimeToEnd(t, j) = Plan[i].len - BaseAt(t).elapsed + Plan[j].len
  BY <1>1, <1>2, <1>8 DEF TimeToEnd
<1> QED
  BY <1>2, <1>9

\* What a length lacks of that of a sequence is in proportion of the time e cut from u seconds.
Lacks(r, l, u, e) ==
    \E lack \in Nat : l = r.len - lack /\ u * lack <= (r.len \div Ticks) * e

\* So does the length counted for a sequence of the return plan, raised to the minimum.
LEMMA RaisedLacks ==
    ASSUME NEW r \in Sequence, r.signals # <<>>, r.len \in Nat, Whole(r.len),
           MinGreen(r) >= VertMin,
           NEW u \in Nat, u > 0, NEW e \in Nat, NEW back \in Nat, back + e = Ticks * u,
           NEW m, m = ((r.len \div Ticks) * back) \div u, NEW s, s = Resized(r, m),
           NEW l, l = IF MinGreen(s) < VertMin THEN Raised(s).len ELSE r.len
    PROVE  Lacks(r, l, u, e)
<1> DEFINE a == r.len \div Ticks
           q == (a * back) \div u
           slack == MinGreen(r) - VertMin
           k == Ticks
<1>1. k \in Nat /\ k > 0 /\ VertMin \in Nat /\ r.len % k = 0 /\ MinGreen(r) \in Int
  BY Constants, Minima DEF Whole
<1>2. a \in Nat /\ r.len = k * a
  <2> DEFINE n == r.len
  <2>1. n \in Nat /\ k \in Nat /\ k > 0 /\ n % k = 0 /\ a = n \div k
    BY <1>1
  <2> HIDE DEF n, k, a
  <2>2. a \in Nat /\ n = k * a
    BY <2>1
  <2> QED
    BY <2>2 DEF n
<1> HIDE DEF a, k
<1>3. q \in Nat
  BY <1>2, Shared
<1>4. slack \in Nat
  BY <1>1
<1>5. s = Resized(r, q)
  BY DEF a
<1> HIDE DEF q
<1>6. s \in Sequence /\ s.signals # <<>> /\ s.len = q /\ MinGreen(s) = MinGreen(r) + q - r.len
  <2>1. q \in Int
    BY <1>3
  <2>2. Like(Resized(r, q), r) /\ Resized(r, q).len = q
    BY <2>1, ResizedLike
  <2>3. MinGreen(Resized(r, q)) = MinGreen(r) + q - r.len
    BY <2>1, ResizedGreens
  <2> QED
    BY <1>5, <2>2, <2>3 DEF Like
<1>7. CASE ~(MinGreen(s) < VertMin)
  <2>1. l = r.len - 0
    BY <1>7
  <2>2. u * 0 <= a * e
    <3>1. u * 0 = 0 /\ a * e \in Nat
      BY <1>2
    <3> QED
      BY <3>1
  <2> QED
    BY <2>1, <2>2 DEF a, Lacks
<1>8. CASE MinGreen(s) < VertMin
  <2>1. Raised(s).len = s.len + VertMin - MinGreen(s)
    BY <1>1, <1>3, <1>6, <1>8 DEF Raised
  <2>2. l = r.len - slack
    BY <1>1, <1>3, <1>6, <1>8, <2>1
  <2>3. q + slack < k * a
    <3> DEFINE n == r.len
               g == MinGreen(r)
    <3>1. /\ n \in Nat /\ g \in Int /\ slack = g - VertMin /\ g + q - n < VertMin
          /\ n = k * a
      BY <1>1, <1>2, <1>6, <1>8
    <3> HIDE DEF n, g, slack
    <3>2. q + slack < n
      BY <1>1, <1>3, <3>1
    <3> QED
      BY <3>1, <3>2
  <2>4. back + e = k * u
    BY DEF k
  <2> HIDE DEF slack
  <2>5. u * slack <= a * e
    <3>1. q = (a * back) \div u
      BY DEF q
    <3> QED
      BY <1>1, <1>2, <1>3, <1>4, <2>3, <2>4, <3>1, ShareLacks
  <2> QED
    BY <1>4, <2>2, <2>5 DEF a, Lacks
<1> QED
  BY <1>7, <1>8
\* Each signal of the plan keeps the minimum of green.
KeepsGreens(plan) == \A i \in DOMAIN plan.seqs : MinGreen(plan.seqs[i]) >= VertMin

\* Priority, when the last bus has left: two sequences that shrink too much are raised to the
\* minimum, and what they lack for it is less than the time that a third one makes up for.
LEMMA ReturnPlanKeepsGreens ==
    ASSUME LongGreens, NEW c, NEW t \in Nat,
           c.ret1 \in 1 .. Len(Plan), c.ret2 = NextSequence(c.ret1)
    PROVE  KeepsGreens(ReturnPlan(c, t))
<1> DEFINE i == c.ret1
           j == c.ret2
           k == NextSequence(c.ret2)
           r1 == Plan[i]
           r2 == Plan[j]
           r3 == Plan[k]
           back == TimeToEnd(t, j)
           usual == r1.len + r2.len
           l1 == Share(r1.len, back, usual)
           l2 == Share(r2.len, back, usual)
           s1 == Resized(r1, l1)
           s2 == Resized(r2, l2)
           tooShort == back < usual /\ (MinGreen(s1) < VertMin \/ MinGreen(s2) < VertMin)
           Length(s, r) == IF MinGreen(s) < VertMin THEN Raised(s).len ELSE r.len
           back3 == r3.len + Length(s1, r1) + Length(s2, r2)
           usual3 == r1.len - BaseAt(t).elapsed + r2.len + r3.len
           Third(s, r, l) == ResizedFrom(Raised(s), r.len, l)
           m1 == Share(r1.len, back3, usual3)
           m2 == Share(r2.len, back3, usual3)
           m3 == Share(r3.len, back3, usual3)
           three == <<Third(s1, r1, m1), Third(s2, r2, m2), Resized(r3, m3)>>
<1>1. i \in 1 .. Len(Plan) /\ j \in 1 .. Len(Plan) /\ k \in 1 .. Len(Plan)
  BY NextType
<1>2. /\ r1 \in Sequence /\ r2 \in Sequence /\ r3 \in Sequence
      /\ r1.signals # <<>> /\ r2.signals # <<>> /\ r3.signals # <<>>
      /\ r1.len \in Nat /\ r2.len \in Nat /\ r3.len \in Nat
      /\ r1.len >= Ticks /\ r2.len >= Ticks /\ r3.len >= Ticks
      /\ Whole(r1.len) /\ Whole(r2.len) /\ Whole(r3.len)
  BY <1>1, Constants, ElementOfSeq DEF Whole
<1>3. MinGreen(r1) >= VertMin /\ MinGreen(r2) >= VertMin /\ MinGreen(r3) >= VertMin
  BY <1>1 DEF LongGreens
<1>4. ReturnPlan(c, t) = IF tooShort THEN PlanOf(three) ELSE PlanOf(<<s1, s2>>)
  BY DEF ReturnPlan
<1>5. back \in Nat /\ Ticks \in Nat /\ Ticks > 0 /\ VertMin \in Int
  BY <1>1, TimeLeft, Constants
<1>6. back < usual => /\ BaseAt(t).elapsed \in Nat /\ BaseAt(t).elapsed < r1.len
                      /\ back = r1.len - BaseAt(t).elapsed + r2.len
  <2> HIDE DEF i, j
  <2> SUFFICES ASSUME back < usual
               PROVE  /\ BaseAt(t).elapsed \in Nat /\ BaseAt(t).elapsed < r1.len
                      /\ back = r1.len - BaseAt(t).elapsed + r2.len
    OBVIOUS
  <2>1. j = NextSequence(i)
    BY DEF i, j
  <2> QED
    BY <1>1, <2>1, SpentInFirst
<1> DEFINE e == BaseAt(t).elapsed
<1> HIDE DEF e, back
<1>7. l1 \in Nat /\ l2 \in Nat
  <2>1. back > Ticks
    BY <1>1, TimeLeft DEF back
  <2> HIDE DEF l1, l2, i, j
  <2> QED
    BY <1>1, <1>5, <2>1, TwoShares DEF l1, l2
<1>8. CASE ~tooShort
  <2>1. MinGreen(s1) >= VertMin /\ MinGreen(s2) >= VertMin
    <3>1. CASE back < usual
      <4>1. /\ MinGreen(s1) \in Int /\ MinGreen(s2) \in Int
        <5>1. Like(s1, r1) /\ Like(s2, r2)
          <6> HIDE DEF l1, l2, r1, r2
          <6> QED
            BY <1>2, <1>7, ResizedLike
        <5> HIDE DEF s1, s2
        <5> QED
          BY <5>1, Minima DEF Like
      <4> HIDE DEF s1, s2
      <4> QED
        BY <1>5, <1>8, <3>1, <4>1
    <3>2. CASE ~(back < usual)
      <4>1. l1 >= r1.len /\ l2 >= r2.len
        <5>1. usual \in Nat /\ usual >= Ticks /\ back >= usual
          <6> DEFINE x == r1.len
                     y == r2.len
          <6>1. x \in Nat /\ y \in Nat /\ x >= Ticks /\ ~(back < x + y)
            BY <1>2, <3>2
          <6> HIDE DEF x, y
          <6>2. x + y \in Nat /\ x + y >= Ticks /\ back >= x + y
            BY <1>5, <6>1
          <6> QED
            BY <6>2 DEF x, y
        <5> HIDE DEF usual, r1, r2
        <5> QED
          BY <1>2, <1>5, <5>1, LongerShare
      <4> HIDE DEF l1, l2
      <4>2. /\ MinGreen(s1) = MinGreen(r1) + l1 - r1.len
            /\ MinGreen(s2) = MinGreen(r2) + l2 - r2.len
        <5> HIDE DEF r1, r2
        <5>1. l1 \in Int /\ l2 \in Int
          BY <1>7
        <5>2. MinGreen(Resized(r1, l1)) = MinGreen(r1) + l1 - r1.len
          BY <1>2, <5>1, ResizedGreens
        <5>3. MinGreen(Resized(r2, l2)) = MinGreen(r2) + l2 - r2.len
          BY <1>2, <5>1, ResizedGreens
        <5> QED
          BY <5>2, <5>3
      <4>3. MinGreen(r1) \in Int /\ MinGreen(r2) \in Int
        BY <1>2, Minima
      <4> DEFINE g1 == MinGreen(r1)
                 g2 == MinGreen(r2)
                 n1 == r1.len
                 n2 == r2.len
      <4>4. /\ g1 \in Int /\ g2 \in Int /\ n1 \in Nat /\ n2 \in Nat
            /\ g1 >= VertMin /\ g2 >= VertMin /\ l1 >= n1 /\ l2 >= n2
            /\ MinGreen(s1) = g1 + l1 - n1 /\ MinGreen(s2) = g2 + l2 - n2
        BY <1>2, <1>3, <4>1, <4>2, <4>3
      <4> HIDE DEF s1, s2, g1, g2, n1, n2
      <4> QED
        BY <1>5, <1>7, <4>4
    <3> QED
      BY <3>1, <3>2
  <2> HIDE DEF s1, s2, tooShort, three
  <2>2. ReturnPlan(c, t).seqs = <<s1, s2>>
    BY <1>4, <1>8 DEF PlanOf
  <2>3. \A x \in DOMAIN <<s1, s2>> : MinGreen(<<s1, s2>>[x]) >= VertMin
    BY <2>1
  <2> HIDE DEF s1, s2
  <2> QED
    BY <2>2, <2>3 DEF KeepsGreens
<1>9. CASE tooShort
  <2> DEFINE u == usual \div Ticks
             a1 == r1.len \div Ticks
             a2 == r2.len \div Ticks
             n1 == Length(s1, r1)
             n2 == Length(s2, r2)
             x1 == r1.len
             x2 == r2.len
             x3 == r3.len
  <2>1. e \in Nat /\ e < r1.len /\ back = r1.len - e + r2.len
    BY <1>6, <1>9 DEF e
  <2>2. /\ u \in Nat /\ u > 0 /\ u = a1 + a2 /\ a1 \in Nat /\ a2 \in Nat
        /\ r1.len + r2.len = Ticks * u
    <3>1. x1 \in Nat /\ x2 \in Nat /\ x1 % Ticks = 0 /\ x2 % Ticks = 0 /\ x1 >= Ticks
      BY <1>2 DEF Whole
    <3>0. a1 = x1 \div Ticks /\ a2 = x2 \div Ticks /\ u = (x1 + x2) \div Ticks
      OBVIOUS
    <3> HIDE DEF x1, x2, a1, a2, u
    <3>2. a1 \in Nat /\ a2 \in Nat /\ x1 = Ticks * a1 /\ x2 = Ticks * a2
      BY <1>5, <3>0, <3>1
    <3>3. u = a1 + a2
      BY <1>5, <3>0, <3>1, SumOfSeconds
    <3>4. x1 + x2 = Ticks * u
      BY <1>5, <3>2, <3>3
    <3>5. u \in Nat /\ u > 0
      <4>1. a1 # 0
        BY <1>5, <3>1, <3>2
      <4> QED
        BY <3>2, <3>3, <4>1
    <3> QED
      BY <3>2, <3>3, <3>4, <3>5 DEF x1, x2
  <2>3. Lacks(r1, n1, u, e) /\ Lacks(r2, n2, u, e)
    <3>1. back + e = Ticks * u
      <4> HIDE DEF u
      <4>1. x1 \in Nat /\ x2 \in Nat /\ back = x1 - e + x2 /\ x1 + x2 = Ticks * u
        BY <1>2, <2>1, <2>2
      <4> HIDE DEF x1, x2
      <4>2. back + e = x1 + x2
        BY <2>1, <4>1
      <4> QED
        BY <4>1, <4>2
    <3>2. /\ s1 = Resized(r1, l1) /\ l1 = ((r1.len \div Ticks) * back) \div u
          /\ s2 = Resized(r2, l2) /\ l2 = ((r2.len \div Ticks) * back) \div u
      BY DEF Share
    <3>3. /\ n1 = IF MinGreen(s1) < VertMin THEN Raised(s1).len ELSE r1.len
          /\ n2 = IF MinGreen(s2) < VertMin THEN Raised(s2).len ELSE r2.len
      OBVIOUS
    <3> HIDE DEF u, n1, n2, s1, s2, l1, l2, r1, r2
    <3>0. u \in Nat /\ u > 0 /\ e \in Nat /\ back \in Nat
      BY <1>5, <2>1, <2>2
    <3>a. /\ r1 \in Sequence /\ r1.signals # <<>> /\ r1.len \in Nat /\ Whole(r1.len)
          /\ MinGreen(r1) >= VertMin
      BY <1>2, <1>3
    <3>b. /\ r2 \in Sequence /\ r2.signals # <<>> /\ r2.len \in Nat /\ Whole(r2.len)
          /\ MinGreen(r2) >= VertMin
      BY <1>2, <1>3
    <3>4. Lacks(r1, n1, u, e)
      BY <3>0, <3>a, <3>1, <3>2, <3>3, RaisedLacks
    <3>5. Lacks(r2, n2, u, e)
      BY <3>0, <3>b, <3>1, <3>2, <3>3, RaisedLacks
    <3> QED
      BY <3>4, <3>5
  <2>4. PICK p1 \in Nat : n1 = r1.len - p1 /\ u * p1 <= a1 * e
    BY <2>3 DEF Lacks
  <2>5. PICK p2 \in Nat : n2 = r2.len - p2 /\ u * p2 <= a2 * e
    BY <2>3 DEF Lacks
  <2>6. p1 + p2 <= e
    <3> HIDE DEF u, a1, a2, n1, n2
    <3> QED
      BY <2>1, <2>2, <2>4, <2>5, LacksTogether
  <2>7. usual3 \in Nat /\ usual3 >= Ticks /\ back3 \in Nat /\ back3 >= usual3
    <3>1. /\ x1 \in Nat /\ x2 \in Nat /\ x3 \in Nat /\ x2 >= Ticks /\ e \in Nat /\ e < x1
          /\ usual3 = x1 - e + x2 + x3 /\ back3 = x3 + n1 + n2
          /\ n1 = x1 - p1 /\ n2 = x2 - p2
      BY <1>2, <2>1, <2>4, <2>5 DEF e
    <3> HIDE DEF x1, x2, x3, n1, n2, usual3, back3
    <3>2. usual3 \in Nat /\ usual3 >= Ticks
      BY <1>5, <3>1
    <3>3. back3 = x3 + (x1 - p1) + (x2 - p2)
      BY <3>1
    <3>4. back3 >= usual3 /\ back3 \in Int
      BY <2>6, <3>1, <3>3
    <3> QED
      BY <3>2, <3>4
  <2> HIDE DEF usual3, back3
  <2>8. /\ m1 \in Nat /\ m2 \in Nat /\ m3 \in Nat
        /\ m1 >= r1.len /\ m2 >= r2.len /\ m3 >= r3.len
    <3> HIDE DEF r1, r2, r3
    <3> QED
      BY <1>2, <2>7, LongerShare
  <2> HIDE DEF m1, m2, m3
  <2>9. ASSUME NEW s \in Sequence, s.signals # <<>>, NEW r, r.len \in Nat,
               NEW m \in Nat, m >= r.len
        PROVE  MinGreen(Third(s, r, m)) >= VertMin
    <3> DEFINE v == Raised(s)
               w == [v EXCEPT !.len = r.len]
    <3>1. v \in Sequence /\ v.signals # <<>> /\ MinGreen(v) >= VertMin
      BY <2>9, RaisedLike, RaisedGreens DEF Like
    <3> HIDE DEF v
    <3>2. w \in Sequence /\ w.signals # <<>> /\ w.len = r.len
      BY <2>9, <3>1, Lengthened DEF Like
    <3>3. MinGreen(w) = MinGreen(v)
      <4>1. w.signals = v.signals
        BY <3>1 DEF Sequence
      <4> HIDE DEF w
      <4> QED
        BY <4>1 DEF MinGreen
    <3>4. Third(s, r, m) = Resized(w, m)
      BY DEF ResizedFrom, v
    <3> HIDE DEF w, Third
    <3>5. MinGreen(Resized(w, m)) = MinGreen(w) + m - w.len
      <4>1. m \in Int
        BY <2>9
      <4> QED
        BY <3>2, <4>1, ResizedGreens
    <3> DEFINE g == MinGreen(w)
               n == r.len
    <3>6. g \in Int /\ n \in Nat /\ g >= VertMin /\ m >= n /\ MinGreen(Third(s, r, m)) = g + m - n
      BY <2>9, <3>1, <3>2, <3>3, <3>4, <3>5, Minima
    <3> HIDE DEF g, n
    <3> QED
      BY <1>5, <2>9, <3>6
  <2> DEFINE t1 == Third(s1, r1, m1)
             t2 == Third(s2, r2, m2)
             t3 == Resized(r3, m3)
  <2>10. /\ s1 \in Sequence /\ s1.signals # <<>>
         /\ s2 \in Sequence /\ s2.signals # <<>>
    <3> HIDE DEF l1, l2, r1, r2
    <3>1. l1 \in Int /\ l2 \in Int
      BY <1>7
    <3>2. Like(s1, r1) /\ Like(s2, r2)
      BY <1>2, <3>1, ResizedLike
    <3> HIDE DEF s1, s2
    <3> QED
      BY <3>2 DEF Like
  <2>11. MinGreen(t1) >= VertMin /\ MinGreen(t2) >= VertMin
    <3> HIDE DEF s1, s2, r1, r2, Third
    <3> QED
      BY <1>2, <2>8, <2>9, <2>10
  <2>12. MinGreen(t3) >= VertMin
    <3> DEFINE g == MinGreen(r3)
    <3>1. MinGreen(t3) = g + m3 - r3.len
      <4>1. m3 \in Int
        BY <2>8
      <4> HIDE DEF r3
      <4> QED
        BY <1>2, <4>1, ResizedGreens
    <3>2. g \in Int /\ g >= VertMin /\ x3 \in Nat /\ m3 >= x3
      BY <1>2, <1>3, <2>8, Minima
    <3>3. MinGreen(t3) = g + m3 - x3
      BY <3>1
    <3> HIDE DEF g, x3, t3
    <3> QED
      BY <1>5, <2>8, <3>2, <3>3
  <2>13. ReturnPlan(c, t).seqs = <<t1, t2, t3>>
    <3>1. three = <<t1, t2, t3>>
      OBVIOUS
    <3> HIDE DEF tooShort, three, t1, t2, t3
    <3> QED
      BY <1>4, <1>9, <3>1 DEF PlanOf
  <2> HIDE DEF t1, t2, t3
  <2>14. \A x \in DOMAIN <<t1, t2, t3>> : MinGreen(<<t1, t2, t3>>[x]) >= VertMin
    BY <2>11, <2>12
  <2> QED
    BY <2>13, <2>14 DEF KeepsGreens
<1> HIDE DEF tooShort
<1> QED
  BY <1>8, <1>9

--------------------------------------------------------------------------------
(* What a return plan keeps until its end *)

\* A return plan of two sequences ends where the second of them ends in the cycle.
EndsInPhase(c) ==
    Len(c.ex.seqs) = 2 =>
        /\ Whole(c.fin) /\ BaseAt(c.fin).elapsed = 0
        /\ BaseAt(c.fin).index = NextSequence(c.ret2)

\* What is known of the return plan, according to the cycle.
ReturnsWell(c) ==
    c.mode = "Q" =>
        /\ ExactTicks => EndsInPhase(c)
        /\ LongGreens => KeepsGreens(c.ex)

\* An operation that makes no return plan, and keeps or drops the one there is.
LEMMA StillReturnsWell ==
    ASSUME NEW c, ReturnsWell(c), NEW d,
           d.mode = "Q" => /\ c.mode = "Q" /\ d.fin = c.fin /\ d.ret2 = c.ret2
                           /\ d.ex.seqs = c.ex.seqs \/ d.ex = NoPlan
    PROVE  ReturnsWell(d)
<1> SUFFICES ASSUME d.mode = "Q"
             PROVE  /\ ExactTicks => EndsInPhase(d)
                    /\ LongGreens => KeepsGreens(d.ex)
  BY DEF ReturnsWell
<1>1. CASE d.ex = NoPlan
  <2>1. d.ex.seqs = <<>>
    BY <1>1 DEF NoPlan
  <2>2. Len(d.ex.seqs) # 2 /\ DOMAIN d.ex.seqs = {}
    BY <2>1
  <2> QED
    BY <2>2 DEF EndsInPhase, KeepsGreens
<1>2. CASE d.ex.seqs = c.ex.seqs
  <2>1. c.mode = "Q" /\ d.fin = c.fin /\ d.ret2 = c.ret2
    OBVIOUS
  <2>2. (ExactTicks => EndsInPhase(c)) /\ (LongGreens => KeepsGreens(c.ex))
    BY <2>1 DEF ReturnsWell
  <2> QED
    BY <1>2, <2>1, <2>2, Zenon DEF EndsInPhase, KeepsGreens
<1> QED
  BY <1>1, <1>2

\* A detection puts an end to the return.
LEMMA DetectReturnsWell ==
    ASSUME NEW c, Good(c), NEW b \in Buses, NEW t \in Nat, NEW est \in Nat
    PROVE  ReturnsWell(Detect(c, b, t, est))
<1> DEFINE d == Detect(c, b, t, est)
<1>1. c \in Controllers
  BY DEF Good
<1>2. d.mode # "Q"
  <2>1. CASE c.vgps = {}
    <3>1. d = DetectFirst(c, b, t, est)
      BY <2>1 DEF Detect
    <3>2. DetectFirst(c, b, t, est).mode = "O"
      BY <1>1 DEF DetectFirst, Controllers
    <3> QED
      BY <3>1, <3>2
  <2>2. CASE c.vgps # {}
    <3>1. d = DetectFurther(c, b)
      BY <2>2 DEF Detect
    <3>2. DetectFurther(c, b).mode = c.mode
      BY <1>1 DEF DetectFurther, Controllers
    <3>3. c.mode # "Q"
      BY <2>2 DEF Good, Served
    <3> QED
      BY <3>1, <3>2, <3>3
  <2> QED
    BY <2>1, <2>2
<1> HIDE DEF d
<1>3. ReturnsWell(d)
  BY <1>2 DEF ReturnsWell
<1> QED
  BY <1>3 DEF d

\* The other operations: a reading, the entry of a bus, the end of the return plan.
LEMMA OthersReturnsWell ==
    ASSUME NEW c, Good(c), ReturnsWell(c), NEW t
    PROVE  /\ ReturnsWell(AfterReading(c, t))
           /\ \A entering : ReturnsWell(PrePriority(c, entering))
           /\ ReturnsWell(PostPriority(c, t))
<1>1. c \in Controllers
  BY DEF Good
<1>2. ReturnsWell(AfterReading(c, t))
  <2> DEFINE d == AfterReading(c, t)
             dropped == [c EXCEPT !.ex = NoPlan, !.shared = FALSE]
  <2>1. d = c \/ d = dropped
    BY DEF AfterReading
  <2>2. /\ dropped.mode = c.mode /\ dropped.fin = c.fin /\ dropped.ret2 = c.ret2
        /\ dropped.ex = NoPlan
    BY <1>1 DEF Controllers
  <2> HIDE DEF d, dropped
  <2>3. ReturnsWell(d)
    BY <2>1, <2>2, StillReturnsWell
  <2> QED
    BY <2>3 DEF d
<1>3. ASSUME NEW entering PROVE ReturnsWell(PrePriority(c, entering))
  <2> DEFINE d == PrePriority(c, entering)
  <2>1. d = c \/ d = [c EXCEPT !.mode = "P"]
    BY DEF PrePriority
  <2>2. d = c \/ d.mode = "P"
    BY <1>1, <2>1 DEF Controllers
  <2> HIDE DEF d
  <2>3. ReturnsWell(d)
    BY <2>2, StillReturnsWell
  <2> QED
    BY <2>3 DEF d
<1>4. ReturnsWell(PostPriority(c, t))
  <2> DEFINE d == PostPriority(c, t)
             ended == [c EXCEPT !.mode = "N", !.ex = NoPlan, !.shared = FALSE, !.fin = 0,
                                !.vgps = {}]
  <2>1. d = c \/ d = ended
    BY DEF PostPriority
  <2>2. ended.mode = "N"
    BY <1>1 DEF Controllers
  <2> HIDE DEF d, ended
  <2>3. ReturnsWell(d)
    BY <2>1, <2>2, StillReturnsWell
  <2> QED
    BY <2>3 DEF d
<1> QED
  BY <1>2, <1>3, <1>4

\* The last exit starts a return plan.
LEMMA PriorityReturnsWell ==
    ASSUME NEW c, Good(c), ReturnsWell(c), NEW t \in Nat, Whole(t), NEW leaving
    PROVE  ReturnsWell(Priority(c, t, leaving))
<1> DEFINE d == Priority(c, t, leaving)
           left == c.vgps \ leaving
           plan == ReturnPlan(c, t)
<1>1. c \in Controllers /\ DOMAIN Plan = 1 .. Len(Plan)
  BY Constants DEF Good
<1>2. CASE c.mode # "P"
  BY <1>2 DEF Priority
<1>3. CASE c.mode = "P" /\ left # {}
  <2>1. d = [c EXCEPT !.vgps = left]
    BY <1>3 DEF Priority
  <2>2. d.mode = "P"
    BY <1>1, <1>3, <2>1 DEF Controllers
  <2> HIDE DEF d
  <2>3. ReturnsWell(d)
    BY <2>2 DEF ReturnsWell
  <2> QED
    BY <2>3 DEF d
<1>4. CASE c.mode = "P" /\ left = {}
  <2> DEFINE fin == t + plan.cycle
  <2>1. d = [c EXCEPT !.mode = "Q", !.vgps = {}, !.ex = plan, !.shared = FALSE,
                      !.deb = t, !.fin = t + plan.cycle]
    BY <1>4 DEF Priority
  <2>2. c.ret1 \in 1 .. Len(Plan) /\ c.ret2 = NextSequence(c.ret1)
    BY <1>1, <1>4 DEF Good, Served, Controllers
  <2>3. ExactTicks /\ Len(plan.seqs) = 2 =>
           /\ Whole(fin) /\ BaseAt(fin).elapsed = 0
           /\ BaseAt(fin).index = NextSequence(c.ret2)
    BY <2>2, ReturnPlanInPhase, Zenon
  <2>4. LongGreens => KeepsGreens(plan)
    BY <2>2, ReturnPlanKeepsGreens, Zenon
  <2> HIDE DEF plan
  <2>5. d.ex = plan /\ d.fin = fin /\ d.ret2 = c.ret2
    BY <1>1, <2>1 DEF Controllers
  <2> HIDE DEF d, fin
  <2>6. ExactTicks => EndsInPhase(d)
    <3> SUFFICES ASSUME ExactTicks, Len(d.ex.seqs) = 2
                 PROVE  /\ Whole(d.fin) /\ BaseAt(d.fin).elapsed = 0
                        /\ BaseAt(d.fin).index = NextSequence(d.ret2)
      BY DEF EndsInPhase
    <3>1. Len(plan.seqs) = 2
      BY <2>5
    <3> QED
      BY <2>3, <2>5, <3>1, Zenon
  <2>7. ReturnsWell(d)
    BY <2>4, <2>5, <2>6 DEF ReturnsWell
  <2> QED
    BY <2>7 DEF d
<1> QED
  BY <1>2, <1>3, <1>4

\* The strengthening of the invariant: the same is known of the snapshot, with which a return
\* plan may be shared.
ReturnInv ==
    /\ IInv
    /\ ReturnsWell(cdf)
    /\ snap # NoSnapshot => ReturnsWell(snap.cdf)

\* What the controller becomes from c while the buses are detected, one after the other.
Returning == {d \in Controllers : Good(d) /\ ReturnsWell(d)}

\* Update, from the detections to the end of the return.
LEMMA UpdateReturnsWell ==
    ASSUME NEW c, Good(c), ReturnsWell(c), NEW t \in Nat, Whole(t),
           NEW detected \in Seq(Buses), NEW est \in Nat, NEW entering, NEW leaving
    PROVE  ReturnsWell(Update(c, t, detected, est, entering, leaving))
<1> DEFINE V == Returning
<1>1. c \in V
  BY DEF Returning, Good
<1>2. \A d \in V, b \in Buses : Detect(d, b, t, est) \in V
  <2> TAKE d \in V, b \in Buses
  <2> DEFINE e == Detect(d, b, t, est)
  <2>1. Good(d)
    BY DEF Returning
  <2>2. Good(e) /\ ReturnsWell(e)
    BY <2>1, DetectOK, DetectReturnsWell
  <2> HIDE DEF e
  <2>3. e \in V
    BY <2>2 DEF Returning, Good
  <2> QED
    BY <2>3 DEF e
<1> HIDE DEF V
<1>3. PICK c0 \in V : Update(c, t, detected, est, entering, leaving)
                         = PostPriority(Priority(PrePriority(c0, entering), t, leaving), t)
  BY <1>1, <1>2, AllDetected
<1> DEFINE c1 == PrePriority(c0, entering)
           c2 == Priority(c1, t, leaving)
           c3 == PostPriority(c2, t)
<1>4. Good(c0) /\ ReturnsWell(c0)
  BY DEF V, Returning
<1>5. Good(c1) /\ ReturnsWell(c1)
  BY <1>4, PrePriorityOK, OthersReturnsWell
<1> HIDE DEF c1
<1>6. Good(c2) /\ ReturnsWell(c2)
  BY <1>5, PriorityOK, PriorityReturnsWell
<1> HIDE DEF c2
<1>7. ReturnsWell(c3)
  BY <1>6, OthersReturnsWell
<1> HIDE DEF c3
<1>8. Update(c, t, detected, est, entering, leaving) = c3
  BY <1>3 DEF c1, c2, c3
<1> QED
  BY <1>7, <1>8

\* The initial state.
LEMMA InitReturnsWell ==
    Init => ReturnInv
<1> SUFFICES ASSUME Init PROVE ReturnInv
  OBVIOUS
<1>1. cdf.mode = "N" /\ snap = NoSnapshot
  BY DEF Init
<1> QED
  BY <1>1, InitOK DEF ReturnInv, ReturnsWell

\* A step of the simulation.
LEMMA StepReturnsWell ==
    ASSUME ReturnInv, Step
    PROVE  ReturnInv'
<1> DEFINE t == instant'
           c == AfterReading(cdf, t)
           detected == SetToSeq(Moved({"upstream"}, {"approach"}))
           entering == Moved({"approach"}, {"zone"})
           leaving == Moved({"zone"}, {"out"}) \cup {b \in Buses : place'[b] = "gone"}
           old == snap.cdf
           new == [old EXCEPT !.ex = cdf'.ex]
<1>1. IInv /\ ReturnsWell(cdf) /\ (snap # NoSnapshot => ReturnsWell(old))
  BY DEF ReturnInv
<1>2. IInv'
  BY <1>1, StepOK
<1>3. t \in Nat /\ t < Endless /\ Whole(t)
  <2>1. instant' \in 0..LastInstant /\ Whole(instant')
    BY <1>2 DEF IInv
  <2> QED
    BY <2>1, Constants
<1>4. PICK est \in Estimates : cdf' = Update(c, t, detected, est, entering, leaving)
  BY DEF Step
<1>5. Good(cdf) /\ Good(cdf')
  <2>1. Good(cdf)
    BY <1>1 DEF IInv, Standing
  <2>2. Good(c) /\ t \in Int
    BY <1>3, <2>1, ReadingOK
  <2>3. detected \in Seq(Buses) /\ est \in Nat
    BY Detected, Constants DEF Moved
  <2> HIDE DEF c, t, detected, entering, leaving
  <2> QED
    BY <1>3, <1>4, <2>1, <2>2, <2>3, UpdateOK
<1>6. Good(c) /\ Keeps(cdf, c) /\ ReturnsWell(c)
  BY <1>1, <1>3, <1>5, ReadingOK, OthersReturnsWell
<1>7. detected \in Seq(Buses)
  <2>1. Moved({"upstream"}, {"approach"}) \subseteq Buses
    BY DEF Moved
  <2> QED
    BY <2>1, Detected
<1>8. est \in Nat
  BY Constants
<1> HIDE DEF c, t, detected, entering, leaving
<1>9. ReturnsWell(cdf') /\ Keeps(cdf, cdf')
  <2> DEFINE d == Update(c, t, detected, est, entering, leaving)
  <2>1. ReturnsWell(d) /\ Keeps(c, d)
    BY <1>3, <1>6, <1>7, <1>8, UpdateReturnsWell, UpdateOK
  <2>2. cdf' = d
    BY <1>4
  <2> HIDE DEF d
  <2>3. Keeps(cdf, d)
    BY <1>6, <2>1, KeepsTransitive
  <2> QED
    BY <2>1, <2>2, <2>3
<1>10. ReturnsWell(cdf)'
  BY <1>9 DEF ReturnsWell
<1>11. snap' = SharedPlan
  BY DEF Step
<1>12. CASE ~(cdf'.shared /\ snap # NoSnapshot)
  <2>1. snap' = snap
    BY <1>11, <1>12 DEF SharedPlan
  <2>2. (snap # NoSnapshot => ReturnsWell(snap.cdf))'
    BY <1>1, <2>1 DEF ReturnsWell, NoSnapshot
  <2> QED
    BY <1>2, <1>10, <2>2 DEF ReturnInv
<1>13. CASE cdf'.shared /\ snap # NoSnapshot
  <2>1. snap' = [snap EXCEPT !.cdf.ex = cdf'.ex]
    BY <1>11, <1>13 DEF SharedPlan
  <2>2. snap \in Snapshots /\ old \in Controllers
    BY <1>1, <1>13 DEF IInv, SnapshotOK, Standing, Good
  <2>3. snap'.cdf = new
    BY <2>1, <2>2 DEF Snapshots
  <2>4. /\ new.ex = cdf'.ex /\ new.fin = old.fin /\ new.ret2 = old.ret2
        /\ new.mode = old.mode
    BY <2>2 DEF Controllers
  <2> HIDE DEF new
  <2>5. new.mode = "Q" => new.ex = old.ex
    <3> SUFFICES ASSUME old.mode = "Q" PROVE cdf'.ex = old.ex
      BY <2>4
    <3>1. /\ cdf.shared
          /\ \/ Served(cdf) /\ Served(cdf')
             \/ cdf'.ex = cdf.ex /\ cdf.mode = "Q"
      BY <1>9, <1>13 DEF Keeps, Served
    <3>2. \/ Served(cdf) /\ Served(old)
          \/ cdf.mode = "Q" /\ cdf.ex = old.ex
      BY <1>1, <3>1 DEF IInv, Linked, Served
    <3> QED
      BY <3>1, <3>2 DEF Served
  <2>6. ReturnsWell(new)
    BY <1>1, <1>13, <2>4, <2>5, StillReturnsWell
  <2>7. ReturnsWell(snap'.cdf)
    BY <2>3, <2>6
  <2>8. ReturnsWell(snap.cdf)'
    BY <2>7 DEF ReturnsWell
  <2> QED
    BY <1>2, <1>10, <2>8 DEF ReturnInv
<1> QED
  BY <1>12, <1>13

\* A reading of the lights at a later time.
LEMMA ReadAheadReturnsWell ==
    ASSUME ReturnInv, ReadAhead
    PROVE  ReturnInv'
<1>1. PICK t \in {cdf.fin + Ticks} \cap (instant..LastInstant) : cdf' = AfterReading(cdf, t)
  BY DEF ReadAhead
<1>2. snap' = snap
  BY DEF ReadAhead
<1>3. IInv /\ ReturnsWell(cdf) /\ Good(cdf)
  BY DEF ReturnInv, IInv, Standing
<1>4. IInv'
  BY <1>3, ReadAheadOK
<1>5. ReturnsWell(cdf')
  BY <1>1, <1>3, OthersReturnsWell
<1>6. ReturnsWell(cdf)'
  BY <1>5 DEF ReturnsWell
<1>7. (snap # NoSnapshot => ReturnsWell(snap.cdf))'
  BY <1>2 DEF ReturnInv, ReturnsWell, NoSnapshot
<1> QED
  BY <1>4, <1>6, <1>7 DEF ReturnInv

\* The snapshot is taken: its plan is a copy.
LEMMA TakeSnapshotReturnsWell ==
    ASSUME ReturnInv, TakeSnapshot
    PROVE  ReturnInv'
<1> DEFINE c == [cdf EXCEPT !.ex = PlanOf(@.seqs), !.shared = FALSE]
           d == [cdf EXCEPT !.shared = FALSE]
           s == [instant |-> instant, place |-> place, cdf |-> c]
<1>1. snap' = s /\ cdf' = d
  BY DEF TakeSnapshot
<1>2. IInv /\ ReturnsWell(cdf) /\ cdf \in Controllers
  BY DEF ReturnInv, IInv, Standing, Good
<1>3. IInv'
  BY <1>2, TakeSnapshotOK
<1>4. /\ c.mode = cdf.mode /\ c.fin = cdf.fin /\ c.ret2 = cdf.ret2
      /\ c.ex.seqs = cdf.ex.seqs
  BY <1>2 DEF Controllers, PlanOf
<1>5. /\ d.mode = cdf.mode /\ d.fin = cdf.fin /\ d.ret2 = cdf.ret2
      /\ d.ex = cdf.ex
  BY <1>2 DEF Controllers
<1> HIDE DEF c, d
<1>6. ReturnsWell(c) /\ ReturnsWell(d)
  BY <1>2, <1>4, <1>5, StillReturnsWell
<1>7. ReturnsWell(cdf') /\ ReturnsWell(snap'.cdf)
  BY <1>1, <1>6
<1>8. ReturnsWell(cdf)' /\ ReturnsWell(snap.cdf)'
  BY <1>7 DEF ReturnsWell
<1> QED
  BY <1>3, <1>8 DEF ReturnInv

\* The network is put back at the snapshot, with the plan of the snapshot.
LEMMA RestoreReturnsWell ==
    ASSUME ReturnInv, Restore
    PROVE  ReturnInv'
<1> DEFINE c == snap.cdf
           at == snap.place
           d == [c EXCEPT !.vgps = {b \in @ : at[b] # "gone"}, !.shared = (@ \/ c.ex # NoPlan)]
<1>1. snap # NoSnapshot /\ cdf' = d /\ snap' = snap
  BY DEF Restore
<1>2. IInv /\ ReturnsWell(c) /\ c \in Controllers
  BY <1>1 DEF ReturnInv, IInv, SnapshotOK, Standing, Good
<1>3. IInv'
  BY <1>2, RestoreOK
<1> HIDE DEF c, at
<1>4. d.mode = c.mode /\ d.fin = c.fin /\ d.ret2 = c.ret2 /\ d.ex = c.ex
  BY <1>2 DEF Controllers
<1> HIDE DEF d
<1>5. ReturnsWell(cdf')
  BY <1>1, <1>2, <1>4, StillReturnsWell
<1>6. ReturnsWell(cdf)'
  BY <1>5 DEF ReturnsWell
<1>7. (snap # NoSnapshot => ReturnsWell(snap.cdf))'
  BY <1>1, <1>2 DEF ReturnsWell, NoSnapshot, c
<1> QED
  BY <1>3, <1>6, <1>7 DEF ReturnInv

\* The strengthened invariant: what a return plan is when it is made, it stays when it is
\* read, copied by a snapshot or put back by a restore.
THEOREM ReturnInvariance ==
    Spec => []ReturnInv
<1>1. ReturnInv /\ [Next]_vars => ReturnInv'
  <2> SUFFICES ASSUME ReturnInv, [Next]_vars PROVE ReturnInv'
    OBVIOUS
  <2>1. CASE Step
    BY <2>1, StepReturnsWell
  <2>2. CASE ReadAhead
    BY <2>2, ReadAheadReturnsWell
  <2>3. CASE TakeSnapshot
    BY <2>3, TakeSnapshotReturnsWell
  <2>4. CASE Restore
    BY <2>4, RestoreReturnsWell
  <2>5. CASE UNCHANGED vars
    <3>1. IInv'
      BY <2>5 DEF vars, ReturnInv, IInv, Standing, SnapshotOK, Linked, SomeBus, Served
    <3>2. ReturnsWell(cdf)' /\ (snap # NoSnapshot => ReturnsWell(snap.cdf))'
      BY <2>5 DEF vars, ReturnInv, ReturnsWell, NoSnapshot
    <3> QED
      BY <3>1, <3>2 DEF ReturnInv
  <2> QED
    BY <2>1, <2>2, <2>3, <2>4, <2>5 DEF Next
<1> QED
  BY <1>1, InitReturnsWell, PTL DEF Spec

\* For every cycle of which the ticks are exact, a return plan of two sequences brings the
\* controller back in phase with the cycle, whatever detections, snapshots and restores
\* came before.
THEOREM ReturnsInPhase ==
    ASSUME ExactTicks
    PROVE  Spec => []ReturnInPhase
<1>1. ReturnInv => ReturnInPhase
  BY DEF ReturnInv, ReturnsWell, EndsInPhase, ReturnInPhase
<1> QED
  BY <1>1, ReturnInvariance, PTL

\* For every cycle of which the greens last the minimum, the greens of a return plan do too,
\* however little time is left to be back in phase and whatever came before.
THEOREM ReturnsKeepGreens ==
    ASSUME LongGreens
    PROVE  Spec => []ReturnKeepsMinGreen
<1>1. ReturnInv => ReturnKeepsMinGreen
  BY DEF ReturnInv, ReturnsWell, KeepsGreens, ReturnKeepsMinGreen
<1> QED
  BY <1>1, ReturnInvariance, PTL

--------------------------------------------------------------------------------
(* The next green announced in the cycle *)

\* Every signal of the cycle is green as soon as its sequence begins.
NoDelays ==
    \A i \in DOMAIN Plan : \A j \in DOMAIN Plan[i].signals :
        Plan[i].signals[j].delay = 0 /\ Plan[i].signals[j].green > 0

\* The end of the simulation, which stands for no green, is two cycles after the last
\* instant: no green that is looked for is beyond it.
FarEnd == LastInstant + 2 * TotalLength(Plan) < Duration

\* The sequences are numbered on over the end of the cycle: the sequence of a number up
\* to twice their count, and its end from the start of the cycle that is m-th from 0.
Numbered(j) == IF j <= Len(Plan) THEN j ELSE j - Len(Plan)
EndOfNumber(m, j) ==
    IF j <= Len(Plan) THEN m * TotalLength(Plan) + EndOf(Plan)[j]
    ELSE (m + 1) * TotalLength(Plan) + EndOf(Plan)[j - Len(Plan)]

\* A sequence lasts until its end.
LEMMA SequenceLasts ==
    ASSUME NEW t \in Nat, Whole(t), NEW s \in Nat, Whole(s), t <= s,
           s < t + BaseAt(t).seq.len - BaseAt(t).elapsed
    PROVE  /\ BaseAt(s).index = BaseAt(t).index
           /\ BaseAt(s).elapsed = BaseAt(t).elapsed + (s - t)
<1> DEFINE n == Len(Plan)
           e == EndOf(Plan)
           c == TotalLength(Plan)
           i == BaseAt(t).index
           j == BaseAt(s).index
<1>1. PICK m \in Nat, x \in Nat : x < c /\ Whole(x) /\ t = m * c + x
  BY InACycle
<1>2. /\ i \in 1 .. n /\ BaseAt(t).seq = Plan[i] /\ BaseAt(t).elapsed = x - e[i - 1]
      /\ e[i] > x /\ \A l \in 1 .. (i - 1) : e[l] <= x
  BY <1>1, BaseAtPlace
<1>3. /\ n \in Nat /\ c = e[n] /\ \A a \in 0 .. n : e[a] \in Nat
      /\ \A a, b \in 0 .. n : a < b => e[a] < e[b]
  BY Constants, CycleEnds DEF TotalLength
<1>4. e[i] = e[i - 1] + Plan[i].len /\ Plan[i].len \in Nat
  BY <1>2, CycleLength, Constants
<1> DEFINE y == x + (s - t)
<1>5. y \in Nat /\ Whole(y) /\ x <= y
  <2> DEFINE z == s - t
  <2>1. z \in Nat /\ Whole(z)
    BY WholeDifference
  <2> HIDE DEF z
  <2>2. x + z \in Nat /\ Whole(x + z) /\ x <= x + z
    BY <1>1, <2>1, WholeSum
  <2> QED
    BY <2>2 DEF z
<1>6. y < e[i] /\ e[i] <= c /\ c \in Nat
  <2>1. i \in 0 .. n /\ i - 1 \in 0 .. n /\ n \in 0 .. n /\ i <= n
    BY <1>2, <1>3
  <2>2. e[i] \in Nat /\ e[i - 1] \in Nat /\ c \in Nat
    BY <1>3, <2>1
  <2>3. e[i] <= c
    <3>1. CASE i = n
      BY <1>3, <2>2, <3>1
    <3>2. CASE i < n
      <4>1. e[i] < e[n]
        <5> HIDE DEF i, e, n
        <5> QED
          BY <1>3, <2>1, <3>2
      <4> QED
        BY <1>3, <2>2, <4>1
    <3> QED
      BY <2>1, <3>1, <3>2
  <2>4. s < t + Plan[i].len - (x - e[i - 1])
    BY <1>2
  <2> HIDE DEF i, e, c, n
  <2> QED
    BY <1>1, <1>4, <2>2, <2>3, <2>4
<1>7. s = m * c + y
  <2>1. m * c \in Nat
    BY <1>6
  <2> HIDE DEF c
  <2> QED
    BY <1>1, <2>1
<1>8. /\ j \in 1 .. n /\ BaseAt(s).elapsed = y - e[j - 1]
      /\ e[j] > y /\ \A l \in 1 .. (j - 1) : e[l] <= y
  <2>1. y < c
    <3> HIDE DEF y, c, e, i
    <3>1. e[i] \in Nat
      BY <1>2, <1>3
    <3> QED
      BY <1>5, <1>6, <3>1
  <2> HIDE DEF y
  <2> QED
    BY <1>5, <1>7, <2>1, BaseAtPlace
<1>9. i = j
  <2> HIDE DEF i, j, e, y, n, c
  <2>1. ~(i < j)
    <3> SUFFICES ASSUME i < j PROVE FALSE
      OBVIOUS
    <3>1. i \in 1 .. (j - 1) /\ i \in 0 .. n
      BY <1>2, <1>3, <1>8
    <3>2. e[i] <= y /\ e[i] \in Nat
      BY <1>3, <1>8, <3>1
    <3> QED
      BY <1>5, <1>6, <3>2
  <2>2. ~(j < i)
    <3> SUFFICES ASSUME j < i PROVE FALSE
      OBVIOUS
    <3>1. j \in 1 .. (i - 1) /\ j \in 0 .. n
      BY <1>2, <1>3, <1>8
    <3>2. e[j] <= x /\ e[j] \in Nat
      BY <1>2, <1>3, <3>1
    <3> QED
      BY <1>1, <1>5, <1>8, <3>2
  <2> QED
    BY <1>2, <1>8, <2>1, <2>2
<1>10. e[i - 1] \in Nat
  <2>1. i - 1 \in 0 .. n
    BY <1>2, <1>3
  <2> HIDE DEF i, e, n
  <2> QED
    BY <1>3, <2>1
<1>11. BaseAt(s).elapsed = (x + (s - t)) - e[i - 1]
  BY <1>8, <1>9
<1> HIDE DEF e, i, c
<1>12. (x + (s - t)) - e[i - 1] = (x - e[i - 1]) + (s - t)
  BY <1>1, <1>10
<1> QED
  BY <1>2, <1>9, <1>11, <1>12 DEF i, j

\* A numbered sequence begins where the one before ends, and lasts its length.
LEMMA NumberedEnds ==
    ASSUME NEW m \in Nat, NEW j \in Nat, 1 <= j, j < 2 * Len(Plan)
    PROVE  LET u == EndOfNumber(m, j)   next == Numbered(j + 1)
           IN  /\ next \in 1 .. Len(Plan) /\ Plan[next].len \in Nat /\ Plan[next].len > 0
               /\ u \in Nat /\ Whole(u)
               /\ BaseAt(u).elapsed = 0 /\ BaseAt(u).index = next
               /\ BaseAt(u).seq = Plan[next]
               /\ EndOfNumber(m, j + 1) = u + Plan[next].len
<1> DEFINE n == Len(Plan)
           e == EndOf(Plan)
           c == TotalLength(Plan)
           u == EndOfNumber(m, j)
           w == EndOfNumber(m, j + 1)
           i == Numbered(j)
           next == Numbered(j + 1)
           q == IF j <= n THEN m ELSE m + 1
<1>1. /\ n \in Nat /\ n > 0 /\ c = e[n] /\ e[0] = 0 /\ \A a \in 0 .. n : e[a] \in Nat /\ Whole(e[a])
      /\ \A a \in 1 .. n : Plan[a].len \in Nat /\ Plan[a].len > 0 /\ e[a] = e[a - 1] + Plan[a].len
  BY Constants, CycleEnds, CycleLength DEF TotalLength
<1>2. i \in 1 .. n /\ next \in 1 .. n /\ next = IF i < n THEN i + 1 ELSE 1
  BY <1>1 DEF Numbered
<1>3. q \in Nat /\ u = q * c + e[i]
  BY DEF Numbered, EndOfNumber
<1>4. c \in Nat /\ e[i] \in Nat /\ Whole(e[i])
  BY <1>1, <1>2
<1>5. u \in Nat /\ Whole(u)
  <2>1. PICK d \in Nat : d > 0 /\ c = Ticks * d /\ c \div Ticks = d
    BY CycleInSeconds
  <2>2. q * d \in Nat /\ q * c = Ticks * (q * d)
    <3> HIDE DEF q, c
    <3> QED
      BY <1>3, <2>1, Constants
  <2>3. q * c \in Nat /\ Whole(q * c)
    <3> DEFINE r == q * d
    <3>1. r \in Nat /\ q * c = Ticks * r
      BY <2>2
    <3> HIDE DEF r
    <3>2. Ticks * r \in Nat /\ Whole(Ticks * r)
      BY <3>1, WholeMultiple
    <3> QED
      BY <3>1, <3>2
  <2> HIDE DEF q, c, e, i
  <2>4. q * c + e[i] \in Nat /\ Whole(q * c + e[i])
    <3> DEFINE r == q * c
               z == e[i]
    <3>1. r \in Nat /\ Whole(r) /\ z \in Nat /\ Whole(z)
      BY <1>4, <2>3
    <3> HIDE DEF r, z
    <3>2. r + z \in Nat /\ Whole(r + z)
      BY <3>1, WholeSum
    <3> QED
      BY <3>2 DEF r, z
  <2> QED
    BY <1>3, <2>4
<1>6. BaseAt(u).elapsed = 0 /\ BaseAt(u).index = NextSequence(i)
  <2> HIDE DEF q, i, u
  <2> QED
    BY <1>2, <1>3, AtTheEnd
<1>7. NextSequence(i) = next
  <2>1. i \in Nat /\ i < n + n
    BY <1>1, <1>2
  <2>2. i % n = IF i < n THEN i ELSE i - n
    BY <1>1, <2>1, Wrap
  <2> HIDE DEF i, next
  <2> QED
    BY <1>1, <1>2, <2>2 DEF NextSequence
<1>8. BaseAt(u).seq = Plan[next]
  BY <1>5, <1>6, <1>7, BaseFacts
<1>9. w = u + Plan[next].len
  <2>1. CASE j < n
    <3>1. w = m * c + e[j + 1] /\ u = m * c + e[j] /\ next = j + 1 /\ j \in 0 .. n /\ j + 1 \in 1 .. n
      BY <1>1, <2>1 DEF EndOfNumber, Numbered
    <3>2. e[j + 1] = e[j] + Plan[j + 1].len /\ e[j] \in Nat /\ Plan[j + 1].len \in Nat /\ m * c \in Nat
      <4>1. (j + 1) - 1 = j
        OBVIOUS
      <4>2. m * c \in Nat
        BY <1>4
      <4> HIDE DEF e, n, c
      <4> QED
        BY <1>1, <3>1, <4>1, <4>2
    <3> HIDE DEF e, n, c, w, u, next
    <3> QED
      BY <3>1, <3>2
  <2>2. CASE j = n
    <3>1. w = (m + 1) * c + e[1] /\ u = m * c + e[n] /\ next = 1 /\ 1 \in 1 .. n
      <4>1. (n + 1) - n = 1
        BY <1>1
      <4> QED
        BY <1>1, <2>2, <4>1 DEF EndOfNumber, Numbered
    <3>2. e[1] = 0 + Plan[1].len /\ Plan[1].len \in Nat
      BY <1>1, <3>1
    <3> DEFINE r == m * c
    <3>3. (m + 1) * c = r + c /\ r \in Nat
      <4> HIDE DEF c
      <4> QED
        BY <1>4
    <3>4. u = r + c
      BY <1>1, <3>1
    <3>5. w = (r + c) + e[1]
      BY <3>1, <3>3
    <3> HIDE DEF e, n, c, w, u, next, r
    <3>6. w = u + Plan[1].len
      BY <3>2, <3>4, <3>5
    <3> QED
      BY <3>1, <3>6
  <2>3. CASE j > n
    <3> DEFINE l == j - n
    <3>1. /\ w = (m + 1) * c + e[l + 1] /\ u = (m + 1) * c + e[l] /\ next = l + 1
          /\ l \in 0 .. n /\ l + 1 \in 1 .. n
      <4>1. (j + 1) - n = l + 1
        BY <1>1
      <4> QED
        BY <1>1, <2>3, <4>1 DEF EndOfNumber, Numbered
    <3>2. e[l + 1] = e[l] + Plan[l + 1].len /\ e[l] \in Nat /\ Plan[l + 1].len \in Nat
          /\ (m + 1) * c \in Nat
      <4>1. (l + 1) - 1 = l
        BY <3>1
      <4>2. (m + 1) * c \in Nat
        BY <1>4
      <4> HIDE DEF e, n, c, l
      <4> QED
        BY <1>1, <3>1, <4>1, <4>2
    <3> HIDE DEF e, n, c, w, u, next, l
    <3> QED
      BY <3>1, <3>2
  <2> QED
    BY <1>1, <2>1, <2>2, <2>3
<1> QED
  BY <1>1, <1>2, <1>5, <1>6, <1>7, <1>8, <1>9

\* The movement has green in the cycle at t.
Lit(t, mv) ==
    /\ SignalsOf(BaseAt(t).seq, mv) # {}
    /\ BaseAt(t).elapsed < GetSignalActif(BaseAt(t).seq, mv).green

\* What the first signal of a movement is, and what it is without delays.
LEMMA FirstSignal ==
    ASSUME NEW i \in 1 .. Len(Plan), NEW mv, SignalsOf(Plan[i], mv) # {}
    PROVE  /\ GetSignalActif(Plan[i], mv) \in Signals
           /\ NoDelays => /\ GetSignalActif(Plan[i], mv).delay = 0
                          /\ GetSignalActif(Plan[i], mv).green > 0
<1> DEFINE s == Plan[i]
<1>1. s \in Sequence /\ i \in DOMAIN Plan /\ s.signals \in Seq(Signals)
  BY Constants, ElementOfSeq
<1>2. mv \in MovementsOf(s)
  BY DEF SignalsOf, MovementsOf
<1>3. PICK j \in DOMAIN s.signals : GetSignalActif(s, mv) = s.signals[j]
  <2> HIDE DEF s
  <2> QED
    BY <1>1, <1>2, ActiveSignal
<1>4. s.signals[j] \in Signals
  <2> HIDE DEF s
  <2> QED
    BY <1>1, <1>3, ElementOfSeq
<1> QED
  BY <1>1, <1>3, <1>4 DEF NoDelays

\* Without a plan of priority and without delays, the green of a movement is that of the
\* cycle, and a red one is not lit.
LEMMA ColourInCycle ==
    ASSUME NoDelays, NEW c, c.ex = NoPlan, NEW t \in Nat, NEW mv
    PROVE  /\ Colour(c, t, mv) = "green" <=> Lit(t, mv)
           /\ Colour(c, t, mv) = "red" => ~Lit(t, mv)
<1> DEFINE b == BaseAt(t)
           s == GetSignalActif(b.seq, mv)
<1>1. GetSequence(c, t) = b
  BY DEF GetSequence
<1>2. Colour(c, t, mv) = IF SignalsOf(b.seq, mv) = {} THEN "red" ELSE SignalColour(s, b.elapsed)
  BY <1>1 DEF Colour
<1>3. b.index \in 1 .. Len(Plan) /\ b.seq = Plan[b.index] /\ b.elapsed \in Nat
  BY BaseFacts
<1>4. CASE SignalsOf(b.seq, mv) # {}
  <2>1. s \in Signals /\ s.delay = 0
    <3> HIDE DEF b
    <3> QED
      BY <1>3, <1>4, FirstSignal
  <2>2. s.green \in Int
    BY <2>1 DEF Signals
  <2>3. /\ SignalColour(s, b.elapsed) = "green" <=> b.elapsed < s.green
        /\ SignalColour(s, b.elapsed) = "red" => ~(b.elapsed < s.green)
    <3> HIDE DEF s, b
    <3> QED
      BY <1>3, <2>1, <2>2 DEF SignalColour
  <2> HIDE DEF s
  <2> QED
    BY <1>2, <1>4, <2>3 DEF Lit, s
<1>5. CASE SignalsOf(b.seq, mv) = {}
  BY <1>2, <1>5 DEF Lit
<1> QED
  BY <1>4, <1>5

\* What a turn of the loop makes of v, when b is the sequence met, signals those of the
\* movement in it and start the time at which the first of them turns green.
Turned(w, v, ref, b, signals, start) ==
    /\ w = [at |-> w.at, green |-> w.green, elapsed |-> w.elapsed,
            seen |-> w.seen, abort |-> w.abort]
    /\ w.at = v.at + b.seq.len - b.elapsed /\ w.elapsed = b.elapsed
    /\ w.green = IF signals # {} /\ start > ref THEN start ELSE v.green
    /\ w.seen = IF signals = {} THEN v.seen \cup {b.index} ELSE v.seen
    /\ w.abort <=> signals = {} /\ b.index \in v.seen
    /\ w.abort \in BOOLEAN

LEMMA TurnParts ==
    ASSUME NEW v, NEW ref, NEW mv
    PROVE  LET b == BaseAt(v.at)
           IN  Turned(NextTurn(v, ref, mv), v, ref, b, SignalsOf(b.seq, mv),
                      GetSignalActif(b.seq, mv).delay + v.at)
<1> DEFINE b == BaseAt(v.at)
           w == NextTurn(v, ref, mv)
           signals == SignalsOf(b.seq, mv)
           start == GetSignalActif(b.seq, mv).delay + v.at
<1>1. w = [at |-> v.at + b.seq.len - b.elapsed,
           green |-> IF signals # {} /\ start > ref THEN start ELSE v.green,
           elapsed |-> b.elapsed,
           seen |-> IF signals = {} THEN v.seen \cup {b.index} ELSE v.seen,
           abort |-> signals = {} /\ b.index \in v.seen]
  BY DEF NextTurn, EndOfSequence
<1> HIDE DEF w, b, signals, start
<1> DEFINE x == v.at + b.seq.len - b.elapsed
           y == IF signals # {} /\ start > ref THEN start ELSE v.green
           z == IF signals = {} THEN v.seen \cup {b.index} ELSE v.seen
           a == signals = {} /\ b.index \in v.seen
<1>2. a \in BOOLEAN
  OBVIOUS
<1>3. w = [at |-> x, green |-> y, elapsed |-> b.elapsed, seen |-> z, abort |-> a]
  BY <1>1
<1> HIDE DEF x, y, z, a
<1>4. w.at = x /\ w.green = y /\ w.elapsed = b.elapsed /\ w.seen = z /\ w.abort = a
  BY <1>3
<1>5. w.abort \in BOOLEAN /\ (w.abort <=> a)
  BY <1>2, <1>4
<1>6. Turned(w, v, ref, b, signals, start)
  BY <1>3, <1>4, <1>5 DEF x, y, z, a, Turned
<1> QED
  BY <1>6 DEF w, b, signals, start

\* After turn k of the loop, which ends where the sequence of number i + k does, no green
\* has been met: i is the sequence at ref.
Searching(v, ref, mv, m, i, k) ==
    /\ v.at = EndOfNumber(m, i + k) /\ v.green = 0 /\ v.elapsed \in Nat /\ ~v.abort
    /\ v.seen \subseteq {Numbered(i + h) : h \in 0..k}
    /\ SignalsOf(Plan[i], mv) = {} => i \in v.seen
    /\ \A h \in 1..k : SignalsOf(Plan[Numbered(i + h)], mv) = {}
    /\ \A t \in Nat : ref <= t /\ t < v.at /\ Whole(t) => ~Lit(t, mv)

\* The loop has ended with the first green after ref.
GreenFound(v, ref, mv) ==
    /\ ~v.abort /\ v.at \in Nat /\ v.at < Duration /\ v.green < Duration
    /\ v.elapsed = 0 /\ v.green \in Nat /\ ref < v.green /\ Lit(v.green, mv)
    /\ \A t \in Nat : ref <= t /\ t < v.green /\ Whole(t) => ~Lit(t, mv)

\* The loop has ended because there is no green in the cycle.
NoGreen(v, mv) ==
    v.abort /\ \A i \in 1 .. Len(Plan) : SignalsOf(Plan[i], mv) = {}

FirstVisit(ref) == [at |-> ref, green |-> 0, elapsed |-> 0, seen |-> {}, abort |-> FALSE]

\* The first turn goes to the end of the sequence at ref.
LEMMA SearchBegins ==
    ASSUME NoDelays, NEW ref \in Nat, Whole(ref), ref > 0, NEW mv, ~Lit(ref, mv)
    PROVE  \E m \in Nat, i \in 1 .. Len(Plan) :
              /\ Searching(NextTurn(FirstVisit(ref), ref, mv), ref, mv, m, i, 0)
              /\ ref < EndOfNumber(m, i)
              /\ EndOfNumber(m, i + Len(Plan)) \in Nat
              /\ EndOfNumber(m, i + Len(Plan)) <= ref + 2 * TotalLength(Plan)
<1> DEFINE n == Len(Plan)
           e == EndOf(Plan)
           c == TotalLength(Plan)
           v == FirstVisit(ref)
           w == NextTurn(v, ref, mv)
           b == BaseAt(ref)
           i == b.index
<1>1. PICK m \in Nat, x \in Nat : x < c /\ Whole(x) /\ ref = m * c + x
  BY InACycle
<1>2. /\ i \in 1 .. n /\ b.seq = Plan[i] /\ b.elapsed = x - e[i - 1] /\ e[i] > x
  BY <1>1, BaseAtPlace
<1>3. /\ n \in Nat /\ n > 0 /\ c = e[n] /\ \A a \in 0 .. n : e[a] \in Nat
      /\ \A a, j \in 0 .. n : a < j => e[a] < e[j]
  BY Constants, CycleEnds DEF TotalLength
<1>4. e[i] = e[i - 1] + Plan[i].len /\ Plan[i].len \in Nat
  BY <1>2, CycleLength, Constants
<1>5. e[i] \in Nat /\ e[i - 1] \in Nat /\ c \in Nat /\ e[i] <= c
  <2>1. i \in 0 .. n /\ i - 1 \in 0 .. n /\ n \in 0 .. n /\ i <= n
    BY <1>2, <1>3
  <2>2. e[i] \in Nat /\ e[i - 1] \in Nat /\ c \in Nat
    BY <1>3, <2>1
  <2> HIDE DEF i, e, n, c
  <2>3. i < n => e[i] < e[n]
    BY <1>3, <2>1
  <2> QED
    BY <1>3, <2>1, <2>2, <2>3
<1>6. b.elapsed \in Nat /\ b.elapsed < b.seq.len
  BY BaseFacts
<1> DEFINE r == m * c
<1>7. r \in Nat /\ ref = r + x
  <2>1. r \in Nat
    BY <1>5
  <2> QED
    BY <1>1, <2>1
<1>8. v.at = ref /\ v.green = 0 /\ v.seen = {} /\ v.abort = FALSE
  BY DEF FirstVisit
<1>9. /\ w.at = ref + Plan[i].len - b.elapsed /\ w.elapsed = b.elapsed
      /\ w.seen = IF SignalsOf(Plan[i], mv) = {} THEN {i} ELSE {}
      /\ ~w.abort
      /\ w.green = IF SignalsOf(Plan[i], mv) # {}
                      /\ GetSignalActif(Plan[i], mv).delay + ref > ref
                   THEN GetSignalActif(Plan[i], mv).delay + ref ELSE 0
  <2> DEFINE start == GetSignalActif(b.seq, mv).delay + v.at
             signals == SignalsOf(b.seq, mv)
  <2>1. b = BaseAt(v.at)
    BY <1>8
  <2>2. Turned(w, v, ref, b, signals, start)
    <3>1. Turned(w, v, ref, BaseAt(v.at), SignalsOf(BaseAt(v.at).seq, mv),
                 GetSignalActif(BaseAt(v.at).seq, mv).delay + v.at)
      <4> HIDE DEF v
      <4> QED
        BY TurnParts
    <3> HIDE DEF v, b, w
    <3> QED
      BY <2>1, <3>1
  <2>3. b.seq = Plan[i] /\ {} \cup {i} = {i} /\ i \notin {}
    BY <1>2
  <2> HIDE DEF v, w, b
  <2> QED
    BY <1>8, <2>2, <2>3 DEF b, Turned
<1>10. w.green = 0
  <2>1. SignalsOf(Plan[i], mv) # {} => GetSignalActif(Plan[i], mv).delay = 0
    BY <1>2, FirstSignal
  <2> QED
    BY <1>9, <2>1
<1>11. EndOfNumber(m, i) = r + e[i]
  BY <1>2 DEF EndOfNumber
<1>12. w.at = r + e[i] /\ ref < r + e[i]
  <2> DEFINE l == Plan[i].len
  <2>1. /\ w.at = ref + l - b.elapsed /\ b.elapsed = x - e[i - 1] /\ e[i] = e[i - 1] + l
        /\ l \in Nat /\ x < e[i]
    BY <1>2, <1>4, <1>9
  <2> HIDE DEF w, r, e, i, b, l
  <2>2. w.at = r + e[i]
    BY <1>5, <1>7, <2>1
  <2>3. ref < r + e[i]
    BY <1>5, <1>7, <2>1
  <2> QED
    BY <2>2, <2>3
<1>13. EndOfNumber(m, i + n) = r + c + e[i]
  <2>1. (i + n) - n = i /\ ~(i + n <= n)
    BY <1>2, <1>3
  <2>2. (m + 1) * c = r + c
    <3> HIDE DEF c
    <3> QED
      BY <1>5
  <2> QED
    BY <2>1, <2>2 DEF EndOfNumber
<1>14. \A t \in Nat : ref <= t /\ t < w.at /\ Whole(t) => ~Lit(t, mv)
  <2> TAKE t \in Nat
  <2> HAVE ref <= t /\ t < w.at /\ Whole(t)
  <2>1. t < ref + b.seq.len - b.elapsed
    BY <1>2, <1>9
  <2>2. BaseAt(t).index = i /\ BaseAt(t).elapsed = b.elapsed + (t - ref)
    BY <2>1, SequenceLasts
  <2>3. BaseAt(t).seq = Plan[i]
    BY <2>2, BaseFacts
  <2>4. CASE SignalsOf(Plan[i], mv) = {}
    BY <2>3, <2>4 DEF Lit
  <2>5. CASE SignalsOf(Plan[i], mv) # {}
    <3> DEFINE s == GetSignalActif(Plan[i], mv)
    <3>1. s \in Signals
      BY <1>2, <2>5, FirstSignal
    <3>2. s.green \in Int
      BY <3>1 DEF Signals
    <3>3. ~(b.elapsed < s.green)
      BY <1>2, <2>5 DEF Lit
    <3> HIDE DEF s, b
    <3>4. ~(BaseAt(t).elapsed < s.green)
      BY <1>6, <2>2, <3>2, <3>3
    <3> QED
      BY <2>3, <3>4 DEF Lit, s
  <2> QED
    BY <2>4, <2>5
<1>15. Searching(w, ref, mv, m, i, 0)
  <2>1. i + 0 = i /\ Numbered(i) = i
    BY <1>2 DEF Numbered
  <2>2. w.seen \subseteq {Numbered(i + h) : h \in 0 .. 0}
    <3>1. 0 \in 0 .. 0 /\ Numbered(i + 0) = i
      BY <2>1
    <3>2. i \in {Numbered(i + h) : h \in 0 .. 0}
      <4> HIDE DEF i
      <4> QED
        BY <3>1
    <3> QED
      BY <1>9, <3>2
  <2>3. SignalsOf(Plan[i], mv) = {} => i \in w.seen
    BY <1>9
  <2>4. \A h \in 1 .. 0 : SignalsOf(Plan[Numbered(i + h)], mv) = {}
    OBVIOUS
  <2>5. w.at = EndOfNumber(m, i + 0) /\ w.elapsed \in Nat
    BY <1>6, <1>9, <1>11, <1>12, <2>1
  <2> HIDE DEF w, i
  <2> QED
    BY <1>9, <1>10, <1>14, <2>2, <2>3, <2>4, <2>5 DEF Searching
<1>16. /\ ref < EndOfNumber(m, i) /\ EndOfNumber(m, i + n) \in Nat
       /\ EndOfNumber(m, i + n) <= ref + 2 * c
  <2> HIDE DEF w, r, e, i, b, c
  <2> QED
    BY <1>5, <1>7, <1>11, <1>12, <1>13
<1> QED
  BY <1>2, <1>15, <1>16 DEF i

\* Numbers follow the order of the ends.
LEMMA NumberedOrder ==
    ASSUME NEW m \in Nat, NEW j \in Nat, NEW l \in Nat, 1 <= j, j <= l, l <= 2 * Len(Plan)
    PROVE  EndOfNumber(m, j) \in Nat /\ EndOfNumber(m, l) \in Nat
           /\ EndOfNumber(m, j) <= EndOfNumber(m, l)
<1> DEFINE n == Len(Plan)
           e == EndOf(Plan)
           c == TotalLength(Plan)
           r == m * c
<1>1. /\ n \in Nat /\ n > 0 /\ c = e[n] /\ \A a \in 0 .. n : e[a] \in Nat
      /\ \A a, b \in 0 .. n : a < b => e[a] < e[b]
  BY Constants, CycleEnds DEF TotalLength
<1>2. \A a, b \in 0 .. n : a <= b => e[a] <= e[b]
  <2> HIDE DEF n, e
  <2> TAKE a, b \in 0 .. n
  <2>1. e[a] \in Nat /\ e[b] \in Nat
    BY <1>1
  <2>2. a < b => e[a] < e[b]
    BY <1>1
  <2>3. a = b => e[a] = e[b]
    OBVIOUS
  <2> QED
    BY <1>1, <2>1, <2>2, <2>3
<1>3. c \in Nat /\ r \in Nat /\ (m + 1) * c = r + c
  <2>1. n \in 0 .. n
    BY <1>1
  <2>2. c \in Nat
    BY <1>1, <2>1
  <2> HIDE DEF c
  <2> QED
    BY <2>2
<1>4. \A a \in Nat : EndOfNumber(m, a) = IF a <= n THEN r + e[a] ELSE r + c + e[a - n]
  BY <1>3 DEF EndOfNumber
<1> HIDE DEF n, e, c, r
<1>5. CASE l <= n
  <2>1. j \in 0 .. n /\ l \in 0 .. n /\ j <= n
    BY <1>1, <1>5
  <2>2. e[j] <= e[l] /\ e[j] \in Nat /\ e[l] \in Nat
    BY <1>1, <1>2, <2>1
  <2>3. EndOfNumber(m, j) = r + e[j] /\ EndOfNumber(m, l) = r + e[l]
    BY <1>4, <1>5, <2>1
  <2> QED
    BY <1>3, <2>2, <2>3
<1>6. CASE j <= n /\ ~(l <= n)
  <2>1. j \in 0 .. n /\ l - n \in 0 .. n /\ n \in 0 .. n
    BY <1>1, <1>6 DEF n
  <2>2. e[j] <= c /\ e[j] \in Nat /\ e[l - n] \in Nat
    BY <1>1, <1>2, <2>1
  <2>3. EndOfNumber(m, j) = r + e[j] /\ EndOfNumber(m, l) = r + c + e[l - n]
    BY <1>4, <1>6
  <2> QED
    BY <1>3, <2>2, <2>3
<1>7. CASE ~(j <= n)
  <2>1. j - n \in 0 .. n /\ l - n \in 0 .. n /\ j - n <= l - n /\ ~(l <= n)
    BY <1>1, <1>7 DEF n
  <2>2. e[j - n] <= e[l - n] /\ e[j - n] \in Nat /\ e[l - n] \in Nat
    BY <1>1, <1>2, <2>1
  <2>3. EndOfNumber(m, j) = r + c + e[j - n] /\ EndOfNumber(m, l) = r + c + e[l - n]
    BY <1>4, <1>7, <2>1
  <2> QED
    BY <1>3, <2>2, <2>3
<1> QED
  BY <1>1, <1>5, <1>6, <1>7

\* A further turn, up to the n-th, finds the next green, or that there is none, or goes on.
LEMMA SearchGoesOn ==
    ASSUME NoDelays, NEW ref \in Nat, NEW mv, NEW m \in Nat, NEW i \in 1 .. Len(Plan),
           ref < EndOfNumber(m, i), Duration \in Nat, EndOfNumber(m, i + Len(Plan)) < Duration,
           NEW k \in 1 .. Len(Plan), NEW v, Searching(v, ref, mv, m, i, k - 1)
    PROVE  LET w == NextTurn(v, ref, mv)
           IN  \/ k < Len(Plan) /\ Searching(w, ref, mv, m, i, k)
               \/ GreenFound(w, ref, mv)
               \/ NoGreen(w, mv)
<1> DEFINE n == Len(Plan)
           w == NextTurn(v, ref, mv)
           j == i + (k - 1)
           u == EndOfNumber(m, j)
           next == Numbered(i + k)
           b == BaseAt(u)
           signals == SignalsOf(b.seq, mv)
           start == GetSignalActif(b.seq, mv).delay + u
<1>1. n \in Nat /\ n > 0 /\ j \in Nat /\ 1 <= j /\ j < 2 * n /\ j + 1 = i + k /\ i <= j /\ i + k <= i + n
      /\ i + n <= 2 * n
  BY Constants
<1>2. /\ next \in 1 .. n /\ Plan[next].len \in Nat /\ Plan[next].len > 0
      /\ u \in Nat /\ Whole(u) /\ b.elapsed = 0 /\ b.index = next /\ b.seq = Plan[next]
      /\ EndOfNumber(m, i + k) = u + Plan[next].len
  <2>1. next = Numbered(j + 1) /\ EndOfNumber(m, i + k) = EndOfNumber(m, j + 1)
    BY <1>1
  <2> DEFINE f == Numbered(j + 1)
  <2>2. /\ f \in 1 .. n /\ Plan[f].len \in Nat /\ Plan[f].len > 0
        /\ u \in Nat /\ Whole(u) /\ b.elapsed = 0 /\ b.index = f /\ b.seq = Plan[f]
        /\ EndOfNumber(m, j + 1) = u + Plan[f].len
    <3> HIDE DEF j
    <3> QED
      BY <1>1, NumberedEnds
  <2>3. f = next
    BY <2>1
  <2> HIDE DEF f, next, b, u
  <2> QED
    BY <2>1, <2>2, <2>3
<1>3. /\ v.at = u /\ v.green = 0 /\ ~v.abort
      /\ v.seen \subseteq {Numbered(i + h) : h \in 0 .. (k - 1)}
      /\ SignalsOf(Plan[i], mv) = {} => i \in v.seen
      /\ \A h \in 1 .. (k - 1) : SignalsOf(Plan[Numbered(i + h)], mv) = {}
      /\ \A t \in Nat : ref <= t /\ t < v.at /\ Whole(t) => ~Lit(t, mv)
  BY DEF Searching
<1>4. ref < u
  <2>1. EndOfNumber(m, i) \in Nat /\ EndOfNumber(m, i) <= u
    <3> HIDE DEF j
    <3> QED
      BY <1>1, NumberedOrder
  <2> HIDE DEF u
  <2> QED
    BY <1>2, <2>1
<1>5. u + Plan[next].len < Duration
  <2>1. EndOfNumber(m, i + k) <= EndOfNumber(m, i + n) /\ EndOfNumber(m, i + k) \in Nat
        /\ EndOfNumber(m, i + n) \in Nat
    <3> DEFINE p == i + k
               q == i + n
    <3>1. p \in Nat /\ q \in Nat /\ 1 <= p /\ p <= q /\ q <= 2 * n
      BY <1>1
    <3> HIDE DEF p, q
    <3>2. EndOfNumber(m, p) <= EndOfNumber(m, q) /\ EndOfNumber(m, p) \in Nat /\ EndOfNumber(m, q) \in Nat
      BY <3>1, NumberedOrder
    <3> QED
      BY <3>2 DEF p, q
  <2>2. EndOfNumber(m, i + k) < Duration
    BY <2>1
  <2> QED
    BY <1>2, <2>2
<1>6. Turned(w, v, ref, b, signals, start)
  <2>1. Turned(w, v, ref, BaseAt(v.at), SignalsOf(BaseAt(v.at).seq, mv),
               GetSignalActif(BaseAt(v.at).seq, mv).delay + v.at)
    BY TurnParts
  <2>2. v.at = u
    BY <1>3
  <2> HIDE DEF w, u
  <2> QED
    BY <2>1, <2>2
<1>7. w.at = u + Plan[next].len /\ w.elapsed = 0
  <2>1. w.at = v.at + b.seq.len - b.elapsed /\ w.elapsed = b.elapsed
    BY <1>6 DEF Turned
  <2>2. w.at = u + Plan[next].len - 0 /\ w.elapsed = 0
    BY <1>2, <1>3, <2>1
  <2> HIDE DEF w, u, next
  <2> QED
    BY <1>2, <2>2
<1>8. CASE signals # {}
  <2>1. GetSignalActif(Plan[next], mv).delay = 0 /\ GetSignalActif(Plan[next], mv).green > 0
    <3>1. SignalsOf(Plan[next], mv) # {}
      BY <1>2, <1>8
    <3> HIDE DEF next
    <3> QED
      BY <1>2, <3>1, FirstSignal
  <2>2. start = u
    <3>1. start = 0 + u
      BY <1>2, <2>1
    <3> HIDE DEF start, u
    <3> QED
      BY <1>2, <3>1
  <2>3. w.green = u /\ ~w.abort
    <3> HIDE DEF w, b, signals, start, u
    <3> QED
      BY <1>2, <1>4, <1>6, <1>8, <2>2 DEF Turned
  <2>4. Lit(u, mv)
    <3> HIDE DEF u
    <3> QED
      BY <1>2, <1>8, <2>1 DEF Lit
  <2>5. u < Duration /\ u + Plan[next].len \in Nat
    <3> HIDE DEF u, next
    <3> QED
      BY <1>2, <1>5
  <2>6. GreenFound(w, ref, mv)
    <3> HIDE DEF w, b, signals, start, u, next
    <3> QED
      BY <1>2, <1>3, <1>4, <1>5, <1>7, <2>3, <2>4, <2>5 DEF GreenFound
  <2> QED
    BY <2>6
<1>9. CASE signals = {}
  <2>1. /\ w.green = 0 /\ w.seen = v.seen \cup {next} /\ (w.abort <=> next \in v.seen)
        /\ SignalsOf(Plan[next], mv) = {}
    <3>1. b.seq = Plan[next] /\ b.index = next
      BY <1>2
    <3>2. SignalsOf(Plan[next], mv) = {}
      BY <1>9, <3>1
    <3> HIDE DEF w, b, signals, start, u, next
    <3> QED
      BY <1>3, <1>6, <1>9, <3>1, <3>2 DEF Turned
  <2>2. ASSUME k < n PROVE Searching(w, ref, mv, m, i, k)
    <3>1. next \notin v.seen
      <4> SUFFICES ASSUME next \in v.seen PROVE FALSE
        OBVIOUS
      <4>1. PICK h \in 0 .. (k - 1) : next = Numbered(i + h)
        BY <1>3
      <4> QED
        BY <1>1, <2>2, <4>1 DEF Numbered
    <3>2. w.seen \subseteq {Numbered(i + h) : h \in 0 .. k}
      <4>1. 0 .. (k - 1) \subseteq 0 .. k /\ k \in 0 .. k
        OBVIOUS
      <4>2. next \in {Numbered(i + h) : h \in 0 .. k}
        BY <4>1
      <4> HIDE DEF w, next
      <4> QED
        BY <1>3, <2>1, <4>1, <4>2
    <3>3. SignalsOf(Plan[i], mv) = {} => i \in w.seen
      <4> HIDE DEF w, next
      <4> QED
        BY <1>3, <2>1
    <3>4. \A h \in 1 .. k : SignalsOf(Plan[Numbered(i + h)], mv) = {}
      <4> TAKE h \in 1 .. k
      <4>1. h = k \/ h \in 1 .. (k - 1)
        OBVIOUS
      <4> QED
        BY <1>3, <2>1, <4>1
    <3>5. \A t \in Nat : ref <= t /\ t < w.at /\ Whole(t) => ~Lit(t, mv)
      <4> TAKE t \in Nat
      <4> HAVE ref <= t /\ t < w.at /\ Whole(t)
      <4>1. CASE t < u
        BY <1>3, <4>1
      <4>2. CASE ~(t < u)
        <5>1. u <= t /\ t < u + b.seq.len - b.elapsed
          <6>1. b.seq.len = Plan[next].len /\ b.elapsed = 0
            BY <1>2
          <6> HIDE DEF w, b, u, next
          <6> QED
            BY <1>2, <1>7, <4>2, <6>1
        <5>2. BaseAt(t).index = b.index
          <6> HIDE DEF u
          <6> QED
            BY <1>2, <5>1, SequenceLasts
        <5>3. BaseAt(t).seq = Plan[next]
          BY <1>2, <5>2, BaseFacts
        <5> QED
          BY <2>1, <5>3 DEF Lit
      <4> QED
        BY <4>1, <4>2
    <3>6. w.at = EndOfNumber(m, i + k) /\ w.elapsed \in Nat /\ ~w.abort
      BY <1>2, <1>7, <2>1, <3>1
    <3> HIDE DEF w
    <3> QED
      BY <2>1, <3>2, <3>3, <3>4, <3>5, <3>6 DEF Searching
  <2>3. ASSUME k = n PROVE NoGreen(w, mv)
    <3>1. next = i
      BY <1>1, <2>3 DEF Numbered
    <3>2. w.abort
      BY <1>3, <2>1, <3>1
    <3>3. \A l \in 1 .. n : SignalsOf(Plan[l], mv) = {}
      <4> TAKE l \in 1 .. n
      <4>1. CASE l = i
        BY <2>1, <3>1, <4>1
      <4>2. CASE l > i
        <5> DEFINE h == l - i
        <5>1. h \in 1 .. (k - 1) /\ Numbered(i + h) = l
          BY <1>1, <2>3, <4>2 DEF Numbered
        <5> HIDE DEF h
        <5> QED
          BY <1>3, <5>1
      <4>3. CASE l < i
        <5> DEFINE h == (l - i) + n
        <5>1. h \in 1 .. (k - 1) /\ Numbered(i + h) = l
          BY <1>1, <2>3, <4>3 DEF Numbered
        <5> HIDE DEF h
        <5> QED
          BY <1>3, <5>1
      <4> QED
        BY <4>1, <4>2, <4>3
    <3> QED
      BY <3>2, <3>3 DEF NoGreen
  <2> QED
    BY <1>1, <2>2, <2>3
<1> QED
  BY <1>8, <1>9

\* The states of the loop of GetInstantVertSuivant.
Visits == [at : Nat, green : Int, elapsed : Nat, seen : SUBSET (1 .. Len(Plan)), abort : BOOLEAN]

\* A turn leaves such a state.
LEMMA TurnType ==
    ASSUME NEW ref \in Nat, NEW mv, NEW v \in Visits
    PROVE  NextTurn(v, ref, mv) \in Visits
<1> DEFINE w == NextTurn(v, ref, mv)
           b == BaseAt(v.at)
           signals == SignalsOf(b.seq, mv)
           start == GetSignalActif(b.seq, mv).delay + v.at
<1>1. /\ v.at \in Nat /\ v.green \in Int /\ v.seen \subseteq 1 .. Len(Plan)
  BY DEF Visits
<1>2. /\ b.index \in 1 .. Len(Plan) /\ b.seq = Plan[b.index] /\ b.elapsed \in Nat
      /\ b.elapsed < b.seq.len /\ b.seq.len \in Nat
  BY <1>1, BaseFacts, Constants
<1>3. Turned(w, v, ref, b, signals, start)
  BY TurnParts
<1>4. signals # {} => start \in Nat
  <2> SUFFICES ASSUME signals # {} PROVE start \in Nat
    OBVIOUS
  <2>1. GetSignalActif(Plan[b.index], mv) \in Signals
    <3> HIDE DEF b
    <3> QED
      BY <1>2, FirstSignal
  <2>2. GetSignalActif(b.seq, mv).delay \in Nat
    BY <1>2, <2>1 DEF Signals
  <2> QED
    BY <1>1, <2>2
<1> HIDE DEF w, b, signals, start
<1>5. w.at \in Nat /\ w.elapsed \in Nat
  <2>1. w.at = v.at + b.seq.len - b.elapsed /\ w.elapsed = b.elapsed
    BY <1>3 DEF Turned
  <2> QED
    BY <1>1, <1>2, <2>1
<1>6. w.green \in Int /\ w.seen \subseteq 1 .. Len(Plan) /\ w.abort \in BOOLEAN
  BY <1>1, <1>2, <1>3, <1>4 DEF Turned
<1>7. w = [at |-> w.at, green |-> w.green, elapsed |-> w.elapsed,
           seen |-> w.seen, abort |-> w.abort]
  BY <1>3 DEF Turned
<1>8. w \in Visits
  BY <1>5, <1>6, <1>7 DEF Visits
<1> QED
  BY <1>8 DEF w

\* One turn of the loop, which may have ended.
Continued(v, ref, mv) ==
    IF v.abort \/ v.green - v.elapsed >= ref \/ v.at >= Duration THEN v
    ELSE NextTurn(v, ref, mv)

\* g is the states of the loop, turn after turn; what the loop returns is read in the last one.
TurnsOf(g, turns, ref, mv) ==
    /\ g[0] = NextTurn(FirstVisit(ref), ref, mv)
    /\ \A k \in 1 .. turns : g[k] = Continued(g[k - 1], ref, mv)
    /\ NextGreen(ref, mv) =
          IF g[turns].abort \/ g[turns].at >= Duration THEN Duration
          ELSE g[turns].green - g[turns].elapsed

\* There are such states.
LEMMA LoopUnrolled ==
    ASSUME NEW ref \in Nat, NEW mv, NEW turns, turns = 2 * Len(Plan) + 1
    PROVE  \E g : TurnsOf(g, turns, ref, mv)
<1> DEFINE V == Visits
           n == 2 * Len(Plan) + 1
           first == NextTurn(FirstVisit(ref), ref, mv)
           D(f) == f = [k \in 0 .. n |-> IF k = 0 THEN first ELSE Continued(f[k - 1], ref, mv)]
           step == [k \in 1 .. n |-> [v \in V |-> Continued(v, ref, mv)]]
           g == CHOOSE h : D(h)
<1>1. NextGreen(ref, mv) = IF g[n].abort \/ g[n].at >= Duration THEN Duration
                           ELSE g[n].green - g[n].elapsed
  BY DEF NextGreen, FirstVisit, Continued
<1>2. n \in Nat /\ turns = n
  BY Constants
<1>3. first \in V
  <2>1. FirstVisit(ref) \in Visits
    BY DEF Visits, FirstVisit
  <2> QED
    BY <2>1, TurnType
<1>4. \A v \in V : Continued(v, ref, mv) \in V
  BY TurnType DEF Continued
<1> HIDE DEF V, n, first
<1>5. step \in [1 .. n -> [V -> V]]
  BY <1>4
<1>6. PICK f \in [0 .. n -> V] : f[0] = first /\ \A k \in 1 .. n : f[k] = step[k][f[k - 1]]
  <2> HIDE DEF step
  <2>1. Recursive(n, V, first, step)
    BY <1>2, <1>3, <1>5, Recursion
  <2> QED
    BY <2>1 DEF Recursive
<1>7. D(f)
  <2>1. \A k \in 1 .. n : f[k] = Continued(f[k - 1], ref, mv)
    <3> TAKE k \in 1 .. n
    <3>1. f[k - 1] \in V
      <4> HIDE DEF step
      <4> QED
        BY <1>2
    <3> QED
      BY <1>6, <3>1
  <2>2. f = [k \in 0 .. n |-> f[k]]
    OBVIOUS
  <2>3. \A k \in 0 .. n : f[k] = IF k = 0 THEN first ELSE Continued(f[k - 1], ref, mv)
    <3>1. f[0] = first
      BY <1>6
    <3> HIDE DEF step
    <3> QED
      BY <1>2, <3>1, <2>1
  <2> HIDE DEF step
  <2> QED
    BY <2>2, <2>3
<1>8. D(g)
  <2> HIDE DEF D
  <2> QED
    BY <1>7
<1> HIDE DEF g
<1>9. g[0] = first /\ \A k \in 1 .. n : g[k] = Continued(g[k - 1], ref, mv)
  <2> DEFINE y(k) == IF k = 0 THEN first ELSE Continued(g[k - 1], ref, mv)
  <2>1. g = [k \in 0 .. n |-> y(k)]
    BY <1>8
  <2>2. \A k \in 0 .. n : g[k] = y(k)
    <3> HIDE DEF y
    <3> QED
      BY <2>1
  <2>3. g[0] = first
    BY <1>2, <2>2
  <2>4. \A k \in 1 .. n : k \in 0 .. n /\ k # 0
    BY <1>2
  <2> HIDE DEF D
  <2> QED
    BY <2>2, <2>3, <2>4
<1> HIDE DEF D
<1>10. TurnsOf(g, turns, ref, mv)
  BY <1>1, <1>2, <1>9 DEF first, TurnsOf
<1> QED
  BY <1>10

\* The loop finds the first green after ref, or that there is none.
LEMMA FirstGreenAnnounced ==
    ASSUME NoDelays, FarEnd, Duration \in Nat, NEW ref \in Nat, Whole(ref), ref > 0,
           ref <= LastInstant, NEW mv, ~Lit(ref, mv)
    PROVE  LET next == NextGreen(ref, mv)
           IN  \/ /\ next \in Nat /\ next < Duration /\ Lit(next, mv)
                  /\ \A t \in Nat : ref <= t /\ t < next /\ Whole(t) => ~Lit(t, mv)
               \/ next = Duration /\ \A t \in Nat : ~Lit(t, mv)
<1> DEFINE n == Len(Plan)
           turns == 2 * n + 1
           Ended(v) == GreenFound(v, ref, mv) \/ NoGreen(v, mv)
<1>1. PICK m \in Nat, i \in 1 .. n :
        /\ Searching(NextTurn(FirstVisit(ref), ref, mv), ref, mv, m, i, 0)
        /\ ref < EndOfNumber(m, i) /\ EndOfNumber(m, i + n) \in Nat
        /\ EndOfNumber(m, i + n) <= ref + 2 * TotalLength(Plan)
  BY SearchBegins
<1>2. PICK g : TurnsOf(g, turns, ref, mv)
  <2>1. turns = 2 * Len(Plan) + 1
    OBVIOUS
  <2> HIDE DEF turns
  <2> QED
    BY <2>1, LoopUnrolled
<1>3. EndOfNumber(m, i + n) < Duration
  <2>1. TotalLength(Plan) \in Nat
    BY CycleLength, Constants
  <2>2. ref + 2 * TotalLength(Plan) < Duration
    <3>1. LastInstant \in Nat /\ LastInstant + 2 * TotalLength(Plan) < Duration
      BY Constants DEF FarEnd
    <3> QED
      BY <2>1, <3>1
  <2> DEFINE x == EndOfNumber(m, i + n)
             y == 2 * TotalLength(Plan)
  <2>3. x \in Nat /\ x <= ref + y
    BY <1>1
  <2>4. y \in Nat /\ ref + y < Duration
    BY <2>1, <2>2
  <2> HIDE DEF x, y
  <2>5. x < Duration
    BY <2>3, <2>4
  <2> QED
    BY <2>5 DEF x
<1>4. n \in Nat /\ n > 0 /\ turns \in Nat /\ n < turns
  BY Constants
<1>5. \A v : Ended(v) => Continued(v, ref, mv) = v
  <2> TAKE v
  <2> HAVE Ended(v)
  <2>1. CASE NoGreen(v, mv)
    BY <2>1 DEF NoGreen, Continued
  <2>2. CASE GreenFound(v, ref, mv)
    <3>1. v.green - v.elapsed >= ref
      <4>1. v.elapsed = 0 /\ v.green \in Nat /\ ref < v.green
        BY <2>2 DEF GreenFound
      <4> QED
        BY <4>1
    <3> QED
      BY <3>1 DEF Continued
  <2> QED
    BY <2>1, <2>2
<1>6. ASSUME NEW k \in 1 .. n, NEW v, Searching(v, ref, mv, m, i, k - 1)
      PROVE  Continued(v, ref, mv) = NextTurn(v, ref, mv)
  <2>1. v.at = EndOfNumber(m, i + (k - 1)) /\ v.green = 0 /\ v.elapsed \in Nat /\ ~v.abort
    BY <1>6 DEF Searching
  <2>2. ~(v.green - v.elapsed >= ref)
    BY <2>1
  <2>3. ~(v.at >= Duration)
    <3> DEFINE p == i + (k - 1)
               q == i + n
    <3>1. p \in Nat /\ q \in Nat /\ 1 <= p /\ p <= q /\ q <= 2 * n
      BY <1>4
    <3> HIDE DEF p, q
    <3>2. EndOfNumber(m, p) <= EndOfNumber(m, q) /\ EndOfNumber(m, p) \in Nat
          /\ EndOfNumber(m, q) \in Nat
      BY <3>1, NumberedOrder
    <3>3. v.at = EndOfNumber(m, p) /\ EndOfNumber(m, q) < Duration
      BY <1>3, <2>1 DEF p, q
    <3> QED
      BY <3>2, <3>3
  <2> QED
    BY <2>1, <2>2, <2>3 DEF Continued
<1> DEFINE A == {k \in Nat : k <= turns =>
                    Ended(g[k]) \/ (k < n /\ Searching(g[k], ref, mv, m, i, k))}
<1>7. 0 \in A
  BY <1>1, <1>2, <1>4 DEF TurnsOf
<1>8. \A k \in Nat : k \in A => k + 1 \in A
  <2> TAKE k \in Nat
  <2> HAVE k \in A
  <2> SUFFICES ASSUME k + 1 <= turns
               PROVE  Ended(g[k + 1]) \/ (k + 1 < n /\ Searching(g[k + 1], ref, mv, m, i, k + 1))
    OBVIOUS
  <2>1. g[k + 1] = Continued(g[k], ref, mv)
    <3>1. k + 1 \in 1 .. turns /\ (k + 1) - 1 = k
      BY <1>4
    <3> HIDE DEF turns
    <3> QED
      BY <1>2, <3>1 DEF TurnsOf
  <2>2. Ended(g[k]) \/ (k < n /\ Searching(g[k], ref, mv, m, i, k))
    BY <1>4
  <2>3. CASE Ended(g[k])
    <3> HIDE DEF Ended
    <3> QED
      BY <1>5, <2>1, <2>3
  <2>4. CASE k < n /\ Searching(g[k], ref, mv, m, i, k)
    <3> DEFINE l == k + 1
    <3>1. l \in 1 .. n /\ l - 1 = k
      BY <1>4, <2>4
    <3>2. g[l] = Continued(g[l - 1], ref, mv) /\ Searching(g[l - 1], ref, mv, m, i, l - 1)
      BY <2>1, <2>4, <3>1
    <3> HIDE DEF l
    <3>3. g[l] = NextTurn(g[l - 1], ref, mv)
      BY <1>6, <3>1, <3>2
    <3>4. Ended(g[l]) \/ (l < n /\ Searching(g[l], ref, mv, m, i, l))
      <4>1. LET w == NextTurn(g[l - 1], ref, mv)
            IN  \/ l < n /\ Searching(w, ref, mv, m, i, l)
                \/ GreenFound(w, ref, mv)
                \/ NoGreen(w, mv)
        BY <1>1, <1>3, <3>1, <3>2, SearchGoesOn
      <4> QED
        BY <3>3, <4>1
    <3> QED
      BY <3>4 DEF l
  <2> QED
    BY <2>2, <2>3, <2>4
<1>9. Ended(g[turns])
  <2>1. Nat \subseteq A
    <3> HIDE DEF A
    <3> QED
      BY <1>7, <1>8, NatSetInduction
  <2>2. turns \in A
    <3> HIDE DEF A, turns
    <3> QED
      BY <1>4, <2>1
  <2> HIDE DEF Ended
  <2> QED
    BY <1>4, <2>2
<1> DEFINE last == g[turns]
           next == NextGreen(ref, mv)
<1>10. next = IF last.abort \/ last.at >= Duration THEN Duration ELSE last.green - last.elapsed
  BY <1>2 DEF TurnsOf
<1> HIDE DEF next
<1>11. CASE GreenFound(last, ref, mv)
  <2> HIDE DEF last
  <2>1. /\ ~last.abort /\ last.at \in Nat /\ last.at < Duration /\ last.elapsed = 0
        /\ last.green \in Nat /\ last.green < Duration /\ Lit(last.green, mv)
        /\ \A t \in Nat : ref <= t /\ t < last.green /\ Whole(t) => ~Lit(t, mv)
    BY <1>11 DEF GreenFound
  <2>2. next = last.green
    BY <1>10, <2>1
  <2> QED
    BY <2>1, <2>2 DEF next
<1>12. CASE NoGreen(last, mv)
  <2>1. next = Duration
    <3> HIDE DEF last
    <3> QED
      BY <1>10, <1>12 DEF NoGreen
  <2>2. \A t \in Nat : ~Lit(t, mv)
    <3> TAKE t \in Nat
    <3>1. BaseAt(t).index \in 1 .. n /\ BaseAt(t).seq = Plan[BaseAt(t).index]
      BY BaseFacts
    <3> HIDE DEF last, n
    <3> QED
      BY <1>12, <3>1 DEF NoGreen, Lit, n
  <2> QED
    BY <2>1, <2>2 DEF next
<1> QED
  BY <1>9, <1>11, <1>12 DEF next

\* The next green announced for a red light, when no priority is in force, is the first
\* time of green, and the end of the simulation is announced only when there is none
\* (GetInstantVertSuivant).
THEOREM GreensAreAnnounced ==
    ASSUME NoDelays, FarEnd
    PROVE  Spec => []NextGreenIsGreen
<1>1. IInv => NextGreenIsGreen
  <2> SUFFICES ASSUME IInv, cdf.mode = "N", instant > 0, NEW mv \in Movements,
                      Colour(cdf, instant, mv) = "red"
               PROVE  LET next == NextGreen(instant, mv)
                      IN  /\ next < Duration => Colour(cdf, next, mv) = "green"
                          /\ \A t \in {i * Ticks : i \in (instant \div Ticks)..(Duration \div Ticks)} :
                                t < next => Colour(cdf, t, mv) # "green"
    BY DEF NextGreenIsGreen
  <2>1. cdf.ex = NoPlan
    BY DEF IInv, Standing, Good, PriorityPlanInForce
  <2>2. instant \in Nat /\ Whole(instant) /\ instant <= LastInstant /\ Duration \in Nat
    BY TrafficLightsAssumption DEF IInv
  <2>3. ~Lit(instant, mv)
    BY <2>1, <2>2, ColourInCycle
  <2> DEFINE next == NextGreen(instant, mv)
  <2>4. \/ /\ next \in Nat /\ next < Duration /\ Lit(next, mv)
           /\ \A t \in Nat : instant <= t /\ t < next /\ Whole(t) => ~Lit(t, mv)
        \/ next = Duration /\ \A t \in Nat : ~Lit(t, mv)
    BY <2>2, <2>3, FirstGreenAnnounced
  <2> HIDE DEF next
  <2>5. next < Duration => Colour(cdf, next, mv) = "green"
    BY <2>1, <2>2, <2>4, ColourInCycle
  <2>6. \A t \in {i * Ticks : i \in (instant \div Ticks)..(Duration \div Ticks)} :
           t < next => Colour(cdf, t, mv) # "green"
    <3> TAKE t \in {i * Ticks : i \in (instant \div Ticks)..(Duration \div Ticks)}
    <3> HAVE t < next
    <3>1. PICK i \in (instant \div Ticks)..(Duration \div Ticks) : t = i * Ticks
      OBVIOUS
    <3>2. /\ instant \div Ticks \in Nat /\ Duration \div Ticks \in Nat
          /\ instant = Ticks * (instant \div Ticks) /\ Ticks \in Nat
      BY <2>2, Constants, Seconds, ExactSeconds
    <3>3. i \in Nat /\ t = Ticks * i /\ Ticks * (instant \div Ticks) <= Ticks * i
      <4> DEFINE p == instant \div Ticks
                 q == Duration \div Ticks
      <4>1. p \in Nat /\ q \in Nat /\ i \in p .. q
        BY <3>2
      <4> HIDE DEF p, q
      <4>2. i \in Nat /\ p <= i
        BY <4>1
      <4>3. Ticks * p <= Ticks * i
        BY <3>2, <4>1, <4>2, Multiples
      <4>4. t = Ticks * i
        BY <3>1, <3>2, <4>2
      <4> QED
        BY <4>2, <4>3, <4>4 DEF p
    <3>4. t \in Nat /\ Whole(t)
      BY <3>3, WholeMultiple
    <3>5. instant <= t
      BY <3>2, <3>3
    <3>6. ~Lit(t, mv)
      BY <2>4, <3>4, <3>5
    <3> QED
      BY <2>1, <3>4, <3>6, ColourInCycle
  <2> QED
    BY <2>5, <2>6 DEF next
<1>2. Spec => []IInv
  BY LightsInvariance
<1> QED
  BY <1>1, <1>2, PTL
================================================================================
