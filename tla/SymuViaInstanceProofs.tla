-------------------------- MODULE SymuViaInstanceProofs --------------------------
(***************************************************************************)
(* Proofs about one SymuVia instance under the calls of the runner: the    *)
(* XML and CSV files follow the history of the simulation, for simulations *)
(* and iterations of any length.                                           *)
(*                                                                         *)
(* None of the properties is inductive.  What a commit copies to a main    *)
(* file is right because of where each temporary file begins and ends in   *)
(* the history and, for the XML rows, which can be switched off, because   *)
(* all the steps under one snapshot were simulated with the same outputs   *)
(* and the runner commits only with the outputs on.  The invariant says    *)
(* so.                                                                     *)
(***************************************************************************)
EXTENDS SymuViaInstance, SequenceTheorems, Induction

--------------------------------------------------------------------------------
(* The inductive invariant *)

\* The committed steps: those before the first snapshot.
Base == IF snaps = <<>> THEN hist ELSE snaps[1].hist

\* The steps under snapshot i are those after Kept(i), up to Upto(i).
Kept(i) == Len(snaps[i].hist)
Upto(i) == IF i = Len(snaps) THEN Len(hist) ELSE Kept(i + 1)

\* The stack by the state of the adapter, and the names of the files.
StackInv ==
    /\ Len(snaps) <= 2
    /\ hasStart <=> snaps # <<>>
    /\ began => ~finished /\ Len(snaps) = IF ended THEN 2 ELSE 1
    /\ ~began => Len(snaps) <= 1 /\ hist = Base
    /\ cur = IF finished THEN 0 ELSE Len(snaps)
    /\ \A i \in DOMAIN snaps : snaps[i].file = i - 1
    /\ DOMAIN disk = {i - 1 : i \in DOMAIN snaps}

\* The snapshots cut the history in parts; trajectories are output in the committed
\* one, and in all the others or in none.
HistInv ==
    /\ \A i \in DOMAIN snaps :
          Kept(i) <= Upto(i) /\ snaps[i].hist = SubSeq(hist, 1, Kept(i))
    /\ \A i \in DOMAIN hist : hist[i].out = (i <= Len(Base) \/ trajOut)

\* The main documents hold the committed part, the temporary CSV file of a snapshot
\* the part under it, its XML document the same if trajectories are output.
DocsInv ==
    /\ xmlMain = Base /\ csvMain = Base
    /\ \A i \in DOMAIN snaps :
          /\ snaps[i].xml = IF trajOut THEN SubSeq(hist, Kept(i) + 1, Upto(i)) ELSE <<>>
          /\ disk[i - 1] = SubSeq(hist, Kept(i) + 1, Upto(i))

FlagsOK == began \in BOOLEAN /\ ended \in BOOLEAN /\ hasStart \in BOOLEAN

IInv == TypeOK /\ FlagsOK /\ StackInv /\ HistInv /\ DocsInv

--------------------------------------------------------------------------------
(* Sequences *)

\* The bounds and the period are numbers.
LEMMA Constants ==
    /\ MaxSteps \in Nat /\ MaxSnapshots \in Nat /\ MaxRollbacks \in Nat
    /\ OutputPeriod \in Nat \ {0}
  BY SnapshotsAssumption

\* The partial concatenations of a sequence of sequences, of which FlattenSeq is the last.
LEMMA Flattening ==
    ASSUME NEW S, NEW s \in Seq(Seq(S)), Len(s) > 0
    PROVE  \E f \in [1 .. Len(s) -> Seq(S)] :
              /\ FlattenSeq(s) = f[Len(s)]
              /\ f[1] = s[1]
              /\ \A i \in 2 .. Len(s) : f[i] = f[i - 1] \o s[i]
<1> DEFINE Def(f, n) ==
              /\ f \in [1 .. n -> Seq(S)]
              /\ \A i \in 1 .. n : f[i] = IF i = 1 THEN s[i] ELSE f[i - 1] \o s[i]
           Flat(f) == f = [i \in 1 .. Len(s) |-> IF i = 1 THEN s[i] ELSE f[i - 1] \o s[i]]
           G == {n \in Nat : n \in 1 .. Len(s) => \E f : Def(f, n)}
<1>1. Len(s) \in Nat /\ \A i \in 1 .. Len(s) : s[i] \in Seq(S)
  BY LenProperties, ElementOfSeq
<1>2. 0 \in G
  OBVIOUS
<1>3. \A n \in Nat : n \in G => n + 1 \in G
  <2> TAKE n \in Nat
  <2> HAVE n \in G
  <2> SUFFICES ASSUME n + 1 \in 1 .. Len(s)
               PROVE  \E g : Def(g, n + 1)
    OBVIOUS
  <2>1. CASE n = 0
    <3> DEFINE f == [i \in 1 .. 1 |-> s[1]]
    <3>1. f \in [1 .. 1 -> Seq(S)]
      BY <1>1
    <3>2. \A i \in 1 .. 1 : f[i] = IF i = 1 THEN s[i] ELSE f[i - 1] \o s[i]
      OBVIOUS
    <3>3. Def(f, 1)
      BY <3>1, <3>2
    <3>4. n + 1 = 1
      BY <2>1
    <3> HIDE DEF Def, f
    <3> QED
      BY <3>3, <3>4
  <2>2. CASE n # 0
    <3>1. PICK f : Def(f, n)
      <4> HIDE DEF Def
      <4> QED
        BY <1>1, <2>2
    <3> DEFINE new == f[n] \o s[n + 1]
               g == [i \in 1 .. (n + 1) |-> IF i = n + 1 THEN new ELSE f[i]]
    <3>2. new \in Seq(S)
      BY <1>1, <2>2, <3>1, ConcatProperties
    <3>3. g \in [1 .. (n + 1) -> Seq(S)]
      <4> HIDE DEF new
      <4> QED
        BY <3>1, <3>2
    <3>4. ASSUME NEW i \in 1 .. (n + 1)
          PROVE  g[i] = IF i = 1 THEN s[i] ELSE g[i - 1] \o s[i]
      <4>1. CASE i = n + 1
        <5>1. i # 1 /\ i - 1 = n /\ n \in 1 .. (n + 1) /\ n # n + 1
          BY <4>1, <2>2
        <5>2. g[i] = new /\ g[n] = f[n]
          <6> HIDE DEF new
          <6> QED
            BY <4>1, <5>1
        <5> HIDE DEF g
        <5> QED
          BY <5>1, <5>2, <4>1
      <4>2. CASE i # n + 1
        <5>1. i \in 1 .. n /\ g[i] = f[i]
          BY <4>2
        <5>2. i # 1 => g[i - 1] = f[i - 1]
          BY <4>2
        <5> QED
          BY <5>1, <5>2, <3>1
      <4> QED
        BY <4>1, <4>2
    <3>5. Def(g, n + 1)
      BY <3>3, <3>4
    <3> QED
      BY <3>5
  <2> QED
    BY <2>1, <2>2
<1>4. PICK f : Def(f, Len(s))
  <2>1. Len(s) \in G
    <3> HIDE DEF G
    <3> QED
      BY <1>1, <1>2, <1>3, NatSetInduction
  <2> HIDE DEF Def
  <2> QED
    BY <2>1, <1>1
<1>5. Flat(f)
  BY <1>4
<1> DEFINE F == CHOOSE g : Flat(g)
<1>6. Flat(F)
  <2> HIDE DEF Flat
  <2> QED
    BY <1>5
<1>7. FlattenSeq(s) = F[Len(s)]
  BY <1>1 DEF FlattenSeq
<1> HIDE DEF F
<1>8. /\ F[1] = s[1] /\ f[1] = s[1]
      /\ \A i \in 1 .. Len(s) : i # 1 => F[i] = F[i - 1] \o s[i] /\ f[i] = f[i - 1] \o s[i]
  <2>1. \A i \in 1 .. Len(s) : F[i] = IF i = 1 THEN s[i] ELSE F[i - 1] \o s[i]
    BY <1>6
  <2>2. \A i \in 1 .. Len(s) : f[i] = IF i = 1 THEN s[i] ELSE f[i - 1] \o s[i]
    BY <1>4
  <2>3. 1 \in 1 .. Len(s)
    BY <1>1
  <2> QED
    BY <2>1, <2>2, <2>3
<1> DEFINE H == {n \in Nat : n \in 1 .. Len(s) => F[n] = f[n]}
<1>9. \A n \in Nat : n \in H => n + 1 \in H
  <2> SUFFICES ASSUME NEW n \in Nat, n \in H, n + 1 \in 1 .. Len(s) PROVE F[n + 1] = f[n + 1]
    OBVIOUS
  <2>1. CASE n = 0
    BY <1>8, <2>1
  <2>2. CASE n # 0
    <3>1. n \in 1 .. Len(s) /\ F[n] = f[n]
      BY <2>2, <1>1
    <3>2. n + 1 # 1 /\ (n + 1) - 1 = n
      BY <2>2
    <3> QED
      BY <3>1, <3>2, <1>8
  <2> QED
    BY <2>1, <2>2
<1>10. Nat \subseteq H
  <2>1. 0 \in H
    OBVIOUS
  <2> HIDE DEF H
  <2> QED
    BY <2>1, <1>9, NatSetInduction
<1>11. FlattenSeq(s) = f[Len(s)]
  BY <1>7, <1>10, <1>1
<1>12. \A i \in 2 .. Len(s) : f[i] = f[i - 1] \o s[i]
  <2> TAKE i \in 2 .. Len(s)
  <2>1. i \in 1 .. Len(s) /\ i # 1
    BY <1>1
  <2> QED
    BY <2>1, <1>8
<1> QED
  BY <1>4, <1>8, <1>11, <1>12

\* One or two sequences flattened.
LEMMA FlattenFew ==
    ASSUME NEW S, NEW s \in Seq(Seq(S))
    PROVE  /\ Len(s) = 0 => FlattenSeq(s) = <<>>
           /\ Len(s) = 1 => FlattenSeq(s) = s[1]
           /\ Len(s) = 2 => FlattenSeq(s) = s[1] \o s[2]
<1>1. Len(s) = 0 => FlattenSeq(s) = <<>>
  BY EmptySeq DEF FlattenSeq
<1>2. ASSUME Len(s) > 0
      PROVE  \E f \in [1 .. Len(s) -> Seq(S)] :
                /\ FlattenSeq(s) = f[Len(s)] /\ f[1] = s[1]
                /\ \A i \in 2 .. Len(s) : f[i] = f[i - 1] \o s[i]
  BY <1>2, Flattening
<1>3. Len(s) = 1 => FlattenSeq(s) = s[1]
  BY <1>2
<1>4. ASSUME Len(s) = 2 PROVE FlattenSeq(s) = s[1] \o s[2]
  <2>1. 2 \in 2 .. Len(s) /\ 2 - 1 = 1 /\ Len(s) > 0
    BY <1>4
  <2> QED
    BY <1>2, <1>4, <2>1
<1> DEFINE both == s[1] \o s[2]
<1>5. Len(s) = 2 => FlattenSeq(s) = both
  BY <1>4
<1> HIDE DEF both
<1>6. /\ Len(s) = 0 => FlattenSeq(s) = <<>>
      /\ Len(s) = 1 => FlattenSeq(s) = s[1]
      /\ Len(s) = 2 => FlattenSeq(s) = both
  BY <1>1, <1>3, <1>5
<1> QED
  BY <1>6 DEF both

\* What a sequence of sequences laid along the stack flattens to.
LEMMA FlattenStack ==
    ASSUME NEW S, NEW s \in [DOMAIN snaps -> Seq(S)],
           Len(snaps) \in 0 .. 2, DOMAIN snaps = 1 .. Len(snaps)
    PROVE  /\ Len(snaps) = 0 => FlattenSeq(s) = <<>>
           /\ Len(snaps) = 1 => FlattenSeq(s) = s[1]
           /\ Len(snaps) = 2 => FlattenSeq(s) = s[1] \o s[2]
<1>1. s \in Seq(Seq(S))
  BY SeqDef
<1>2. Len(s) = Len(snaps)
  <2>1. DOMAIN s = 1 .. Len(s) /\ Len(s) \in Nat
    BY <1>1, LenProperties
  <2> QED
    BY <2>1
<1> QED
  BY <1>1, <1>2, FlattenFew

\* The rows of a history of which the first k steps only are output.
LEMMA RowsOfPrefix ==
    ASSUME NEW h \in Seq(Steps), NEW k \in 0 .. Len(h),
           \A i \in 1 .. Len(h) : h[i].out = (i <= k)
    PROVE  FlattenSeq([i \in DOMAIN h |-> IF h[i].out THEN <<h[i]>> ELSE <<>>])
              = SubSeq(h, 1, k)
<1> DEFINE s == [i \in DOMAIN h |-> IF h[i].out THEN <<h[i]>> ELSE <<>>]
<1>1. Len(h) \in Nat /\ DOMAIN h = 1 .. Len(h) /\ \A i \in 1 .. Len(h) : h[i] \in Steps
  BY LenProperties, ElementOfSeq
<1>2. \A i \in 1 .. Len(h) : <<h[i]>> \in Seq(Steps) /\ <<>> \in Seq(Steps)
  BY <1>1
<1>3. s \in Seq(Seq(Steps)) /\ Len(s) = Len(h)
  <2>1. s \in [1 .. Len(h) -> Seq(Steps)]
    BY <1>1, <1>2
  <2> HIDE DEF s
  <2> QED
    BY <2>1, <1>1, SeqDef, LenProperties
<1>4. \A i \in 1 .. Len(h) : s[i] = IF i <= k THEN <<h[i]>> ELSE <<>>
  BY <1>1
<1> HIDE DEF s
<1>5. CASE Len(h) = 0
  <2>1. FlattenSeq(s) = <<>>
    BY <1>3, <1>5, FlattenFew
  <2>2. SubSeq(h, 1, k) = <<>>
    BY <1>5, SubSeqEmpty
  <2> QED
    BY <2>1, <2>2 DEF s
<1>6. CASE Len(h) > 0
  <2>1. PICK f \in [1 .. Len(s) -> Seq(Steps)] :
           /\ FlattenSeq(s) = f[Len(s)] /\ f[1] = s[1]
           /\ \A i \in 2 .. Len(s) : f[i] = f[i - 1] \o s[i]
    BY <1>3, <1>6, Flattening
  <2> DEFINE till(i) == IF i <= k THEN i ELSE k
             G == {n \in Nat : n \in 1 .. Len(h) => f[n] = SubSeq(h, 1, till(n))}
  <2>2. 0 \in G
    OBVIOUS
  <2>3. \A n \in Nat : n \in G => n + 1 \in G
    <3> TAKE n \in Nat
    <3> HAVE n \in G
    <3> SUFFICES ASSUME n + 1 \in 1 .. Len(h)
                 PROVE  f[n + 1] = SubSeq(h, 1, till(n + 1))
      OBVIOUS
    <3>1. s[n + 1] = IF n + 1 <= k THEN <<h[n + 1]>> ELSE <<>>
      BY <1>4
    <3>2. CASE n = 0
      <4>1. f[n + 1] = s[n + 1] /\ n + 1 = 1
        BY <2>1, <3>2
      <4>2. CASE k = 0
        <5>1. SubSeq(h, 1, till(n + 1)) = <<>>
          BY <4>2, <3>2, SubSeqEmpty
        <5> QED
          BY <4>1, <4>2, <5>1, <3>1
      <4>3. CASE k > 0
        <5>1. SubSeq(h, 1, 1) = SubSeq(h, 1, 1 - 1) \o <<h[1]>>
          BY <1>1, <1>6, SubSeqRecursiveSecond
        <5>2. SubSeq(h, 1, 1 - 1) = <<>>
          BY SubSeqEmpty
        <5>3. <<h[1]>> \in Seq(Steps)
          BY <1>2, <1>6
        <5>4. <<>> \o <<h[1]>> = <<h[1]>>
          BY <5>3, ConcatEmptySeq
        <5>5. till(n + 1) = 1
          BY <4>1, <4>3
        <5>6. f[n + 1] = <<h[1]>>
          BY <4>1, <4>3, <3>1
        <5> HIDE DEF till
        <5> QED
          BY <5>1, <5>2, <5>4, <5>5, <5>6
      <4> QED
        BY <4>2, <4>3
    <3>3. CASE n # 0
      <4>1. n \in 1 .. Len(h) /\ n + 1 \in 2 .. Len(s) /\ (n + 1) - 1 = n
        BY <3>3, <1>1, <1>3
      <4>2. f[n + 1] = f[n] \o s[n + 1]
        BY <4>1, <2>1
      <4>3. f[n] = SubSeq(h, 1, till(n)) /\ f[n] \in Seq(Steps)
        BY <4>1, <1>3, <2>1
      <4>4. CASE n + 1 <= k
        <5>1. SubSeq(h, 1, n + 1) = SubSeq(h, 1, n) \o <<h[n + 1]>>
          <6>1. 1 \in 1 .. Len(h) /\ n + 1 \in 1 .. Len(h)
            BY <1>1, <1>6
          <6> QED
            BY <6>1, <4>1, SubSeqRecursiveSecond
        <5> QED
          BY <4>2, <4>3, <4>4, <5>1, <3>1
      <4>5. CASE ~(n + 1 <= k)
        <5>1. till(n) = till(n + 1)
          BY <4>5
        <5>2. f[n] \o <<>> = f[n]
          BY <4>3, ConcatEmptySeq
        <5> QED
          BY <4>2, <4>3, <4>5, <5>1, <5>2, <3>1
      <4> QED
        BY <4>4, <4>5
    <3> QED
      BY <3>2, <3>3
  <2>4. Len(h) \in G
    <3> HIDE DEF G
    <3> QED
      BY <1>1, <2>2, <2>3, NatSetInduction
  <2>5. f[Len(h)] = SubSeq(h, 1, till(Len(h)))
    <3> HIDE DEF till
    <3> QED
      BY <2>4, <1>1, <1>6
  <2>6. till(Len(h)) = k
    <3>1. Len(h) \in Nat /\ k \in Nat /\ k <= Len(h)
      BY <1>1
    <3> QED
      BY <3>1
  <2> QED
    BY <2>1, <2>5, <2>6, <1>3 DEF s
<1> QED
  BY <1>1, <1>5, <1>6

--------------------------------------------------------------------------------
(* What the files are once the stack is unwound *)

\* What Unwound(k) does at snapshot i.
Unwind(k, i, files) ==
    DiscardTempFiles(IF i < k THEN ValidateTempFiles(files, snaps[i]) ELSE files, snaps[i])
Files == [xml |-> xmlMain, periods |-> ttMain, csv |-> csvMain, disk |-> disk]

\* The loop over a stack of one or two snapshots.
LEMMA UnwoundOnce ==
    ASSUME NEW k, DOMAIN snaps = 1 .. 1
    PROVE  Unwound(k) = Unwind(k, 1, Files)
<1> DEFINE D == [i \in DOMAIN snaps |-> i]
           Def(f) == f = [s \in SUBSET (DOMAIN D) |->
                             IF s = {} THEN Files
                             ELSE LET x == Max(s) IN Unwind(k, D[x], f[s \ {x}])]
           F == CHOOSE f : Def(f)
<1>1. DOMAIN D = {1} /\ D[1] = 1
  OBVIOUS
<1>2. Max({1}) = 1
  BY DEF Max
<1>3. \E f : Def(f)
  <2> DEFINE g == [s \in SUBSET {1} |-> IF s = {} THEN Files ELSE Unwind(k, 1, Files)]
  <2>1. \A s \in SUBSET {1} :
           g[s] = IF s = {} THEN Files ELSE LET x == Max(s) IN Unwind(k, D[x], g[s \ {x}])
    <3> TAKE s \in SUBSET {1}
    <3>1. CASE s = {}
      BY <3>1
    <3>2. CASE s = {1}
      <4>1. s \ {Max(s)} = {} /\ D[Max(s)] = 1 /\ s # {}
        BY <3>2, <1>1, <1>2
      <4>2. g[{}] = Files /\ g[s] = Unwind(k, 1, Files)
        BY <3>2
      <4> HIDE DEF g, D
      <4> QED
        BY <4>1, <4>2
    <3> QED
      BY <3>1, <3>2
  <2>2. Def(g)
    <3> HIDE DEF D
    <3> QED
      BY <2>1, <1>1
  <2> QED
    BY <2>2
<1>4. Def(F)
  <2> HIDE DEF Def
  <2> QED
    BY <1>3
<1>5. Unwound(k) = F[DOMAIN D]
  BY DEF Unwound, FoldLeft, MapThenFoldSet, Unwind, Files
<1> HIDE DEF F, D
<1>6. F[{}] = Files
  BY <1>4, <1>1
<1>7. F[{1}] = Unwind(k, 1, F[{}])
  <2>1. {1} # {} /\ {1} \ {1} = {} /\ {1} \in SUBSET {1}
    OBVIOUS
  <2> QED
    BY <1>4, <1>1, <1>2, <2>1
<1> QED
  BY <1>1, <1>5, <1>6, <1>7

\* With two snapshots the writers drop the last one, then the one before.
LEMMA UnwoundTwice ==
    ASSUME NEW k, DOMAIN snaps = 1 .. 2
    PROVE  Unwound(k) = Unwind(k, 2, Unwind(k, 1, Files))
<1> DEFINE D == [i \in DOMAIN snaps |-> i]
           Def(f) == f = [s \in SUBSET (DOMAIN D) |->
                             IF s = {} THEN Files
                             ELSE LET x == Max(s) IN Unwind(k, D[x], f[s \ {x}])]
           F == CHOOSE f : Def(f)
           one == Unwind(k, 1, Files)
           two == Unwind(k, 2, Files)
           both == Unwind(k, 2, one)
<1>1. DOMAIN D = {1, 2} /\ D[1] = 1 /\ D[2] = 2
  OBVIOUS
<1>2. Max({1}) = 1 /\ Max({2}) = 2 /\ Max({1, 2}) = 2
  BY DEF Max
<1>3. \E f : Def(f)
  <2> DEFINE g == [s \in SUBSET {1, 2} |->
                      IF s = {} THEN Files
                      ELSE IF s = {1} THEN one ELSE IF s = {2} THEN two ELSE both]
  <2>1. g[{}] = Files /\ g[{1}] = one /\ g[{2}] = two /\ g[{1, 2}] = both
    <3>1. {1, 2} # {} /\ {1, 2} # {1} /\ {1, 2} # {2} /\ {1} # {} /\ {2} # {} /\ {1} # {2}
      OBVIOUS
    <3> HIDE DEF one, two, both
    <3> QED
      BY <3>1
  <2>2. \A s \in SUBSET {1, 2} :
           g[s] = IF s = {} THEN Files ELSE LET x == Max(s) IN Unwind(k, D[x], g[s \ {x}])
    <3> TAKE s \in SUBSET {1, 2}
    <3> HIDE DEF g, D
    <3>1. CASE s = {}
      BY <3>1, <2>1
    <3>2. CASE s = {1}
      <4>1. s \ {Max(s)} = {} /\ D[Max(s)] = 1 /\ s # {}
        BY <3>2, <1>1, <1>2
      <4> QED
        BY <4>1, <3>2, <2>1
    <3>3. CASE s = {2}
      <4>1. s \ {Max(s)} = {} /\ D[Max(s)] = 2 /\ s # {}
        BY <3>3, <1>1, <1>2
      <4> QED
        BY <4>1, <3>3, <2>1
    <3>4. CASE s = {1, 2}
      <4>1. s \ {Max(s)} = {1} /\ D[Max(s)] = 2 /\ s # {}
        BY <3>4, <1>1, <1>2
      <4> QED
        BY <4>1, <3>4, <2>1
    <3> QED
      BY <3>1, <3>2, <3>3, <3>4
  <2>3. Def(g)
    <3> HIDE DEF D, one, two, both
    <3> QED
      BY <2>2, <1>1
  <2> QED
    BY <2>3
<1>4. Def(F)
  <2> HIDE DEF Def
  <2> QED
    BY <1>3
<1>5. Unwound(k) = F[DOMAIN D]
  BY DEF Unwound, FoldLeft, MapThenFoldSet, Unwind, Files
<1> HIDE DEF F, D
<1>6. F[{}] = Files
  BY <1>4, <1>1
<1>7. F[{1}] = Unwind(k, 1, F[{}])
  <2>1. {1} # {} /\ {1} \ {1} = {} /\ {1} \in SUBSET {1, 2}
    OBVIOUS
  <2> QED
    BY <1>4, <1>1, <1>2, <2>1
<1>8. F[{1, 2}] = Unwind(k, 2, F[{1}])
  <2>1. {1, 2} # {} /\ {1, 2} \ {2} = {1} /\ {1, 2} \in SUBSET {1, 2}
    OBVIOUS
  <2> QED
    BY <1>4, <1>1, <1>2, <2>1
<1> QED
  BY <1>1, <1>5, <1>6, <1>7, <1>8


--------------------------------------------------------------------------------
(* What each call leaves *)

SnapshotRecord == [hist : Seq(Steps), travel : Travels, xml : Seq(Steps),
                   periods : Seq(Seq(Steps)), file : Nat]

\* The stack has at most two snapshots, numbered from 1, each well formed.
LEMMA StackFacts ==
    ASSUME TypeOK, StackInv
    PROVE  /\ Len(snaps) \in 0 .. 2 /\ DOMAIN snaps = 1 .. Len(snaps)
           /\ snaps \in Seq(SnapshotRecord)
           /\ \A i \in 1 .. Len(snaps) : snaps[i] \in SnapshotRecord
           /\ snaps = <<>> <=> Len(snaps) = 0
<1>1. snaps \in Seq(SnapshotRecord)
  BY DEF TypeOK, SnapshotRecord
<1>2. Len(snaps) \in Nat /\ DOMAIN snaps = 1 .. Len(snaps)
  BY <1>1, LenProperties
<1>3. \A i \in 1 .. Len(snaps) : snaps[i] \in SnapshotRecord
  BY <1>1, ElementOfSeq
<1>4. Len(snaps) <= 2
  BY DEF StackInv
<1>5. snaps = <<>> <=> Len(snaps) = 0
  BY <1>1, EmptySeq
<1> QED
  BY <1>1, <1>2, <1>3, <1>4, <1>5

\* The histories and documents of the snapshots are sequences.
LEMMA RecordFacts ==
    ASSUME NEW s \in SnapshotRecord
    PROVE  /\ s.hist \in Seq(Steps) /\ s.travel \in Travels /\ s.xml \in Seq(Steps)
           /\ s.periods \in Seq(Seq(Steps)) /\ s.file \in Nat
           /\ Len(s.hist) \in Nat
<1>1. s.hist \in Seq(Steps) /\ s.travel \in Travels /\ s.xml \in Seq(Steps)
      /\ s.periods \in Seq(Seq(Steps)) /\ s.file \in Nat
  BY DEF SnapshotRecord
<1> QED
  BY <1>1, LenProperties

\* The files, as a record.
FilesRecord(g) == g = [xml |-> g.xml, periods |-> g.periods, csv |-> g.csv, disk |-> g.disk]

\* The files u after snapshot i is unwound from the files g, validated if i < k.
After(k, i, g, u) ==
    /\ FilesRecord(u)
    /\ u.disk = Removed(g.disk, snaps[i].file)
    /\ ~(i < k) => u.xml = g.xml /\ u.periods = g.periods /\ u.csv = g.csv
    /\ i < k /\ 0 \in DOMAIN g.disk =>
          /\ u.xml = g.xml \o snaps[i].xml
          /\ u.periods = g.periods \o snaps[i].periods
          /\ u.csv = g.csv \o g.disk[0]

\* What dropping one snapshot does to the files, in one fact.
LEMMA UnwindEffect ==
    ASSUME NEW k \in Nat, NEW i \in Nat, NEW g, FilesRecord(g), NEW u, u = Unwind(k, i, g)
    PROVE  After(k, i, g, u)
<1> DEFINE X == g.xml \o snaps[i].xml
           P == g.periods \o snaps[i].periods
           C == IF 0 \in DOMAIN g.disk THEN g.csv \o g.disk[0] ELSE g.csv
           rem == Removed(g.disk, snaps[i].file)
           v == ValidateTempFiles(g, snaps[i])
<1>1. v = [g EXCEPT !.xml = X, !.periods = P, !.csv = C]
  BY DEF ValidateTempFiles
<1>2. v = [xml |-> X, periods |-> P, csv |-> C, disk |-> g.disk]
  <2> HIDE DEF X, P, C, v
  <2> QED
    BY <1>1 DEF FilesRecord
<1>3. CASE i < k
  <2>1. u = DiscardTempFiles(v, snaps[i])
    BY <1>3 DEF Unwind
  <2> HIDE DEF X, P, C, v
  <2>2. u = [xml |-> X, periods |-> P, csv |-> C, disk |-> rem]
    BY <2>1, <1>2 DEF DiscardTempFiles
  <2>3. u.xml = X /\ u.periods = P /\ u.csv = C /\ u.disk = rem /\ FilesRecord(u)
    BY <2>2 DEF FilesRecord
  <2> QED
    BY <2>3, <1>3 DEF X, P, C, After
<1>4. CASE ~(i < k)
  <2>1. u = DiscardTempFiles(g, snaps[i])
    BY <1>4 DEF Unwind
  <2>2. u = [xml |-> g.xml, periods |-> g.periods, csv |-> g.csv, disk |-> rem]
    BY <2>1 DEF DiscardTempFiles, FilesRecord
  <2>3. u.xml = g.xml /\ u.periods = g.periods /\ u.csv = g.csv /\ u.disk = rem /\ FilesRecord(u)
    BY <2>2 DEF FilesRecord
  <2> QED
    BY <2>3, <1>4 DEF After
<1> QED
  BY <1>3, <1>4

\* The files as they are before any snapshot is dropped.
LEMMA FilesFacts ==
    FilesRecord(Files) /\ Files.xml = xmlMain /\ Files.periods = ttMain
    /\ Files.csv = csvMain /\ Files.disk = disk
  BY DEF Files, FilesRecord

\* Going back to the first snapshot drops what is under it.
LEMMA RollbackToFirst ==
    ASSUME TypeOK, StackInv, SimulationRollback(1)
    PROVE  /\ xmlMain' = xmlMain /\ csvMain' = csvMain /\ ttMain' = ttMain
           /\ DOMAIN disk' = {0} /\ disk'[0] = <<>>
           /\ Len(snaps) \in 1 .. 2 /\ snaps[1] \in SnapshotRecord
<1>1. Len(snaps) \in 1 .. 2 /\ DOMAIN snaps = 1 .. Len(snaps) /\ snaps[1] \in SnapshotRecord
  BY StackFacts DEF SimulationRollback
<1>2. snaps[1].file = 0 /\ (Len(snaps) = 2 => snaps[2].file = 1)
  <2>1. \A i \in 1 .. Len(snaps) : snaps[i].file = i - 1
    BY <1>1 DEF StackInv
  <2>2. 1 \in 1 .. Len(snaps) /\ (Len(snaps) = 2 => 2 \in 1 .. Len(snaps))
    BY <1>1
  <2>3. 1 - 1 = 0 /\ 2 - 1 = 1
    OBVIOUS
  <2> QED
    BY <2>1, <2>2, <2>3
<1>3. DOMAIN disk = {i - 1 : i \in 1 .. Len(snaps)}
  <2>1. DOMAIN disk = {i - 1 : i \in DOMAIN snaps}
    BY DEF StackInv
  <2> QED
    BY <2>1, <1>1
<1> DEFINE one == Unwind(1, 1, Files)
           two == Unwind(1, 2, one)
<1>4. /\ FilesRecord(one) /\ one.disk = Removed(disk, 0)
      /\ one.xml = xmlMain /\ one.periods = ttMain /\ one.csv = csvMain
  <2>1. 1 \in Nat /\ ~(1 < 1)
    OBVIOUS
  <2>2. After(1, 1, Files, one)
    BY <2>1, UnwindEffect, FilesFacts
  <2> HIDE DEF one
  <2> QED
    BY <1>2, <2>1, <2>2, FilesFacts DEF After
<1>5. /\ two.disk = Removed(Removed(disk, 0), snaps[2].file)
      /\ two.xml = xmlMain /\ two.periods = ttMain /\ two.csv = csvMain
  <2>1. 1 \in Nat /\ 2 \in Nat /\ ~(2 < 1)
    OBVIOUS
  <2>2. After(1, 2, one, two)
    <3> HIDE DEF one
    <3> QED
      BY <1>4, <2>1, UnwindEffect
  <2> HIDE DEF one, two
  <2> QED
    BY <1>4, <2>1, <2>2 DEF After
<1>6. /\ xmlMain' = Unwound(1).xml /\ ttMain' = Unwound(1).periods
      /\ csvMain' = Unwound(1).csv /\ disk' = Created(Unwound(1).disk, 0)
  BY DEF SimulationRollback, MainFiles
<1>7. DOMAIN Unwound(1).disk = {} /\ Unwound(1).xml = xmlMain
      /\ Unwound(1).periods = ttMain /\ Unwound(1).csv = csvMain
  <2>1. CASE Len(snaps) = 1
    <3>1. DOMAIN Removed(disk, 0) = {}
      BY <1>3, <2>1 DEF Removed
    <3>2. Unwound(1) = one
      BY <1>1, <2>1, UnwoundOnce
    <3> HIDE DEF one
    <3> QED
      BY <3>1, <3>2, <1>4
  <2>2. CASE Len(snaps) = 2
    <3>1. DOMAIN Removed(Removed(disk, 0), 1) = {}
      BY <1>3, <2>2 DEF Removed
    <3>2. Unwound(1) = two
      BY <1>1, <2>2, UnwoundTwice
    <3> HIDE DEF one, two
    <3> QED
      BY <3>1, <3>2, <1>2, <1>5, <2>2
  <2> QED
    BY <1>1, <2>1, <2>2
<1>8. DOMAIN disk' = {0} /\ disk'[0] = <<>>
  BY <1>6, <1>7 DEF Created
<1> QED
  BY <1>1, <1>6, <1>7, <1>8

\* Going back to the second snapshot keeps what is under the first one.
LEMMA RollbackToSecond ==
    ASSUME TypeOK, StackInv, SimulationRollback(2)
    PROVE  /\ xmlMain' = xmlMain \o snaps[1].xml
           /\ csvMain' = csvMain \o disk[0]
           /\ ttMain' = ttMain \o snaps[1].periods
           /\ DOMAIN disk' = {0} /\ disk'[0] = <<>>
           /\ Len(snaps) = 2 /\ \A i \in 1 .. 2 : snaps[i] \in SnapshotRecord
<1>1. Len(snaps) = 2 /\ DOMAIN snaps = 1 .. 2 /\ \A i \in 1 .. 2 : snaps[i] \in SnapshotRecord
  BY StackFacts DEF SimulationRollback
<1>2. snaps[1].file = 0 /\ snaps[2].file = 1
  BY <1>1 DEF StackInv
<1>3. DOMAIN disk = {i - 1 : i \in 1 .. 2}
  BY <1>1 DEF StackInv
<1>4. 0 \in DOMAIN disk /\ DOMAIN Removed(Removed(disk, 0), 1) = {}
  BY <1>3 DEF Removed
<1> DEFINE one == Unwind(2, 1, Files)
           two == Unwind(2, 2, one)
<1>5. /\ FilesRecord(one) /\ one.disk = Removed(disk, 0)
      /\ one.xml = xmlMain \o snaps[1].xml
      /\ one.periods = ttMain \o snaps[1].periods
      /\ one.csv = csvMain \o disk[0]
  <2>1. 1 \in Nat /\ 2 \in Nat /\ 1 < 2
    OBVIOUS
  <2>2. After(2, 1, Files, one)
    BY <2>1, UnwindEffect, FilesFacts
  <2> HIDE DEF one
  <2> QED
    BY <1>2, <1>4, <2>1, <2>2, FilesFacts DEF After
<1>6. /\ two.disk = Removed(Removed(disk, 0), 1)
      /\ two.xml = one.xml /\ two.periods = one.periods /\ two.csv = one.csv
  <2>1. 2 \in Nat /\ ~(2 < 2)
    OBVIOUS
  <2>2. After(2, 2, one, two)
    <3> HIDE DEF one
    <3> QED
      BY <1>5, <2>1, UnwindEffect
  <2> HIDE DEF one, two
  <2> QED
    BY <1>2, <1>5, <2>1, <2>2 DEF After
<1>7. Unwound(2) = two
  BY <1>1, UnwoundTwice
<1>8. /\ xmlMain' = two.xml /\ ttMain' = two.periods
      /\ csvMain' = two.csv /\ disk' = Created(two.disk, 0)
  <2> HIDE DEF two
  <2> QED
    BY <1>7 DEF SimulationRollback, MainFiles
<1> HIDE DEF one, two
<1>9. DOMAIN two.disk = {}
  BY <1>4, <1>6
<1>10. DOMAIN disk' = {0} /\ disk'[0] = <<>>
  BY <1>8, <1>9 DEF Created
<1> QED
  BY <1>1, <1>5, <1>6, <1>8, <1>10

\* Committing keeps all that is under the only snapshot.
LEMMA CommitOfOne ==
    ASSUME TypeOK, StackInv, SimulationCommit, Len(snaps) = 1
    PROVE  /\ xmlMain' = xmlMain \o snaps[1].xml
           /\ csvMain' = csvMain \o disk[0]
           /\ ttMain' = ttMain \o snaps[1].periods
           /\ DOMAIN disk' = {}
<1>1. DOMAIN snaps = 1 .. 1
  BY StackFacts
<1>2. snaps[1].file = 0
  BY <1>1 DEF StackInv
<1>3. DOMAIN disk = {i - 1 : i \in 1 .. 1}
  BY <1>1 DEF StackInv
<1>4. 0 \in DOMAIN disk /\ DOMAIN Removed(disk, 0) = {}
  BY <1>3 DEF Removed
<1> DEFINE one == Unwind(2, 1, Files)
<1>5. /\ FilesRecord(one) /\ one.disk = Removed(disk, 0)
      /\ one.xml = xmlMain \o snaps[1].xml
      /\ one.periods = ttMain \o snaps[1].periods
      /\ one.csv = csvMain \o disk[0]
  <2>1. 1 \in Nat /\ 2 \in Nat /\ 1 < 2
    OBVIOUS
  <2>2. After(2, 1, Files, one)
    BY <2>1, UnwindEffect, FilesFacts
  <2> HIDE DEF one
  <2> QED
    BY <1>2, <1>4, <2>1, <2>2, FilesFacts DEF After
<1>6. Unwound(Len(snaps) + 1) = one
  <2>1. Len(snaps) + 1 = 2
    OBVIOUS
  <2> QED
    BY <1>1, <2>1, UnwoundOnce
<1> HIDE DEF one
<1> QED
  BY <1>4, <1>5, <1>6 DEF SimulationCommit, MainFiles

--------------------------------------------------------------------------------
(* Parts of histories *)

\* Two histories have the same part wherever they agree.
LEMMA SamePart ==
    ASSUME NEW S, NEW g \in Seq(S), NEW h \in Seq(S), NEW a \in Nat \ {0}, NEW b \in Nat,
           b <= Len(g), b <= Len(h), \A i \in a .. b : g[i] = h[i]
    PROVE  SubSeq(g, a, b) = SubSeq(h, a, b) /\ SubSeq(h, a, b) \in Seq(S)
<1>1. \A i \in a .. b : g[i] \in S /\ h[i] \in S
  <2> TAKE i \in a .. b
  <2>1. i \in 1 .. Len(g) /\ i \in 1 .. Len(h)
    BY LenProperties
  <2> QED
    BY <2>1, ElementOfSeq
<1> DEFINE s == SubSeq(g, a, b)
           t == SubSeq(h, a, b)
           n == b - a + 1
<1>2. /\ s \in Seq(S) /\ t \in Seq(S)
      /\ Len(s) = IF a <= b THEN n ELSE 0
      /\ Len(t) = IF a <= b THEN n ELSE 0
      /\ \A i \in 1 .. n : s[i] = g[a + i - 1] /\ t[i] = h[a + i - 1]
  BY <1>1, SubSeqProperties
<1>3. \A i \in 1 .. Len(s) : s[i] = t[i]
  <2> TAKE i \in 1 .. Len(s)
  <2>1. i \in 1 .. n /\ a + i - 1 \in a .. b
    BY <1>2
  <2> HIDE DEF s, t, n
  <2> QED
    BY <1>2, <2>1
<1> HIDE DEF s, t
<1>4. s = t
  BY <1>2, <1>3, SeqEqual
<1> QED
  BY <1>2, <1>4 DEF s, t

\* A history and the prefix that a snapshot keeps of it.
LEMMA PrefixFacts ==
    ASSUME NEW S, NEW h \in Seq(S), NEW m \in 0 .. Len(h), NEW g, g = SubSeq(h, 1, m)
    PROVE  /\ g \in Seq(S) /\ Len(g) = m
           /\ \A i \in 1 .. m : g[i] = h[i]
<1>1. \A i \in 1 .. m : h[i] \in S
  BY LenProperties, ElementOfSeq
<1>2. m \in Int /\ m - 1 + 1 = m /\ m >= 0
  BY LenProperties
<1>3. /\ g \in Seq(S)
      /\ Len(g) = IF 1 <= m THEN m - 1 + 1 ELSE 0
      /\ \A i \in 1 .. m - 1 + 1 : g[i] = h[1 + i - 1]
  BY <1>1, <1>2, SubSeqProperties
<1> QED
  BY <1>2, <1>3

\* Parts of a longer history, and of a prefix.
LEMMA PartOfPrefix ==
    ASSUME NEW S, NEW h \in Seq(S), NEW m \in 0 .. Len(h),
           NEW a \in Nat \ {0}, NEW b \in Nat, b <= m
    PROVE  SubSeq(SubSeq(h, 1, m), a, b) = SubSeq(h, a, b)
<1> DEFINE g == SubSeq(h, 1, m)
<1>1. g \in Seq(S) /\ Len(g) = m /\ \A i \in 1 .. m : g[i] = h[i]
  BY PrefixFacts
<1>2. \A i \in a .. b : g[i] = h[i]
  BY <1>1
<1>3. b <= Len(g) /\ b <= Len(h)
  BY <1>1, LenProperties
<1> HIDE DEF g
<1>4. SubSeq(g, a, b) = SubSeq(h, a, b)
  BY <1>1, <1>2, <1>3, SamePart
<1> QED
  BY <1>4 DEF g

\* A step more: the parts that end before it are the same, and a part that ends with
\* it has it at its end.
LEMMA PartOfAppend ==
    ASSUME NEW S, NEW h \in Seq(S), NEW x \in S, NEW g, g = Append(h, x)
    PROVE  /\ g \in Seq(S) /\ Len(g) = Len(h) + 1 /\ g[Len(h) + 1] = x
           /\ \A i \in 1 .. Len(h) : g[i] = h[i]
           /\ \A a \in Nat \ {0}, b \in 0 .. Len(h) : SubSeq(g, a, b) = SubSeq(h, a, b)
           /\ \A a \in 1 .. (Len(h) + 1) :
                 SubSeq(g, a, Len(h) + 1) = SubSeq(h, a, Len(h)) \o <<x>>
<1>1. /\ g \in Seq(S) /\ Len(g) = Len(h) + 1 /\ g[Len(h) + 1] = x
      /\ \A i \in 1 .. Len(h) : g[i] = h[i]
  BY AppendProperties
<1>2. ASSUME NEW a \in Nat \ {0}, NEW b \in 0 .. Len(h)
      PROVE  SubSeq(g, a, b) = SubSeq(h, a, b)
  <2>1. b \in Nat /\ b <= Len(g) /\ b <= Len(h) /\ \A i \in a .. b : g[i] = h[i]
    BY <1>1, LenProperties
  <2> QED
    BY <1>1, <2>1, SamePart
<1>3. ASSUME NEW a \in 1 .. (Len(h) + 1)
      PROVE  SubSeq(g, a, Len(h) + 1) = SubSeq(h, a, Len(h)) \o <<x>>
  <2> DEFINE n == Len(h) + 1
  <2>1. n \in Nat /\ n = Len(g) /\ a \in 1 .. Len(g) /\ n \in a .. Len(g) /\ n - 1 = Len(h)
    BY <1>1, LenProperties
  <2>2. SubSeq(g, a, n) = SubSeq(g, a, n - 1) \o <<g[n]>>
    BY <1>1, <2>1, SubSeqRecursiveSecond
  <2>3. SubSeq(g, a, n - 1) = SubSeq(h, a, Len(h))
    BY <1>2, <2>1
  <2> QED
    BY <1>1, <2>1, <2>2, <2>3
<1> QED
  BY <1>1, <1>2, <1>3

--------------------------------------------------------------------------------
(* The stack after each call *)

\* What taking a snapshot does to the stack and to the files.
LEMMA Taken ==
    ASSUME TypeOK, StackInv, TakeSimulationSnapshot, Len(snaps) <= 1
    PROVE  /\ snaps' \in Seq(SnapshotRecord) /\ Len(snaps') = Len(snaps) + 1
           /\ DOMAIN snaps' = 1 .. (Len(snaps) + 1)
           /\ \A i \in 1 .. Len(snaps) : snaps'[i] = snaps[i]
           /\ snaps'[Len(snaps) + 1] = Snapshot(hist, travel, Len(snaps))
           /\ DOMAIN disk' = {i - 1 : i \in 1 .. (Len(snaps) + 1)}
           /\ \A i \in 1 .. Len(snaps) : i - 1 \in DOMAIN disk /\ disk'[i - 1] = disk[i - 1]
           /\ disk'[Len(snaps)] = <<>>
<1> DEFINE x == Snapshot(hist, travel, Len(snaps))
<1>1. Len(snaps) \in 0 .. 2 /\ DOMAIN snaps = 1 .. Len(snaps) /\ snaps \in Seq(SnapshotRecord)
  BY StackFacts
<1>2. x \in SnapshotRecord
  <2>1. hist \in Seq(Steps) /\ travel \in Travels /\ Len(snaps) \in Nat
        /\ <<>> \in Seq(Steps) /\ <<>> \in Seq(Seq(Steps))
    BY <1>1 DEF TypeOK
  <2> QED
    BY <2>1 DEF Snapshot, SnapshotRecord
<1> HIDE DEF x
<1>3. snaps' = Append(snaps, x)
  BY DEF TakeSimulationSnapshot, x
<1>4. /\ snaps' \in Seq(SnapshotRecord) /\ Len(snaps') = Len(snaps) + 1
      /\ \A i \in 1 .. Len(snaps) : snaps'[i] = snaps[i]
      /\ snaps'[Len(snaps) + 1] = x
  BY <1>1, <1>2, <1>3, AppendProperties
<1>5. DOMAIN snaps' = 1 .. (Len(snaps) + 1)
  BY <1>4, LenProperties
<1>6. DOMAIN disk = {i - 1 : i \in 1 .. Len(snaps)}
  <2>1. DOMAIN disk = {i - 1 : i \in DOMAIN snaps}
    BY DEF StackInv
  <2> QED
    BY <2>1, <1>1
<1>7. disk' = [j \in DOMAIN disk \cup {Len(snaps)} |->
                 IF j = Len(snaps) THEN <<>> ELSE disk[j]]
  BY DEF TakeSimulationSnapshot, Created
<1>8. DOMAIN disk' = {i - 1 : i \in 1 .. (Len(snaps) + 1)}
  <2>1. DOMAIN disk' = DOMAIN disk \cup {Len(snaps)}
    BY <1>7
  <2> QED
    BY <2>1, <1>6, <1>1
<1>9. disk'[Len(snaps)] = <<>>
  BY <1>7
<1>10. ASSUME NEW i \in 1 .. Len(snaps)
       PROVE  i - 1 \in DOMAIN disk /\ disk'[i - 1] = disk[i - 1]
  <2>1. i - 1 \in DOMAIN disk /\ i - 1 # Len(snaps)
    BY <1>1, <1>6
  <2> QED
    BY <1>7, <2>1
<1> QED
  BY <1>4, <1>5, <1>8, <1>9, <1>10 DEF x

\* The stack of one snapshot that a rollback leaves.
LEMMA Restored ==
    ASSUME TypeOK, NEW k \in 1 .. 2, SimulationRollback(k), snaps[k] \in SnapshotRecord
    PROVE  /\ hist' = snaps[k].hist /\ travel' = snaps[k].travel /\ hist' \in Seq(Steps)
           /\ travel' \in Travels
           /\ snaps' \in Seq(SnapshotRecord) /\ Len(snaps') = 1 /\ DOMAIN snaps' = {1}
           /\ snaps'[1] = Snapshot(hist', travel', 0)
           /\ cur' = 1 /\ ~finished /\ finished' = finished
           /\ rollbacks' = rollbacks + 1 /\ rollbacks' \in 0 .. MaxRollbacks
<1>1. /\ hist' = snaps[k].hist /\ travel' = snaps[k].travel
      /\ cur' = 1 /\ ~finished /\ finished' = finished
      /\ rollbacks' = rollbacks + 1 /\ rollbacks < MaxRollbacks
      /\ snaps' = <<Snapshot(snaps[k].hist, snaps[k].travel, 0)>>
  BY DEF SimulationRollback, RestoredTravel, FirstPlace
<1>2. hist' \in Seq(Steps) /\ travel' \in Travels
  BY <1>1, RecordFacts
<1> DEFINE x == Snapshot(hist', travel', 0)
<1>3. x \in SnapshotRecord
  <2>1. <<>> \in Seq(Steps) /\ <<>> \in Seq(Seq(Steps)) /\ 0 \in Nat
    OBVIOUS
  <2> QED
    BY <1>2, <2>1 DEF Snapshot, SnapshotRecord
<1>4. snaps' = <<x>>
  BY <1>1
<1> HIDE DEF x
<1>5. snaps' \in Seq(SnapshotRecord) /\ Len(snaps') = 1 /\ DOMAIN snaps' = {1} /\ snaps'[1] = x
  BY <1>3, <1>4
<1>6. rollbacks' \in 0 .. MaxRollbacks
  BY <1>1, Constants DEF TypeOK
<1> QED
  BY <1>1, <1>2, <1>5, <1>6 DEF x

\* The step that TimeStep simulates, and its row in the XML documents.
TheStep == [n |-> Len(hist) + 1, attempt |-> rollbacks, out |-> trajOut]
TheRow == IF trajOut THEN <<TheStep>> ELSE <<>>
ThePeriods == WrittenAt(Len(hist) + 1, TheStep)

\* The step has its type, and so has its XML row, written only when trajectories
\* are output.
LEMMA StepFacts ==
    ASSUME TypeOK
    PROVE  /\ TheStep \in Steps /\ TheStep.out = trajOut /\ TheStep.n = Len(hist) + 1
           /\ TheRow \in Seq(Steps)
           /\ Gathered(TheStep) \in Seq(Steps)
           /\ ThePeriods \in Seq(Seq(Steps))
           /\ TravelAfter(Len(hist) + 1, TheStep) \in Travels
<1>1. /\ hist \in Seq(Steps) /\ Len(hist) \in Nat /\ rollbacks \in Nat /\ trajOut \in BOOLEAN
      /\ travel \in Travels /\ travel.data \in Seq(Steps) /\ travel.period \in Nat
  BY LenProperties DEF TypeOK, Travels
<1>2. TheStep \in Steps /\ TheStep.out = trajOut /\ TheStep.n = Len(hist) + 1
  BY <1>1 DEF TheStep, Steps
<1> DEFINE x == TheStep
<1>3. TheRow \in Seq(Steps)
  <2>1. <<x>> \in Seq(Steps) /\ <<>> \in Seq(Steps)
    <3> HIDE DEF x
    <3> QED
      BY <1>2 DEF x
  <2> QED
    BY <2>1 DEF TheRow
<1>4. Gathered(TheStep) \in Seq(Steps)
  BY <1>1, <1>2, AppendProperties DEF Gathered
<1>5. ThePeriods \in Seq(Seq(Steps))
  <2> DEFINE g == Gathered(TheStep)
  <2>1. <<g>> \in Seq(Seq(Steps)) /\ <<>> \in Seq(Seq(Steps))
    <3> HIDE DEF g
    <3> QED
      BY <1>4 DEF g
  <2> QED
    BY <2>1 DEF ThePeriods, WrittenAt
<1>6. TravelAfter(Len(hist) + 1, TheStep) \in Travels
  <2> DEFINE g == Gathered(TheStep)
             p == travel.period
  <2>1. [period |-> p + 1, data |-> <<>>] \in Travels
    <3>1. p + 1 \in Nat /\ <<>> \in Seq(Steps)
      BY <1>1
    <3> QED
      BY <3>1 DEF Travels
  <2>2. [travel EXCEPT !.data = g] \in Travels
    <3> HIDE DEF g
    <3> QED
      BY <1>1, <1>4 DEF g, Travels
  <2> QED
    BY <2>1, <2>2 DEF TravelAfter
<1> QED
  BY <1>2, <1>3, <1>4, <1>5, <1>6

\* A time step in an iteration writes in the documents of the last snapshot only.
LEMMA Stepped ==
    ASSUME TypeOK, StackInv, began, TimeStep, NEW n, n = Len(snaps)
    PROVE  /\ n \in 1 .. 2 /\ cur = n /\ ~finished
           /\ hist' = Append(hist, TheStep)
           /\ travel' = TravelAfter(Len(hist) + 1, TheStep)
           /\ xmlMain' = xmlMain /\ csvMain' = csvMain /\ ttMain' = ttMain
           /\ snaps' \in Seq(SnapshotRecord) /\ Len(snaps') = n /\ DOMAIN snaps' = 1 .. n
           /\ \A i \in 1 .. n : i # n => snaps'[i] = snaps[i]
           /\ \A i \in 1 .. n : /\ snaps'[i].hist = snaps[i].hist
                                /\ snaps'[i].travel = snaps[i].travel
                                /\ snaps'[i].file = snaps[i].file
           /\ snaps'[n].xml = snaps[n].xml \o TheRow
           /\ snaps'[n].periods = snaps[n].periods \o ThePeriods
           /\ DOMAIN disk' = DOMAIN disk /\ n - 1 \in DOMAIN disk
           /\ disk'[n - 1] = Append(disk[n - 1], TheStep)
           /\ \A j \in DOMAIN disk : j # n - 1 => disk'[j] = disk[j]
<1>1. n \in 1 .. 2 /\ cur = n /\ DOMAIN snaps = 1 .. n /\ ~finished /\ cur # 0 /\ snaps # <<>>
  <2>1. n \in 1 .. 2 /\ DOMAIN snaps = 1 .. n /\ snaps # <<>>
    BY StackFacts DEF StackInv
  <2>2. ~finished /\ cur = n
    BY DEF StackInv
  <2> QED
    BY <2>1, <2>2
<1>2. snaps \in Seq(SnapshotRecord) /\ snaps[n] \in SnapshotRecord /\ snaps[n].file = n - 1
  <2>1. n \in 1 .. n
    BY <1>1
  <2> QED
    BY <1>1, <2>1, StackFacts DEF StackInv
<1> DEFINE row == TheRow
           periods == ThePeriods
           X == snaps[n].xml \o row
           P == snaps[n].periods \o periods
           r1 == [snaps[n] EXCEPT !.periods = P]
           r2 == [r1 EXCEPT !.xml = X]
           docs == [snaps EXCEPT ![n] = r1]
           C == Append(disk[n - 1], TheStep)
<1>3. /\ hist' = Append(hist, TheStep)
      /\ ttMain' = PeriodsToMain(periods)
      /\ xmlMain' = xmlMain
      /\ snaps' = [PeriodsTo(snaps, periods) EXCEPT ![n].xml = @ \o row]
      /\ travel' = TravelAfter(Len(hist) + 1, TheStep)
      /\ disk' = [disk EXCEPT ![snaps[cur].file] = Append(@, TheStep)] /\ csvMain' = csvMain
  BY <1>1 DEF TimeStep, TheStep, TheRow, ThePeriods
<1>4. ttMain' = ttMain
  BY <1>1, <1>3 DEF PeriodsToMain
<1>5. PeriodsTo(snaps, periods) = docs
  BY <1>1 DEF PeriodsTo
<1>6. X \in Seq(Steps) /\ P \in Seq(Seq(Steps))
  BY <1>2, StepFacts, RecordFacts, ConcatProperties
<1>7. docs[n] = r1 /\ r1.xml = snaps[n].xml
  <2>1. n \in DOMAIN snaps
    BY <1>1
  <2>2. docs[n] = r1
    <3> HIDE DEF r1
    <3> QED
      BY <2>1
  <2>3. r1.xml = snaps[n].xml
    <3> HIDE DEF P
    <3> QED
      BY <1>2 DEF SnapshotRecord
  <2> QED
    BY <2>2, <2>3
<1>8. snaps' = [docs EXCEPT ![n] = r2]
  <2>1. docs[n].xml \o row = X
    BY <1>7
  <2>2. snaps' = [docs EXCEPT ![n] = [docs[n] EXCEPT !.xml = docs[n].xml \o row]]
    <3> HIDE DEF docs, row
    <3> QED
      BY <1>3, <1>5
  <2> HIDE DEF docs, X, row, r1
  <2> QED
    BY <2>1, <2>2, <1>7
<1>9. r1 \in SnapshotRecord /\ r2 \in SnapshotRecord
  <2> HIDE DEF X, P
  <2> QED
    BY <1>2, <1>6 DEF SnapshotRecord
<1>10. /\ r2.hist = snaps[n].hist /\ r2.travel = snaps[n].travel /\ r2.file = snaps[n].file
       /\ r2.xml = X /\ r2.periods = P
  <2> HIDE DEF X, P
  <2> QED
    BY <1>2 DEF SnapshotRecord
<1>11. /\ snaps' \in Seq(SnapshotRecord) /\ Len(snaps') = n
       /\ \A i \in 1 .. n : snaps'[i] = IF i = n THEN r2 ELSE snaps[i]
  <2> HIDE DEF r1, r2
  <2>1. /\ docs \in Seq(SnapshotRecord) /\ Len(docs) = n
        /\ \A i \in 1 .. n : docs[i] = IF i = n THEN r1 ELSE snaps[i]
    BY <1>1, <1>2, <1>9, ExceptSeq
  <2> HIDE DEF docs
  <2>2. n \in 1 .. Len(docs)
    BY <2>1, <1>1
  <2>3. /\ snaps' \in Seq(SnapshotRecord) /\ Len(snaps') = Len(docs)
        /\ \A i \in 1 .. Len(docs) : snaps'[i] = IF i = n THEN r2 ELSE docs[i]
    BY <1>8, <1>9, <2>1, <2>2, ExceptSeq
  <2> QED
    BY <2>1, <2>3
<1>12. DOMAIN snaps' = 1 .. n
  BY <1>11, LenProperties
<1> HIDE DEF r2
<1>13. \A i \in 1 .. n : i # n => snaps'[i] = snaps[i]
  BY <1>11
<1>14. snaps'[n] = r2
  BY <1>11, <1>1
<1>15. ASSUME NEW i \in 1 .. n
       PROVE  /\ snaps'[i].hist = snaps[i].hist /\ snaps'[i].travel = snaps[i].travel
              /\ snaps'[i].file = snaps[i].file
  BY <1>10, <1>11
<1>16. snaps'[n].xml = snaps[n].xml \o TheRow
       /\ snaps'[n].periods = snaps[n].periods \o ThePeriods
  BY <1>10, <1>14
<1>17. n - 1 \in DOMAIN disk
  <2>1. DOMAIN disk = {i - 1 : i \in DOMAIN snaps}
    BY DEF StackInv
  <2> QED
    BY <2>1, <1>1
<1>18. disk' = [disk EXCEPT ![n - 1] = C]
  <2>1. snaps[cur].file = n - 1
    BY <1>1, <1>2
  <2> HIDE DEF row
  <2> QED
    BY <1>3, <2>1
<1>19. /\ DOMAIN disk' = DOMAIN disk
       /\ disk'[n - 1] = Append(disk[n - 1], TheStep)
       /\ \A j \in DOMAIN disk : j # n - 1 => disk'[j] = disk[j]
  <2> HIDE DEF C
  <2>1. disk'[n - 1] = C
    BY <1>17, <1>18
  <2>2. DOMAIN disk' = DOMAIN disk /\ \A j \in DOMAIN disk : j # n - 1 => disk'[j] = disk[j]
    BY <1>18
  <2> QED
    BY <2>1, <2>2 DEF C
<1> HIDE DEF X, P, r1, docs, C, row, periods
<1> QED
  BY <1>1, <1>3, <1>4, <1>11, <1>12, <1>13, <1>15, <1>16, <1>17, <1>19

--------------------------------------------------------------------------------
(* Each call keeps the history, the documents and the types *)

\* In a stack of two at most, a place other than the last one is the first of two.
LEMMA FirstOfTwo ==
    ASSUME NEW n \in 1 .. 2, NEW i \in 1 .. n, i # n
    PROVE  i = 1 /\ n = 2 /\ 2 \in 1 .. n
  OBVIOUS

\* Where the parts of the history lie.
LEMMA Places ==
    ASSUME TypeOK, StackInv, HistInv
    PROVE  /\ hist \in Seq(Steps) /\ Len(hist) \in Nat /\ DOMAIN hist = 1 .. Len(hist)
           /\ \A i \in 1 .. Len(snaps) :
                 /\ Kept(i) \in Nat /\ Upto(i) \in Nat
                 /\ Kept(i) <= Upto(i) /\ Upto(i) <= Len(hist)
                 /\ snaps[i].hist = SubSeq(hist, 1, Kept(i))
                 /\ \A j \in 1 .. Kept(i) : snaps[i].hist[j] = hist[j]
           /\ Len(snaps) > 0 => Base = snaps[1].hist /\ Len(Base) = Kept(1)
           /\ Len(snaps) = 0 => Base = hist
           /\ Len(snaps) = 1 => Upto(1) = Len(hist)
           /\ Len(snaps) = 2 => Upto(1) = Kept(2) /\ Upto(2) = Len(hist)
           /\ Len(Base) \in 0 .. Len(hist)
<1>1. hist \in Seq(Steps) /\ Len(hist) \in Nat /\ DOMAIN hist = 1 .. Len(hist)
  BY LenProperties DEF TypeOK
<1>2. /\ Len(snaps) \in 0 .. 2 /\ DOMAIN snaps = 1 .. Len(snaps)
      /\ \A i \in 1 .. Len(snaps) : snaps[i] \in SnapshotRecord
      /\ snaps = <<>> <=> Len(snaps) = 0
  BY StackFacts
<1>3. \A i \in 1 .. Len(snaps) : Kept(i) \in Nat
  BY <1>2, RecordFacts DEF Kept
<1>4. \A i \in 1 .. Len(snaps) : Kept(i) <= Upto(i) /\ snaps[i].hist = SubSeq(hist, 1, Kept(i))
  BY <1>2 DEF HistInv
<1>5. /\ Len(snaps) = 1 => Upto(1) = Len(hist)
      /\ Len(snaps) = 2 => Upto(1) = Kept(2) /\ Upto(2) = Len(hist)
  BY DEF Upto
<1>6. ASSUME NEW i \in 1 .. Len(snaps)
      PROVE  Upto(i) \in Nat /\ Upto(i) <= Len(hist)
  <2>1. CASE Len(snaps) = 1
    BY <1>1, <1>5, <2>1
  <2>2. CASE Len(snaps) = 2
    <3>1. Kept(2) \in Nat /\ Kept(2) <= Upto(2)
      BY <1>3, <1>4, <2>2
    <3>2. i = 1 \/ i = 2
      BY <2>2
    <3> QED
      BY <1>1, <1>5, <2>2, <3>1, <3>2
  <2> QED
    BY <1>2, <2>1, <2>2
<1>7. ASSUME NEW i \in 1 .. Len(snaps)
      PROVE  \A j \in 1 .. Kept(i) : snaps[i].hist[j] = hist[j]
  <2>1. Kept(i) \in 0 .. Len(hist)
    BY <1>1, <1>3, <1>4, <1>6
  <2> QED
    BY <1>1, <1>4, <2>1, PrefixFacts
<1>8. /\ Len(snaps) > 0 => Base = snaps[1].hist /\ Len(Base) = Kept(1)
      /\ Len(snaps) = 0 => Base = hist
  BY <1>2 DEF Base, Kept
<1>9. Len(Base) \in 0 .. Len(hist)
  <2>1. CASE Len(snaps) = 0
    BY <1>1, <1>8, <2>1
  <2>2. CASE Len(snaps) > 0
    <3>1. 1 \in 1 .. Len(snaps)
      BY <1>2, <2>2
    <3>2. Kept(1) \in Nat /\ Kept(1) <= Upto(1) /\ Upto(1) <= Len(hist) /\ Upto(1) \in Nat
      BY <1>3, <1>4, <1>6, <3>1
    <3> QED
      BY <1>1, <1>8, <2>2, <3>2
  <2> QED
    BY <1>2, <2>1, <2>2
<1> QED
  BY <1>1, <1>3, <1>4, <1>5, <1>6, <1>7, <1>8, <1>9

\* Taking a snapshot (Affectation::TakeSimulationSnapshot) keeps the histories and the documents.
LEMMA TakeKeeps ==
    ASSUME TypeOK, StackInv, HistInv, DocsInv, TakeSimulationSnapshot, Len(snaps) <= 1,
           trajOut' \in BOOLEAN, snaps = <<>> \/ trajOut' = trajOut,
           NEW n \in Nat, n = Len(snaps)
    PROVE  /\ TypeOK' /\ HistInv' /\ DocsInv' /\ Base' = Base
           /\ \A i \in 1 .. n : Kept(i)' = Kept(i) /\ Upto(i)' = Upto(i)
           /\ Kept(n + 1)' = Len(hist) /\ Upto(n + 1)' = Len(hist)
<1>1. /\ snaps' \in Seq(SnapshotRecord) /\ Len(snaps') = n + 1
      /\ DOMAIN snaps' = 1 .. (n + 1)
      /\ \A i \in 1 .. n : snaps'[i] = snaps[i]
      /\ snaps'[n + 1] = Snapshot(hist, travel, n)
      /\ DOMAIN disk' = {i - 1 : i \in 1 .. (n + 1)}
      /\ \A i \in 1 .. n : i - 1 \in DOMAIN disk /\ disk'[i - 1] = disk[i - 1]
      /\ disk'[n] = <<>>
  BY Taken
<1>2. /\ hist' = hist /\ xmlMain' = xmlMain /\ csvMain' = csvMain /\ travel' = travel
      /\ ttMain' = ttMain /\ rollbacks' = rollbacks /\ finished' = finished /\ cur' = n + 1
  BY DEF TakeSimulationSnapshot
<1>3. /\ hist \in Seq(Steps) /\ Len(hist) \in Nat /\ DOMAIN hist = 1 .. Len(hist)
      /\ n \in 0 .. 1 /\ (snaps = <<>> <=> n = 0)
  BY Places, StackFacts
<1>4. /\ snaps'[n + 1].hist = hist /\ snaps'[n + 1].xml = <<>>
      /\ snaps'[n + 1].periods = <<>> /\ snaps'[n + 1].travel = travel
  BY <1>1 DEF Snapshot
<1>5. \A i \in 1 .. n : Kept(i)' = Kept(i)
  BY <1>1 DEF Kept
<1>6. Kept(n + 1)' = Len(hist) /\ Upto(n + 1)' = Len(hist)
  BY <1>1, <1>2, <1>4 DEF Kept, Upto
<1>7. \A i \in 1 .. n : Upto(i)' = Upto(i)
  <2> TAKE i \in 1 .. n
  <2>1. i = 1 /\ n = 1
    BY <1>3
  <2>2. Upto(1)' = Kept(2)'
    BY <1>1, <2>1 DEF Upto
  <2>3. Kept(2)' = Len(hist) /\ Upto(1) = Len(hist)
    BY <1>6, <2>1 DEF Upto
  <2> QED
    BY <2>1, <2>2, <2>3
<1>8. Base' = Base
  <2>1. snaps' # <<>>
    BY <1>1, <1>3, EmptySeq
  <2>2. Base' = snaps'[1].hist
    BY <2>1 DEF Base
  <2>3. CASE n = 0
    BY <1>3, <1>4, <2>2, <2>3 DEF Base
  <2>4. CASE n = 1
    BY <1>1, <1>3, <2>2, <2>4 DEF Base
  <2> QED
    BY <1>3, <2>3, <2>4
<1>9. TypeOK'
  <2>1. \A idx \in DOMAIN disk' : idx \in Nat /\ disk'[idx] \in Seq(Steps)
    <3> TAKE idx \in DOMAIN disk'
    <3>1. PICK i \in 1 .. (n + 1) : idx = i - 1
      BY <1>1
    <3>2. CASE i = n + 1
      <4>1. disk'[idx] = <<>> /\ idx \in Nat
        BY <1>1, <1>3, <3>1, <3>2
      <4> QED
        BY <4>1
    <3>3. CASE i # n + 1
      <4>1. i \in 1 .. n
        BY <1>3, <3>3
      <4> QED
        BY <1>1, <3>1, <4>1 DEF TypeOK
    <3> QED
      BY <3>2, <3>3
  <2>2. cur' \in 0 .. Len(snaps')
    BY <1>1, <1>2, <1>3
  <2>3. snaps' \in Seq([hist : Seq(Steps), travel : Travels, xml : Seq(Steps),
                        periods : Seq(Seq(Steps)), file : Nat])
    BY <1>1 DEF SnapshotRecord
  <2> QED
    BY <1>2, <2>1, <2>2, <2>3 DEF TypeOK
<1>10. HistInv'
  <2>1. ASSUME NEW i \in 1 .. (n + 1)
        PROVE  Kept(i)' <= Upto(i)' /\ snaps'[i].hist = SubSeq(hist, 1, Kept(i)')
    <3>1. CASE i = n + 1
      <4>1. SubSeq(hist, 1, Len(hist)) = hist
        BY <1>3, SubSeqFull
      <4> QED
        BY <1>3, <1>4, <1>6, <3>1, <4>1
    <3>2. CASE i # n + 1
      <4>1. i \in 1 .. n
        BY <1>3, <3>2
      <4> QED
        BY <1>1, <1>5, <1>7, <4>1, Places
    <3> QED
      BY <3>1, <3>2
  <2>2. ASSUME NEW i \in 1 .. Len(hist)
        PROVE  hist[i].out = (i <= Len(Base) \/ trajOut')
    <3>1. hist[i].out = (i <= Len(Base) \/ trajOut)
      BY <1>3 DEF HistInv
    <3>2. snaps = <<>> => i <= Len(Base)
      BY <1>3 DEF Base
    <3> QED
      BY <3>1, <3>2
  <2> QED
    BY <1>1, <1>2, <1>3, <1>8, <2>1, <2>2 DEF HistInv
<1>11. DocsInv'
  <2>1. ASSUME NEW i \in 1 .. (n + 1)
        PROVE  /\ snaps'[i].xml
                     = IF trajOut' THEN SubSeq(hist, Kept(i)' + 1, Upto(i)') ELSE <<>>
               /\ disk'[i - 1] = SubSeq(hist, Kept(i)' + 1, Upto(i)')
    <3>1. CASE i = n + 1
      <4>1. SubSeq(hist, Len(hist) + 1, Len(hist)) = <<>>
        BY <1>3, SubSeqEmpty
      <4>2. disk'[i - 1] = <<>>
        BY <1>1, <1>3, <3>1
      <4> QED
        BY <1>4, <1>6, <3>1, <4>1, <4>2
    <3>2. CASE i # n + 1
      <4>1. i \in 1 .. n /\ trajOut' = trajOut
        BY <1>3, <3>2
      <4>2. /\ snaps[i].xml = IF trajOut THEN SubSeq(hist, Kept(i) + 1, Upto(i)) ELSE <<>>
            /\ disk[i - 1] = SubSeq(hist, Kept(i) + 1, Upto(i))
        BY <4>1, StackFacts DEF DocsInv
      <4> QED
        BY <1>1, <1>5, <1>7, <4>1, <4>2
    <3> QED
      BY <3>1, <3>2
  <2>2. xmlMain' = Base /\ csvMain' = Base
    BY <1>2 DEF DocsInv
  <2> QED
    BY <1>1, <1>2, <1>8, <2>1, <2>2 DEF DocsInv
<1> QED
  BY <1>5, <1>6, <1>7, <1>8, <1>9, <1>10, <1>11

\* Outputs are switched between two iterations, when nothing follows the snapshot.
LEMMA SwitchKeeps ==
    ASSUME TypeOK, StackInv, HistInv, DocsInv, ~began, UNCHANGED stackVars,
           trajOut' \in BOOLEAN
    PROVE  TypeOK' /\ HistInv' /\ DocsInv'
<1>1. /\ hist' = hist /\ snaps' = snaps /\ xmlMain' = xmlMain /\ csvMain' = csvMain
      /\ disk' = disk /\ cur' = cur /\ travel' = travel /\ ttMain' = ttMain
      /\ rollbacks' = rollbacks /\ finished' = finished
  BY DEF stackVars
<1>2. \A i : Kept(i)' = Kept(i) /\ Upto(i)' = Upto(i)
  BY <1>1 DEF Kept, Upto
<1>3. Base' = Base /\ hist = Base
  BY <1>1 DEF Base, StackInv
<1>4. TypeOK'
  BY <1>1 DEF TypeOK
<1>5. HistInv'
  <2>1. \A i \in DOMAIN hist : i <= Len(Base)
    BY <1>3, Places
  <2>2. \A i \in DOMAIN hist : hist[i].out = TRUE
    BY <2>1 DEF HistInv
  <2>3. \A i \in DOMAIN snaps : Kept(i) <= Upto(i) /\ snaps[i].hist = SubSeq(hist, 1, Kept(i))
    BY DEF HistInv
  <2> QED
    BY <1>1, <1>2, <1>3, <2>1, <2>2, <2>3 DEF HistInv
<1>6. DocsInv'
  <2>1. ASSUME NEW i \in DOMAIN snaps
        PROVE  /\ snaps[i].xml = IF trajOut' THEN SubSeq(hist, Kept(i) + 1, Upto(i)) ELSE <<>>
               /\ disk[i - 1] = SubSeq(hist, Kept(i) + 1, Upto(i))
    <3>1. Len(snaps) = 1 /\ i = 1
      <4>1. i \in 1 .. Len(snaps) /\ Len(snaps) \in 0 .. 2
        BY StackFacts
      <4>2. Len(snaps) <= 1
        BY DEF StackInv
      <4> QED
        BY <4>1, <4>2
    <3>2. Kept(i) = Len(hist) /\ Upto(i) = Len(hist) /\ Len(hist) \in Nat
      BY <1>3, <3>1, Places
    <3>3. SubSeq(hist, Kept(i) + 1, Upto(i)) = <<>>
      BY <3>2, SubSeqEmpty
    <3> QED
      BY <3>3 DEF DocsInv
  <2>2. xmlMain = Base /\ csvMain = Base
    BY DEF DocsInv
  <2> QED
    BY <1>1, <1>2, <1>3, <2>1, <2>2 DEF DocsInv
<1> QED
  BY <1>4, <1>5, <1>6

\* A time step keeps them: its rows go to the last snapshot.
LEMMA StepKeeps ==
    ASSUME TypeOK, StackInv, HistInv, DocsInv, began, TimeStep, NEW n, n = Len(snaps)
    PROVE  /\ TypeOK' /\ HistInv' /\ DocsInv' /\ Base' = Base
           /\ n \in 1 .. 2 /\ Len(snaps') = n
           /\ \A i \in 1 .. n : Kept(i)' = Kept(i)
           /\ \A i \in 1 .. n : Upto(i)' = IF i = n THEN Len(hist) + 1 ELSE Upto(i)
<1> DEFINE L == Len(hist)
<1>1. /\ n \in 1 .. 2 /\ cur = n /\ ~finished
      /\ hist' = Append(hist, TheStep)
      /\ travel' = TravelAfter(L + 1, TheStep)
      /\ xmlMain' = xmlMain /\ csvMain' = csvMain /\ ttMain' = ttMain
      /\ snaps' \in Seq(SnapshotRecord) /\ Len(snaps') = n /\ DOMAIN snaps' = 1 .. n
      /\ \A i \in 1 .. n : i # n => snaps'[i] = snaps[i]
      /\ \A i \in 1 .. n : snaps'[i].hist = snaps[i].hist
      /\ snaps'[n].xml = snaps[n].xml \o TheRow
      /\ DOMAIN disk' = DOMAIN disk /\ n - 1 \in DOMAIN disk
      /\ disk'[n - 1] = Append(disk[n - 1], TheStep)
      /\ \A j \in DOMAIN disk : j # n - 1 => disk'[j] = disk[j]
  BY Stepped
<1>2. cur' = cur /\ trajOut' = trajOut /\ rollbacks' = rollbacks /\ finished' = finished
  BY DEF TimeStep
<1>3. TheStep \in Steps /\ TheStep.out = trajOut /\ TheRow \in Seq(Steps)
      /\ TravelAfter(L + 1, TheStep) \in Travels
  BY StepFacts
<1>4. /\ hist \in Seq(Steps) /\ L \in Nat /\ DOMAIN hist = 1 .. L
      /\ DOMAIN snaps = 1 .. n
      /\ \A i \in 1 .. n : /\ Kept(i) \in Nat /\ Upto(i) \in Nat
                           /\ Kept(i) <= Upto(i) /\ Upto(i) <= L
                           /\ snaps[i].hist = SubSeq(hist, 1, Kept(i))
      /\ n = 2 => Upto(1) = Kept(2)
      /\ Upto(n) = L
      /\ Base = snaps[1].hist /\ Len(Base) \in 0 .. L /\ Len(Base) = Kept(1)
  <2>1. n \in 1 .. 2
    BY <1>1
  <2>2. DOMAIN snaps = 1 .. n /\ n > 0 /\ (n = 1 \/ n = 2)
    BY <2>1, StackFacts
  <2>3. /\ hist \in Seq(Steps) /\ L \in Nat /\ DOMAIN hist = 1 .. L
        /\ \A i \in 1 .. n : /\ Kept(i) \in Nat /\ Upto(i) \in Nat
                             /\ Kept(i) <= Upto(i) /\ Upto(i) <= L
                             /\ snaps[i].hist = SubSeq(hist, 1, Kept(i))
    BY Places
  <2>4. /\ n = 2 => Upto(1) = Kept(2) /\ Upto(2) = L
        /\ n = 1 => Upto(1) = L
        /\ Base = snaps[1].hist /\ Len(Base) \in 0 .. L /\ Len(Base) = Kept(1)
    BY <2>2, Places
  <2> QED
    BY <2>2, <2>3, <2>4
<1>5. /\ hist' \in Seq(Steps) /\ Len(hist') = L + 1 /\ hist'[L + 1] = TheStep
      /\ \A i \in 1 .. L : hist'[i] = hist[i]
      /\ \A a \in Nat \ {0}, b \in 0 .. L : SubSeq(hist', a, b) = SubSeq(hist, a, b)
      /\ \A a \in 1 .. (L + 1) : SubSeq(hist', a, L + 1) = SubSeq(hist, a, L) \o <<TheStep>>
  <2>1. hist \in Seq(Steps) /\ TheStep \in Steps /\ hist' = Append(hist, TheStep)
    BY <1>1, <1>3, <1>4
  <2> QED
    BY <2>1, PartOfAppend
<1>6. DOMAIN hist' = 1 .. (L + 1)
  BY <1>5, LenProperties
<1> HIDE DEF L
<1>7. \A i \in 1 .. n : Kept(i)' = Kept(i)
  BY <1>1 DEF Kept
<1>8. \A i \in 1 .. n : Upto(i)' = IF i = n THEN L + 1 ELSE Upto(i)
  <2> TAKE i \in 1 .. n
  <2>1. CASE i = n
    BY <1>1, <1>5, <2>1 DEF Upto
  <2>2. CASE i # n
    <3>1. i = 1 /\ n = 2 /\ 2 \in 1 .. n
      <4>1. n \in 1 .. 2
        BY <1>1
      <4> QED
        BY <4>1, <2>2, FirstOfTwo
    <3>2. Upto(1)' = Kept(2)'
      BY <1>1, <3>1 DEF Upto
    <3> QED
      BY <1>4, <1>7, <3>1, <3>2
  <2> QED
    BY <2>1, <2>2
<1>9. Base' = Base
  <2>1. snaps' # <<>>
    BY <1>1, EmptySeq
  <2>2. 1 \in 1 .. n
    BY <1>1
  <2> QED
    BY <1>1, <1>4, <2>1, <2>2 DEF Base
<1>10. TypeOK'
  <2>1. \A idx \in DOMAIN disk' : idx \in Nat /\ disk'[idx] \in Seq(Steps)
    <3> TAKE idx \in DOMAIN disk'
    <3>1. idx \in Nat /\ disk[idx] \in Seq(Steps)
      BY <1>1 DEF TypeOK
    <3>2. CASE idx = n - 1
      <4>1. Append(disk[idx], TheStep) \in Seq(Steps)
        BY <1>3, <3>1, AppendProperties
      <4> QED
        BY <1>1, <3>1, <3>2, <4>1
    <3>3. CASE idx # n - 1
      BY <1>1, <3>1, <3>3
    <3> QED
      BY <3>2, <3>3
  <2>2. snaps' \in Seq([hist : Seq(Steps), travel : Travels, xml : Seq(Steps),
                        periods : Seq(Seq(Steps)), file : Nat])
    BY <1>1 DEF SnapshotRecord
  <2>3. cur' \in 0 .. Len(snaps')
    BY <1>1, <1>2
  <2>4. xmlMain \in Seq(Steps) /\ csvMain \in Seq(Steps) /\ ttMain \in Seq(Seq(Steps))
        /\ finished \in BOOLEAN /\ trajOut \in BOOLEAN /\ rollbacks \in 0 .. MaxRollbacks
    BY DEF TypeOK
  <2> QED
    BY <1>1, <1>2, <1>3, <1>5, <2>1, <2>2, <2>3, <2>4 DEF TypeOK
<1>11. HistInv'
  <2>1. ASSUME NEW i \in 1 .. n
        PROVE  Kept(i)' <= Upto(i)' /\ snaps'[i].hist = SubSeq(hist', 1, Kept(i)')
    <3>1. Kept(i)' <= Upto(i)'
      BY <1>4, <1>7, <1>8
    <3>2. Kept(i) \in 0 .. L
      BY <1>4
    <3>3. SubSeq(hist', 1, Kept(i)) = SubSeq(hist, 1, Kept(i))
      <4>1. \A a \in Nat \ {0}, b \in 0 .. L : SubSeq(hist', a, b) = SubSeq(hist, a, b)
        BY <1>5
      <4>2. 1 \in Nat \ {0}
        OBVIOUS
      <4> QED
        BY <3>2, <4>1, <4>2
    <3> QED
      BY <1>1, <1>4, <1>7, <3>1, <3>3
  <2>2. ASSUME NEW i \in 1 .. (L + 1)
        PROVE  hist'[i].out = (i <= Len(Base) \/ trajOut)
    <3>1. CASE i = L + 1
      <4>1. ~(i <= Len(Base))
        BY <1>4, <3>1
      <4>2. hist'[i].out = trajOut
        BY <1>3, <1>5, <3>1
      <4>3. trajOut \in BOOLEAN
        BY DEF TypeOK
      <4> QED
        BY <4>1, <4>2, <4>3, Zenon
    <3>2. CASE i # L + 1
      <4>1. i \in 1 .. L
        BY <1>4, <3>2
      <4> QED
        BY <1>4, <1>5, <4>1 DEF HistInv
    <3> QED
      BY <3>1, <3>2
  <2> QED
    BY <1>1, <1>2, <1>6, <1>9, <2>1, <2>2 DEF HistInv
<1>12. DocsInv'
  <2>1. \A i \in 1 .. n :
           /\ snaps[i].xml = IF trajOut THEN SubSeq(hist, Kept(i) + 1, Upto(i)) ELSE <<>>
           /\ disk[i - 1] = SubSeq(hist, Kept(i) + 1, Upto(i))
    BY <1>4 DEF DocsInv
  <2>2. ASSUME NEW i \in 1 .. n
        PROVE  /\ snaps'[i].xml
                     = IF trajOut THEN SubSeq(hist', Kept(i)' + 1, Upto(i)') ELSE <<>>
               /\ disk'[i - 1] = SubSeq(hist', Kept(i)' + 1, Upto(i)')
    <3>1. CASE i = n
      <4> DEFINE part == SubSeq(hist, Kept(n) + 1, L)
      <4>1. /\ SubSeq(hist', Kept(n) + 1, L + 1) = part \o <<TheStep>>
            /\ part \in Seq(Steps)
        <5>1. Kept(n) + 1 \in 1 .. (L + 1)
          BY <1>4, <3>1
        <5>2. part \in Seq(Steps)
          BY <1>4, <5>1, SubSeqProperties
        <5> QED
          BY <1>5, <5>1, <5>2
      <4>2. /\ disk[n - 1] = part
            /\ snaps[n].xml = IF trajOut THEN part ELSE <<>>
        BY <1>4, <2>1, <3>1
      <4> HIDE DEF part
      <4>3. Append(part, TheStep) = part \o <<TheStep>>
        BY <1>3, <4>1, AppendIsConcat
      <4>4. disk'[i - 1] = SubSeq(hist', Kept(i)' + 1, Upto(i)')
        BY <1>1, <1>7, <1>8, <3>1, <4>1, <4>2, <4>3
      <4>5. CASE trajOut
        <5>1. TheRow = <<TheStep>>
          BY <4>5 DEF TheRow
        <5> QED
          BY <1>1, <1>7, <1>8, <3>1, <4>1, <4>2, <4>4, <4>5, <5>1
      <4>6. CASE ~trajOut
        <5>1. TheRow = <<>> /\ snaps[n].xml = <<>>
          BY <4>2, <4>6 DEF TheRow
        <5>2. <<>> \o <<>> = <<>>
          <6>1. <<>> \in Seq(Steps)
            OBVIOUS
          <6> QED
            BY <6>1, ConcatEmptySeq
        <5> QED
          BY <1>1, <3>1, <4>4, <4>6, <5>1, <5>2
      <4> QED
        BY <4>5, <4>6
    <3>2. CASE i # n
      <4>1. i = 1 /\ n = 2
        <5>1. n \in 1 .. 2
          BY <1>1
        <5> QED
          BY <5>1, <3>2, FirstOfTwo
      <4>2. snaps'[i] = snaps[i] /\ disk'[i - 1] = disk[i - 1]
        <5>1. i - 1 \in DOMAIN disk /\ i - 1 # n - 1
          BY <1>4, <4>1 DEF StackInv
        <5> QED
          BY <1>1, <3>2, <5>1
      <4>3. SubSeq(hist', Kept(i) + 1, Upto(i)) = SubSeq(hist, Kept(i) + 1, Upto(i))
        <5>1. Kept(i) + 1 \in Nat \ {0} /\ Upto(i) \in 0 .. L
          BY <1>4
        <5> QED
          BY <1>5, <5>1
      <4> QED
        BY <1>7, <1>8, <2>1, <3>2, <4>2, <4>3
    <3> QED
      BY <3>1, <3>2
  <2>3. xmlMain' = Base /\ csvMain' = Base
    BY <1>1 DEF DocsInv
  <2> QED
    BY <1>1, <1>2, <1>9, <2>2, <2>3 DEF DocsInv
<1> QED
  BY <1>1, <1>7, <1>8, <1>9, <1>10, <1>11, <1>12 DEF L

\* The part under the first snapshot, added to the committed part.
LEMMA Joined ==
    ASSUME TypeOK, StackInv, HistInv, Len(snaps) > 0
    PROVE  Base \o SubSeq(hist, Kept(1) + 1, Upto(1)) = SubSeq(hist, 1, Upto(1))
<1>1. /\ hist \in Seq(Steps) /\ Len(hist) \in Nat
      /\ Kept(1) \in Nat /\ Upto(1) \in Nat /\ Kept(1) <= Upto(1) /\ Upto(1) <= Len(hist)
      /\ Base = SubSeq(hist, 1, Kept(1))
  <2>1. 1 \in 1 .. Len(snaps)
    BY StackFacts
  <2> QED
    BY <2>1, Places
<1>2. 1 \in 1 .. (Len(hist) + 1) /\ Kept(1) \in (1 - 1) .. Len(hist)
      /\ Upto(1) \in Kept(1) .. Len(hist)
  BY <1>1
<1> QED
  BY <1>1, <1>2, ConcatAdjacentSubSeq

\* Going back to a snapshot keeps them, whether to the last one or, to commit, to
\* the one before: this is where rows are thrown away and others validated.
LEMMA RestoreKeeps ==
    ASSUME TypeOK, StackInv, HistInv, DocsInv, NEW k \in 1 .. 2, SimulationRollback(k),
           trajOut' = trajOut, k = 2 => trajOut
    PROVE  /\ TypeOK' /\ HistInv' /\ DocsInv' /\ Base' = hist'
           /\ Kept(1)' = Len(hist') /\ Upto(1)' = Len(hist')
           /\ Len(snaps') = 1 /\ DOMAIN snaps' = {1} /\ DOMAIN disk' = {0}
           /\ k \in 1 .. Len(snaps) /\ hist' = SubSeq(hist, 1, Kept(k))
<1>1. /\ k \in 1 .. Len(snaps) /\ snaps[k] \in SnapshotRecord /\ 1 \in 1 .. Len(snaps)
      /\ Len(snaps) \in 1 .. 2
  BY StackFacts DEF SimulationRollback
<1>2. /\ hist' = snaps[k].hist /\ travel' = snaps[k].travel /\ hist' \in Seq(Steps)
      /\ travel' \in Travels
      /\ snaps' \in Seq(SnapshotRecord) /\ Len(snaps') = 1 /\ DOMAIN snaps' = {1}
      /\ snaps'[1] = Snapshot(hist', travel', 0)
      /\ cur' = 1 /\ finished' = finished
      /\ rollbacks' \in 0 .. MaxRollbacks
  BY <1>1, Restored
<1>3. snaps'[1].hist = hist' /\ snaps'[1].xml = <<>>
  BY <1>2 DEF Snapshot
<1>4. Kept(1)' = Len(hist') /\ Upto(1)' = Len(hist') /\ Base' = hist'
  <2>1. snaps' # <<>>
    <3>1. Len(snaps') = 1 /\ Len(<<>>) = 0
      BY <1>2
    <3> QED
      BY <3>1
  <2> QED
    BY <1>2, <1>3, <2>1 DEF Kept, Upto, Base
<1>5. /\ hist \in Seq(Steps) /\ Len(hist) \in Nat /\ DOMAIN hist = 1 .. Len(hist)
      /\ hist' = SubSeq(hist, 1, Kept(k)) /\ Kept(k) \in 0 .. Len(hist)
      /\ Base = snaps[1].hist /\ Len(Base) = Kept(1)
  BY <1>1, <1>2, Places
<1>6. /\ Len(hist') = Kept(k) /\ DOMAIN hist' = 1 .. Kept(k)
      /\ \A i \in 1 .. Kept(k) : hist'[i] = hist[i]
  BY <1>2, <1>5, PrefixFacts, LenProperties
<1>7. xmlMain' = hist' /\ csvMain' = hist' /\ ttMain' \in Seq(Seq(Steps))
      /\ DOMAIN disk' = {0} /\ disk'[0] = <<>>
  <2>1. xmlMain = Base /\ csvMain = Base /\ ttMain \in Seq(Seq(Steps))
    BY DEF DocsInv, TypeOK
  <2>2. CASE k = 1
    <3>1. SimulationRollback(1)
      BY <2>2
    <3>2. /\ xmlMain' = xmlMain /\ csvMain' = csvMain /\ ttMain' = ttMain
          /\ DOMAIN disk' = {0} /\ disk'[0] = <<>>
      BY <3>1, RollbackToFirst
    <3> QED
      BY <1>2, <1>5, <2>1, <2>2, <3>2
  <2>3. CASE k = 2
    <3>1. SimulationRollback(2)
      BY <2>3
    <3>2. /\ xmlMain' = xmlMain \o snaps[1].xml /\ csvMain' = csvMain \o disk[0]
          /\ ttMain' = ttMain \o snaps[1].periods
          /\ DOMAIN disk' = {0} /\ disk'[0] = <<>>
          /\ Len(snaps) = 2 /\ snaps[1] \in SnapshotRecord
      BY <3>1, RollbackToSecond
    <3>3. snaps[1].xml = SubSeq(hist, Kept(1) + 1, Upto(1))
          /\ disk[0] = SubSeq(hist, Kept(1) + 1, Upto(1))
      <4>1. 1 \in DOMAIN snaps /\ 1 - 1 = 0 /\ trajOut
        BY <1>1, <2>3, StackFacts
      <4> QED
        BY <4>1 DEF DocsInv
    <3>4. Base \o SubSeq(hist, Kept(1) + 1, Upto(1)) = SubSeq(hist, 1, Upto(1))
      <4>1. Len(snaps) > 0
        BY <3>2
      <4> QED
        BY <4>1, Joined
    <3>5. Upto(1) = Kept(2)
      BY <3>2, Places
    <3>6. ttMain \o snaps[1].periods \in Seq(Seq(Steps))
      BY <2>1, <3>2, RecordFacts, ConcatProperties
    <3> QED
      BY <1>5, <2>1, <2>3, <3>2, <3>3, <3>4, <3>5, <3>6
  <2> QED
    BY <2>2, <2>3
<1>8. TypeOK'
  <2>1. \A idx \in DOMAIN disk' : idx \in Nat /\ disk'[idx] \in Seq(Steps)
    <3>1. <<>> \in Seq(Steps) /\ 0 \in Nat
      OBVIOUS
    <3>2. \A idx \in {0} : idx \in Nat /\ disk'[idx] \in Seq(Steps)
      BY <1>7, <3>1
    <3> QED
      BY <1>7, <3>2
  <2>2. snaps' \in Seq([hist : Seq(Steps), travel : Travels, xml : Seq(Steps),
                        periods : Seq(Seq(Steps)), file : Nat])
    BY <1>2 DEF SnapshotRecord
  <2>3. cur' \in 0 .. Len(snaps')
    BY <1>2
  <2>4. finished \in BOOLEAN /\ trajOut \in BOOLEAN
    BY DEF TypeOK
  <2> QED
    BY <1>2, <1>7, <2>1, <2>2, <2>3, <2>4 DEF TypeOK
<1>9. HistInv'
  <2>1. SubSeq(hist', 1, Len(hist')) = hist'
    BY <1>2, SubSeqFull
  <2>2. ASSUME NEW i \in 1 .. Kept(k)
        PROVE  hist'[i].out = TRUE
    <3>1. i \in DOMAIN hist /\ hist'[i] = hist[i]
      BY <1>5, <1>6
    <3>2. i <= Len(Base) \/ trajOut
      BY <1>5
    <3>3. hist[i].out = (i <= Len(Base) \/ trajOut)
      BY <3>1 DEF HistInv
    <3> QED
      BY <3>1, <3>2, <3>3
  <2>3. \A i \in DOMAIN hist' : hist'[i].out = (i <= Len(Base') \/ trajOut')
    <3> TAKE i \in DOMAIN hist'
    <3>1. i <= Len(Base')
      BY <1>4, <1>5, <1>6
    <3> QED
      BY <1>6, <2>2, <3>1
  <2>4. Len(hist') <= Len(hist')
    BY <1>5, <1>6
  <2> QED
    BY <1>2, <1>3, <1>4, <2>1, <2>3, <2>4 DEF HistInv
<1>10. DocsInv'
  <2>1. SubSeq(hist', Len(hist') + 1, Len(hist')) = <<>>
    BY <1>5, <1>6, SubSeqEmpty
  <2>2. 1 - 1 = 0
    OBVIOUS
  <2> QED
    BY <1>2, <1>3, <1>4, <1>7, <2>1, <2>2 DEF DocsInv
<1> QED
  BY <1>1, <1>2, <1>4, <1>5, <1>7, <1>8, <1>9, <1>10

\* Validating the only snapshot keeps them: its rows join the main files.
LEMMA CommitKeeps ==
    ASSUME TypeOK, StackInv, HistInv, DocsInv, SimulationCommit, Len(snaps) = 1,
           trajOut' = trajOut, trajOut
    PROVE  /\ TypeOK' /\ HistInv' /\ DocsInv' /\ Base' = hist'
           /\ snaps' = <<>> /\ DOMAIN disk' = {} /\ hist' = hist
<1>1. /\ snaps' = <<>> /\ cur' = 0 /\ hist' = hist /\ travel' = travel
      /\ rollbacks' = rollbacks /\ finished' = finished
  BY DEF SimulationCommit
<1>2. /\ xmlMain' = xmlMain \o snaps[1].xml /\ csvMain' = csvMain \o disk[0]
      /\ ttMain' = ttMain \o snaps[1].periods /\ DOMAIN disk' = {}
  BY CommitOfOne
<1>3. snaps[1] \in SnapshotRecord /\ DOMAIN snaps = {1}
  BY StackFacts
<1>4. Base' = hist
  BY <1>1 DEF Base
<1>5. hist \in Seq(Steps) /\ Len(hist) \in Nat /\ DOMAIN hist = 1 .. Len(hist)
      /\ Upto(1) = Len(hist)
  BY Places
<1>6. snaps[1].xml = SubSeq(hist, Kept(1) + 1, Upto(1))
      /\ disk[0] = SubSeq(hist, Kept(1) + 1, Upto(1))
  <2>1. 1 \in DOMAIN snaps /\ 1 - 1 = 0
    BY <1>3
  <2> QED
    BY <2>1 DEF DocsInv
<1>7. xmlMain' = hist /\ csvMain' = hist
  <2>1. xmlMain = Base /\ csvMain = Base
    BY DEF DocsInv
  <2>2. Base \o SubSeq(hist, Kept(1) + 1, Upto(1)) = SubSeq(hist, 1, Upto(1))
    <3>1. Len(snaps) > 0
      OBVIOUS
    <3> QED
      BY <3>1, Joined
  <2>3. SubSeq(hist, 1, Len(hist)) = hist
    BY <1>5, SubSeqFull
  <2> QED
    BY <1>2, <1>5, <1>6, <2>1, <2>2, <2>3
<1>8. TypeOK'
  <2>1. ttMain' \in Seq(Seq(Steps))
    <3>1. ttMain \in Seq(Seq(Steps))
      BY DEF TypeOK
    <3> QED
      BY <1>2, <1>3, <3>1, RecordFacts, ConcatProperties
  <2>2. /\ snaps' \in Seq([hist : Seq(Steps), travel : Travels, xml : Seq(Steps),
                           periods : Seq(Seq(Steps)), file : Nat])
        /\ cur' \in 0 .. Len(snaps')
    BY <1>1, EmptySeq
  <2>3. travel \in Travels /\ finished \in BOOLEAN /\ trajOut \in BOOLEAN
        /\ rollbacks \in 0 .. MaxRollbacks
    BY DEF TypeOK
  <2> QED
    BY <1>1, <1>2, <1>5, <1>7, <2>1, <2>2, <2>3 DEF TypeOK
<1>9. HistInv'
  <2>1. \A i \in DOMAIN hist : hist[i].out = (i <= Len(hist) \/ trajOut')
    <3> TAKE i \in DOMAIN hist
    <3>1. hist[i].out = (i <= Len(Base) \/ trajOut)
      BY DEF HistInv
    <3> QED
      BY <3>1
  <2>2. DOMAIN snaps' = {}
    BY <1>1
  <2> QED
    BY <1>1, <1>4, <2>1, <2>2 DEF HistInv
<1>10. DocsInv'
  <2>1. DOMAIN snaps' = {}
    BY <1>1
  <2> QED
    BY <1>1, <1>4, <1>7, <2>1 DEF DocsInv
<1> QED
  BY <1>1, <1>2, <1>4, <1>8, <1>9, <1>10

--------------------------------------------------------------------------------
(* The invariant *)

\* The invariant holds at first.
LEMMA InitInvariant ==
    ASSUME InstanceInit
    PROVE  IInv
<1>1. /\ hist = <<>> /\ snaps = <<>> /\ xmlMain = <<>> /\ csvMain = <<>> /\ disk = <<>>
      /\ cur = 0 /\ rollbacks = 0 /\ travel = [period |-> 0, data |-> <<>>] /\ ttMain = <<>>
      /\ trajOut = TRUE /\ finished = FALSE
      /\ hasStart = FALSE /\ began = FALSE /\ ended = FALSE
  BY DEF InstanceInit, Init
<1>2. \A S : <<>> \in Seq(S)
  OBVIOUS
<1>3. DOMAIN <<>> = {} /\ Len(<<>>) = 0
  OBVIOUS
<1>4. TypeOK
  <2>1. travel \in Travels
    BY <1>1, <1>2 DEF Travels
  <2>2. cur \in 0 .. Len(snaps) /\ rollbacks \in 0 .. MaxRollbacks
    BY <1>1, <1>3, Constants
  <2>3. \A idx \in DOMAIN disk : idx \in Nat /\ disk[idx] \in Seq(Steps)
    BY <1>1, <1>3
  <2>4. snaps \in Seq([hist : Seq(Steps), travel : Travels, xml : Seq(Steps),
                       periods : Seq(Seq(Steps)), file : Nat])
    BY <1>1
  <2> QED
    BY <1>1, <1>2, <2>1, <2>2, <2>3, <2>4 DEF TypeOK
<1>5. Base = <<>>
  BY <1>1 DEF Base
<1>6. StackInv
  <2>1. DOMAIN disk = {i - 1 : i \in DOMAIN snaps}
    BY <1>1, <1>3
  <2> QED
    BY <1>1, <1>3, <1>5, <2>1 DEF StackInv
<1>7. HistInv /\ DocsInv
  BY <1>1, <1>3, <1>5 DEF HistInv, DocsInv
<1> QED
  BY <1>1, <1>4, <1>6, <1>7 DEF IInv, FlagsOK

\* The names of the files in a stack of one more snapshot.
LEMMA TakenStack ==
    ASSUME TypeOK, StackInv, TakeSimulationSnapshot, Len(snaps) <= 1
    PROVE  /\ cur' = Len(snaps') /\ ~finished /\ finished' = finished
           /\ Len(snaps') = Len(snaps) + 1 /\ snaps' # <<>>
           /\ \A i \in DOMAIN snaps' : snaps'[i].file = i - 1
           /\ DOMAIN disk' = {i - 1 : i \in DOMAIN snaps'}
<1> DEFINE n == Len(snaps)
<1>1. /\ snaps' \in Seq(SnapshotRecord) /\ Len(snaps') = n + 1
      /\ DOMAIN snaps' = 1 .. (n + 1)
      /\ \A i \in 1 .. n : snaps'[i] = snaps[i]
      /\ snaps'[n + 1] = Snapshot(hist, travel, n)
      /\ DOMAIN disk' = {i - 1 : i \in 1 .. (n + 1)}
  BY Taken
<1>2. cur' = n + 1 /\ ~finished /\ finished' = finished
  BY DEF TakeSimulationSnapshot
<1>3. n \in 0 .. 2 /\ DOMAIN snaps = 1 .. n
  BY StackFacts
<1>4. \A i \in 1 .. n : snaps[i].file = i - 1
  BY <1>3 DEF StackInv
<1> HIDE DEF n
<1>5. ASSUME NEW i \in 1 .. (n + 1) PROVE snaps'[i].file = i - 1
  <2>1. CASE i = n + 1
    <3>1. snaps'[n + 1].file = n
      BY <1>1 DEF Snapshot
    <3>2. i - 1 = n
      BY <1>3, <2>1
    <3> QED
      BY <2>1, <3>1, <3>2
  <2>2. CASE i # n + 1
    <3>1. i \in 1 .. n
      BY <1>3, <2>2
    <3> QED
      BY <1>1, <1>4, <3>1
  <2> QED
    BY <2>1, <2>2
<1>6. snaps' # <<>>
  <2>1. Len(<<>>) = 0 /\ n + 1 # 0
    BY <1>3
  <2> QED
    BY <1>1, <2>1
<1> QED
  BY <1>1, <1>2, <1>5, <1>6 DEF n

\* AssignmentPeriodStart keeps it.
LEMMA StartInvariant ==
    ASSUME IInv, NEW notFinal \in BOOLEAN, AssignmentPeriodStart(notFinal)
    PROVE  IInv'
<1>1. /\ TypeOK /\ FlagsOK /\ StackInv /\ HistInv /\ DocsInv
      /\ ~began /\ ~finished /\ trajOut' = ~notFinal /\ trajOut' \in BOOLEAN
      /\ began' = TRUE /\ ended' = FALSE
  BY DEF IInv, AssignmentPeriodStart
<1>2. CASE hasStart
  <2>1. UNCHANGED stackVars /\ hasStart' = hasStart
    BY <1>2 DEF AssignmentPeriodStart
  <2>2. TypeOK' /\ HistInv' /\ DocsInv'
    BY <1>1, <2>1, SwitchKeeps
  <2>3. /\ snaps' = snaps /\ cur' = cur /\ disk' = disk /\ finished' = finished
    BY <2>1 DEF stackVars
  <2>4. Len(snaps) = 1 /\ snaps # <<>>
    <3>1. snaps # <<>> /\ Len(snaps) <= 1
      BY <1>1, <1>2 DEF StackInv
    <3>2. Len(snaps) \in 0 .. 2 /\ (snaps = <<>> <=> Len(snaps) = 0)
      BY <1>1, StackFacts
    <3> QED
      BY <3>1, <3>2
  <2>5. StackInv'
    <3>1. /\ cur = IF finished THEN 0 ELSE Len(snaps)
          /\ \A i \in DOMAIN snaps : snaps[i].file = i - 1
          /\ DOMAIN disk = {i - 1 : i \in DOMAIN snaps}
      BY <1>1 DEF StackInv
    <3> QED
      BY <1>1, <1>2, <2>1, <2>3, <2>4, <3>1 DEF StackInv
  <2> QED
    BY <1>1, <2>1, <2>2, <2>5 DEF IInv, FlagsOK
<1>3. CASE ~hasStart
  <2>1. TakeSimulationSnapshot /\ hasStart' = TRUE
    BY <1>3 DEF AssignmentPeriodStart
  <2>2. snaps = <<>> /\ Len(snaps) = 0
    <3>1. snaps = <<>>
      BY <1>1, <1>3 DEF StackInv
    <3> QED
      BY <3>1
  <2>3. TypeOK' /\ HistInv' /\ DocsInv'
    BY <1>1, <2>1, <2>2, TakeKeeps
  <2>4. StackInv'
    <3>1. /\ cur' = Len(snaps') /\ finished' = FALSE /\ Len(snaps') = 1 /\ snaps' # <<>>
          /\ \A i \in DOMAIN snaps' : snaps'[i].file = i - 1
          /\ DOMAIN disk' = {i - 1 : i \in DOMAIN snaps'}
      <4>1. Len(snaps) <= 1 /\ 0 + 1 = 1
        BY <2>2
      <4>2. finished \in BOOLEAN
        BY <1>1 DEF TypeOK
      <4> QED
        BY <1>1, <2>1, <2>2, <4>1, <4>2, TakenStack
    <3> QED
      BY <1>1, <2>1, <3>1 DEF StackInv
  <2> QED
    BY <1>1, <2>1, <2>3, <2>4 DEF IInv, FlagsOK
<1> QED
  BY <1>1, <1>2, <1>3 DEF FlagsOK

\* A time step asked for by the runner keeps it.
LEMMA StepInvariant ==
    ASSUME IInv, Step
    PROVE  IInv'
<1>1. /\ TypeOK /\ FlagsOK /\ StackInv /\ HistInv /\ DocsInv /\ began /\ TimeStep
      /\ hasStart' = hasStart /\ began' = began /\ ended' = ended
      /\ cur' = cur /\ finished' = finished
  BY DEF IInv, Step, TimeStep
<1>2. PICK n : n = Len(snaps)
  OBVIOUS
<1>3. /\ TypeOK' /\ HistInv' /\ DocsInv' /\ n \in 1 .. 2 /\ Len(snaps') = n
  BY <1>1, <1>2, StepKeeps
<1>4. /\ DOMAIN snaps' = 1 .. n /\ DOMAIN disk' = DOMAIN disk /\ DOMAIN snaps = 1 .. n
      /\ \A i \in 1 .. n : snaps'[i].file = snaps[i].file
  BY <1>1, <1>2, Stepped, StackFacts
<1>5. StackInv'
  <2>1. /\ hasStart /\ Len(snaps) = (IF ended THEN 2 ELSE 1) /\ ~finished
        /\ cur = n
        /\ \A i \in 1 .. n : snaps[i].file = i - 1
        /\ DOMAIN disk = {i - 1 : i \in 1 .. n}
    <3>1. snaps # <<>>
      <4>1. Len(<<>>) = 0 /\ n # 0
        BY <1>3
      <4> QED
        BY <1>2, <4>1
    <3> QED
      BY <1>1, <1>2, <1>4, <3>1 DEF StackInv
  <2>2. snaps' # <<>>
    <3>1. Len(<<>>) = 0 /\ n # 0
      BY <1>3
    <3> QED
      BY <1>3, <3>1
  <2>3. n <= 2
    BY <1>3
  <2> QED
    BY <1>1, <1>2, <1>3, <1>4, <2>1, <2>2, <2>3 DEF StackInv
<1> QED
  BY <1>1, <1>3, <1>5 DEF IInv, FlagsOK

\* AssignmentPeriodEnded, which takes the second snapshot, keeps it.
LEMMA EndedInvariant ==
    ASSUME IInv, AssignmentPeriodEnded
    PROVE  IInv'
<1>1. /\ TypeOK /\ FlagsOK /\ StackInv /\ HistInv /\ DocsInv /\ began /\ ~ended
      /\ TakeSimulationSnapshot /\ trajOut' = trajOut
      /\ hasStart' = hasStart /\ began' = began /\ ended' = TRUE
  BY DEF IInv, AssignmentPeriodEnded
<1>2. Len(snaps) = 1 /\ hasStart
  <2>1. Len(snaps) = 1
    BY <1>1 DEF StackInv
  <2>2. snaps # <<>>
    <3>1. Len(<<>>) = 0
      OBVIOUS
    <3> QED
      BY <2>1, <3>1
  <2> QED
    BY <1>1, <2>1, <2>2 DEF StackInv
<1>3. TypeOK' /\ HistInv' /\ DocsInv'
  <2>1. trajOut \in BOOLEAN
    BY <1>1 DEF TypeOK
  <2> QED
    BY <1>1, <1>2, <2>1, TakeKeeps
<1>4. StackInv'
  <2>1. /\ cur' = Len(snaps') /\ ~finished /\ finished' = finished /\ Len(snaps') = 2
        /\ snaps' # <<>>
        /\ \A i \in DOMAIN snaps' : snaps'[i].file = i - 1
        /\ DOMAIN disk' = {i - 1 : i \in DOMAIN snaps'}
    <3>1. Len(snaps) <= 1 /\ 1 + 1 = 2
      BY <1>2
    <3> QED
      BY <1>1, <1>2, <3>1, TakenStack
  <2> QED
    BY <1>1, <1>2, <2>1 DEF StackInv
<1> QED
  BY <1>1, <1>3, <1>4 DEF IInv, FlagsOK

\* A stack of one snapshot between two iterations.
LEMMA RestoredStack ==
    ASSUME IInv, NEW k \in 1 .. 2, SimulationRollback(k), trajOut' = trajOut,
           k = 2 => trajOut, began' = FALSE, hasStart' = hasStart, ended' = ended
    PROVE  IInv'
<1>1. /\ TypeOK /\ FlagsOK /\ StackInv /\ HistInv /\ DocsInv
  BY DEF IInv
<1>2. /\ TypeOK' /\ HistInv' /\ DocsInv' /\ Base' = hist'
      /\ Len(snaps') = 1 /\ DOMAIN snaps' = {1} /\ DOMAIN disk' = {0}
      /\ k \in 1 .. Len(snaps)
  BY <1>1, RestoreKeeps
<1>3. /\ cur' = 1 /\ ~finished /\ finished' = finished /\ snaps'[1].file = 0
  <2>1. snaps[k] \in SnapshotRecord
    BY <1>1, <1>2, StackFacts
  <2>2. /\ cur' = 1 /\ ~finished /\ finished' = finished
        /\ snaps'[1] = Snapshot(hist', travel', 0)
    BY <1>1, <2>1, Restored
  <2> QED
    BY <2>2 DEF Snapshot
<1>4. hasStart /\ snaps' # <<>>
  <2>1. Len(<<>>) = 0
    OBVIOUS
  <2>2. snaps # <<>>
    BY <1>1, <1>2, StackFacts
  <2>3. hasStart
    BY <1>1, <2>2 DEF StackInv
  <2>4. snaps' # <<>>
    BY <1>2, <2>1
  <2> QED
    BY <2>3, <2>4
<1>5. StackInv'
  <2>1. \A i \in {1} : snaps'[i].file = i - 1
    BY <1>3
  <2>2. {0} = {i - 1 : i \in {1}}
    OBVIOUS
  <2> QED
    BY <1>2, <1>3, <1>4, <2>1, <2>2 DEF StackInv
<1> QED
  BY <1>1, <1>2, <1>5 DEF IInv, FlagsOK

\* AssignmentPeriodCommit, with one snapshot or with two, keeps it.
LEMMA CommitInvariant ==
    ASSUME IInv, AssignmentPeriodCommit
    PROVE  IInv'
<1>1. /\ TypeOK /\ FlagsOK /\ StackInv /\ HistInv /\ DocsInv /\ began /\ trajOut
      /\ CommitCall /\ began' = FALSE /\ trajOut' = trajOut /\ ended' = ended
  BY DEF IInv, AssignmentPeriodCommit
<1>2. CASE ended
  <2>1. SimulationRollback(2) /\ hasStart' = hasStart /\ 2 \in 1 .. 2
    BY <1>1, <1>2 DEF CommitCall
  <2> QED
    BY <1>1, <2>1, RestoredStack
<1>3. CASE ~ended
  <2>1. SimulationCommit /\ hasStart' = FALSE /\ Len(snaps) = 1 /\ ~finished
    BY <1>1, <1>3 DEF CommitCall, StackInv
  <2>2. /\ TypeOK' /\ HistInv' /\ DocsInv' /\ Base' = hist'
        /\ snaps' = <<>> /\ DOMAIN disk' = {}
    BY <1>1, <2>1, CommitKeeps
  <2>3. cur' = 0 /\ finished' = finished
    BY <2>1 DEF SimulationCommit
  <2>4. StackInv'
    <3>1. Len(<<>>) = 0 /\ DOMAIN <<>> = {}
      OBVIOUS
    <3>2. DOMAIN disk' = {i - 1 : i \in DOMAIN snaps'}
      BY <2>2, <3>1
    <3> QED
      BY <1>1, <2>1, <2>2, <2>3, <3>1, <3>2 DEF StackInv
  <2> QED
    BY <1>1, <2>1, <2>2, <2>4 DEF IInv, FlagsOK
<1> QED
  BY <1>1, <1>2, <1>3 DEF FlagsOK

\* Closing the network keeps it.
LEMMA TerminateInvariant ==
    ASSUME IInv, Terminate
    PROVE  IInv'
<1>1. /\ TypeOK /\ FlagsOK /\ StackInv /\ HistInv /\ DocsInv /\ ~began
      /\ hasStart' = hasStart /\ began' = began /\ ended' = ended
      /\ hist' = hist /\ snaps' = snaps /\ xmlMain' = xmlMain /\ csvMain' = csvMain
      /\ disk' = disk /\ travel' = travel /\ trajOut' = trajOut /\ rollbacks' = rollbacks
      /\ finished' = TRUE /\ cur' = 0
      /\ ttMain' = IF cur = 0 THEN ttMain \o LeftOver
                              ELSE ttMain \o snaps[cur].periods \o LeftOver
  BY DEF IInv, Terminate, FinSimuTrafic
<1>2. ttMain' \in Seq(Seq(Steps))
  <2>1. ttMain \in Seq(Seq(Steps)) /\ travel.data \in Seq(Steps)
    BY <1>1 DEF TypeOK, Travels
  <2>2. LeftOver \in Seq(Seq(Steps))
    <3> DEFINE d == travel.data
    <3>1. <<d>> \in Seq(Seq(Steps)) /\ <<>> \in Seq(Seq(Steps))
      <4> HIDE DEF d
      <4> QED
        BY <2>1 DEF d
    <3> QED
      BY <3>1 DEF LeftOver
  <2>3. CASE cur = 0
    BY <1>1, <2>1, <2>2, <2>3, ConcatProperties
  <2>4. CASE cur # 0
    <3>1. cur \in 1 .. Len(snaps)
      BY <1>1, <2>4, StackFacts DEF TypeOK
    <3>2. snaps[cur].periods \in Seq(Seq(Steps))
      BY <1>1, <3>1, StackFacts, RecordFacts
    <3>3. ttMain \o snaps[cur].periods \in Seq(Seq(Steps))
      BY <2>1, <3>2, ConcatProperties
    <3> QED
      BY <1>1, <2>2, <2>4, <3>3, ConcatProperties
  <2> QED
    BY <2>3, <2>4
<1>3. TypeOK'
  <2>1. cur' \in 0 .. Len(snaps')
    BY <1>1, StackFacts
  <2>2. finished' \in BOOLEAN
    BY <1>1
  <2> QED
    BY <1>1, <1>2, <2>1, <2>2 DEF TypeOK
<1>4. Base' = Base /\ \A i : Kept(i)' = Kept(i) /\ Upto(i)' = Upto(i)
  BY <1>1 DEF Base, Kept, Upto
<1>5. HistInv'
  BY <1>1, <1>4 DEF HistInv
<1>6. DocsInv'
  BY <1>1, <1>4 DEF DocsInv
<1>7. StackInv'
  <2>1. /\ Len(snaps) <= 2 /\ (hasStart <=> snaps # <<>>) /\ Len(snaps) <= 1 /\ hist = Base
        /\ \A i \in DOMAIN snaps : snaps[i].file = i - 1
        /\ DOMAIN disk = {i - 1 : i \in DOMAIN snaps}
    BY <1>1 DEF StackInv
  <2> QED
    BY <1>1, <1>4, <2>1 DEF StackInv
<1> QED
  BY <1>1, <1>3, <1>5, <1>6, <1>7 DEF IInv, FlagsOK

\* Every step of the adapter keeps it.
LEMMA NextInvariant ==
    ASSUME IInv, [InstanceNext]_vars
    PROVE  IInv'
<1>1. CASE UNCHANGED vars
  <2>1. /\ hist' = hist /\ snaps' = snaps /\ xmlMain' = xmlMain /\ csvMain' = csvMain
        /\ disk' = disk /\ cur' = cur /\ travel' = travel /\ ttMain' = ttMain
        /\ trajOut' = trajOut /\ rollbacks' = rollbacks /\ finished' = finished
        /\ hasStart' = hasStart /\ began' = began /\ ended' = ended
    BY <1>1 DEF vars, apiVars, stackVars
  <2> QED
    BY <2>1 DEF IInv, TypeOK, FlagsOK, StackInv, HistInv, DocsInv, Base, Kept, Upto
<1>2. ASSUME NEW notFinal \in BOOLEAN, AssignmentPeriodStart(notFinal) PROVE IInv'
  BY <1>2, StartInvariant
<1>3. CASE Step
  BY <1>3, StepInvariant
<1>4. CASE AssignmentPeriodEnded
  BY <1>4, EndedInvariant
<1>5. CASE AssignmentPeriodRollback
  <2>1. SimulationRollback(1) /\ began' = FALSE /\ trajOut' = trajOut
        /\ hasStart' = hasStart /\ ended' = ended /\ 1 \in 1 .. 2 /\ 1 # 2
    BY <1>5 DEF AssignmentPeriodRollback
  <2> QED
    BY <2>1, RestoredStack
<1>6. CASE AssignmentPeriodCommit
  BY <1>6, CommitInvariant
<1>7. CASE Terminate
  BY <1>7, TerminateInvariant
<1> QED
  BY <1>1, <1>2, <1>3, <1>4, <1>5, <1>6, <1>7 DEF InstanceNext

\* The invariant of one SymuVia instance, for any bounds.
THEOREM Invariance == InstanceSpec => []IInv
<1>1. InstanceInit => IInv
  BY InitInvariant
<1>2. IInv /\ [InstanceNext]_vars => IInv'
  BY NextInvariant
<1> QED
  BY <1>1, <1>2, PTL DEF InstanceSpec

--------------------------------------------------------------------------------
(* The properties that the invariant implies *)

\* The variables of the snapshot stack keep their types whatever the runner calls.
THEOREM InstanceTypeOK == InstanceSpec => []TypeOK
<1>1. IInv => TypeOK
  BY DEF IInv
<1> QED
  BY <1>1, Invariance, PTL

\* A commit that goes back to the end of the assignment period finds its snapshot at
\* the second place, and m_bHasStartPeriodSnapshot tells the truth about the first.
THEOREM SnapshotsAreInPlace == InstanceSpec => []SnapshotsInPlace
<1>1. ASSUME IInv PROVE SnapshotsInPlace
  <2>1. TypeOK /\ StackInv /\ HistInv
    BY <1>1 DEF IInv
  <2>2. (hasStart <=> snaps # <<>>) /\ (began => Len(snaps) = IF ended THEN 2 ELSE 1)
    BY <2>1 DEF StackInv
  <2>3. ASSUME NEW i \in DOMAIN snaps PROVE IsPrefix(snaps[i].hist, hist)
    <3> DEFINE g == snaps[i].hist
    <3>1. i \in 1 .. Len(snaps)
      BY <2>1, StackFacts
    <3>2. /\ Kept(i) \in Nat /\ Upto(i) \in Nat /\ Kept(i) <= Upto(i) /\ Upto(i) <= Len(hist)
          /\ g = SubSeq(hist, 1, Kept(i)) /\ Len(hist) \in Nat /\ Len(g) = Kept(i)
      BY <2>1, <3>1, Places DEF Kept
    <3>3. g \in Seq(Steps)
      BY <2>1, <3>1, StackFacts, RecordFacts
    <3> HIDE DEF g
    <3>4. SubSeq(g, 1, Len(g)) = g
      BY <3>3, SubSeqFull
    <3>5. Len(g) <= Len(hist)
      BY <3>2
    <3>6. SubSeq(g, 1, Len(g)) = SubSeq(hist, 1, Len(g))
      BY <3>2, <3>4
    <3>7. IsPrefix(g, hist)
      BY <3>5, <3>6 DEF IsPrefix
    <3> QED
      BY <3>7 DEF g
  <2> QED
    BY <2>2, <2>3 DEF SnapshotsInPlace
<1> QED
  BY <1>1, Invariance, PTL

\* The CSV writer's pointer is the last snapshot of the stack; no two snapshots share
\* a temporary file, and none is left behind.
THEOREM WritersStayTogether == InstanceSpec => []WritersAgree
<1>1. ASSUME IInv PROVE WritersAgree
  <2>1. TypeOK /\ StackInv
    BY <1>1 DEF IInv
  <2>2. /\ cur = IF finished THEN 0 ELSE Len(snaps)
        /\ \A i \in DOMAIN snaps : snaps[i].file = i - 1
        /\ DOMAIN disk = {i - 1 : i \in DOMAIN snaps}
    BY <2>1 DEF StackInv
  <2>3. DOMAIN snaps = 1 .. Len(snaps) /\ Len(snaps) \in Nat
    BY <2>1, StackFacts
  <2>4. ASSUME NEW i \in DOMAIN snaps, NEW j \in DOMAIN snaps, snaps[i].file = snaps[j].file
        PROVE  i = j
    <3>1. snaps[i].file = i - 1 /\ snaps[j].file = j - 1
      BY <2>2
    <3>2. i \in Int /\ j \in Int
      BY <2>3
    <3>3. i - 1 = j - 1
      BY <2>4, <3>1
    <3> QED
      BY <3>2, <3>3
  <2>5. DOMAIN disk = {snaps[i].file : i \in DOMAIN snaps}
    BY <2>2
  <2> QED
    BY <2>2, <2>4, <2>5 DEF WritersAgree
<1> QED
  BY <1>1, Invariance, PTL

\* Between two periods the main files hold every committed step once, in order, and
\* nothing else.
THEOREM OutputsAreCommitted == InstanceSpec => []OutputsCommitted
<1>1. ASSUME IInv PROVE OutputsCommitted
  <2>1. ~began => hist = Base
    BY <1>1 DEF IInv, StackInv
  <2>2. xmlMain = Base /\ csvMain = Base
    BY <1>1 DEF IInv, DocsInv
  <2> QED
    BY <2>1, <2>2 DEF OutputsCommitted
<1> QED
  BY <1>1, Invariance, PTL

--------------------------------------------------------------------------------
(* The documents follow the history *)

\* How far trajectories were output.
LEMMA RowsOfHistory ==
    ASSUME TypeOK, StackInv, HistInv
    PROVE  Rows = IF trajOut THEN hist ELSE Base
<1>1. /\ hist \in Seq(Steps) /\ Len(hist) \in Nat /\ DOMAIN hist = 1 .. Len(hist)
      /\ Len(Base) \in 0 .. Len(hist)
  BY Places
<1>2. trajOut \in BOOLEAN
  BY DEF TypeOK
<1>3. CASE trajOut
  <2>1. \A i \in 1 .. Len(hist) : hist[i].out = (i <= Len(hist))
    <3> TAKE i \in 1 .. Len(hist)
    <3>1. hist[i].out = (i <= Len(Base) \/ trajOut)
      BY <1>1 DEF HistInv
    <3>2. i <= Len(hist)
      BY <1>1
    <3> QED
      BY <1>3, <3>1, <3>2
  <2>2. Len(hist) \in 0 .. Len(hist)
    BY <1>1
  <2>3. Rows = SubSeq(hist, 1, Len(hist))
    BY <1>1, <2>1, <2>2, RowsOfPrefix DEF Rows
  <2> QED
    BY <1>1, <1>3, <2>3, SubSeqFull
<1>4. CASE ~trajOut
  <2>1. \A i \in 1 .. Len(hist) : hist[i].out = (i <= Len(Base))
    <3> TAKE i \in 1 .. Len(hist)
    <3>1. hist[i].out = (i <= Len(Base) \/ trajOut)
      BY <1>1 DEF HistInv
    <3> QED
      BY <1>4, <3>1
  <2>2. Rows = SubSeq(hist, 1, Len(Base))
    BY <1>1, <2>1, RowsOfPrefix DEF Rows
  <2>3. SubSeq(hist, 1, Len(Base)) = Base
    <3>1. CASE Len(snaps) = 0
      BY <1>1, <3>1, Places, SubSeqFull
    <3>2. CASE Len(snaps) > 0
      <4>1. 1 \in 1 .. Len(snaps)
        BY <3>2, StackFacts
      <4> QED
        BY <3>2, <4>1, Places
    <3> QED
      BY <3>1, <3>2, StackFacts
  <2> QED
    BY <1>4, <2>2, <2>3
<1> QED
  BY <1>2, <1>3, <1>4

\* The committed part, and how the documents of the stack are put together.
LEMMA StackedDocuments ==
    ASSUME TypeOK, StackInv, HistInv, NEW docs \in [DOMAIN snaps -> Seq(Steps)]
    PROVE  /\ hist \in Seq(Steps) /\ Len(hist) \in Nat /\ Base \in Seq(Steps)
           /\ Len(snaps) \in 0 .. 2 /\ DOMAIN snaps = 1 .. Len(snaps)
           /\ Len(snaps) = 0 => FlattenSeq(docs) = <<>>
           /\ Len(snaps) = 1 => FlattenSeq(docs) = docs[1]
           /\ Len(snaps) = 2 => FlattenSeq(docs) = docs[1] \o docs[2]
<1>1. /\ hist \in Seq(Steps) /\ Len(hist) \in Nat /\ Base \in Seq(Steps)
      /\ Len(snaps) \in 0 .. 2 /\ DOMAIN snaps = 1 .. Len(snaps)
  <2>1. Len(snaps) > 0 => snaps[1].hist \in Seq(Steps)
    <3>1. Len(snaps) > 0 => 1 \in 1 .. Len(snaps)
      BY StackFacts
    <3> QED
      BY <3>1, StackFacts, RecordFacts
  <2>2. hist \in Seq(Steps) /\ Len(hist) \in Nat
        /\ (Len(snaps) > 0 => Base = snaps[1].hist) /\ (Len(snaps) = 0 => Base = hist)
    BY Places
  <2>3. Len(snaps) \in 0 .. 2 /\ DOMAIN snaps = 1 .. Len(snaps)
    BY StackFacts
  <2>4. Len(snaps) = 0 \/ Len(snaps) > 0
    BY <2>3
  <2> QED
    BY <2>1, <2>2, <2>3, <2>4
<1> QED
  BY <1>1, FlattenStack

\* Documents that hold the parts under the snapshots tell the history.
LEMMA DocumentsTellHistory ==
    ASSUME TypeOK, StackInv, HistInv, NEW docs \in [DOMAIN snaps -> Seq(Steps)],
           \A i \in DOMAIN snaps : docs[i] = SubSeq(hist, Kept(i) + 1, Upto(i))
    PROVE  Base \o FlattenSeq(docs) = hist
<1>1. /\ hist \in Seq(Steps) /\ Len(hist) \in Nat /\ Base \in Seq(Steps)
      /\ Len(snaps) \in 0 .. 2 /\ DOMAIN snaps = 1 .. Len(snaps)
      /\ Len(snaps) = 0 => FlattenSeq(docs) = <<>>
      /\ Len(snaps) = 1 => FlattenSeq(docs) = docs[1]
      /\ Len(snaps) = 2 => FlattenSeq(docs) = docs[1] \o docs[2]
  BY StackedDocuments
<1>2. SubSeq(hist, 1, Len(hist)) = hist
  BY <1>1, SubSeqFull
<1>3. CASE Len(snaps) = 0
  <2>1. Base \o <<>> = Base
    BY <1>1, ConcatEmptySeq
  <2> QED
    BY <1>1, <1>3, <2>1, Places
<1>4. CASE Len(snaps) = 1
  <2>1. Len(snaps) > 0 /\ 1 \in DOMAIN snaps /\ FlattenSeq(docs) = docs[1]
        /\ Upto(1) = Len(hist)
    BY <1>1, <1>4, Places
  <2>2. Base \o SubSeq(hist, Kept(1) + 1, Upto(1)) = SubSeq(hist, 1, Upto(1))
    BY <2>1, Joined
  <2> QED
    BY <1>2, <2>1, <2>2
<1>5. CASE Len(snaps) = 2
  <2>1. /\ Len(snaps) > 0 /\ 1 \in DOMAIN snaps /\ 2 \in DOMAIN snaps
        /\ FlattenSeq(docs) = docs[1] \o docs[2]
        /\ Upto(1) = Kept(2) /\ Upto(2) = Len(hist)
    BY <1>1, <1>5, Places
  <2>2. Base \o SubSeq(hist, Kept(1) + 1, Upto(1)) = SubSeq(hist, 1, Upto(1))
    BY <2>1, Joined
  <2>3. Base \o (docs[1] \o docs[2]) = (Base \o docs[1]) \o docs[2]
    <3> DEFINE b == Base
               first == docs[1]
               second == docs[2]
    <3>1. b \in Seq(Steps) /\ first \in Seq(Steps) /\ second \in Seq(Steps)
      BY <1>1, <2>1
    <3> HIDE DEF b, first, second
    <3>2. b \o (first \o second) = (b \o first) \o second
      BY <3>1, ConcatAssociative
    <3> QED
      BY <3>2 DEF b, first, second
  <2>4. docs[1] = SubSeq(hist, Kept(1) + 1, Upto(1))
        /\ docs[2] = SubSeq(hist, Kept(2) + 1, Len(hist))
    BY <2>1
  <2>5. Kept(2) \in Nat /\ Kept(2) <= Len(hist)
    BY <1>1, <2>1, Places
  <2>6. SubSeq(hist, 1, Kept(2)) \o SubSeq(hist, Kept(2) + 1, Len(hist))
           = SubSeq(hist, 1, Len(hist))
    <3>1. 1 \in 1 .. (Len(hist) + 1) /\ Kept(2) \in (1 - 1) .. Len(hist)
          /\ Len(hist) \in Kept(2) .. Len(hist)
      BY <1>1, <2>5
    <3> QED
      BY <1>1, <3>1, ConcatAdjacentSubSeq
  <2> QED
    BY <1>2, <2>1, <2>2, <2>3, <2>4, <2>6
<1> QED
  BY <1>1, <1>3, <1>4, <1>5

\* The XML documents tell its rows: when trajectories are switched off those of the
\* snapshots are empty.
LEMMA DocumentsTellRows ==
    ASSUME TypeOK, StackInv, HistInv, DocsInv, NEW docs \in [DOMAIN snaps -> Seq(Steps)],
           \A i \in DOMAIN snaps : docs[i] = snaps[i].xml
    PROVE  Base \o FlattenSeq(docs) = Rows
<1>1. Rows = IF trajOut THEN hist ELSE Base
  BY RowsOfHistory
<1>2. \A i \in DOMAIN snaps :
         docs[i] = IF trajOut THEN SubSeq(hist, Kept(i) + 1, Upto(i)) ELSE <<>>
  BY DEF DocsInv
<1>3. CASE trajOut
  BY <1>1, <1>2, <1>3, DocumentsTellHistory
<1>4. CASE ~trajOut
  <2>1. /\ Base \in Seq(Steps) /\ Len(snaps) \in 0 .. 2 /\ DOMAIN snaps = 1 .. Len(snaps)
        /\ Len(snaps) = 0 => FlattenSeq(docs) = <<>>
        /\ Len(snaps) = 1 => FlattenSeq(docs) = docs[1]
        /\ Len(snaps) = 2 => FlattenSeq(docs) = docs[1] \o docs[2]
    BY StackedDocuments
  <2>2. \A i \in DOMAIN snaps : docs[i] = <<>>
    BY <1>2, <1>4
  <2>3. Base \o <<>> = Base /\ <<>> \o <<>> = <<>>
    <3>1. <<>> \in Seq(Steps)
      OBVIOUS
    <3> QED
      BY <2>1, <3>1, ConcatEmptySeq
  <2>4. FlattenSeq(docs) = <<>>
    <3>1. Len(snaps) = 0 \/ Len(snaps) = 1 \/ Len(snaps) = 2
      BY <2>1
    <3>2. CASE Len(snaps) = 0
      BY <2>1, <3>2
    <3>3. CASE Len(snaps) = 1
      BY <2>1, <2>2, <3>3
    <3>4. CASE Len(snaps) = 2
      BY <2>1, <2>2, <2>3, <3>4
    <3> QED
      BY <3>1, <3>2, <3>3, <3>4
  <2> QED
    BY <1>1, <1>4, <2>3, <2>4
<1> QED
  BY <1>3, <1>4

\* The XML document, main file and temporary ones, tells the history of the current
\* state: each step that was output once, in order, none of an abandoned attempt.
THEOREM XmlTellsHistory == InstanceSpec => []XmlFollowsHistory
<1>1. ASSUME IInv PROVE XmlFollowsHistory
  <2>1. TypeOK /\ StackInv /\ HistInv /\ DocsInv
    BY <1>1 DEF IInv
  <2> DEFINE docs == [i \in DOMAIN snaps |-> snaps[i].xml]
  <2>2. docs \in [DOMAIN snaps -> Seq(Steps)]
    BY <2>1, StackFacts, RecordFacts
  <2>3. Base \o FlattenSeq(docs) = Rows
    <3>1. \A i \in DOMAIN snaps : docs[i] = snaps[i].xml
      OBVIOUS
    <3> HIDE DEF docs
    <3> QED
      BY <2>1, <2>2, <3>1, DocumentsTellRows
  <2>4. xmlMain = Base
    BY <2>1 DEF DocsInv
  <2> QED
    BY <2>3, <2>4 DEF XmlFollowsHistory
<1> QED
  BY <1>1, Invariance, PTL

\* The CSV files, whose writer has a pointer and an index of its own, tell all of it:
\* every step of the current state once, in order, whether trajectories were switched
\* off or not, and none of an abandoned attempt.
THEOREM CsvTellsHistory == InstanceSpec => []CsvFollowsHistory
<1>1. ASSUME IInv PROVE CsvFollowsHistory
  <2>1. TypeOK /\ StackInv /\ HistInv /\ DocsInv
    BY <1>1 DEF IInv
  <2> DEFINE docs == [i \in DOMAIN snaps |-> disk[snaps[i].file]]
  <2>2. ASSUME NEW i \in DOMAIN snaps
        PROVE  /\ snaps[i].file \in DOMAIN disk
               /\ docs[i] = SubSeq(hist, Kept(i) + 1, Upto(i))
               /\ docs[i] \in Seq(Steps)
    <3>1. snaps[i].file = i - 1 /\ DOMAIN disk = {j - 1 : j \in DOMAIN snaps}
      BY <2>1 DEF StackInv
    <3>2. disk[i - 1] = SubSeq(hist, Kept(i) + 1, Upto(i))
      BY <2>1 DEF DocsInv
    <3>3. i - 1 \in DOMAIN disk
      BY <3>1
    <3>4. disk[i - 1] \in Seq(Steps)
      BY <2>1, <3>3 DEF TypeOK
    <3> QED
      BY <3>1, <3>2, <3>3, <3>4
  <2>3. docs \in [DOMAIN snaps -> Seq(Steps)]
    BY <2>2
  <2>4. Base \o FlattenSeq(docs) = hist
    <3>1. \A i \in DOMAIN snaps : docs[i] = SubSeq(hist, Kept(i) + 1, Upto(i))
      BY <2>2
    <3> HIDE DEF docs
    <3> QED
      BY <2>1, <2>3, <3>1, DocumentsTellHistory
  <2>5. csvMain = Base
    BY <2>1 DEF DocsInv
  <2> QED
    BY <2>2, <2>4, <2>5 DEF CsvFollowsHistory
<1> QED
  BY <1>1, Invariance, PTL

--------------------------------------------------------------------------------
(* The travel times, which are written by periods of several steps: a      *)
(* snapshot may be taken, gone back to or committed in the middle of one.  *)
(* The invariant says what has been gathered at the end of any history, in *)
(* the network and in each snapshot, and that the document of a snapshot   *)
(* holds the periods that ended in the part of the history under it.       *)

\* The periods of travel times closed by the first n steps of h, and what is
\* gathered after them.
Part(h, from, to) == SubSeq(h, IF from = 0 THEN 2 ELSE from + 1, to)
Nb(n) == n \div OutputPeriod
PeriodsTill(h, n) ==
    [k \in 1 .. Nb(n) |-> Part(h, (k - 1) * OutputPeriod, k * OutputPeriod)]
RestTill(h, n) == Part(h, Nb(n) * OutputPeriod, n)
TravelOf(h) == [period |-> IF h = <<>> THEN 0 ELSE Nb(Len(h)) + 1,
                data |-> RestTill(h, Len(h))]
Cut(h) == IF Len(h) = Nb(Len(h)) * OutputPeriod THEN <<>> ELSE <<RestTill(h, Len(h))>>

\* The same of the documents of travel times, and what a snapshot keeps of them.
TravelInv ==
    /\ travel = TravelOf(hist)
    /\ \A i \in DOMAIN snaps : snaps[i].travel = TravelOf(snaps[i].hist)
    /\ finished => ttMain = PeriodsTill(hist, Len(hist)) \o Cut(hist)
    /\ ~finished =>
          /\ ttMain = PeriodsTill(hist, Len(Base))
          /\ \A i \in DOMAIN snaps :
                PeriodsTill(hist, Upto(i)) = PeriodsTill(hist, Kept(i)) \o snaps[i].periods

\* A period of travel times lasts several steps: the first step opens the first
\* period, so that with one step in each every period is late by one.
LongPeriods == OutputPeriod > 1

--------------------------------------------------------------------------------
(* Divisions *)

\* What a division by a positive number is.
LEMMA Quotient ==
    ASSUME NEW n \in Nat, NEW p \in Nat \ {0}
    PROVE  /\ n \div p \in Nat
           /\ (n \div p) * p <= n /\ n < (n \div p) * p + p
  OBVIOUS

\* Multiples of a positive number grow by it.
LEMMA Products ==
    ASSUME NEW a \in Nat, NEW b \in Nat, NEW p \in Nat \ {0}
    PROVE  /\ a * p \in Nat /\ (a + 1) * p = a * p + p
           /\ a < b => a * p + p <= b * p
           /\ a >= 1 => a * p >= p
           /\ a * p = 0 <=> a = 0
<1>1. a * p \in Nat /\ (a + 1) * p = a * p + p
  OBVIOUS
<1>2. ASSUME a < b PROVE a * p + p <= b * p
  <2>1. b * p = (a + 1) * p + (b - a - 1) * p
    OBVIOUS
  <2>2. b - a - 1 \in Nat
    BY <1>2
  <2>3. (b - a - 1) * p >= 0
    BY <2>2
  <2> QED
    BY <1>1, <2>1, <2>3
<1>3. ASSUME a >= 1 PROVE a * p >= p
  <2>1. a * p = p + (a - 1) * p /\ a - 1 \in Nat
    BY <1>3
  <2>2. (a - 1) * p >= 0
    BY <2>1
  <2> QED
    BY <2>1, <2>2
<1> QED
  BY <1>1, <1>2, <1>3

\* The only number with the bounds of a quotient.
LEMMA QuotientIs ==
    ASSUME NEW n \in Nat, NEW p \in Nat \ {0}, NEW q \in Nat, q * p <= n, n < q * p + p
    PROVE  n \div p = q
<1> DEFINE d == n \div p
<1>1. d \in Nat /\ d * p <= n /\ n < d * p + p
  BY Quotient
<1> HIDE DEF d
<1>2. d * p \in Nat /\ q * p \in Nat /\ (d < q => d * p + p <= q * p)
      /\ (q < d => q * p + p <= d * p)
  BY <1>1, Products
<1>3. ~(d < q) /\ ~(q < d)
  BY <1>1, <1>2
<1>4. d = q
  BY <1>1, <1>3
<1> QED
  BY <1>4 DEF d

\* How many periods a step more makes.
LEMMA PeriodsMore ==
    ASSUME NEW n \in Nat, NEW q, q = Nb(n)
    PROVE  /\ q \in Nat /\ q * OutputPeriod \in Nat /\ q * OutputPeriod <= n
           /\ n < q * OutputPeriod + OutputPeriod
           /\ (q + 1) * OutputPeriod = q * OutputPeriod + OutputPeriod
           /\ n + 1 >= (q + 1) * OutputPeriod
                 => Nb(n + 1) = q + 1 /\ n + 1 = (q + 1) * OutputPeriod
           /\ ~(n + 1 >= (q + 1) * OutputPeriod) => Nb(n + 1) = q
<1> DEFINE p == OutputPeriod
           m == q * p
<1>1. p \in Nat \ {0}
  BY Constants
<1>2. q \in Nat /\ m <= n /\ n < m + p
  BY <1>1, Quotient DEF Nb
<1>3. m \in Nat /\ (q + 1) * p = m + p
  BY <1>1, <1>2, Products
<1>4. ASSUME n + 1 >= (q + 1) * p
      PROVE  Nb(n + 1) = q + 1 /\ n + 1 = (q + 1) * p
  <2>1. n + 1 = m + p
    <3> HIDE DEF m
    <3> QED
      BY <1>1, <1>2, <1>3, <1>4
  <2>2. q + 1 \in Nat /\ n + 1 \in Nat /\ (q + 1) * p <= n + 1 /\ n + 1 < (q + 1) * p + p
    <3> HIDE DEF m
    <3> QED
      BY <1>1, <1>2, <1>3, <2>1
  <2>3. (n + 1) \div p = q + 1
    <3> HIDE DEF m, p
    <3> DEFINE q1 == q + 1
               n1 == n + 1
    <3>1. q1 \in Nat /\ n1 \in Nat /\ q1 * p <= n1 /\ n1 < q1 * p + p
      BY <2>2
    <3> HIDE DEF q1, n1
    <3>2. n1 \div p = q1
      BY <1>1, <3>1, QuotientIs
    <3> QED
      BY <3>2 DEF q1, n1
  <2> QED
    BY <1>3, <2>1, <2>3 DEF Nb
<1>5. ASSUME ~(n + 1 >= (q + 1) * p)
      PROVE  Nb(n + 1) = q
  <2>1. n + 1 \in Nat /\ m <= n + 1 /\ n + 1 < m + p
    <3> HIDE DEF m
    <3> QED
      BY <1>1, <1>2, <1>3, <1>5
  <2>2. (n + 1) \div p = q
    <3> HIDE DEF p
    <3> DEFINE n1 == n + 1
    <3>1. n1 \in Nat /\ q * p <= n1 /\ n1 < q * p + p
      BY <2>1
    <3> HIDE DEF n1
    <3>2. n1 \div p = q
      BY <1>1, <1>2, <3>1, QuotientIs
    <3> QED
      BY <3>2 DEF n1
  <2> QED
    BY <2>2 DEF Nb
<1> QED
  BY <1>2, <1>3, <1>4, <1>5


\* The ends of the periods closed by n steps are among them.
LEMMA PeriodEnds ==
    ASSUME NEW n \in Nat, NEW k \in 1 .. Nb(n)
    PROVE  /\ (k - 1) * OutputPeriod \in Nat /\ k * OutputPeriod \in Nat
           /\ (k - 1) * OutputPeriod <= n /\ k * OutputPeriod <= n
           /\ k * OutputPeriod # 0
<1> DEFINE p == OutputPeriod
           q == Nb(n)
<1>1. p \in Nat \ {0} /\ q \in Nat /\ q * p <= n
  BY Constants, Quotient DEF Nb
<1> HIDE DEF p, q
<1>2. k \in Nat /\ k <= q /\ k >= 1 /\ k - 1 \in Nat /\ k - 1 < q
  BY <1>1 DEF q
<1>3. k * p \in Nat /\ (k < q => k * p + p <= q * p) /\ (k * p = 0 <=> k = 0)
  BY <1>1, <1>2, Products
<1>4. (k - 1) * p \in Nat /\ (k - 1) * p + p <= q * p
  <2> DEFINE j == k - 1
  <2>1. j \in Nat /\ j < q
    BY <1>2
  <2> HIDE DEF j
  <2>2. j * p \in Nat /\ j * p + p <= q * p
    BY <1>1, <2>1, Products
  <2> QED
    BY <2>2 DEF j
<1>5. k * p <= q * p /\ q * p \in Nat
  <2>1. q * p \in Nat
    BY <1>1, Products
  <2>2. CASE k = q
    BY <2>1, <2>2
  <2>3. CASE k # q
    <3>1. k < q
      BY <1>1, <1>2, <2>3
    <3> QED
      BY <1>1, <1>3, <2>1, <3>1
  <2> QED
    BY <2>2, <2>3
<1>6. k * p <= n /\ (k - 1) * p <= n /\ k * p # 0
  <2> DEFINE a == k * p
             b == (k - 1) * p
             c == q * p
  <2>1. a \in Nat /\ b \in Nat /\ c \in Nat /\ a <= c /\ b + p <= c /\ c <= n /\ (a = 0 <=> k = 0)
    BY <1>1, <1>3, <1>4, <1>5
  <2> HIDE DEF a, b, c
  <2>2. a <= n /\ b <= n /\ a # 0
    BY <1>1, <1>2, <2>1
  <2> QED
    BY <2>2 DEF a, b
<1> QED
  BY <1>3, <1>4, <1>6 DEF p

--------------------------------------------------------------------------------
(* The periods of a history *)

\* Histories that agree on their first n steps have the same parts of them.
LEMMA SameParts ==
    ASSUME NEW g \in Seq(Steps), NEW h \in Seq(Steps), NEW n \in Nat,
           n <= Len(g), n <= Len(h), \A i \in 1 .. n : g[i] = h[i],
           NEW a \in Nat, NEW b \in Nat, b <= n
    PROVE  Part(g, a, b) = Part(h, a, b) /\ Part(h, a, b) \in Seq(Steps)
<1> DEFINE s == IF a = 0 THEN 2 ELSE a + 1
<1>1. s \in Nat \ {0} /\ b <= Len(g) /\ b <= Len(h) /\ \A i \in s .. b : g[i] = h[i]
  BY LenProperties
<1> HIDE DEF s
<1>2. SubSeq(g, s, b) = SubSeq(h, s, b) /\ SubSeq(h, s, b) \in Seq(Steps)
  BY <1>1, SamePart
<1> QED
  BY <1>2 DEF s, Part

\* So they have the same periods closed and the same steps gathered.
LEMMA SamePeriods ==
    ASSUME NEW g \in Seq(Steps), NEW h \in Seq(Steps), NEW n \in Nat,
           n <= Len(g), n <= Len(h), \A i \in 1 .. n : g[i] = h[i]
    PROVE  /\ PeriodsTill(g, n) = PeriodsTill(h, n) /\ RestTill(g, n) = RestTill(h, n)
           /\ PeriodsTill(h, n) \in Seq(Seq(Steps)) /\ Len(PeriodsTill(h, n)) = Nb(n)
           /\ RestTill(h, n) \in Seq(Steps)
<1>1. Nb(n) \in Nat /\ Nb(n) * OutputPeriod \in Nat
  BY PeriodsMore
<1> DEFINE Same(a, b) == Part(g, a, b) = Part(h, a, b) /\ Part(h, a, b) \in Seq(Steps)
<1>0. \A a, b \in Nat : b <= n => Same(a, b)
  BY SameParts
<1> HIDE DEF Same
<1>2. ASSUME NEW k \in 1 .. Nb(n)
      PROVE  /\ Part(g, (k - 1) * OutputPeriod, k * OutputPeriod)
                   = Part(h, (k - 1) * OutputPeriod, k * OutputPeriod)
             /\ Part(h, (k - 1) * OutputPeriod, k * OutputPeriod) \in Seq(Steps)
  <2> DEFINE a == (k - 1) * OutputPeriod
             b == k * OutputPeriod
  <2>1. a \in Nat /\ b \in Nat /\ b <= n
    BY PeriodEnds
  <2> HIDE DEF a, b
  <2>2. Same(a, b)
    BY <1>0, <2>1
  <2> QED
    BY <2>2 DEF a, b, Same
<1>3. PeriodsTill(g, n) = PeriodsTill(h, n)
  BY <1>2 DEF PeriodsTill
<1>4. PeriodsTill(h, n) \in Seq(Seq(Steps)) /\ Len(PeriodsTill(h, n)) = Nb(n)
  <2> DEFINE N == Nb(n)
             P(k) == Part(h, (k - 1) * OutputPeriod, k * OutputPeriod)
             f == [k \in 1 .. N |-> P(k)]
  <2>1. \A k \in 1 .. N : P(k) \in Seq(Steps)
    BY <1>2
  <2>2. f = PeriodsTill(h, n)
    BY DEF PeriodsTill
  <2>3. N \in Nat
    BY <1>1
  <2> HIDE DEF P, N
  <2>4. f \in [1 .. N -> Seq(Steps)]
    BY <2>1
  <2> HIDE DEF f
  <2>5. f \in Seq(Seq(Steps)) /\ Len(f) = N
    BY <2>3, <2>4
  <2> QED
    BY <2>2, <2>5 DEF N
<1>5. RestTill(g, n) = RestTill(h, n) /\ RestTill(h, n) \in Seq(Steps)
  <2> DEFINE a == Nb(n) * OutputPeriod
  <2>1. a \in Nat /\ n <= n
    BY <1>1
  <2> HIDE DEF a
  <2>2. Same(a, n)
    BY <1>0, <2>1
  <2> QED
    BY <2>2 DEF a, Same, RestTill
<1> QED
  BY <1>3, <1>4, <1>5

\* A step more in a period that it does not end: it is gathered.
LEMMA PeriodGoesOn ==
    ASSUME NEW h \in Seq(Steps), NEW x \in Steps, NEW g, g = Append(h, x), h # <<>>,
           ~(Len(h) + 1 >= (Nb(Len(h)) + 1) * OutputPeriod)
    PROVE  /\ PeriodsTill(g, Len(g)) = PeriodsTill(h, Len(h))
           /\ RestTill(g, Len(g)) = Append(RestTill(h, Len(h)), x)
           /\ Nb(Len(g)) = Nb(Len(h))
<1> DEFINE n == Len(h)
           m == Nb(n) * OutputPeriod
           s == IF m = 0 THEN 2 ELSE m + 1
<1>1. /\ g \in Seq(Steps) /\ Len(g) = n + 1 /\ n \in Nat /\ n # 0
      /\ \A i \in 1 .. n : g[i] = h[i]
      /\ \A a \in 1 .. (n + 1) : SubSeq(g, a, n + 1) = SubSeq(h, a, n) \o <<x>>
  BY PartOfAppend, EmptySeq, LenProperties
<1>2. m \in Nat /\ m <= n /\ Nb(n + 1) = Nb(n)
  BY <1>1, PeriodsMore
<1>3. PeriodsTill(g, n + 1) = PeriodsTill(g, n)
  BY <1>2 DEF PeriodsTill
<1>4. PeriodsTill(g, n) = PeriodsTill(h, n) /\ RestTill(h, n) \in Seq(Steps)
  <2>1. n <= Len(g) /\ n <= Len(h)
    BY <1>1
  <2> QED
    BY <1>1, <2>1, SamePeriods
<1>5. RestTill(g, n + 1) = SubSeq(g, s, n + 1) /\ RestTill(h, n) = SubSeq(h, s, n)
  BY <1>2 DEF RestTill, Part
<1>6. s \in 1 .. (n + 1)
  <2> HIDE DEF m, n
  <2> QED
    BY <1>1, <1>2
<1> HIDE DEF s
<1>7. RestTill(g, n + 1) = RestTill(h, n) \o <<x>>
  BY <1>1, <1>5, <1>6
<1>8. RestTill(h, n) \o <<x>> = Append(RestTill(h, n), x)
  BY <1>4, AppendIsConcat
<1> QED
  BY <1>1, <1>2, <1>3, <1>4, <1>7, <1>8

\* A step more that ends its period: the period is closed with it, and nothing is left.
LEMMA PeriodEndsNow ==
    ASSUME NEW h \in Seq(Steps), NEW x \in Steps, NEW g, g = Append(h, x), h # <<>>,
           Len(h) + 1 >= (Nb(Len(h)) + 1) * OutputPeriod
    PROVE  /\ PeriodsTill(g, Len(g))
                 = PeriodsTill(h, Len(h)) \o <<Append(RestTill(h, Len(h)), x)>>
           /\ RestTill(g, Len(g)) = <<>>
           /\ Nb(Len(g)) = Nb(Len(h)) + 1
<1> DEFINE n == Len(h)
           q == Nb(n)
           m == q * OutputPeriod
           s == IF m = 0 THEN 2 ELSE m + 1
           new == Append(RestTill(h, n), x)
<1>1. /\ g \in Seq(Steps) /\ Len(g) = n + 1 /\ n \in Nat /\ n # 0
      /\ \A i \in 1 .. n : g[i] = h[i]
      /\ \A a \in 1 .. (n + 1) : SubSeq(g, a, n + 1) = SubSeq(h, a, n) \o <<x>>
  BY PartOfAppend, EmptySeq, LenProperties
<1>2. /\ q \in Nat /\ m \in Nat /\ m <= n
      /\ Nb(n + 1) = q + 1 /\ n + 1 = (q + 1) * OutputPeriod
  BY <1>1, PeriodsMore
<1>3. PeriodsTill(g, n) = PeriodsTill(h, n) /\ RestTill(h, n) \in Seq(Steps)
      /\ PeriodsTill(h, n) \in Seq(Seq(Steps)) /\ Len(PeriodsTill(h, n)) = q
  <2>1. n <= Len(g) /\ n <= Len(h)
    BY <1>1
  <2> QED
    BY <1>1, <2>1, SamePeriods
<1>4. new \in Seq(Steps) /\ new = RestTill(h, n) \o <<x>>
  BY <1>3, AppendProperties, AppendIsConcat
<1>5. Part(g, m, n + 1) = new
  <2>1. s \in 1 .. (n + 1)
    <3> HIDE DEF m, n
    <3> QED
      BY <1>1, <1>2
  <2>2. Part(g, m, n + 1) = SubSeq(g, s, n + 1) /\ RestTill(h, n) = SubSeq(h, s, n)
    BY DEF RestTill, Part
  <2> HIDE DEF s, new
  <2> QED
    BY <1>1, <1>4, <2>1, <2>2
<1>6. RestTill(g, n + 1) = <<>>
  <2>1. RestTill(g, n + 1) = Part(g, n + 1, n + 1)
    BY <1>2 DEF RestTill
  <2>2. Part(g, n + 1, n + 1) = SubSeq(g, n + 2, n + 1)
    <3>1. n + 1 # 0 /\ n + 1 + 1 = n + 2
      BY <1>1
    <3> QED
      BY <3>1 DEF Part
  <2>3. SubSeq(g, n + 2, n + 1) = <<>>
    <3>1. n + 2 \in Int /\ n + 1 \in Int /\ ~(n + 2 <= n + 1)
      BY <1>1
    <3>2. \A i \in (n + 2) .. (n + 1) : g[i] \in Steps
      BY <1>1
    <3> DEFINE e == SubSeq(g, n + 2, n + 1)
    <3>3. e \in Seq(Steps) /\ Len(e) = IF n + 2 <= n + 1 THEN n + 1 - (n + 2) + 1 ELSE 0
      BY <3>1, <3>2, SubSeqProperties
    <3> HIDE DEF e
    <3>4. Len(e) = 0
      BY <3>1, <3>3
    <3> QED
      BY <3>3, <3>4, EmptySeq DEF e
  <2> QED
    BY <2>1, <2>2, <2>3
<1>7. PeriodsTill(g, n + 1) = Append(PeriodsTill(h, n), new)
  <2> DEFINE P(k) == Part(g, (k - 1) * OutputPeriod, k * OutputPeriod)
             old == PeriodsTill(h, n)
             whole == PeriodsTill(g, n + 1)
  <2>1. whole = [k \in 1 .. (q + 1) |-> P(k)]
    BY <1>2 DEF PeriodsTill
  <2>2. old = [k \in 1 .. q |-> P(k)]
    BY <1>3 DEF PeriodsTill
  <2>3. P(q + 1) = new
    <3>1. (q + 1 - 1) * OutputPeriod = m
      <4>1. q + 1 - 1 = q
        BY <1>2
      <4> QED
        BY <4>1
    <3> QED
      BY <1>2, <1>5, <3>1
  <2>4. old \in Seq(Seq(Steps)) /\ Len(old) = q
    BY <1>3
  <2> HIDE DEF P, old, whole, new, q
  <2>5. /\ Append(old, new) \in Seq(Seq(Steps)) /\ Len(Append(old, new)) = q + 1
        /\ \A k \in 1 .. q : Append(old, new)[k] = old[k]
        /\ Append(old, new)[q + 1] = new
    BY <1>4, <2>4, AppendProperties
  <2>6. \A k \in 1 .. (q + 1) : Append(old, new)[k] = P(k)
    <3> TAKE k \in 1 .. (q + 1)
    <3>1. CASE k = q + 1
      BY <2>3, <2>5, <3>1
    <3>2. CASE k # q + 1
      <4>1. k \in 1 .. q
        BY <1>2, <3>2
      <4> QED
        BY <2>2, <2>5, <4>1
    <3> QED
      BY <3>1, <3>2
  <2> DEFINE both == Append(old, new)
  <2>7. both = [k \in 1 .. (q + 1) |-> P(k)]
    <3>1. DOMAIN both = 1 .. (q + 1) /\ \A k \in 1 .. (q + 1) : both[k] = P(k)
      BY <2>5, <2>6, LenProperties
    <3>2. both \in [1 .. (q + 1) -> Seq(Steps)]
      BY <2>5, LenProperties
    <3> HIDE DEF both
    <3> QED
      BY <3>1, <3>2
  <2> QED
    BY <2>1, <2>7 DEF old, whole
<1>8. Append(PeriodsTill(h, n), new) = PeriodsTill(h, n) \o <<new>>
  BY <1>3, <1>4, AppendIsConcat
<1> QED
  BY <1>1, <1>2, <1>6, <1>7, <1>8

\* The first step only opens the first period.
LEMMA FirstPeriodOpens ==
    ASSUME LongPeriods, NEW x \in Steps, NEW g, g = Append(<<>>, x)
    PROVE  /\ PeriodsTill(g, Len(g)) = <<>> /\ PeriodsTill(<<>>, 0) = <<>>
           /\ RestTill(g, Len(g)) = <<>> /\ Nb(Len(g)) = 0
           /\ RestTill(<<>>, 0) = <<>> /\ Nb(0) = 0
<1>1. g \in Seq(Steps) /\ Len(g) = 1
  <2>1. <<>> \in Seq(Steps) /\ Len(<<>>) = 0
    OBVIOUS
  <2> QED
    BY <2>1, AppendProperties
<1>2. Nb(0) = 0 /\ Nb(1) = 0
  <2>1. OutputPeriod \in Nat \ {0} /\ 1 < OutputPeriod
    BY Constants DEF LongPeriods
  <2>2. 0 * OutputPeriod = 0
    BY <2>1
  <2>3. 0 \div OutputPeriod = 0 /\ 1 \div OutputPeriod = 0
    BY <2>1, <2>2, QuotientIs
  <2> QED
    BY <2>3 DEF Nb
<1>3. \A h : PeriodsTill(h, 0) = <<>> /\ PeriodsTill(h, 1) = <<>>
  BY <1>2 DEF PeriodsTill
<1>4. 0 * OutputPeriod = 0
  BY Constants
<1>5. RestTill(g, 1) = SubSeq(g, 2, 1) /\ RestTill(<<>>, 0) = SubSeq(<<>>, 2, 0)
  BY <1>2, <1>4 DEF RestTill, Part
<1>6. SubSeq(g, 2, 1) = <<>> /\ SubSeq(<<>>, 2, 0) = <<>>
  BY <1>1
<1> QED
  BY <1>1, <1>2, <1>3, <1>5, <1>6

\* One time step keeps what has been gathered, and writes the period it ends.
LEMMA TravelStep ==
    ASSUME TypeOK, LongPeriods, travel = TravelOf(hist), NEW g, g = Append(hist, TheStep)
    PROVE  /\ TravelAfter(Len(hist) + 1, TheStep) = TravelOf(g)
           /\ PeriodsTill(g, Len(g)) = PeriodsTill(hist, Len(hist)) \o ThePeriods
<1> DEFINE n == Len(hist)
           q == Nb(n)
           d == RestTill(hist, n)
           W == PeriodsTill(hist, n)
<1>1. /\ TheStep \in Steps /\ hist \in Seq(Steps) /\ n \in Nat
      /\ Len(g) = n + 1 /\ g \in Seq(Steps)
  BY StepFacts, AppendProperties, LenProperties DEF TypeOK
<1>2. q \in Nat /\ d \in Seq(Steps) /\ W \in Seq(Seq(Steps)) /\ OutputPeriod \in Nat \ {0}
  <2>1. n <= Len(hist) /\ \A i \in 1 .. n : hist[i] = hist[i]
    BY <1>1
  <2>2. d \in Seq(Steps) /\ W \in Seq(Seq(Steps))
    BY <1>1, <2>1, SamePeriods
  <2> QED
    BY <1>1, <2>2, Constants, PeriodsMore
<1>3. g # <<>>
  BY <1>1, EmptySeq
<1>4. travel.data = d /\ travel.period = IF hist = <<>> THEN 0 ELSE q + 1
  BY DEF TravelOf
<1>5. TravelOf(g) = [period |-> Nb(n + 1) + 1, data |-> RestTill(g, n + 1)]
  BY <1>1, <1>3 DEF TravelOf
<1>6. CASE hist = <<>>
  <2>1. PeriodsTill(g, n + 1) = <<>> /\ W = <<>> /\ RestTill(g, n + 1) = <<>>
        /\ Nb(n + 1) = 0 /\ q = 0 /\ d = <<>>
    <3>1. n = 0
      BY <1>6
    <3> QED
      BY <1>1, <1>6, <3>1, FirstPeriodOpens
  <2>2. travel.period = 0
    BY <1>4, <1>6
  <2>3. PeriodClosed(n + 1)
    <3>1. 0 * OutputPeriod = 0
      BY <1>2
    <3> QED
      BY <1>1, <2>2, <3>1 DEF PeriodClosed
  <2>4. ThePeriods = <<>>
    BY <2>2 DEF ThePeriods, WrittenAt
  <2>5. TravelAfter(n + 1, TheStep) = [period |-> 0 + 1, data |-> <<>>]
    BY <2>2, <2>3 DEF TravelAfter
  <2>6. W \o ThePeriods = <<>>
    BY <2>1, <2>4
  <2> HIDE DEF W, q, d, n
  <2> QED
    BY <1>1, <1>5, <2>1, <2>5, <2>6 DEF W, n
<1>7. CASE hist # <<>>
  <2>1. travel.period = q + 1 /\ travel.period > 0
    BY <1>2, <1>4, <1>7
  <2>2. CASE n + 1 >= (q + 1) * OutputPeriod
    <3>1. PeriodClosed(n + 1)
      BY <2>1, <2>2 DEF PeriodClosed
    <3>2. ThePeriods = <<Append(d, TheStep)>>
      BY <1>4, <2>1, <3>1 DEF ThePeriods, WrittenAt, Gathered
    <3>3. TravelAfter(n + 1, TheStep) = [period |-> q + 1 + 1, data |-> <<>>]
      BY <2>1, <3>1 DEF TravelAfter
    <3>4. /\ PeriodsTill(g, n + 1) = W \o <<Append(d, TheStep)>>
          /\ RestTill(g, n + 1) = <<>> /\ Nb(n + 1) = q + 1
      <4>1. Len(hist) + 1 >= (Nb(Len(hist)) + 1) * OutputPeriod
        BY <2>2
      <4>2. /\ PeriodsTill(g, Len(g))
                  = PeriodsTill(hist, Len(hist)) \o <<Append(RestTill(hist, Len(hist)), TheStep)>>
            /\ RestTill(g, Len(g)) = <<>>
            /\ Nb(Len(g)) = Nb(Len(hist)) + 1
        <5> HIDE DEF n, q, d, W
        <5> QED
          BY <1>1, <1>7, <4>1, PeriodEndsNow
      <4> QED
        BY <1>1, <4>2
    <3> HIDE DEF W, q, d, n
    <3> QED
      BY <1>1, <1>5, <3>2, <3>3, <3>4 DEF W, n
  <2>3. CASE ~(n + 1 >= (q + 1) * OutputPeriod)
    <3>1. ~PeriodClosed(n + 1)
      BY <2>1, <2>3 DEF PeriodClosed
    <3>2. ThePeriods = <<>>
      BY <3>1 DEF ThePeriods, WrittenAt
    <3> DEFINE new == Append(d, TheStep)
    <3>3. TravelAfter(n + 1, TheStep) = [period |-> q + 1, data |-> new]
      <4>1. TravelAfter(n + 1, TheStep) = [travel EXCEPT !.data = new]
        BY <1>4, <3>1 DEF TravelAfter, Gathered
      <4>2. travel = [period |-> q + 1, data |-> d]
        BY <1>7 DEF TravelOf
      <4> HIDE DEF new, q, d
      <4> QED
        BY <4>1, <4>2
    <3>4. /\ PeriodsTill(g, n + 1) = W /\ RestTill(g, n + 1) = new /\ Nb(n + 1) = q
      <4>1. ~(Len(hist) + 1 >= (Nb(Len(hist)) + 1) * OutputPeriod)
        BY <2>3
      <4>2. /\ PeriodsTill(g, Len(g)) = PeriodsTill(hist, Len(hist))
            /\ RestTill(g, Len(g)) = Append(RestTill(hist, Len(hist)), TheStep)
            /\ Nb(Len(g)) = Nb(Len(hist))
        <5> HIDE DEF n, q, d, W, new
        <5> QED
          BY <1>1, <1>7, <4>1, PeriodGoesOn
      <4> QED
        BY <1>1, <4>2
    <3>5. W \o ThePeriods = W
      BY <1>2, <3>2, ConcatEmptySeq
    <3> HIDE DEF W, q, d, n, new
    <3> QED
      BY <1>1, <1>5, <3>3, <3>4, <3>5 DEF W, n
  <2> QED
    BY <2>2, <2>3
<1> QED
  BY <1>6, <1>7

--------------------------------------------------------------------------------
(* Each call keeps the travel times in step with the history *)

\* What the prefix of the history kept by a snapshot has closed and gathered.
LEMMA PeriodsOfPrefix ==
    ASSUME hist \in Seq(Steps), NEW m \in 0 .. Len(hist), NEW g, g = SubSeq(hist, 1, m)
    PROVE  /\ PeriodsTill(g, m) = PeriodsTill(hist, m) /\ Len(g) = m
           /\ PeriodsTill(hist, m) \in Seq(Seq(Steps)) /\ Len(PeriodsTill(hist, m)) = Nb(m)
<1>1. g \in Seq(Steps) /\ Len(g) = m /\ \A i \in 1 .. m : g[i] = hist[i]
  BY PrefixFacts
<1>2. m \in Nat /\ m <= Len(g) /\ m <= Len(hist)
  BY <1>1, LenProperties
<1> QED
  BY <1>1, <1>2, SamePeriods

\* A snapshot keeps what has been gathered, and has an empty document.
LEMMA TakeTravels ==
    ASSUME TypeOK, StackInv, HistInv, DocsInv, TravelInv, TakeSimulationSnapshot,
           Len(snaps) <= 1, trajOut' \in BOOLEAN, snaps = <<>> \/ trajOut' = trajOut
    PROVE  TravelInv'
<1>1. PICK n \in Nat : n = Len(snaps)
  <2>1. Len(snaps) \in Nat
    BY StackFacts
  <2> QED
    BY <2>1
<1>2. /\ hist' = hist /\ travel' = travel /\ ttMain' = ttMain /\ finished' = finished
      /\ ~finished
  BY DEF TakeSimulationSnapshot
<1>3. /\ Base' = Base
      /\ \A i \in 1 .. n : Kept(i)' = Kept(i) /\ Upto(i)' = Upto(i)
      /\ Kept(n + 1)' = Len(hist) /\ Upto(n + 1)' = Len(hist)
  BY <1>1, TakeKeeps
<1>4. /\ DOMAIN snaps' = 1 .. (n + 1) /\ DOMAIN snaps = 1 .. n
      /\ \A i \in 1 .. n : snaps'[i] = snaps[i]
      /\ snaps'[n + 1].hist = hist /\ snaps'[n + 1].travel = travel
      /\ snaps'[n + 1].periods = <<>>
  <2>1. /\ DOMAIN snaps' = 1 .. (n + 1) /\ \A i \in 1 .. n : snaps'[i] = snaps[i]
        /\ snaps'[n + 1] = Snapshot(hist, travel, n)
    BY <1>1, Taken
  <2> QED
    BY <1>1, <2>1, StackFacts DEF Snapshot
<1>5. ASSUME NEW i \in 1 .. (n + 1)
      PROVE  /\ snaps'[i].travel = TravelOf(snaps'[i].hist)
             /\ PeriodsTill(hist, Upto(i)')
                   = PeriodsTill(hist, Kept(i)') \o snaps'[i].periods
  <2>1. CASE i \in 1 .. n
    BY <1>2, <1>3, <1>4, <2>1 DEF TravelInv
  <2>2. CASE i = n + 1
    <3> DEFINE W == PeriodsTill(hist, Len(hist))
    <3>1. W \in Seq(Seq(Steps))
      <4>1. hist \in Seq(Steps) /\ Len(hist) \in 0 .. Len(hist)
        BY LenProperties DEF TypeOK
      <4> QED
        BY <4>1, PeriodsOfPrefix
    <3>2. W = W \o <<>>
      <4> HIDE DEF W
      <4> QED
        BY <3>1, ConcatEmptySeq
    <3>3. travel = TravelOf(hist)
      BY DEF TravelInv
    <3> QED
      BY <1>3, <1>4, <2>2, <3>2, <3>3
  <2>3. i \in 1 .. n \/ i = n + 1
    BY <1>1
  <2> QED
    BY <2>1, <2>2, <2>3
<1>6. travel = TravelOf(hist) /\ ttMain = PeriodsTill(hist, Len(Base))
  BY <1>2 DEF TravelInv
<1> QED
  BY <1>2, <1>3, <1>4, <1>5, <1>6 DEF TravelInv

\* A step adds to the document of the last snapshot the period that it ends.
LEMMA StepTravels ==
    ASSUME TypeOK, StackInv, HistInv, DocsInv, TravelInv, LongPeriods, began, TimeStep
    PROVE  TravelInv'
<1>1. PICK n : n = Len(snaps)
  OBVIOUS
<1>2. /\ n \in 1 .. 2 /\ ~finished
      /\ hist' = Append(hist, TheStep)
      /\ travel' = TravelAfter(Len(hist) + 1, TheStep)
      /\ ttMain' = ttMain
      /\ DOMAIN snaps' = 1 .. n
      /\ \A i \in 1 .. n : i # n => snaps'[i] = snaps[i]
      /\ \A i \in 1 .. n : /\ snaps'[i].hist = snaps[i].hist
                           /\ snaps'[i].travel = snaps[i].travel
      /\ snaps'[n].periods = snaps[n].periods \o ThePeriods
  BY <1>1, Stepped
<1>3. /\ Base' = Base
      /\ \A i \in 1 .. n : Kept(i)' = Kept(i)
      /\ \A i \in 1 .. n : Upto(i)' = IF i = n THEN Len(hist) + 1 ELSE Upto(i)
  BY <1>1, StepKeeps
<1>4. /\ hist \in Seq(Steps) /\ Len(hist) \in Nat /\ TheStep \in Steps
      /\ hist' \in Seq(Steps) /\ Len(hist') = Len(hist) + 1
      /\ \A i \in 1 .. Len(hist) : hist'[i] = hist[i]
  <2>1. hist \in Seq(Steps) /\ TheStep \in Steps
    BY StepFacts DEF TypeOK
  <2> QED
    BY <1>2, <2>1, PartOfAppend, LenProperties
<1>5. /\ DOMAIN snaps = 1 .. n /\ Upto(n) = Len(hist) /\ Len(Base) \in 0 .. Len(hist)
      /\ \A i \in 1 .. n : Kept(i) \in 0 .. Len(hist) /\ Upto(i) \in 0 .. Len(hist)
      /\ snaps[n].periods \in Seq(Seq(Steps)) /\ ThePeriods \in Seq(Seq(Steps))
  <2>1. \A i \in 1 .. n : /\ Kept(i) \in Nat /\ Upto(i) \in Nat
                          /\ Kept(i) <= Upto(i) /\ Upto(i) <= Len(hist)
    BY <1>1, Places
  <2>2. Upto(n) = Len(hist)
    BY <1>1 DEF Upto
  <2>3. \A i \in 1 .. n : Kept(i) \in 0 .. Len(hist) /\ Upto(i) \in 0 .. Len(hist)
    BY <1>4, <2>1
  <2>4. Len(Base) \in 0 .. Len(hist)
    BY Places
  <2>5. n \in 1 .. n
    BY <1>2
  <2>6. snaps[n].periods \in Seq(Seq(Steps))
    BY <1>1, <2>5, StackFacts, RecordFacts
  <2> QED
    BY <1>1, <2>2, <2>3, <2>4, <2>6, StackFacts, StepFacts
<1>6. \A m \in 0 .. Len(hist) : /\ PeriodsTill(hist', m) = PeriodsTill(hist, m)
                                /\ PeriodsTill(hist, m) \in Seq(Seq(Steps))
  <2> TAKE m \in 0 .. Len(hist)
  <2>1. m \in Nat /\ m <= Len(hist') /\ m <= Len(hist) /\ \A i \in 1 .. m : hist'[i] = hist[i]
    BY <1>4
  <2> QED
    BY <1>4, <2>1, SamePeriods
<1>7. /\ travel' = TravelOf(hist')
      /\ PeriodsTill(hist', Len(hist) + 1) = PeriodsTill(hist, Len(hist)) \o ThePeriods
  <2>1. travel = TravelOf(hist)
    BY DEF TravelInv
  <2>2. /\ TravelAfter(Len(hist) + 1, TheStep) = TravelOf(hist')
        /\ PeriodsTill(hist', Len(hist')) = PeriodsTill(hist, Len(hist)) \o ThePeriods
    BY <1>2, <2>1, TravelStep
  <2> QED
    BY <1>2, <1>4, <2>2
<1>8. /\ ttMain = PeriodsTill(hist, Len(Base))
      /\ \A i \in 1 .. n :
            /\ snaps[i].travel = TravelOf(snaps[i].hist)
            /\ PeriodsTill(hist, Upto(i)) = PeriodsTill(hist, Kept(i)) \o snaps[i].periods
  BY <1>2, <1>5 DEF TravelInv
<1>9. ASSUME NEW i \in 1 .. n
      PROVE  PeriodsTill(hist', Upto(i)')
                = PeriodsTill(hist', Kept(i)') \o snaps'[i].periods
  <2>1. CASE i # n
    BY <1>2, <1>3, <1>5, <1>6, <1>8, <2>1
  <2>2. CASE i = n
    <3> DEFINE a == PeriodsTill(hist, Kept(n))
               b == snaps[n].periods
               c == ThePeriods
    <3>1. a \in Seq(Seq(Steps)) /\ b \in Seq(Seq(Steps)) /\ c \in Seq(Seq(Steps))
      BY <1>5, <1>6, <2>2
    <3>2. PeriodsTill(hist', Len(hist) + 1) = (a \o b) \o c
      BY <1>5, <1>7, <1>8, <2>2
    <3>3. (a \o b) \o c = a \o (b \o c)
      <4> HIDE DEF a, b, c
      <4> QED
        BY <3>1, ConcatAssociative
    <3>4. snaps'[n].periods = b \o c
      BY <1>2
    <3>5. PeriodsTill(hist', Kept(i)') = a /\ Upto(i)' = Len(hist) + 1
      BY <1>3, <1>5, <1>6, <2>2
    <3> HIDE DEF a, b, c
    <3> QED
      BY <2>2, <3>2, <3>3, <3>4, <3>5
  <2> QED
    BY <2>1, <2>2
<1>10. ttMain' = PeriodsTill(hist', Len(Base'))
  BY <1>2, <1>3, <1>5, <1>6, <1>8
<1>11. ~finished'
  BY <1>2 DEF TimeStep
<1>12. \A i \in 1 .. n : snaps'[i].travel = TravelOf(snaps'[i].hist)
  BY <1>2, <1>8
<1> QED
  BY <1>2, <1>7, <1>9, <1>10, <1>11, <1>12 DEF TravelInv

\* Going back to a snapshot restores what it keeps; the periods under the first one
\* are committed when the second one is gone back to.
LEMMA RestoreTravels ==
    ASSUME TypeOK, StackInv, HistInv, DocsInv, TravelInv, NEW k \in 1 .. 2,
           SimulationRollback(k), trajOut' = trajOut, k = 2 => trajOut
    PROVE  TravelInv'
<1>1. /\ Base' = hist' /\ Kept(1)' = Len(hist') /\ Upto(1)' = Len(hist')
      /\ DOMAIN snaps' = {1} /\ k \in 1 .. Len(snaps)
      /\ hist' = SubSeq(hist, 1, Kept(k))
  BY RestoreKeeps
<1>2. /\ snaps[k] \in SnapshotRecord /\ DOMAIN snaps = 1 .. Len(snaps)
      /\ Len(snaps) \in 0 .. 2
  BY <1>1, StackFacts
<1>3. /\ hist' = snaps[k].hist /\ travel' = snaps[k].travel
      /\ snaps'[1] = Snapshot(hist', travel', 0) /\ ~finished /\ finished' = finished
  BY <1>2, Restored
<1>4. /\ hist \in Seq(Steps) /\ Kept(k) \in 0 .. Len(hist) /\ Len(Base) = Kept(1)
      /\ (Len(snaps) = 2 => Upto(1) = Kept(2))
  <2>1. /\ hist \in Seq(Steps) /\ Len(hist) \in Nat /\ Kept(k) \in Nat /\ Upto(k) \in Nat
        /\ Kept(k) <= Upto(k) /\ Upto(k) <= Len(hist)
    BY <1>1, Places
  <2>2. Len(snaps) > 0
    BY <1>1, <1>2
  <2>3. Kept(k) \in 0 .. Len(hist)
    BY <2>1
  <2> QED
    BY <2>1, <2>2, <2>3, Places
<1>5. /\ Len(hist') = Kept(k)
      /\ PeriodsTill(hist', Kept(k)) = PeriodsTill(hist, Kept(k))
      /\ PeriodsTill(hist, Kept(k)) \in Seq(Seq(Steps))
  BY <1>1, <1>4, PeriodsOfPrefix
<1>6. travel' = TravelOf(hist')
  BY <1>1, <1>2, <1>3 DEF TravelInv
<1>7. snaps'[1].travel = TravelOf(snaps'[1].hist) /\ snaps'[1].periods = <<>>
  BY <1>3, <1>6 DEF Snapshot
<1>8. PeriodsTill(hist', Upto(1)') = PeriodsTill(hist', Kept(1)') \o snaps'[1].periods
  <2> DEFINE W == PeriodsTill(hist', Len(hist'))
  <2>1. W \in Seq(Seq(Steps))
    BY <1>5
  <2>2. W = W \o <<>>
    <3> HIDE DEF W
    <3> QED
      BY <2>1, ConcatEmptySeq
  <2> QED
    BY <1>1, <1>7, <2>2
<1>9. ttMain' = PeriodsTill(hist', Len(Base'))
  <2>1. ttMain = PeriodsTill(hist, Kept(1))
    BY <1>3, <1>4 DEF TravelInv
  <2>2. CASE k = 1
    <3>1. ttMain' = ttMain
      BY <2>2, RollbackToFirst
    <3> QED
      BY <1>1, <1>5, <2>1, <2>2, <3>1
  <2>3. CASE k = 2
    <3>1. ttMain' = ttMain \o snaps[1].periods
      BY <2>3, RollbackToSecond
    <3>2. Len(snaps) = 2 /\ 1 \in DOMAIN snaps
      BY <1>1, <1>2, <2>3
    <3>3. PeriodsTill(hist, Upto(1)) = PeriodsTill(hist, Kept(1)) \o snaps[1].periods
      BY <1>3, <3>2 DEF TravelInv
    <3> QED
      BY <1>1, <1>4, <1>5, <2>1, <2>3, <3>1, <3>2, <3>3
  <2> QED
    BY <2>2, <2>3
<1> QED
  BY <1>1, <1>3, <1>6, <1>7, <1>8, <1>9 DEF TravelInv

\* The commit of the only snapshot commits the periods under it.
LEMMA CommitTravels ==
    ASSUME TypeOK, StackInv, HistInv, DocsInv, TravelInv, SimulationCommit, Len(snaps) = 1,
           trajOut' = trajOut, trajOut
    PROVE  TravelInv'
<1>1. Base' = hist' /\ snaps' = <<>> /\ hist' = hist
  BY CommitKeeps
<1>2. travel' = travel /\ ~finished /\ finished' = finished
  BY DEF SimulationCommit
<1>3. ttMain' = ttMain \o snaps[1].periods
  BY CommitOfOne
<1>4. Len(Base) = Kept(1) /\ Upto(1) = Len(hist) /\ 1 \in DOMAIN snaps
  <2>1. Len(snaps) > 0 /\ 1 \in 1 .. Len(snaps)
    OBVIOUS
  <2> QED
    BY <2>1, Places, StackFacts
<1>5. PeriodsTill(hist, Upto(1)) = PeriodsTill(hist, Kept(1)) \o snaps[1].periods
  BY <1>2, <1>4 DEF TravelInv
<1>6. ttMain = PeriodsTill(hist, Len(Base)) /\ travel = TravelOf(hist)
  BY <1>2 DEF TravelInv
<1>7. ttMain' = PeriodsTill(hist', Len(Base'))
  BY <1>1, <1>3, <1>4, <1>5, <1>6
<1>8. DOMAIN snaps' = {}
  BY <1>1
<1> QED
  BY <1>1, <1>2, <1>6, <1>7, <1>8 DEF TravelInv

\* At the end what is left of a period is written, cut short.
LEMMA TerminateTravels ==
    ASSUME TypeOK, StackInv, HistInv, DocsInv, TravelInv, ~began, FinSimuTrafic
    PROVE  TravelInv'
<1>1. /\ hist' = hist /\ snaps' = snaps /\ travel' = travel /\ ~finished /\ finished' = TRUE
      /\ ttMain' = IF cur = 0 THEN ttMain \o LeftOver
                              ELSE ttMain \o snaps[cur].periods \o LeftOver
  BY DEF FinSimuTrafic
<1>2. Len(snaps) \in 0 .. 1 /\ hist = Base /\ cur = Len(snaps) /\ DOMAIN snaps = 1 .. Len(snaps)
  BY <1>1, StackFacts DEF StackInv
<1>3. hist \in Seq(Steps) /\ Len(hist) \in Nat /\ Len(hist) \in 0 .. Len(hist)
  BY LenProperties DEF TypeOK
<1> DEFINE W == PeriodsTill(hist, Len(hist))
           q == Nb(Len(hist))
           d == RestTill(hist, Len(hist))
<1>4. W \in Seq(Seq(Steps)) /\ ttMain = W
  BY <1>1, <1>2, <1>3, PeriodsOfPrefix DEF TravelInv
<1>5. LeftOver = Cut(hist)
  <2>1. q \in Nat /\ q * OutputPeriod \in Nat
    BY <1>3, PeriodsMore
  <2>2. travel.data = d /\ travel.period = IF hist = <<>> THEN 0 ELSE q + 1
    BY DEF TravelInv, TravelOf
  <2>3. CASE hist = <<>>
    <3>1. Len(hist) = q * OutputPeriod
      <4>1. Len(hist) = 0 /\ q * OutputPeriod <= Len(hist)
        BY <1>3, <2>3, PeriodsMore
      <4> HIDE DEF q
      <4> QED
        BY <2>1, <4>1
    <3>2. travel.period = 0
      BY <2>2, <2>3
    <3> QED
      BY <3>1, <3>2 DEF LeftOver, Cut
  <2>4. CASE hist # <<>>
    <3>1. travel.period > 0 /\ travel.period - 1 = q
      <4> HIDE DEF q
      <4> QED
        BY <2>1, <2>2, <2>4
    <3>2. (travel.period - 1) * OutputPeriod = q * OutputPeriod
      BY <3>1
    <3>3. LeftOver = IF q * OutputPeriod # Len(hist) THEN <<d>> ELSE <<>>
      BY <2>2, <3>1, <3>2 DEF LeftOver
    <3> QED
      BY <3>3 DEF Cut
  <2> QED
    BY <2>3, <2>4
<1>6. ttMain' = W \o Cut(hist)
  <2>1. CASE cur = 0
    BY <1>1, <1>4, <1>5, <2>1
  <2>2. CASE cur # 0
    <3>1. cur = 1 /\ Len(snaps) = 1 /\ 1 \in DOMAIN snaps /\ 1 \in 1 .. Len(snaps)
      BY <1>2, <2>2
    <3>2. Upto(1) = Len(hist) /\ Kept(1) = Len(hist)
      BY <1>2, <3>1, Places
    <3>3. W = W \o snaps[1].periods
      BY <1>1, <3>1, <3>2 DEF TravelInv
    <3> QED
      BY <1>1, <1>4, <1>5, <3>1, <3>3
  <2> QED
    BY <2>1, <2>2
<1> QED
  BY <1>1, <1>6 DEF TravelInv


\* Every call, or none, keeps the travel times in step.
LEMMA NextTravels ==
    ASSUME IInv, TravelInv, LongPeriods, [InstanceNext]_vars
    PROVE  TravelInv'
<1>1. TypeOK /\ FlagsOK /\ StackInv /\ HistInv /\ DocsInv
  BY DEF IInv
<1>2. CASE UNCHANGED vars
  <2>1. /\ hist' = hist /\ snaps' = snaps /\ travel' = travel /\ ttMain' = ttMain
        /\ finished' = finished
    BY <1>2 DEF vars, apiVars, stackVars
  <2> QED
    BY <2>1 DEF TravelInv, Base, Kept, Upto
<1>3. ASSUME NEW notFinal \in BOOLEAN, AssignmentPeriodStart(notFinal) PROVE TravelInv'
  <2>1. trajOut' \in BOOLEAN
    BY <1>3 DEF AssignmentPeriodStart
  <2>2. CASE hasStart
    <3>1. /\ hist' = hist /\ snaps' = snaps /\ travel' = travel /\ ttMain' = ttMain
          /\ finished' = finished
      BY <1>3, <2>2 DEF AssignmentPeriodStart, stackVars
    <3> QED
      BY <3>1 DEF TravelInv, Base, Kept, Upto
  <2>3. CASE ~hasStart
    <3>1. TakeSimulationSnapshot
      BY <1>3, <2>3 DEF AssignmentPeriodStart
    <3>2. snaps = <<>>
      BY <1>1, <2>3 DEF StackInv
    <3>3. Len(snaps) <= 1
      BY <3>2
    <3> QED
      BY <1>1, <2>1, <3>1, <3>2, <3>3, TakeTravels
  <2> QED
    BY <1>1, <2>2, <2>3 DEF FlagsOK
<1>4. CASE Step
  <2>1. began /\ TimeStep
    BY <1>4 DEF Step
  <2> QED
    BY <1>1, <2>1, StepTravels
<1>5. CASE AssignmentPeriodEnded
  <2>1. began /\ ~ended /\ TakeSimulationSnapshot /\ trajOut' = trajOut
    BY <1>5 DEF AssignmentPeriodEnded
  <2>2. Len(snaps) = 1 /\ trajOut \in BOOLEAN
    BY <1>1, <2>1 DEF StackInv, TypeOK
  <2>3. Len(snaps) <= 1
    BY <2>2
  <2> QED
    BY <1>1, <2>1, <2>2, <2>3, TakeTravels
<1>6. CASE AssignmentPeriodRollback
  <2>1. SimulationRollback(1) /\ trajOut' = trajOut /\ 1 \in 1 .. 2 /\ 1 # 2
    BY <1>6 DEF AssignmentPeriodRollback
  <2> QED
    BY <1>1, <2>1, RestoreTravels
<1>7. CASE AssignmentPeriodCommit
  <2>1. began /\ trajOut /\ CommitCall /\ trajOut' = trajOut
    BY <1>7 DEF AssignmentPeriodCommit
  <2>2. CASE ended
    <3>1. SimulationRollback(2) /\ 2 \in 1 .. 2
      BY <2>1, <2>2 DEF CommitCall
    <3> QED
      BY <1>1, <2>1, <3>1, RestoreTravels
  <2>3. CASE ~ended
    <3>1. SimulationCommit /\ Len(snaps) = 1
      BY <1>1, <2>1, <2>3 DEF CommitCall, StackInv
    <3> QED
      BY <1>1, <2>1, <3>1, CommitTravels
  <2> QED
    BY <1>1, <2>2, <2>3 DEF FlagsOK
<1>8. CASE Terminate
  <2>1. ~began /\ FinSimuTrafic
    BY <1>8 DEF Terminate
  <2> QED
    BY <1>1, <2>1, TerminateTravels
<1> QED
  BY <1>2, <1>3, <1>4, <1>5, <1>6, <1>7, <1>8 DEF InstanceNext

--------------------------------------------------------------------------------
(* The property that the invariant implies *)

\* With periods of several steps the travel times stay in step with the history.
THEOREM TravelInvariance ==
    ASSUME LongPeriods
    PROVE  InstanceSpec => [](IInv /\ TravelInv)
<1>1. InstanceInit => TravelInv
  <2> SUFFICES ASSUME InstanceInit PROVE TravelInv
    OBVIOUS
  <2>1. /\ hist = <<>> /\ snaps = <<>> /\ travel = [period |-> 0, data |-> <<>>]
        /\ ttMain = <<>> /\ finished = FALSE
    BY DEF InstanceInit, Init
  <2>2. Nb(0) = 0 /\ Len(<<>>) = 0 /\ DOMAIN <<>> = {}
    BY Constants, QuotientIs DEF Nb
  <2>3. RestTill(<<>>, 0) = <<>>
    <3>1. 0 * OutputPeriod = 0
      BY Constants
    <3>2. RestTill(<<>>, 0) = SubSeq(<<>>, 2, 0)
      BY <2>2, <3>1 DEF RestTill, Part
    <3> QED
      BY <3>2
  <2>4. PeriodsTill(<<>>, 0) = <<>>
    BY <2>2 DEF PeriodsTill
  <2> QED
    BY <2>1, <2>2, <2>3, <2>4 DEF TravelInv, TravelOf, Base
<1>2. InstanceInit => IInv
  BY InitInvariant
<1>3. IInv /\ TravelInv /\ [InstanceNext]_vars => (IInv /\ TravelInv)'
  BY NextInvariant, NextTravels
<1> QED
  BY <1>1, <1>2, <1>3, PTL DEF InstanceSpec

\* The documents of travel times, main and temporary ones in the order of the stack,
\* hold each period that has ended once, with its own steps and none of an abandoned
\* attempt, whatever the iterations that were rolled back or committed in the middle
\* of a period, and the last period, cut short, once the simulation is over.
THEOREM TravelTimesTellHistory ==
    ASSUME LongPeriods
    PROVE  InstanceSpec => []TravelTimesFollowHistory
<1>1. ASSUME IInv, TravelInv PROVE TravelTimesFollowHistory
  <2>1. TypeOK /\ StackInv /\ HistInv
    BY <1>1 DEF IInv
  <2> DEFINE nb == Len(hist) \div OutputPeriod
             whole == [k \in 1 .. nb |-> StepsIn((k - 1) * OutputPeriod, k * OutputPeriod)]
             rest == StepsIn(nb * OutputPeriod, Len(hist))
             docs == [i \in DOMAIN snaps |-> snaps[i].periods]
             W == PeriodsTill(hist, Len(hist))
  <2>2. whole = W
    BY DEF PeriodsTill, Nb, StepsIn, Part
  <2>3. rest = RestTill(hist, Len(hist))
    BY DEF RestTill, Nb, StepsIn, Part
  <2>4. CASE finished
    <3>1. ttMain = W \o Cut(hist)
      BY <1>1, <2>4 DEF TravelInv
    <3>2. Cut(hist) = IF Len(hist) = nb * OutputPeriod THEN <<>> ELSE <<rest>>
      BY <2>3 DEF Cut, Nb
    <3>3. ttMain = whole \o (IF Len(hist) = nb * OutputPeriod THEN <<>> ELSE <<rest>>)
      BY <2>2, <3>1, <3>2
    <3> QED
      BY <2>4, <3>3 DEF TravelTimesFollowHistory
  <2>5. CASE ~finished
    <3>1. travel.data = rest
      BY <1>1, <2>3 DEF TravelInv, TravelOf
    <3>2. /\ ttMain = PeriodsTill(hist, Len(Base))
          /\ \A i \in 1 .. Len(snaps) :
                PeriodsTill(hist, Upto(i)) = PeriodsTill(hist, Kept(i)) \o docs[i]
      BY <1>1, <2>1, <2>5, StackFacts DEF TravelInv
    <3>3. /\ Len(snaps) \in 0 .. 2 /\ DOMAIN snaps = 1 .. Len(snaps)
          /\ docs \in [DOMAIN snaps -> Seq(Seq(Steps))]
      BY <2>1, StackFacts, RecordFacts
    <3>4. W \in Seq(Seq(Steps)) /\ \A m \in 0 .. Len(hist) : PeriodsTill(hist, m) \in Seq(Seq(Steps))
      <4>1. hist \in Seq(Steps) /\ Len(hist) \in 0 .. Len(hist)
        BY <2>1, LenProperties DEF TypeOK
      <4> QED
        BY <4>1, PeriodsOfPrefix
    <3>5. /\ Len(snaps) = 0 => FlattenSeq(docs) = <<>>
          /\ Len(snaps) = 1 => FlattenSeq(docs) = docs[1]
          /\ Len(snaps) = 2 => FlattenSeq(docs) = docs[1] \o docs[2]
      <4> HIDE DEF docs
      <4> QED
        BY <2>1, <3>3, FlattenStack
    <3>6. ttMain \o FlattenSeq(docs) = W
      <4>1. CASE Len(snaps) = 0
        <5>1. ttMain = W
          BY <2>1, <3>2, <4>1, Places
        <5> HIDE DEF docs, W
        <5> QED
          BY <3>4, <3>5, <4>1, <5>1, ConcatEmptySeq
      <4>2. CASE Len(snaps) = 1
        <5>1. Len(snaps) > 0 /\ 1 \in 1 .. Len(snaps)
          BY <4>2
        <5>2. Len(Base) = Kept(1) /\ Upto(1) = Len(hist)
          BY <2>1, <4>2, <5>1, Places
        <5> HIDE DEF docs
        <5> QED
          BY <3>2, <3>5, <4>2, <5>1, <5>2
      <4>3. CASE Len(snaps) = 2
        <5>1. Len(snaps) > 0 /\ 1 \in 1 .. Len(snaps) /\ 2 \in 1 .. Len(snaps)
          BY <4>3
        <5>2. Len(Base) = Kept(1) /\ Upto(1) = Kept(2) /\ Upto(2) = Len(hist)
          BY <2>1, <4>3, <5>1, Places
        <5> DEFINE a == ttMain
                   b == docs[1]
                   c == docs[2]
        <5>3. a \in Seq(Seq(Steps)) /\ b \in Seq(Seq(Steps)) /\ c \in Seq(Seq(Steps))
          <6>1. a \in Seq(Seq(Steps))
            BY <2>1 DEF TypeOK
          <6> HIDE DEF docs
          <6> QED
            BY <3>3, <5>1, <6>1
        <5>4. W = (a \o b) \o c
          <6> HIDE DEF docs
          <6> QED
            BY <3>2, <5>1, <5>2
        <5>5. FlattenSeq(docs) = b \o c
          BY <3>5, <4>3
        <5> HIDE DEF a, b, c, docs, W
        <5>6. (a \o b) \o c = a \o (b \o c)
          BY <5>3, ConcatAssociative
        <5> QED
          BY <5>4, <5>5, <5>6 DEF a
      <4> QED
        BY <3>3, <4>1, <4>2, <4>3
    <3> QED
      BY <2>2, <2>5, <3>1, <3>6 DEF TravelTimesFollowHistory
  <2> QED
    BY <2>1, <2>4, <2>5 DEF TypeOK
<1> QED
  BY <1>1, TravelInvariance, PTL
================================================================================
