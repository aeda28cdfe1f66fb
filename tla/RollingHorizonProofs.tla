-------------------------- MODULE RollingHorizonProofs --------------------------
(***************************************************************************)
(* What the rolling-horizon loop guarantees for every duration, number of  *)
(* simulators and number of parallel instances: the snapshots of all the   *)
(* participants are taken, restored and dropped together, so that what a   *)
(* commit goes back to is where it looks for it, and every assignment is   *)
(* judged on the whole prediction period.  Whatever the assignment model   *)
(* tries, all the participants live one simulation, and what is committed  *)
(* period after period is the timeline of CommittedTimeline.  It rests on  *)
(* one assumption, the one the loop itself makes: going back to a snapshot *)
(* between two batches does not fail.                                      *)
(***************************************************************************)
EXTENDS RollingHorizon, TLAPS, SequenceTheorems

\* The runner ignores the result of a call to go back to a snapshot between two batches:
\* such a call may fail only if every iteration is one batch.
Reliable == "rollback" \in FailingCalls => ModelMax <= MaxParallel

\* How many snapshots participant r holds.
Depth(r) == Len(r.snaps)

\* The sound records: at most two snapshots, and a flag that tells the truth.
SimRecord ==
    {r \in [log : Histories, snaps : Seq(Histories), flag : BOOLEAN] :
        Depth(r) <= 2 /\ (r.flag <=> r.snaps # <<>>)}

UserRecord == {r \in [log : Histories, snaps : Seq(Histories)] : Depth(r) <= 2}

Sound ==
    /\ sim \in [Sims -> [Instances -> SimRecord]]
    /\ user \in [Users -> [Instances -> UserRecord]]

\* Instance i of every participant has n snapshots.
HasSnaps(i, n) ==
    /\ \A s \in Sims : Depth(sim[s][i]) = n
    /\ \A u \in Users : Depth(user[u][i]) = n

\* It has no snapshot but that of its period, if any.
AtMostOne(i) ==
    /\ \A s \in Sims : Depth(sim[s][i]) <= 1
    /\ \A u \in Users : Depth(user[u][i]) <= 1

\* It has been started.
AtLeastOne(i) ==
    /\ \A s \in Sims : Depth(sim[s][i]) >= 1
    /\ \A u \in Users : Depth(user[u][i]) >= 1

\* The times a thread of the current iteration can stand at.
OnGrid(t) == \E k \in Nat : t = start + k * Dt

\* Whether a thread meets, before the end of the prediction period, a step that
\* would go past the assignment period.
EndedDue == \E t \in Nat : OnGrid(t) /\ t < EndPeriod /\ t + Dt > EndAssign

\* The stages of an iteration.
Busy == {"batch", "join", "decide"}

Threads == [pc : {"idle", "run", "done"}, time : Nat, ended : BOOLEAN,
            ok : BOOLEAN, sub : Nat, from : Nat]

\* The types of all that is not a participant.
RunnerOK ==
    /\ period \in 0 .. NPeriods /\ clock \in Nat /\ start \in Nat
    /\ iteration \in 0 .. MaxRollbacks
    /\ redoing \in BOOLEAN /\ trajOff \in BOOLEAN /\ ended \in BOOLEAN /\ ok \in BOOLEAN
    /\ nb \in 1 .. ModelMax /\ batch \in Nat /\ joined \in 0 .. NInst
    /\ pc \in {"iteration"} \cup Busy \cup Stopped
    /\ asg \in [Instances -> Assignments]
    /\ thr \in [Instances -> Threads]

\* A period starts at a multiple of the assignment period, and nothing has failed.
PeriodInv ==
    /\ pc \notin Stopped => period < NPeriods
    /\ pc = "iteration" => clock = period * AssignLen
    /\ pc \in Busy => start = period * AssignLen
    /\ pc \in {"iteration", "batch", "decide"} => ok

\* The batch under way is one of those the iteration needs; a redone iteration has
\* all the instances in one.
BatchInv ==
    /\ pc \in {"batch", "join"} => batch < NbBatches
    /\ pc = "join" => joined < BatchSize
    /\ redoing => RedoLastIteration
    /\ redoing /\ pc \in {"batch", "join"} => batch = 0
    /\ redoing /\ pc \in Busy => nb = ModelMax
    /\ pc \in {"batch", "join"} => (ended => EndedDue)

\* What a thread that has not failed has done so far, and the snapshots it has left.
RunningInv(i) ==
    LET t == thr[i] IN
    /\ OnGrid(t.time) /\ start <= t.from /\ t.from <= t.time
    /\ MinOf(start + t.sub * TTUpdate, EndPeriod) <= t.from
    /\ t.pc = "run" => t.sub < NbUpdates
    /\ t.pc = "done" => t.time >= EndPeriod /\ t.from = t.time
    /\ ~t.ended => t.time <= EndAssign
    /\ t.ended => EndedDue
    /\ HasSnaps(i, IF t.ended THEN 2 ELSE 1)

\* Only the threads of the batch not joined yet are at work.
ThreadInv ==
    \A i \in Instances : thr[i].pc # "idle" =>
        /\ pc = "join" /\ joined <= i /\ i < BatchSize
        /\ thr[i].pc = "run" => thr[i].ok
        /\ thr[i].ok => RunningInv(i)

\* Which instances hold which snapshots, stage by stage.
KeptInv ==
    /\ pc = "iteration" => \A i \in Instances : AtMostOne(i)
    /\ pc \in Busy => \A i \in Instances : IF i < nb THEN AtLeastOne(i) ELSE AtMostOne(i)
    /\ pc = "batch" /\ batch = 0 => \A i \in Instances : AtMostOne(i)
    /\ pc = "join" /\ ok => \A i \in Instances : i < joined =>
                                HasSnaps(i, IF EndedDue THEN 2 ELSE 1)
    /\ CommitDue => \A i \in Instances : HasSnaps(i, IF ended THEN 2 ELSE 1)

\* The inductive invariant.
IInv == RunnerOK /\ Sound /\ PeriodInv /\ BatchInv /\ ThreadInv /\ KeptInv
--------------------------------------------------------------------------------
(* Arithmetic *)

\* The constants, one by one.
LEMMA Constants ==
    /\ EndTime \in Nat \ {0} /\ Dt \in Nat \ {0} /\ AssignLen \in Nat \ {0}
    /\ PredLen \in Nat \ {0} /\ TTUpdate \in Nat \ {0}
    /\ NSims \in Nat \ {0} /\ ModelMax \in Nat \ {0} /\ MaxParallel \in Nat \ {0}
    /\ NeedsParallel \in BOOLEAN /\ ExtraIteration \in BOOLEAN
    /\ (~NeedsParallel => ModelMax = 1) /\ MaxRollbacks \in Nat
  BY DurationsAssumption, InstancesAssumption

\* Euclidean division.
LEMMA DivisionBounds ==
    ASSUME NEW a \in Nat, NEW b \in Nat \ {0}
    PROVE  /\ a \div b \in Nat /\ a % b \in Nat
           /\ a % b < b
           /\ a = (a \div b) * b + (a % b)
  OBVIOUS

\* The ceiling of a division.
LEMMA CeilDivBounds ==
    ASSUME NEW a \in Nat, NEW b \in Nat \ {0}
    PROVE  /\ CeilDiv(a, b) \in Nat
           /\ CeilDiv(a, b) * b >= a
           /\ a > 0 => CeilDiv(a, b) > 0 /\ (CeilDiv(a, b) - 1) * b < a
  BY DEF CeilDiv

\* Multiplication preserves the order, and reflects it.
LEMMA Monotone ==
    ASSUME NEW a \in Nat, NEW b \in Nat, NEW c \in Nat \ {0}
    PROVE  /\ a <= b => a * c <= b * c
           /\ a * c < b * c => a < b
  OBVIOUS

\* Every period starts before the end of the simulation.
LEMMA PeriodStarts ==
    ASSUME NEW p \in Nat, p < NPeriods
    PROVE  p * AssignLen < EndTime
<1>1. NPeriods \in Nat /\ (NPeriods - 1) * AssignLen < EndTime /\ NPeriods > 0
  BY Constants, CeilDivBounds DEF NPeriods
<1>2. p * AssignLen <= (NPeriods - 1) * AssignLen
  BY <1>1, Monotone, Constants
<1> QED
  BY <1>1, <1>2, Constants

\* There is at least one instance, and no more than the model asks for.
LEMMA InstanceCount ==
    /\ NInst \in Nat \ {0} /\ NInst <= ModelMax
    /\ NeedsParallel => NInst = MinOf(MaxParallel, ModelMax)
    /\ ~NeedsParallel => NInst = 1 /\ ModelMax = 1
  BY Constants DEF NInst, MinOf

\* The batches share out the nb instances asked for: each one fits the instances
\* there are, and none goes beyond nb.
LEMMA BatchBounds ==
    ASSUME nb \in 1 .. ModelMax, batch \in Nat, batch < NbBatches
    PROVE  /\ BatchSize \in 1 .. NInst
           /\ Offset \in Nat /\ Offset + BatchSize <= nb
           /\ nb = ModelMax /\ batch = 0 => BatchSize = NInst
<1> DEFINE q == NbBatches
           d == nb \div MaxParallel
           r == nb % MaxParallel
<1>1. q \in Nat /\ q > 0 /\ nb <= q * MaxParallel /\ (q - 1) * MaxParallel < nb
  BY CeilDivBounds, Constants DEF NbBatches
<1>2. d \in Nat /\ r \in Nat /\ r < MaxParallel /\ nb = d * MaxParallel + r
  BY DivisionBounds, Constants
<1>3. (q - 1) * MaxParallel + LastBatchSize = nb /\ LastBatchSize \in 1 .. MaxParallel
  <2>1. CASE r = 0
    <3>1. d * MaxParallel <= q * MaxParallel /\ (q - 1) * MaxParallel < d * MaxParallel
      BY <1>1, <1>2, <2>1, Constants
    <3>2. d = q
      BY <3>1, <1>1, <1>2, Monotone, Constants
    <3> QED
      BY <3>2, <2>1, <1>2, <1>1, Constants DEF LastBatchSize
  <2>2. CASE r # 0
    <3>1. d * MaxParallel < q * MaxParallel
      BY <1>1, <1>2, <2>2, Constants
    <3>2. (q - 1) * MaxParallel < (d + 1) * MaxParallel
      BY <1>1, <1>2, Constants
    <3>3. d < q /\ q - 1 < d + 1
      BY <3>1, <3>2, <1>1, <1>2, Monotone, Constants
    <3>4. d = q - 1
      BY <3>3, <1>1, <1>2
    <3> QED
      BY <3>4, <2>2, <1>2, <1>1, Constants DEF LastBatchSize
  <2> QED
    BY <2>1, <2>2
<1>4. CASE batch = q - 1
  <2>1. BatchSize = LastBatchSize /\ Offset = batch * ParallelSize
    BY <1>4 DEF BatchSize, Offset
  <2>2. Offset = (q - 1) * MaxParallel
    BY <2>1, <1>4, <1>1, <1>3, Constants DEF ParallelSize
  <2>3. (q - 1) * MaxParallel \in Nat
    BY <1>1, Constants
  <2>4. BatchSize \in 1 .. NInst
    BY <2>1, <2>3, <1>3, InstanceCount, Constants DEF MinOf
  <2>5. nb = ModelMax /\ batch = 0 => BatchSize = NInst
    BY <2>1, <1>3, <1>4, <1>1, InstanceCount, Constants DEF MinOf
  <2> QED
    BY <2>1, <2>2, <2>3, <2>4, <2>5, <1>3
<1>5. CASE batch < q - 1
  <2>1. BatchSize = MaxParallel /\ Offset = batch * MaxParallel
    BY <1>5, <1>1 DEF BatchSize, Offset, ParallelSize
  <2>2. (batch + 1) * MaxParallel <= (q - 1) * MaxParallel
    BY <1>5, <1>1, Monotone, Constants
  <2>3. batch * MaxParallel \in Nat /\ (batch + 1) * MaxParallel = batch * MaxParallel + MaxParallel
    BY Constants
  <2>4. MaxParallel < nb
    BY <2>2, <2>3, <1>1, Constants
  <2>5. NInst = MaxParallel
    BY <2>4, InstanceCount, Constants DEF MinOf
  <2> QED
    BY <2>1, <2>2, <2>3, <2>5, <1>1, Constants
<1> QED
  BY <1>1, <1>4, <1>5

\* The calls to go back between two batches do not fail.
LEMMA SecondBatch ==
    ASSUME Reliable, nb \in 1 .. ModelMax, batch \in Nat, batch # 0, batch < NbBatches
    PROVE  "rollback" \notin FailingCalls
<1> SUFFICES ASSUME ModelMax <= MaxParallel PROVE FALSE
  BY DEF Reliable
<1>1. NbBatches \in Nat /\ (NbBatches - 1) * MaxParallel < nb
  BY CeilDivBounds, Constants DEF NbBatches
<1>2. 1 <= NbBatches - 1 /\ NbBatches - 1 \in Nat
  BY <1>1
<1>3. 1 * MaxParallel <= (NbBatches - 1) * MaxParallel
  BY <1>2, Monotone, Constants
<1> QED
  BY <1>1, <1>3, Constants

\* A period has at least one update period, and together they cover the prediction.
LEMMA UpdatesCover ==
    ASSUME start \in Nat, start < EndTime
    PROVE  /\ start < EndPeriod /\ start <= EndAssign
           /\ EndPeriod \in Nat /\ EndAssign \in Nat
           /\ NbUpdates \in Nat \ {0} /\ start + NbUpdates * TTUpdate >= EndPeriod
<1>1. EndPeriod \in Nat /\ start < EndPeriod /\ EndPeriod - start <= PredLen
  BY Constants DEF EndPeriod, MinOf
<1>2. EndAssign \in Nat /\ start <= EndAssign
  BY Constants DEF EndAssign, MinOf
<1>3. LET n == CeilDiv(PredLen, TTUpdate)
      IN n \in Nat \ {0} /\ n * TTUpdate >= PredLen
  BY CeilDivBounds, Constants
<1>4. LET n == CeilDiv(EndPeriod - start, TTUpdate)
      IN n \in Nat \ {0} /\ n * TTUpdate >= EndPeriod - start
  BY <1>1, CeilDivBounds, Constants
<1>5. NbUpdates = CeilDiv(PredLen, TTUpdate) \/ NbUpdates = CeilDiv(EndPeriod - start, TTUpdate)
  BY DEF NbUpdates, MinOf
<1>6. NbUpdates \in Nat \ {0} /\ NbUpdates * TTUpdate >= EndPeriod - start
  BY <1>1, <1>3, <1>4, <1>5, Constants
<1> QED
  BY <1>1, <1>2, <1>6, Constants

\* Times of the grid are Dt apart.
LEMMA Grid ==
    ASSUME start \in Nat
    PROVE  /\ OnGrid(start)
           /\ \A t \in Nat : OnGrid(t) => start <= t /\ OnGrid(t + Dt)
           /\ \A t, u \in Nat : OnGrid(t) /\ OnGrid(u) /\ t < u => t + Dt <= u
<1>1. OnGrid(start)
  <2>1. start = start + 0 * Dt
    BY Constants
  <2> QED
    BY <2>1 DEF OnGrid
<1>2. ASSUME NEW t \in Nat, OnGrid(t) PROVE start <= t /\ OnGrid(t + Dt)
  <2>1. PICK k \in Nat : t = start + k * Dt
    BY <1>2 DEF OnGrid
  <2>2. t + Dt = start + (k + 1) * Dt /\ k * Dt >= 0
    BY <2>1, Constants
  <2> QED
    BY <2>1, <2>2, Constants DEF OnGrid
<1>3. ASSUME NEW t \in Nat, NEW u \in Nat, OnGrid(t), OnGrid(u), t < u PROVE t + Dt <= u
  <2>1. PICK k \in Nat : t = start + k * Dt
    BY <1>3 DEF OnGrid
  <2>2. PICK m \in Nat : u = start + m * Dt
    BY <1>3 DEF OnGrid
  <2>3. k * Dt \in Nat /\ m * Dt \in Nat /\ k * Dt < m * Dt
    BY <2>1, <2>2, <1>3, Constants
  <2>4. k + 1 <= m
    BY <2>3, Monotone, Constants
  <2>5. (k + 1) * Dt <= m * Dt
    BY <2>4, Monotone, Constants
  <2> QED
    BY <2>1, <2>2, <2>5, Constants
<1> QED
  BY <1>1, <1>2, <1>3
--------------------------------------------------------------------------------
(* Snapshots of one participant *)

\* Appending to a sequence.
LEMMA Appended ==
    ASSUME NEW S, NEW s \in Seq(S), NEW e \in S
    PROVE  Append(s, e) \in Seq(S) /\ Len(Append(s, e)) = Len(s) + 1
  OBVIOUS

\* A sequence of one element.
LEMMA Single ==
    ASSUME NEW S, NEW e \in S
    PROVE  <<e>> \in Seq(S) /\ Len(<<e>>) = 1
  OBVIOUS

\* The empty sequence is the one without length.
LEMMA Emptiness ==
    ASSUME NEW S, NEW s \in Seq(S)
    PROVE  Len(s) \in Nat /\ (s = <<>> <=> Len(s) = 0)
  OBVIOUS

\* An element of a sequence.
LEMMA Element ==
    ASSUME NEW S, NEW s \in Seq(S), NEW k \in 1 .. Len(s)
    PROVE  s[k] \in S
  OBVIOUS

\* What the fields of a simulator's record are.
LEMMA SimFields ==
    ASSUME NEW r \in SimRecord
    PROVE  /\ r.log \in Histories /\ r.snaps \in Seq(Histories) /\ r.flag \in BOOLEAN
           /\ Depth(r) \in 0 .. 2
           /\ r.flag <=> Depth(r) # 0
<1> USE DEF Depth
<1>1. r.log \in Histories /\ r.snaps \in Seq(Histories) /\ r.flag \in BOOLEAN
  BY DEF SimRecord
<1>2. Len(r.snaps) <= 2
  BY DEF SimRecord
<1>3. r.flag <=> r.snaps # <<>>
  BY Zenon DEF SimRecord
<1>4. Len(r.snaps) \in Nat /\ (r.snaps = <<>> <=> Len(r.snaps) = 0)
  BY <1>1, Emptiness
<1>5. r.flag <=> Len(r.snaps) # 0
  BY <1>3, <1>4, Zenon
<1>6. Len(r.snaps) \in Nat
  BY <1>4, Zenon
<1>7. Len(r.snaps) \in 0 .. 2
  <2> DEFINE n == Len(r.snaps)
  <2>1. n \in Nat /\ n <= 2
    BY <1>2, <1>6
  <2> HIDE DEF n
  <2>2. n \in 0 .. 2
    BY <2>1
  <2> QED
    BY <2>2 DEF n
<1> QED
  BY <1>1, <1>5, <1>7, Zenon

\* And conversely.
LEMMA SimFromFields ==
    ASSUME NEW r \in [log : Histories, snaps : Seq(Histories), flag : BOOLEAN],
           Depth(r) <= 2, r.flag <=> Depth(r) # 0
    PROVE  r \in SimRecord
<1> USE DEF Depth
<1>1. r.snaps \in Seq(Histories)
  OBVIOUS
<1>2. r.snaps = <<>> <=> Len(r.snaps) = 0
  BY <1>1, Emptiness
<1>3. r.flag <=> r.snaps # <<>>
  BY <1>2, Zenon
<1> QED
  BY <1>3, Zenon DEF SimRecord

\* A second snapshot of a simulator that holds the one of its period.
LEMMA SimTakes ==
    ASSUME NEW r \in SimRecord, Depth(r) = 1
    PROVE  TakeSnapshot(r) \in SimRecord /\ Depth(TakeSnapshot(r)) = 2
<1> USE DEF Depth
<1> DEFINE q == TakeSnapshot(r)
<1>1. r \in [log : Histories, snaps : Seq(Histories), flag : BOOLEAN] /\ r.log \in Histories
      /\ r.snaps \in Seq(Histories)
  BY DEF SimRecord
<1>2. q \in [log : Histories, snaps : Seq(Histories), flag : BOOLEAN]
      /\ q.snaps = Append(r.snaps, r.log) /\ (q.flag <=> r.flag)
  BY <1>1, Appended DEF TakeSnapshot
<1>3. Len(q.snaps) = 2
  BY <1>1, <1>2, Appended
<1>4. q.flag <=> Len(q.snaps) # 0
  BY <1>2, <1>3, SimFields
<1> QED
  BY <1>2, <1>3, <1>4, SimFromFields

\* Restoring a snapshot of a simulator leaves that one only.
LEMMA SimRestores ==
    ASSUME NEW r \in SimRecord, NEW k \in 1 .. Depth(r)
    PROVE  RestoreTo(r, k) \in SimRecord /\ Depth(RestoreTo(r, k)) = 1
<1> USE DEF Depth
<1> DEFINE h == r.snaps[k]
           q == RestoreTo(r, k)
<1>1. r \in [log : Histories, snaps : Seq(Histories), flag : BOOLEAN]
      /\ r.snaps \in Seq(Histories)
  BY DEF SimRecord
<1>2. h \in Histories
  BY <1>1, Element
<1>3. <<h>> \in Seq(Histories) /\ Len(<<h>>) = 1 
  BY <1>2, Single
<1>4. q \in [log : Histories, snaps : Seq(Histories), flag : BOOLEAN]
      /\ q.snaps = <<h>> /\ (q.flag <=> r.flag)
  BY <1>1, <1>2, <1>3 DEF RestoreTo
<1>5. Len(q.snaps) = 1
  BY <1>3, <1>4
<1>6. q.flag <=> Len(q.snaps) # 0
  BY <1>4, <1>5, SimFields
<1> HIDE DEF h, q
<1>7. Len(q.snaps) <= 2
  BY <1>5
<1>8. q \in SimRecord
  BY <1>4, <1>6, <1>7, SimFromFields, Zenon
<1> QED
  BY <1>5, <1>8 DEF q

\* Starting a period leaves a simulator exactly one snapshot.
LEMMA SimStarts ==
    ASSUME NEW r \in SimRecord, Depth(r) <= 1
    PROVE  SimStart(r) \in SimRecord /\ Depth(SimStart(r)) = 1
<1> USE DEF Depth
<1> DEFINE q == SimStart(r)
<1>1. r \in [log : Histories, snaps : Seq(Histories), flag : BOOLEAN] /\ r.log \in Histories
      /\ r.snaps \in Seq(Histories)
  BY DEF SimRecord
<1>2. CASE r.flag
  <2>1. q = r
    BY <1>2 DEF SimStart
  <2>2. Len(r.snaps) # 0
    BY <1>2, SimFields, Zenon
  <2>3. Len(r.snaps) = 1
    BY <2>2, SimFields
  <2> QED
    BY <2>1, <2>3
<1>3. CASE ~r.flag
  <2>1. q \in [log : Histories, snaps : Seq(Histories), flag : BOOLEAN]
        /\ q.snaps = Append(r.snaps, r.log) /\ q.flag
    BY <1>1, <1>3, Appended DEF SimStart, TakeSnapshot
  <2>2. Len(q.snaps) = 1
    BY <1>1, <1>3, <2>1, Appended, SimFields
  <2>3. q.flag <=> Len(q.snaps) # 0
    BY <2>1, <2>2
  <2> QED
    BY <2>1, <2>2, <2>3, SimFromFields
<1> QED BY <1>2, <1>3

\* A commit finds the snapshot it goes back to, and leaves at most that one.
LEMMA SimCommits ==
    ASSUME NEW r \in SimRecord, Depth(r) = IF ended THEN 2 ELSE 1
    PROVE  SimCommit(r) \in SimRecord /\ Depth(SimCommit(r)) <= 1
<1> USE DEF Depth
<1> DEFINE q == SimCommit(r)
<1>1. CASE ended
  <2>1. 2 \in 1 .. Len(r.snaps) /\ q = RestoreTo(r, 2)
    BY <1>1 DEF SimCommit
  <2>2. RestoreTo(r, 2) \in SimRecord /\ Len(RestoreTo(r, 2).snaps) = 1
    BY <2>1, SimRestores
  <2> HIDE DEF q
  <2>3. q \in SimRecord /\ Len(q.snaps) = 1
    BY <2>1, <2>2, Zenon
  <2> QED
    BY <2>3 DEF q
<1>2. CASE ~ended
  <2>1. q = [r EXCEPT !.flag = FALSE, !.snaps = <<>>]
    BY <1>2 DEF SimCommit
  <2>2. r \in [log : Histories, snaps : Seq(Histories), flag : BOOLEAN]
    BY DEF SimRecord
  <2>3. <<>> \in Seq(Histories) /\ Len(<<>>) = 0
    OBVIOUS
  <2>4. q \in [log : Histories, snaps : Seq(Histories), flag : BOOLEAN]
        /\ Len(q.snaps) = 0 /\ ~q.flag
    BY <2>1, <2>2, <2>3
  <2>5. q.flag <=> Len(q.snaps) # 0
    BY <2>4
  <2> HIDE DEF q
  <2>6. q \in SimRecord /\ Len(q.snaps) = 0
    BY <2>4, <2>5, SimFromFields
  <2> QED
    BY <2>6 DEF q
<1> QED
  BY <1>1, <1>2

\* The same of a user engine or path writer.
LEMMA UserFields ==
    ASSUME NEW r \in UserRecord
    PROVE  /\ r.log \in Histories /\ r.snaps \in Seq(Histories)
           /\ Depth(r) \in 0 .. 2
<1> USE DEF Depth
<1>1. r.log \in Histories /\ r.snaps \in Seq(Histories)
  BY DEF UserRecord
<1>2. Len(r.snaps) <= 2
  BY DEF UserRecord
<1>3. Len(r.snaps) \in Nat
  BY <1>1, Emptiness
<1>4. Len(r.snaps) \in 0 .. 2
  <2> DEFINE n == Len(r.snaps)
  <2>1. n \in Nat /\ n <= 2
    BY <1>2, <1>3
  <2> HIDE DEF n
  <2>2. n \in 0 .. 2
    BY <2>1
  <2> QED
    BY <2>2 DEF n
<1> QED
  BY <1>1, <1>4

\* One more snapshot of a user engine or path writer.
LEMMA UserTakes ==
    ASSUME NEW r \in UserRecord, Depth(r) <= 1
    PROVE  TakeSnapshot(r) \in UserRecord /\ Depth(TakeSnapshot(r)) = Depth(r) + 1
<1> USE DEF Depth
<1>1. r.snaps \in Seq(Histories) /\ r.log \in Histories
  BY DEF UserRecord
<1>2. Append(r.snaps, r.log) \in Seq(Histories)
      /\ Len(Append(r.snaps, r.log)) = Len(r.snaps) + 1
  BY <1>1, Appended
<1> QED
  BY <1>2 DEF UserRecord, TakeSnapshot

\* Starting a period leaves it exactly one snapshot.
LEMMA UserStarts ==
    ASSUME NEW r \in UserRecord, Depth(r) <= 1
    PROVE  UserStart(r) \in UserRecord /\ Depth(UserStart(r)) = 1
<1> USE DEF Depth
<1>1. r.snaps \in Seq(Histories) /\ r.log \in Histories
      /\ r \in [log : Histories, snaps : Seq(Histories)]
  BY DEF UserRecord
<1>2. Len(r.snaps) \in Nat /\ (r.snaps = <<>> <=> Len(r.snaps) = 0)
  BY <1>1, Emptiness
<1>3. CASE r.snaps = <<>>
  <2>1. Len(r.snaps) = 0
    BY <1>2, <1>3, Zenon
  <2>2. UserStart(r) = TakeSnapshot(r)
    BY <1>3 DEF UserStart
  <2>3. TakeSnapshot(r) \in UserRecord /\ Len(TakeSnapshot(r).snaps) = 0 + 1
    BY <2>1, UserTakes
  <2> QED
    BY <2>2, <2>3
<1>4. CASE r.snaps # <<>>
  <2>1. Len(r.snaps) # 0
    BY <1>2, <1>4, Zenon
  <2>2. Len(r.snaps) = 1
    <3> DEFINE n == Len(r.snaps)
    <3>1. n \in Nat
      BY <1>2, Zenon
    <3>2. n <= 1 /\ n # 0
      BY <2>1
    <3> HIDE DEF n
    <3>3. n = 1
      BY <3>1, <3>2
    <3> QED
      BY <3>3 DEF n
  <2>3. UserStart(r) = r
    BY <1>4 DEF UserStart
  <2> QED
    BY <2>2, <2>3
<1> QED
  BY <1>3, <1>4

\* Restoring a snapshot leaves that one only.
LEMMA UserRestores ==
    ASSUME NEW r \in UserRecord, NEW k \in 1 .. Depth(r)
    PROVE  RestoreTo(r, k) \in UserRecord /\ Depth(RestoreTo(r, k)) = 1
<1> USE DEF Depth
<1> DEFINE h == r.snaps[k]
           q == RestoreTo(r, k)
<1>1. r \in [log : Histories, snaps : Seq(Histories)] /\ r.snaps \in Seq(Histories)
  BY DEF UserRecord
<1>2. h \in Histories
  BY <1>1, Element
<1>3. <<h>> \in Seq(Histories) /\ Len(<<h>>) = 1 
  BY <1>2, Single
<1>4. q \in [log : Histories, snaps : Seq(Histories)] /\ q.snaps = <<h>>
  BY <1>1, <1>2, <1>3 DEF RestoreTo
<1>5. Len(q.snaps) = 1
  BY <1>3, <1>4
<1> HIDE DEF h, q
<1>6. q \in UserRecord /\ Len(q.snaps) = 1
  BY <1>4, <1>5 DEF UserRecord
<1> QED
  BY <1>6 DEF q

\* A commit leaves none, wherever it went back to.
LEMMA UserCommits ==
    ASSUME NEW r \in UserRecord
    PROVE  UserCommit(r) \in UserRecord /\ Depth(UserCommit(r)) <= 1
<1> USE DEF Depth
<1> DEFINE h == IF Len(r.snaps) = 2 THEN r.snaps[2] ELSE r.log
           q == UserCommit(r)
<1>1. r \in [log : Histories, snaps : Seq(Histories)] /\ r.snaps \in Seq(Histories)
      /\ r.log \in Histories
  BY DEF UserRecord
<1>2. h \in Histories
  BY <1>1, Element
<1>3. <<>> \in Seq(Histories) /\ Len(<<>>) = 0
  OBVIOUS
<1>4. q \in [log : Histories, snaps : Seq(Histories)] /\ q.snaps = <<>>
  BY <1>1, <1>2, <1>3 DEF UserCommit
<1>5. Len(q.snaps) = 0
  BY <1>3, <1>4
<1> HIDE DEF h, q
<1>6. q \in UserRecord /\ Len(q.snaps) = 0
  BY <1>4, <1>5 DEF UserRecord
<1> QED
  BY <1>6 DEF q

\* One more step in the history disturbs no snapshot.
LEMMA Advances ==
    ASSUME NEW e \in [at : Int, asg : Assignments, out : BOOLEAN]
    PROVE  /\ \A r \in SimRecord :
                 LET q == [r EXCEPT !.log = Append(@, e)] IN q \in SimRecord /\ q.snaps = r.snaps
           /\ \A r \in UserRecord :
                 LET q == [r EXCEPT !.log = Append(@, e)] IN q \in UserRecord /\ q.snaps = r.snaps
<1>1. \A h \in Histories : Append(h, e) \in Histories
  BY Appended DEF Histories
<1> QED
  BY <1>1 DEF SimRecord, UserRecord, Depth

--------------------------------------------------------------------------------
(* The same calls, fanned out *)

\* AssignmentPeriodStart of every simulator instance, which may stop half-way.
LEMMA StartCall ==
    ASSUME Sound, \A i \in Instances : AtMostOne(i), nb' \in Nat,
           NEW res \in BOOLEAN, CallSims("start", SimStart, nb', res)
    PROVE  /\ sim' \in [Sims -> [Instances -> SimRecord]]
           /\ \A s \in Sims, i \in Instances :
                 /\ Depth(sim'[s][i]) <= 1
                 /\ res /\ i < nb' => Depth(sim'[s][i]) = 1
<1>1. \A s \in Sims, i \in Instances :
         /\ sim[s][i] \in SimRecord
         /\ SimStart(sim[s][i]) \in SimRecord
         /\ Depth(SimStart(sim[s][i])) = 1
  BY SimStarts DEF Sound, AtMostOne
<1>2. \A s \in Sims, i \in Instances : Depth(sim[s][i]) <= 1
  BY DEF AtMostOne
<1>3. CASE res /\ sim' = OnSims(SimStart, Called(nb'))
  BY <1>1, <1>2, <1>3 DEF OnSims, Called, Local
<1>4. CASE ~res /\ \E f \in Called(nb') : sim' = OnSims(SimStart, Before(nb', f))
  BY <1>1, <1>2, <1>4 DEF OnSims
<1> QED
  BY <1>3, <1>4 DEF CallSims

\* AssignmentPeriodStart of the user engines and path writers.
LEMMA StartUsers ==
    ASSUME Sound, \A i \in Instances : AtMostOne(i), nb' \in Nat,
           user' = OnUsers(UserStart, Local(nb'))
    PROVE  /\ user' \in [Users -> [Instances -> UserRecord]]
           /\ \A u \in Users, i \in Instances :
                 /\ Depth(user'[u][i]) <= 1
                 /\ i < nb' => Depth(user'[u][i]) = 1
<1>1. \A u \in Users, i \in Instances :
         /\ user[u][i] \in UserRecord /\ Depth(user[u][i]) <= 1
         /\ UserStart(user[u][i]) \in UserRecord
         /\ Depth(UserStart(user[u][i])) = 1
  BY UserStarts DEF Sound, AtMostOne
<1> QED
  BY <1>1 DEF OnUsers, Local

\* The simulators that have gone back: all of them, unless the call failed.
LEMMA RollbackReach ==
    ASSUME NEW res \in BOOLEAN, CallSims("rollback", SimRollback, nb, res)
    PROVE  \E C :
             /\ sim' = OnSims(SimRollback, C)
             /\ \A s \in Sims, i \in Instances :
                   /\ sim'[s][i] = IF <<s, i>> \in C THEN SimRollback(sim[s][i]) ELSE sim[s][i]
                   /\ <<s, i>> \in C => i < nb
                   /\ res /\ i < nb => <<s, i>> \in C
<1>1. \E C \in SUBSET Called(nb) : sim' = OnSims(SimRollback, C) /\ (res => C = Called(nb))
  <2>1. CASE res /\ sim' = OnSims(SimRollback, Called(nb))
    BY <2>1
  <2>2. CASE ~res /\ \E f \in Called(nb) : sim' = OnSims(SimRollback, Before(nb, f))
    <3>1. PICK f \in Called(nb) : sim' = OnSims(SimRollback, Before(nb, f))
      BY <2>2
    <3>2. Before(nb, f) \in SUBSET Called(nb)
      BY DEF Before
    <3> QED
      BY <2>2, <3>1, <3>2
  <2> QED
    BY <2>1, <2>2 DEF CallSims
<1>2. PICK C \in SUBSET Called(nb) : sim' = OnSims(SimRollback, C) /\ (res => C = Called(nb))
  BY <1>1
<1>3. ASSUME NEW s \in Sims, NEW i \in Instances
      PROVE  /\ sim'[s][i] = IF <<s, i>> \in C THEN SimRollback(sim[s][i]) ELSE sim[s][i]
             /\ <<s, i>> \in C => i < nb
             /\ res /\ i < nb => <<s, i>> \in C
  <2>1. sim'[s][i] = IF <<s, i>> \in C THEN SimRollback(sim[s][i]) ELSE sim[s][i]
    BY <1>2, <1>3 DEF OnSims
  <2>2. <<s, i>> \in Called(nb) <=> i < nb
    BY <1>3 DEF Called, Local
  <2> QED
    BY <1>2, <2>1, <2>2
<1> QED
  BY <1>2, <1>3

\* A rollback that succeeds leaves one snapshot to each instance called.
LEMMA RollbackCall ==
    ASSUME Sound, nb \in Nat,
           \A i \in Instances : IF i < nb THEN AtLeastOne(i) ELSE AtMostOne(i),
           NEW res \in BOOLEAN, CallSims("rollback", SimRollback, nb, res),
           user' = OnUsers(UserRollback, Local(nb))
    PROVE  /\ Sound'
           /\ res => \A i \in Instances : AtMostOne(i)' /\ (i < nb => HasSnaps(i, 1)')
<1>1. PICK C :
         /\ sim' = OnSims(SimRollback, C)
         /\ \A s \in Sims, i \in Instances :
               /\ sim'[s][i] = IF <<s, i>> \in C THEN SimRollback(sim[s][i]) ELSE sim[s][i]
               /\ <<s, i>> \in C => i < nb
               /\ res /\ i < nb => <<s, i>> \in C
  BY RollbackReach
<1>2. \A s \in Sims, i \in Instances :
         /\ sim[s][i] \in SimRecord
         /\ i < nb => /\ SimRollback(sim[s][i]) \in SimRecord
                      /\ Depth(SimRollback(sim[s][i])) = 1
         /\ ~(i < nb) => Depth(sim[s][i]) <= 1
  <2> SUFFICES ASSUME NEW s \in Sims, NEW i \in Instances
               PROVE  /\ sim[s][i] \in SimRecord
                      /\ i < nb => /\ SimRollback(sim[s][i]) \in SimRecord
                                   /\ Depth(SimRollback(sim[s][i])) = 1
                      /\ ~(i < nb) => Depth(sim[s][i]) <= 1
    OBVIOUS
  <2>1. sim[s][i] \in SimRecord /\ Depth(sim[s][i]) \in 0 .. 2
    BY SimFields DEF Sound
  <2>2. i < nb => 1 \in 1 .. Depth(sim[s][i])
    BY <2>1 DEF AtLeastOne
  <2>3. ~(i < nb) => Depth(sim[s][i]) <= 1
    BY <2>1 DEF AtMostOne, Instances
  <2> QED
    BY <2>1, <2>2, <2>3, SimRestores DEF SimRollback
<1>3. \A u \in Users, i \in Instances :
         /\ user[u][i] \in UserRecord
         /\ i < nb => /\ UserRollback(user[u][i]) \in UserRecord
                      /\ Depth(UserRollback(user[u][i])) = 1
         /\ ~(i < nb) => Depth(user[u][i]) <= 1
  <2> SUFFICES ASSUME NEW u \in Users, NEW i \in Instances
               PROVE  /\ user[u][i] \in UserRecord
                      /\ i < nb => /\ UserRollback(user[u][i]) \in UserRecord
                                   /\ Depth(UserRollback(user[u][i])) = 1
                      /\ ~(i < nb) => Depth(user[u][i]) <= 1
    OBVIOUS
  <2>1. user[u][i] \in UserRecord /\ Depth(user[u][i]) \in 0 .. 2
    BY UserFields DEF Sound
  <2>2. i < nb => 1 \in 1 .. Depth(user[u][i])
    BY <2>1 DEF AtLeastOne
  <2>3. ~(i < nb) => Depth(user[u][i]) <= 1
    BY <2>1 DEF AtMostOne, Instances
  <2> QED
    BY <2>1, <2>2, <2>3, UserRestores DEF UserRollback
<1>4. ASSUME res
      PROVE  \A s \in Sims, i \in Instances :
                sim'[s][i] = IF i < nb THEN SimRollback(sim[s][i]) ELSE sim[s][i]
  BY <1>1, <1>4
<1>5. \A u \in Users, i \in Instances :
         user'[u][i] = IF i < nb THEN UserRollback(user[u][i]) ELSE user[u][i]
  BY DEF OnUsers, Local
<1>6. Sound'
  <2>1. sim' \in [Sims -> [Instances -> SimRecord]]
    <3>1. \A s \in Sims, i \in Instances : sim'[s][i] \in SimRecord
      BY <1>1, <1>2
    <3>2. sim' = [s \in Sims |-> [i \in Instances |-> sim'[s][i]]]
      BY <1>1 DEF OnSims
    <3> QED
      BY <3>1, <3>2
  <2>2. user' \in [Users -> [Instances -> UserRecord]]
    BY <1>3 DEF OnUsers, Local, Instances
  <2> QED
    BY <2>1, <2>2 DEF Sound
<1>7. res => \A i \in Instances : AtMostOne(i)' /\ (i < nb => HasSnaps(i, 1)')
  <2> SUFFICES ASSUME res, NEW i \in Instances
               PROVE  AtMostOne(i)' /\ (i < nb => HasSnaps(i, 1)')
    OBVIOUS
  <2>1. \A s \in Sims : Depth(sim'[s][i]) <= 1 /\ (i < nb => Depth(sim'[s][i]) = 1)
    BY <1>2, <1>4
  <2>2. \A u \in Users : Depth(user'[u][i]) <= 1 /\ (i < nb => Depth(user'[u][i]) = 1)
    <3> SUFFICES ASSUME NEW u \in Users
                 PROVE  Depth(user'[u][i]) <= 1 /\ (i < nb => Depth(user'[u][i]) = 1)
      OBVIOUS
    <3>1. CASE i < nb
      <4>1. user'[u][i] = UserRollback(user[u][i])
        BY <3>1, <1>5
      <4>2. Depth(user'[u][i]) = 1
        BY <3>1, <4>1, <1>3, Zenon
      <4> QED
        BY <4>2
    <3>2. CASE ~(i < nb)
      BY <3>2, <1>3, <1>5
    <3> QED
      BY <3>1, <3>2
  <2> QED
    BY <2>1, <2>2 DEF AtMostOne, HasSnaps
<1> QED
  BY <1>1, <1>6, <1>7

\* What depends on the start of the iteration only does not change with the rest.
LEMMA SamePeriod ==
    ASSUME start' = start
    PROVE  /\ EndPeriod' = EndPeriod /\ EndAssign' = EndAssign /\ NbUpdates' = NbUpdates
           /\ \A t \in Nat : OnGrid(t)' <=> OnGrid(t)
           /\ EndedDue' <=> EndedDue
<1>1. EndPeriod' = EndPeriod /\ EndAssign' = EndAssign
  BY DEF EndPeriod, EndAssign
<1>2. NbUpdates' = NbUpdates
  BY <1>1 DEF NbUpdates
<1>3. \A t \in Nat : OnGrid(t)' <=> OnGrid(t)
  BY DEF OnGrid
<1>4. EndedDue' <=> EndedDue
  BY <1>1, <1>3 DEF EndedDue
<1> QED
  BY <1>1, <1>2, <1>3, <1>4

\* The sizes of the batches depend on the number of instances asked for only.
LEMMA SameBatch ==
    ASSUME nb' = nb, batch' = batch
    PROVE  NbBatches' = NbBatches /\ BatchSize' = BatchSize
  BY DEF NbBatches, BatchSize, LastBatchSize, ParallelSize

\* The sound records are of the types of the participants.
LEMMA SoundTypes == RunnerOK /\ Sound => TypeOK
<1> SUFFICES ASSUME RunnerOK, Sound PROVE TypeOK
  OBVIOUS
<1>1. sim \in [Sims -> [Instances -> [log : Histories, snaps : Seq(Histories), flag : BOOLEAN]]]
  BY DEF Sound, SimRecord
<1>2. user \in [Users -> [Instances -> [log : Histories, snaps : Seq(Histories)]]]
  BY DEF Sound, UserRecord
<1> QED
  BY <1>1, <1>2, Zenon DEF RunnerOK, TypeOK, Threads, Busy

--------------------------------------------------------------------------------
(* The invariant *)

\* The invariant holds initially.
LEMMA InitInvariant == Init => IInv
<1> SUFFICES ASSUME Init PROVE IInv
  OBVIOUS
<1>1. /\ period = 0 /\ clock = 0 /\ start = 0 /\ iteration = 0
      /\ nb = 1 /\ batch = 0 /\ joined = 0
      /\ pc = "iteration" /\ asg = [i \in Instances |-> <<0, 0, 0>>]
      /\ thr = [i \in Instances |-> IdleThread]
  BY DEF Init
<1>2. ~redoing /\ ~trajOff /\ ~ended /\ ok
      /\ redoing \in BOOLEAN /\ trajOff \in BOOLEAN /\ ended \in BOOLEAN /\ ok \in BOOLEAN
  BY Zenon DEF Init
<1>3. NPeriods \in Nat \ {0}
  BY Constants, CeilDivBounds DEF NPeriods
<1>4. RunnerOK
  <2>1. asg \in [Instances -> Assignments]
    BY <1>1, <1>3, Constants DEF Assignments
  <2>2. thr \in [Instances -> Threads]
    <3>1. IdleThread \in Threads
      BY DEF IdleThread, Threads
    <3> QED
      BY <1>1, <3>1
  <2>3. /\ period \in 0 .. NPeriods /\ clock \in Nat /\ start \in Nat
        /\ iteration \in 0 .. MaxRollbacks
        /\ nb \in 1 .. ModelMax /\ batch \in Nat /\ joined \in 0 .. NInst
        /\ pc \in {"iteration"} \cup Busy \cup Stopped
    BY <1>1, <1>3, Constants, InstanceCount
  <2> QED
    BY <1>2, <2>1, <2>2, <2>3, Zenon DEF RunnerOK
<1>5. \A s \in Sims, i \in Instances : sim[s][i].snaps = <<>>
  BY DEF Init
<1>6. \A u \in Users, i \in Instances : user[u][i].snaps = <<>>
  BY DEF Init
<1>7. Len(<<>>) = 0 /\ <<>> \in Histories /\ <<>> \in Seq(Histories)
  BY DEF Histories
<1>8. Sound
  <2>1. [log |-> <<>>, snaps |-> <<>>, flag |-> FALSE] \in SimRecord
    <3> DEFINE r == [log |-> <<>>, snaps |-> <<>>, flag |-> FALSE]
    <3>1. r \in [log : Histories, snaps : Seq(Histories), flag : BOOLEAN]
      BY <1>7
    <3>2. Depth(r) = 0 /\ ~r.flag
      BY <1>7 DEF Depth
    <3>3. r.flag <=> Depth(r) # 0
      BY <3>2
    <3> HIDE DEF r
    <3>4. r \in SimRecord
      BY <3>1, <3>2, <3>3, SimFromFields
    <3> QED
      BY <3>4 DEF r
  <2>2. [log |-> <<>>, snaps |-> <<>>] \in UserRecord
    BY <1>7 DEF UserRecord, Depth
  <2> QED
    BY <2>1, <2>2 DEF Init, Sound
<1>9. \A i \in Instances : AtMostOne(i)
  BY <1>5, <1>6, <1>7 DEF AtMostOne, Depth
<1>10. PeriodInv
  BY <1>1, <1>2, <1>3, Constants DEF PeriodInv, Busy
<1>11. BatchInv
  BY <1>1, <1>2 DEF BatchInv, Busy
<1>12. ThreadInv
  BY <1>1 DEF ThreadInv, IdleThread
<1>13. KeptInv
  BY <1>1, <1>9 DEF KeptInv, Busy, CommitDue
<1> QED
  BY <1>4, <1>8, <1>10, <1>11, <1>12, <1>13 DEF IInv

\* Starting an iteration keeps the invariant.
LEMMA StartInvariant ==
    ASSUME IInv, StartIteration
    PROVE  IInv'
<1> USE DEF IInv
<1>1. /\ pc = "iteration" /\ start' = clock
      /\ nb' \in 1 .. ModelMax /\ (redoing => nb' = ModelMax)
      /\ batch' = 0 /\ joined' = 0 /\ user' = OnUsers(UserStart, Local(nb'))
      /\ period' = period /\ clock' = clock /\ iteration' = iteration
      /\ redoing' = redoing /\ asg' = asg /\ thr' = thr
  BY Constants DEF StartIteration
<1>2. ~ended' /\ ended' \in BOOLEAN /\ trajOff' \in BOOLEAN
  BY Zenon DEF StartIteration, OutputsOff
<1>3. PICK res \in BOOLEAN : /\ CallSims("start", SimStart, nb', res)
                             /\ Goto("batch", res) /\ ok' = res
  BY DEF StartIteration
<1>4. pc' = (IF res THEN "batch" ELSE "failed") /\ (ok' <=> res) /\ ok' \in BOOLEAN
  BY <1>3, Zenon DEF Goto
<1>5. \A i \in Instances : AtMostOne(i)
  BY <1>1 DEF KeptInv
<1>6. /\ sim' \in [Sims -> [Instances -> SimRecord]]
      /\ \A s \in Sims, i \in Instances :
            /\ Depth(sim'[s][i]) <= 1
            /\ res /\ i < nb' => Depth(sim'[s][i]) = 1
  BY <1>1, <1>3, <1>5, StartCall
<1>7. /\ user' \in [Users -> [Instances -> UserRecord]]
      /\ \A u \in Users, i \in Instances :
            /\ Depth(user'[u][i]) <= 1
            /\ i < nb' => Depth(user'[u][i]) = 1
  BY <1>1, <1>5, StartUsers
<1>8. RunnerOK'
  <2>1. pc' \in {"iteration"} \cup Busy \cup Stopped
    BY <1>4 DEF Busy, Stopped
  <2>2. start' \in Nat /\ batch' \in Nat /\ joined' \in 0 .. NInst
    BY <1>1, InstanceCount DEF RunnerOK
  <2> QED
    BY <1>1, <1>2, <1>4, <2>1, <2>2, Zenon DEF RunnerOK
<1>9. Sound'
  BY <1>6, <1>7 DEF Sound
<1>10. PeriodInv'
  BY <1>1, <1>4 DEF PeriodInv, Busy, Stopped
<1>11. BatchInv'
  <2>1. NbBatches' > 0
    BY <1>1, CeilDivBounds, Constants DEF NbBatches
  <2> QED
    BY <1>1, <1>2, <1>4, <2>1 DEF BatchInv, Busy
<1>12. ThreadInv'
  <2>1. \A i \in Instances : thr'[i].pc = "idle"
    BY <1>1 DEF ThreadInv
  <2> QED
    BY <2>1, Zenon DEF ThreadInv
<1>13. KeptInv'
  <2>1. \A i \in Instances : AtMostOne(i)'
    BY <1>6, <1>7 DEF AtMostOne
  <2>2. res => \A i \in Instances : i < nb' => AtLeastOne(i)'
    BY <1>6, <1>7 DEF AtLeastOne
  <2> QED
    BY <1>4, <2>1, <2>2 DEF KeptInv, Busy, CommitDue
<1> QED
  BY <1>8, <1>9, <1>10, <1>11, <1>12, <1>13

\* A step that moves nothing but pc, to the end of the run, keeps the invariant.
LEMMA FailInvariant ==
    ASSUME IInv, NeededFails \/ DecideFails
    PROVE  IInv'
<1> USE DEF IInv
<1>1. /\ pc \in {"iteration", "decide"} /\ pc' = "failed" /\ start' \in {clock, start}
      /\ period' = period /\ clock' = clock /\ iteration' = iteration
      /\ nb' = nb /\ batch' = batch /\ joined' = joined
      /\ asg' = asg /\ thr' = thr /\ sim' = sim /\ user' = user
  BY DEF NeededFails, DecideFails
<1>2. redoing' = redoing /\ trajOff' = trajOff /\ ended' = ended /\ ok' = FALSE
  BY Zenon DEF NeededFails, DecideFails
<1>3. RunnerOK'
  <2>1. pc' \in {"iteration"} \cup Busy \cup Stopped /\ start' \in Nat
    BY <1>1 DEF Busy, Stopped, RunnerOK
  <2> QED
    BY <1>1, <1>2, <2>1 DEF RunnerOK
<1>4. Sound'
  BY <1>1, Zenon DEF Sound
<1>5. PeriodInv'
  BY <1>1 DEF PeriodInv, Busy, Stopped
<1>6. BatchInv'
  BY <1>1, <1>2 DEF BatchInv, Busy
<1>7. ThreadInv'
  <2>1. \A i \in Instances : thr'[i].pc = "idle"
    BY <1>1 DEF ThreadInv
  <2> QED
    BY <2>1, Zenon DEF ThreadInv
<1>8. KeptInv'
  BY <1>1 DEF KeptInv, Busy, CommitDue
<1> QED
  BY <1>3, <1>4, <1>5, <1>6, <1>7, <1>8

\* A batch starts from the start of the period: every instance it uses has the
\* snapshot of it, and no other.
LEMMA BatchInvariant ==
    ASSUME IInv, Reliable, StartBatch
    PROVE  IInv'
<1> USE DEF IInv
<1>1. /\ pc = "batch" /\ period' = period /\ clock' = clock /\ start' = start
      /\ iteration' = iteration /\ redoing' = redoing /\ nb' = nb /\ batch' = batch
      /\ trajOff' = trajOff /\ ended' = ended
  BY DEF StartBatch
<1>2. /\ nb \in 1 .. ModelMax /\ batch \in Nat /\ batch < NbBatches /\ ok
      /\ start = period * AssignLen /\ start \in Nat /\ period \in Nat
  BY <1>1 DEF RunnerOK, BatchInv, PeriodInv, Busy, Stopped
<1>3. /\ BatchSize \in 1 .. NInst
      /\ Offset \in Nat /\ Offset + BatchSize <= nb
      /\ (nb = ModelMax /\ batch = 0 => BatchSize = NInst)
  BY <1>2, BatchBounds
<1>4. start < EndTime
  BY <1>1, <1>2, PeriodStarts DEF PeriodInv, Stopped
<1>5. Sound' /\ \A i \in Instances : AtMostOne(i)' /\ (i < nb => HasSnaps(i, 1)')
  <2>1. \A i \in Instances : IF i < nb THEN AtLeastOne(i) ELSE AtMostOne(i)
    BY <1>1 DEF KeptInv, Busy
  <2>2. CASE batch # 0
    <3>1. PICK res \in BOOLEAN : CallSims("rollback", SimRollback, nb, res)
      BY <2>2 DEF StartBatch
    <3>2. user' = OnUsers(UserRollback, Local(nb))
      BY <2>2 DEF StartBatch
    <3>3. res
      BY <1>2, <2>2, <3>1, SecondBatch DEF CallSims
    <3>4. /\ Sound'
          /\ res => \A i \in Instances : AtMostOne(i)' /\ (i < nb => HasSnaps(i, 1)')
      BY <1>2, <2>1, <3>1, <3>2, RollbackCall
    <3> QED
      BY <3>3, <3>4
  <2>3. CASE batch = 0
    <3>1. sim' = sim /\ user' = user
      BY <2>3 DEF StartBatch, partVars
    <3>2. \A i \in Instances : AtMostOne(i)
      BY <1>1, <2>3 DEF KeptInv
    <3>3. \A i \in Instances : i < nb => HasSnaps(i, 1)
      <4>1. \A i \in Instances : \A s \in Sims : Depth(sim[s][i]) \in 0 .. 2
        BY SimFields DEF Sound
      <4>2. \A i \in Instances : \A u \in Users : Depth(user[u][i]) \in 0 .. 2
        BY UserFields DEF Sound
      <4> QED
        BY <2>1, <3>2, <4>1, <4>2 DEF AtLeastOne, AtMostOne, HasSnaps
    <3> QED
      BY <3>1, <3>2, <3>3 DEF Sound, AtMostOne, HasSnaps
  <2> QED
    BY <2>2, <2>3
<1>6. CASE /\ asg' = NewAssignments
           /\ thr' = [i \in Instances |->
                        IF i < BatchSize
                        THEN [IdleThread EXCEPT !.pc = "run", !.time = start, !.from = start]
                        ELSE IdleThread]
           /\ pc' = "join" /\ joined' = 0 /\ ok' = ok
  <2>1. asg' \in [Instances -> Assignments]
    <3> DEFINE new(i) == <<period, iteration, IF redoing THEN ModelMax ELSE Offset + i>>
    <3>1. ASSUME NEW i \in Instances, ~(i >= BatchSize) PROVE new(i) \in Assignments
      <4>1. Offset + i \in 0 .. ModelMax
        BY <1>2, <1>3, <3>1, InstanceCount, Constants DEF Instances
      <4> QED
        BY <4>1, Constants DEF Assignments, RunnerOK
    <3>2. asg' = [i \in Instances |->
                    IF i >= BatchSize \/ (redoing /\ ~NeedsParallel) THEN asg[i] ELSE new(i)]
      BY <1>6 DEF NewAssignments
    <3>3. asg \in [Instances -> Assignments]
      BY DEF RunnerOK
    <3> HIDE DEF new
    <3> QED
      BY <3>1, <3>2, <3>3
  <2>2. \A i \in Instances :
           /\ thr'[i] \in Threads
           /\ IF i < BatchSize
              THEN /\ thr'[i].pc = "run" /\ thr'[i].time = start /\ thr'[i].from = start
                   /\ thr'[i].sub = 0 /\ ~thr'[i].ended /\ thr'[i].ok
              ELSE thr'[i].pc = "idle"
    BY <1>2, <1>6 DEF IdleThread, Threads
  <2>3. RunnerOK'
    <3>1. thr' \in [Instances -> Threads]
      BY <1>6, <2>2
    <3>2. pc' \in {"iteration"} \cup Busy \cup Stopped /\ joined' \in 0 .. NInst
      BY <1>6, InstanceCount DEF Busy
    <3> QED
      BY <1>1, <1>6, <2>1, <3>1, <3>2 DEF RunnerOK
  <2>4. PeriodInv'
    BY <1>1, <1>6 DEF PeriodInv, Busy, Stopped
  <2>5. NbBatches' = NbBatches /\ BatchSize' = BatchSize
    BY <1>1, SameBatch
  <2>6. EndedDue' <=> EndedDue
    BY <1>1, SamePeriod
  <2>7. BatchInv'
    BY <1>1, <1>3, <1>6, <2>5, <2>6 DEF BatchInv, Busy
  <2>8. ThreadInv'
    <3> SUFFICES ASSUME NEW i \in Instances, thr'[i].pc # "idle"
                 PROVE  /\ pc' = "join" /\ joined' <= i /\ i < BatchSize'
                        /\ thr'[i].pc = "run" => thr'[i].ok
                        /\ thr'[i].ok => RunningInv(i)'
      BY Zenon DEF ThreadInv
    <3>1. i < BatchSize /\ i >= 0 /\ i < nb
      BY <1>2, <1>3, <2>2, InstanceCount DEF Instances
    <3>2. /\ thr'[i].pc = "run" /\ thr'[i].time = start /\ thr'[i].from = start
          /\ thr'[i].sub = 0 /\ ~thr'[i].ended /\ thr'[i].ok
      BY <2>2, <3>1
    <3>3. RunningInv(i)'
      <4>1. OnGrid(start)'
        BY <1>1, <1>2, Grid DEF OnGrid
      <4>2. MinOf(start + 0 * TTUpdate, EndPeriod) <= start /\ 0 < NbUpdates /\ start <= EndAssign
        <5>1. 0 * TTUpdate = 0
          BY Constants
        <5>2. start < EndPeriod /\ EndPeriod \in Nat /\ NbUpdates \in Nat \ {0} /\ start <= EndAssign
          BY <1>2, <1>4, UpdatesCover
        <5> QED
          BY <1>2, <5>1, <5>2 DEF MinOf
      <4>3. HasSnaps(i, 1)'
        BY <1>5, <3>1
      <4>4. EndPeriod' = EndPeriod /\ EndAssign' = EndAssign /\ NbUpdates' = NbUpdates
        BY <1>1, SamePeriod
      <4> QED
        BY <1>1, <1>2, <3>2, <4>1, <4>2, <4>3, <4>4 DEF RunningInv
    <3> QED
      BY <1>6, <2>5, <3>1, <3>2, <3>3
  <2>9. KeptInv'
    <3>1. \A i \in Instances : IF i < nb' THEN AtLeastOne(i)' ELSE AtMostOne(i)'
      BY <1>1, <1>5 DEF HasSnaps, AtLeastOne
    <3> QED
      BY <1>6, <3>1, Constants DEF KeptInv, Busy, CommitDue, Instances
  <2> QED
    BY <1>5, <2>3, <2>4, <2>7, <2>8, <2>9
<1>7. CASE pc' = "failed" /\ ok' = FALSE /\ asg' = asg /\ thr' = thr /\ joined' = joined
  <2>1. RunnerOK'
    <3>1. pc' \in {"iteration"} \cup Busy \cup Stopped
      BY <1>7 DEF Stopped
    <3> QED
      BY <1>1, <1>7, <3>1 DEF RunnerOK
  <2>2. PeriodInv' /\ BatchInv' /\ KeptInv'
    BY <1>1, <1>7 DEF PeriodInv, BatchInv, KeptInv, Busy, Stopped, CommitDue
  <2>3. ThreadInv'
    <3>1. \A i \in Instances : thr'[i].pc = "idle"
      BY <1>1, <1>7 DEF ThreadInv
    <3> QED
      BY <3>1, Zenon DEF ThreadInv
  <2> QED
    BY <1>5, <2>1, <2>2, <2>3
<1> QED
  BY <1>6, <1>7 DEF StartBatch

\* A thread that went through the whole prediction has met the end of the
\* assignment period if it could: all the threads of a batch agree on it.
LEMMA EndMet ==
    ASSUME start \in Nat, start < EndTime, NEW i \in Instances, thr[i] \in Threads,
           thr[i].pc = "done", RunningInv(i)
    PROVE  thr[i].ended <=> EndedDue
<1>1. thr[i].ended => EndedDue
  BY Zenon DEF RunningInv
<1>2. ASSUME ~thr[i].ended PROVE ~EndedDue
  <2>1. OnGrid(thr[i].time) /\ thr[i].time >= EndPeriod /\ thr[i].time <= EndAssign
    BY <1>2 DEF RunningInv
  <2>2. thr[i].time \in Nat
    BY DEF Threads
  <2>3. EndPeriod \in Nat /\ EndAssign \in Nat
    BY UpdatesCover
  <2>4. ASSUME NEW t \in Nat, OnGrid(t), t < EndPeriod, t + Dt > EndAssign PROVE FALSE
    <3>1. t < thr[i].time
      BY <2>1, <2>2, <2>3, <2>4
    <3>2. t + Dt <= thr[i].time
      BY <2>1, <2>2, <2>4, <3>1, Grid
    <3> QED
      BY <2>1, <2>2, <2>3, <2>4, <3>2, Constants
  <2> QED
    BY <2>4 DEF EndedDue
<1> QED
  BY <1>1, <1>2

\* Joining a thread keeps the invariant; after the last one of a batch that is to
\* be committed, every instance stands the same way.
LEMMA JoinInvariant ==
    ASSUME IInv, Join
    PROVE  IInv'
<1> USE DEF IInv
<1>1. /\ pc = "join" /\ joined < BatchSize /\ joined' = joined + 1
      /\ thr' = [thr EXCEPT ![joined] = IdleThread] /\ thr[joined].pc = "done"
      /\ period' = period /\ start' = start /\ iteration' = iteration /\ nb' = nb
      /\ redoing' = redoing /\ trajOff' = trajOff /\ asg' = asg /\ sim' = sim /\ user' = user
  BY DEF Join
<1>2. /\ nb \in 1 .. ModelMax /\ batch \in Nat /\ batch < NbBatches
      /\ start = period * AssignLen /\ start \in Nat /\ period \in Nat /\ joined \in Nat
  BY <1>1 DEF RunnerOK, BatchInv, PeriodInv, Busy, Stopped
<1>3. BatchSize \in 1 .. NInst /\ (nb = ModelMax /\ batch = 0 => BatchSize = NInst)
  BY <1>2, BatchBounds
<1>4. start < EndTime
  BY <1>1, <1>2, PeriodStarts DEF PeriodInv, Stopped
<1>5. joined \in Instances /\ thr \in [Instances -> Threads]
  BY <1>1, <1>2, <1>3, InstanceCount DEF Instances, RunnerOK
<1>6. thr[joined].ok => RunningInv(joined) /\ (thr[joined].ended <=> EndedDue)
  BY <1>1, <1>2, <1>4, <1>5, EndMet DEF ThreadInv
<1>7. /\ clock' \in Nat /\ ok' \in BOOLEAN /\ ended' \in BOOLEAN
      /\ ended' => EndedDue
      /\ ok' => ok /\ thr[joined].ok /\ (ended' <=> EndedDue)
  <2>1. thr[joined].time \in Nat /\ thr[joined].ended \in BOOLEAN
    BY <1>5 DEF Threads
  <2>2. clock \in Nat /\ ended \in BOOLEAN /\ ok \in BOOLEAN /\ (ended => EndedDue)
    BY <1>1 DEF RunnerOK, BatchInv
  <2>3. CASE ok /\ thr[joined].ok
    <3>1. clock' = thr[joined].time /\ ended' = (ended \/ thr[joined].ended) /\ ok' \in BOOLEAN
      BY <2>3 DEF Join
    <3> QED
      BY <1>6, <2>1, <2>2, <2>3, <3>1
  <2>4. CASE ~(ok /\ thr[joined].ok)
    <3>1. clock' = clock /\ ended' = ended /\ ~ok' /\ ok' \in BOOLEAN
      BY <2>4, Zenon DEF Join
    <3> QED
      BY <2>2, <3>1
  <2> QED
    BY <2>3, <2>4
<1>8. NbBatches' = NbBatches /\ (EndedDue' <=> EndedDue)
  <2>1. NbBatches' = NbBatches
    BY <1>1 DEF NbBatches
  <2> QED
    BY <1>1, <2>1, SamePeriod
<1>9. /\ thr' \in [Instances -> Threads] /\ thr'[joined].pc = "idle"
      /\ \A i \in Instances : i # joined => thr'[i] = thr[i]
  <2>1. IdleThread \in Threads /\ IdleThread.pc = "idle"
    BY DEF IdleThread, Threads
  <2> QED
    BY <1>1, <1>5, <2>1
<1>10. Sound'
  BY <1>1 DEF Sound
<1>11. \A i \in Instances : IF i < nb THEN AtLeastOne(i)' ELSE AtMostOne(i)'
  BY <1>1 DEF KeptInv, Busy, AtLeastOne, AtMostOne
<1>12. \A i \in Instances, n \in Nat : HasSnaps(i, n)' <=> HasSnaps(i, n)
  BY <1>1 DEF HasSnaps
<1>13. ok' => \A i \in Instances : i <= joined => HasSnaps(i, IF EndedDue THEN 2 ELSE 1)
  <2> SUFFICES ASSUME ok', NEW i \in Instances, i <= joined
               PROVE  HasSnaps(i, IF EndedDue THEN 2 ELSE 1)
    OBVIOUS
  <2>1. CASE i < joined
    BY <1>1, <1>7, <2>1 DEF KeptInv
  <2>2. CASE i = joined
    <3>1. HasSnaps(i, IF thr[i].ended THEN 2 ELSE 1)
      BY <1>6, <1>7, <2>2 DEF RunningInv
    <3> QED
      BY <1>6, <1>7, <2>2, <3>1
  <2> QED
    BY <1>2, <2>1, <2>2, InstanceCount DEF Instances
<1>14. CASE joined + 1 = BatchSize
  <2>1. /\ batch' = batch + 1
        /\ pc' = IF ok' THEN (IF redoing \/ batch + 1 = NbBatches THEN "decide" ELSE "batch")
                 ELSE "failed"
    BY <1>1, <1>14 DEF Join, Goto
  <2>2. RunnerOK'
    <3>1. pc' \in {"iteration"} \cup Busy \cup Stopped /\ batch' \in Nat /\ joined' \in 0 .. NInst
      BY <1>1, <1>2, <1>3, <1>14, <2>1, InstanceCount DEF Busy, Stopped
    <3> QED
      BY <1>1, <1>7, <1>9, <3>1 DEF RunnerOK
  <2>3. PeriodInv'
    BY <1>1, <1>2, <2>1 DEF PeriodInv, Busy, Stopped
  <2>4. BatchInv'
    <3>1. batch + 1 # NbBatches => batch + 1 < NbBatches
      <4>1. NbBatches \in Nat
        BY <1>2, CeilDivBounds, Constants DEF NbBatches
      <4> QED
        BY <1>2, <4>1
    <3>2. pc' = "batch" => ~redoing /\ batch + 1 # NbBatches
      BY <2>1
    <3>3. redoing => nb = ModelMax /\ RedoLastIteration
      BY <1>1 DEF BatchInv, Busy
    <3> QED
      BY <1>1, <1>7, <1>8, <2>1, <3>1, <3>2, <3>3 DEF BatchInv, RedoLastIteration
  <2>5. ThreadInv'
    <3>1. \A i \in Instances : thr[i].pc # "idle" => i = joined
      BY <1>2, <1>3, <1>14, InstanceCount DEF ThreadInv, Instances
    <3>2. \A i \in Instances : thr'[i].pc = "idle"
      BY <1>9, <3>1
    <3> QED
      BY <3>2, Zenon DEF ThreadInv
  <2>6. KeptInv'
    <3>1. CommitDue' => \A i \in Instances : HasSnaps(i, IF ended THEN 2 ELSE 1)'
      <4> SUFFICES ASSUME CommitDue', NEW i \in Instances
                   PROVE  HasSnaps(i, IF ended THEN 2 ELSE 1)'
        OBVIOUS
      <4>1. pc' = "decide" /\ ok' /\ (redoing \/ ~RedoLastIteration)
        BY <1>1, <2>1 DEF CommitDue, RedoLastIteration
      <4>2. BatchSize = NInst
        BY <1>1, <1>3, <4>1, InstanceCount DEF BatchInv, Busy, RedoLastIteration
      <4>3. i <= joined
        BY <1>2, <1>14, <4>2, InstanceCount DEF Instances
      <4>4. HasSnaps(i, IF EndedDue THEN 2 ELSE 1)'
        BY <1>12, <1>13, <1>8, <4>1, <4>3
      <4> QED
        BY <1>7, <1>8, <4>1, <4>4
    <3> QED
      BY <1>1, <1>2, <1>11, <2>1, <3>1 DEF KeptInv, Busy
  <2> QED
    BY <1>10, <2>2, <2>3, <2>4, <2>5, <2>6
<1>15. CASE joined + 1 # BatchSize
  <2>1. pc' = pc /\ batch' = batch
    BY <1>1, <1>15 DEF Join
  <2>2. BatchSize' = BatchSize /\ joined' < BatchSize
    BY <1>1, <1>2, <1>3, <1>15, <2>1, SameBatch, InstanceCount
  <2>3. RunnerOK'
    <3>1. joined' \in 0 .. NInst
      BY <1>1, <1>2, <1>3, <2>2, InstanceCount
    <3> QED
      BY <1>1, <1>7, <1>9, <2>1, <3>1 DEF RunnerOK
  <2>4. PeriodInv'
    BY <1>1, <1>2, <2>1 DEF PeriodInv, Busy, Stopped
  <2>5. BatchInv'
    BY <1>1, <1>7, <1>8, <2>1, <2>2 DEF BatchInv, Busy, RedoLastIteration
  <2>6. ThreadInv'
    <3> SUFFICES ASSUME NEW i \in Instances, thr'[i].pc # "idle"
                 PROVE  /\ pc' = "join" /\ joined' <= i /\ i < BatchSize'
                        /\ thr'[i].pc = "run" => thr'[i].ok
                        /\ thr'[i].ok => RunningInv(i)'
      BY Zenon DEF ThreadInv
    <3>1. i # joined /\ thr'[i] = thr[i]
      BY <1>9
    <3>2. /\ joined <= i /\ i < BatchSize
          /\ thr[i].pc = "run" => thr[i].ok
          /\ thr[i].ok => RunningInv(i)
      BY <3>1 DEF ThreadInv
    <3>3. RunningInv(i) => RunningInv(i)'
      <4>1. EndPeriod' = EndPeriod /\ EndAssign' = EndAssign /\ NbUpdates' = NbUpdates
        BY <1>1, SamePeriod
      <4>2. OnGrid(thr[i].time) => OnGrid(thr[i].time)'
        BY <1>1, <3>1 DEF OnGrid
      <4>3. HasSnaps(i, IF thr[i].ended THEN 2 ELSE 1)
            => HasSnaps(i, IF thr[i].ended THEN 2 ELSE 1)'
        BY <1>1, <3>1 DEF HasSnaps
      <4> QED
        BY <1>1, <1>8, <3>1, <4>1, <4>2, <4>3 DEF RunningInv
    <3> QED
      BY <1>1, <1>2, <2>1, <2>2, <3>1, <3>2, <3>3, InstanceCount DEF Instances
  <2>7. KeptInv'
    <3>1. ok' => \A i \in Instances : i < joined' => HasSnaps(i, IF EndedDue THEN 2 ELSE 1)'
      <4>1. \A i \in Instances : i < joined' => i <= joined
        BY <1>1, <1>2, InstanceCount DEF Instances
      <4> QED
        BY <1>8, <1>12, <1>13, <4>1
    <3> QED
      BY <1>1, <1>11, <2>1, <3>1 DEF KeptInv, Busy, CommitDue
  <2> QED
    BY <1>10, <2>3, <2>4, <2>5, <2>6, <2>7
<1> QED
  BY <1>14, <1>15

\* Going back to the start of the period, for another try or to redo the last one.
LEMMA RollbackInvariant ==
    ASSUME IInv, RollbackIteration \/ RedoIteration
    PROVE  IInv'
<1> USE DEF IInv
<1>1. /\ pc = "decide" /\ RollbackAll /\ iteration' \in 0 .. MaxRollbacks
      /\ period' = period /\ start' = start /\ nb' = nb /\ batch' = batch
      /\ joined' = joined /\ asg' = asg /\ thr' = thr
      /\ trajOff' = trajOff /\ ended' = ended
  <2>1. CASE RollbackIteration
    BY <2>1, Constants DEF RollbackIteration, RunnerOK
  <2>2. CASE RedoIteration
    BY <2>2 DEF RedoIteration, RunnerOK
  <2> QED
    BY <2>1, <2>2
<1>2. redoing' \in BOOLEAN /\ (redoing' => RedoLastIteration)
  <2>1. CASE RollbackIteration
    BY <2>1 DEF RollbackIteration, RunnerOK, BatchInv
  <2>2. CASE RedoIteration
    <3>1. redoing' = TRUE /\ RedoLastIteration
      BY <2>2, Zenon DEF RedoIteration
    <3> QED
      BY <3>1
  <2> QED
    BY <1>1, <2>1, <2>2
<1>3. PICK res \in BOOLEAN : CallSims("rollback", SimRollback, nb, res)
                             /\ Goto("iteration", res) /\ ok' = res
  BY <1>1, Zenon DEF RollbackAll
<1>4. user' = OnUsers(UserRollback, Local(nb)) /\ clock' = start
  BY <1>1 DEF RollbackAll
<1>5. nb \in Nat /\ start \in Nat /\ start = period * AssignLen /\ period < NPeriods
  BY <1>1 DEF RunnerOK, PeriodInv, Busy, Stopped
<1>6. \A i \in Instances : IF i < nb THEN AtLeastOne(i) ELSE AtMostOne(i)
  BY <1>1 DEF KeptInv, Busy
<1>7. Sound' /\ (res => \A i \in Instances : AtMostOne(i)')
  BY <1>3, <1>4, <1>5, <1>6, RollbackCall
<1>8. /\ pc' = IF res THEN "iteration" ELSE "failed"
      /\ ok' \in BOOLEAN /\ (res => ok')
  BY <1>3, Zenon DEF Goto
<1>9. RunnerOK'
  <2>1. pc' \in {"iteration"} \cup Busy \cup Stopped
    BY <1>8 DEF Stopped
  <2> QED
    BY <1>1, <1>2, <1>4, <1>5, <1>8, <2>1 DEF RunnerOK
<1>10. PeriodInv'
  BY <1>1, <1>4, <1>5, <1>8 DEF PeriodInv, Busy, Stopped
<1>11. BatchInv'
  BY <1>2, <1>8 DEF BatchInv, Busy, RedoLastIteration
<1>12. ThreadInv'
  <2>1. \A i \in Instances : thr'[i].pc = "idle"
    BY <1>1 DEF ThreadInv
  <2> QED
    BY <2>1, Zenon DEF ThreadInv
<1>13. KeptInv'
  BY <1>7, <1>8 DEF KeptInv, Busy, CommitDue
<1> QED
  BY <1>7, <1>9, <1>10, <1>11, <1>12, <1>13

\* Every simulator finds the snapshot the commit asks for.
LEMMA CommitInvariant ==
    ASSUME IInv, CommitPeriod
    PROVE  IInv'
<1> USE DEF IInv
<1>1. /\ pc = "decide" /\ CommitDue
      /\ user' = OnUsers(UserCommit, Instances) /\ iteration' = 0
      /\ clock' = EndAssign /\ period' = period + 1
      /\ start' = start /\ nb' = nb /\ batch' = batch /\ joined' = joined
      /\ asg' = asg /\ thr' = thr
  BY DEF CommitPeriod, CommitDue
<1>2. ~redoing' /\ redoing' \in BOOLEAN /\ trajOff' \in BOOLEAN /\ ended' \in BOOLEAN
  BY Zenon DEF CommitPeriod, RunnerOK
<1>3. PICK res \in BOOLEAN :
         /\ \/ CallSims("commit", SimCommit, nb, res)
            \/ ~res /\ "write" \in FailingCalls /\ UNCHANGED sim
         /\ Goto(IF period + 1 >= NPeriods THEN "ended" ELSE "iteration", res)
         /\ ok' = res
  BY Zenon DEF CommitPeriod
<1>4. /\ nb \in 1 .. ModelMax /\ start \in Nat /\ period \in Nat /\ period < NPeriods
      /\ start = period * AssignLen
  BY <1>1 DEF RunnerOK, PeriodInv, Busy, Stopped
<1>5. start < EndTime /\ EndAssign \in Nat /\ NPeriods \in Nat
  <2>1. start < EndTime
    BY <1>4, PeriodStarts
  <2>2. NPeriods \in Nat
    BY Constants, CeilDivBounds DEF NPeriods
  <2> QED
    BY <1>4, <2>1, <2>2, UpdatesCover
<1>6. /\ ok' \in BOOLEAN /\ (ok' <=> res)
      /\ pc' = IF res THEN (IF period + 1 >= NPeriods THEN "ended" ELSE "iteration")
               ELSE "failed"
  BY <1>3, Zenon DEF Goto
<1>7. \A s \in Sims, i \in Instances :
         /\ sim[s][i] \in SimRecord /\ SimCommit(sim[s][i]) \in SimRecord
         /\ Depth(SimCommit(sim[s][i])) <= 1
  <2> SUFFICES ASSUME NEW s \in Sims, NEW i \in Instances
               PROVE  /\ sim[s][i] \in SimRecord /\ SimCommit(sim[s][i]) \in SimRecord
                      /\ Depth(SimCommit(sim[s][i])) <= 1
    OBVIOUS
  <2>1. sim[s][i] \in SimRecord
    BY DEF Sound
  <2>2. Depth(sim[s][i]) = IF ended THEN 2 ELSE 1
    BY <1>1 DEF KeptInv, HasSnaps
  <2> QED
    BY <2>1, <2>2, SimCommits
<1>8. \A u \in Users, i \in Instances :
         /\ UserCommit(user[u][i]) \in UserRecord
         /\ Depth(UserCommit(user[u][i])) <= 1
  BY UserCommits DEF Sound
<1>9. user' \in [Users -> [Instances -> UserRecord]]
      /\ \A u \in Users, i \in Instances : Depth(user'[u][i]) <= 1
  BY <1>1, <1>8 DEF OnUsers
<1>10. sim' \in [Sims -> [Instances -> SimRecord]]
  <2>1. CASE \E called \in SUBSET (Sims \X Instances) : sim' = OnSims(SimCommit, called)
    BY <1>7, <2>1 DEF OnSims
  <2>2. CASE UNCHANGED sim
    BY <2>2 DEF Sound
  <2>3. Called(nb) \subseteq Sims \X Instances
        /\ \A f : Before(nb, f) \subseteq Sims \X Instances
    BY DEF Called, Before, Local
  <2> QED
    BY <1>3, <2>1, <2>2, <2>3 DEF CallSims
<1>11. res => \A s \in Sims, i \in Instances : Depth(sim'[s][i]) <= 1
  <2> SUFFICES ASSUME res, NEW s \in Sims, NEW i \in Instances PROVE Depth(sim'[s][i]) <= 1
    OBVIOUS
  <2>1. sim' = OnSims(SimCommit, Called(nb))
    BY <1>3 DEF CallSims
  <2>2. CASE <<s, i>> \in Called(nb)
    BY <1>7, <2>1, <2>2 DEF OnSims
  <2>3. CASE <<s, i>> \notin Called(nb)
    <3>1. AtMostOne(i)
      BY <1>1, <2>3 DEF Called, Local, KeptInv, Busy
    <3> QED
      BY <2>1, <2>3, <3>1 DEF OnSims, AtMostOne
  <2> QED
    BY <2>2, <2>3
<1>12. RunnerOK'
  <2>1. pc' \in {"iteration"} \cup Busy \cup Stopped /\ period' \in 0 .. NPeriods
        /\ clock' \in Nat /\ iteration' \in 0 .. MaxRollbacks
    BY <1>1, <1>4, <1>5, <1>6, Constants DEF Stopped
  <2> QED
    BY <1>1, <1>2, <1>6, <2>1 DEF RunnerOK
<1>13. PeriodInv'
  <2>1. pc' = "iteration" => EndAssign = (period + 1) * AssignLen
    <3> SUFFICES ASSUME pc' = "iteration" PROVE EndAssign = (period + 1) * AssignLen
      OBVIOUS
    <3>1. period + 1 < NPeriods
      BY <1>4, <1>5, <1>6
    <3>2. (period + 1) * AssignLen < EndTime
      BY <1>4, <3>1, PeriodStarts
    <3>3. (period + 1) * AssignLen = start + AssignLen
      BY <1>4, Constants
    <3> QED
      BY <1>4, <3>2, <3>3, Constants DEF EndAssign, MinOf
  <2> QED
    BY <1>1, <1>4, <1>5, <1>6, <2>1 DEF PeriodInv, Busy, Stopped
<1>14. BatchInv'
  BY <1>2, <1>6 DEF BatchInv, Busy
<1>15. ThreadInv'
  <2>1. \A i \in Instances : thr'[i].pc = "idle"
    BY <1>1 DEF ThreadInv
  <2> QED
    BY <2>1, Zenon DEF ThreadInv
<1>16. KeptInv'
  <2>1. res => \A i \in Instances : AtMostOne(i)'
    BY <1>9, <1>11 DEF AtMostOne
  <2> QED
    BY <1>6, <2>1 DEF KeptInv, Busy, CommitDue
<1> QED
  BY <1>9, <1>10, <1>12, <1>13, <1>14, <1>15, <1>16 DEF Sound

\* What a thread's step leaves alone.
LEMMA ThreadFrame ==
    ASSUME IInv, NEW i \in Instances, thr[i].pc = "run", UNCHANGED runnerVars
    PROVE  /\ pc = "join" /\ pc' = pc /\ start' = start /\ joined' = joined /\ nb' = nb
           /\ thr[i] \in Threads /\ thr[i].ok /\ RunningInv(i)
           /\ joined <= i /\ i < BatchSize /\ i < nb /\ ~(i < joined)
           /\ start \in Nat /\ start < EndTime /\ nb \in 1 .. ModelMax
           /\ BatchSize' = BatchSize /\ (EndedDue' <=> EndedDue)
           /\ PeriodInv' /\ BatchInv'
<1> USE DEF IInv
<1>1. /\ pc = "join" /\ joined <= i /\ i < BatchSize /\ thr[i].ok /\ RunningInv(i)
  BY DEF ThreadInv
<1>2. /\ period' = period /\ clock' = clock /\ start' = start /\ iteration' = iteration
      /\ redoing' = redoing /\ nb' = nb /\ batch' = batch /\ joined' = joined
      /\ ended' = ended /\ ok' = ok /\ pc' = pc
  BY DEF runnerVars
<1>3. /\ nb \in 1 .. ModelMax /\ batch \in Nat /\ batch < NbBatches
      /\ start = period * AssignLen /\ start \in Nat /\ period \in Nat /\ joined \in Nat
      /\ period < NPeriods /\ thr[i] \in Threads
  BY <1>1 DEF RunnerOK, BatchInv, PeriodInv, Busy, Stopped
<1>4. start < EndTime
  BY <1>3, PeriodStarts
<1>5. BatchSize \in 1 .. NInst /\ Offset \in Nat /\ Offset + BatchSize <= nb
  BY <1>3, BatchBounds
<1>6. i < nb /\ ~(i < joined)
  BY <1>1, <1>3, <1>5, InstanceCount DEF Instances
<1>7. BatchSize' = BatchSize /\ NbBatches' = NbBatches /\ (EndedDue' <=> EndedDue)
  BY <1>2, SameBatch, SamePeriod
<1>8. PeriodInv'
  BY <1>1, <1>2, <1>3 DEF PeriodInv, Busy, Stopped
<1>9. BatchInv'
  BY <1>1, <1>2, <1>7 DEF BatchInv, Busy, RedoLastIteration
<1> QED
  BY <1>1, <1>2, <1>3, <1>4, <1>6, <1>7, <1>8, <1>9

\* A step of thread i that keeps its own part of the invariant, and touches the
\* participants' instance i only, keeps the whole.
LEMMA ThreadStep ==
    ASSUME IInv, NEW i \in Instances, thr[i].pc = "run", UNCHANGED runnerVars, Sound',
           thr' = [thr EXCEPT ![i] = thr'[i]], thr'[i] \in Threads,
           thr'[i].pc = "run" => thr'[i].ok,
           thr'[i].ok => RunningInv(i)',
           AtLeastOne(i)',
           \A j \in Instances : j # i =>
              /\ \A s \in Sims : sim'[s][j].snaps = sim[s][j].snaps
              /\ \A u \in Users : user'[u][j].snaps = user[u][j].snaps
    PROVE  IInv'
<1> USE DEF IInv
<1>1. /\ pc = "join" /\ pc' = pc /\ start' = start /\ joined' = joined /\ nb' = nb
      /\ joined <= i /\ i < BatchSize /\ i < nb /\ ~(i < joined)
      /\ BatchSize' = BatchSize /\ (EndedDue' <=> EndedDue)
      /\ PeriodInv' /\ BatchInv'
  BY ThreadFrame
<1>2. \A j \in Instances : j # i => thr'[j] = thr[j]
  BY DEF RunnerOK
<1>3. RunnerOK'
  <2>1. thr' \in [Instances -> Threads]
    BY DEF RunnerOK
  <2>2. /\ period' = period /\ clock' = clock /\ start' = start /\ iteration' = iteration
        /\ redoing' = redoing /\ nb' = nb /\ batch' = batch /\ joined' = joined
        /\ ended' = ended /\ ok' = ok /\ pc' = pc /\ trajOff' = trajOff /\ asg' = asg
    BY DEF runnerVars
  <2> QED
    BY <2>1, <2>2 DEF RunnerOK
<1>4. \A j \in Instances : j # i =>
         /\ \A n \in Nat : HasSnaps(j, n) => HasSnaps(j, n)'
         /\ AtLeastOne(j) => AtLeastOne(j)'
         /\ AtMostOne(j) => AtMostOne(j)'
  BY DEF HasSnaps, AtLeastOne, AtMostOne, Depth
<1>5. ThreadInv'
  <2> SUFFICES ASSUME NEW j \in Instances, thr'[j].pc # "idle"
               PROVE  /\ pc' = "join" /\ joined' <= j /\ j < BatchSize'
                      /\ thr'[j].pc = "run" => thr'[j].ok
                      /\ thr'[j].ok => RunningInv(j)'
    BY Zenon DEF ThreadInv
  <2>1. CASE j = i
    BY <1>1, <2>1
  <2>2. CASE j # i
    <3>1. thr'[j] = thr[j]
      BY <1>2, <2>2
    <3>2. /\ joined <= j /\ j < BatchSize
          /\ thr[j].pc = "run" => thr[j].ok
          /\ thr[j].ok => RunningInv(j)
      BY <3>1 DEF ThreadInv
    <3>3. RunningInv(j) => RunningInv(j)'
      <4>1. EndPeriod' = EndPeriod /\ EndAssign' = EndAssign /\ NbUpdates' = NbUpdates
        BY <1>1, SamePeriod
      <4>2. OnGrid(thr[j].time) => OnGrid(thr[j].time)'
        BY <1>1, <3>1 DEF OnGrid
      <4>3. HasSnaps(j, IF thr[j].ended THEN 2 ELSE 1)
            => HasSnaps(j, IF thr[j].ended THEN 2 ELSE 1)'
        BY <1>4, <2>2, <3>1
      <4> QED
        BY <1>1, <3>1, <4>1, <4>2, <4>3 DEF RunningInv
    <3> QED
      BY <1>1, <3>1, <3>2, <3>3
  <2> QED
    BY <2>1, <2>2
<1>6. KeptInv'
  <2>1. \A j \in Instances : IF j < nb THEN AtLeastOne(j)' ELSE AtMostOne(j)'
    BY <1>1, <1>4 DEF KeptInv, Busy
  <2>2. ok' => \A j \in Instances : j < joined' => HasSnaps(j, IF EndedDue THEN 2 ELSE 1)'
    <3>1. ok' => \A j \in Instances : j < joined => HasSnaps(j, IF EndedDue THEN 2 ELSE 1)
      BY <1>1 DEF KeptInv, runnerVars
    <3> QED
      BY <1>1, <1>4, <3>1
  <2> QED
    BY <1>1, <2>1, <2>2 DEF KeptInv, Busy, CommitDue
<1> QED
  BY <1>1, <1>3, <1>5, <1>6

\* Keeping the state at the end of the assignment period.
LEMMA SnapshotInvariant ==
    ASSUME IInv, NEW i \in Instances, TakeEndSnapshot(i)
    PROVE  IInv'
<1> USE DEF IInv
<1>1. /\ thr[i].pc = "run" /\ ~thr[i].ended /\ UNCHANGED runnerVars
      /\ thr[i].time < WindowEnd(i) /\ thr[i].time + Dt > EndAssign
  BY DEF TakeEndSnapshot, InWindow, SnapshotDue
<1>2. /\ start' = start /\ thr[i] \in Threads /\ thr[i].ok /\ RunningInv(i)
      /\ start \in Nat /\ start < EndTime /\ (EndedDue' <=> EndedDue)
  BY <1>1, ThreadFrame
<1>3. EndPeriod' = EndPeriod /\ EndAssign' = EndAssign /\ NbUpdates' = NbUpdates
  BY <1>2, SamePeriod
<1>4. HasSnaps(i, 1)
  BY <1>1, <1>2 DEF RunningInv
<1>5. EndedDue
  <2>1. thr[i].time < EndPeriod
    <3>1. EndPeriod \in Nat /\ thr[i].from \in Nat /\ thr[i].time \in Nat
      BY <1>2, UpdatesCover DEF Threads
    <3> QED
      BY <1>1, <3>1, Constants DEF WindowEnd, MinOf
  <2>2. OnGrid(thr[i].time) /\ thr[i].time \in Nat
    BY <1>2 DEF RunningInv, Threads
  <2> QED
    BY <1>1, <2>1, <2>2 DEF EndedDue
<1>6. \A s \in Sims : /\ sim[s][i] \in SimRecord /\ Depth(sim[s][i]) = 1
                      /\ TakeSnapshot(sim[s][i]) \in SimRecord
                      /\ Depth(TakeSnapshot(sim[s][i])) = 2
  BY <1>4, SimTakes DEF Sound, HasSnaps
<1>7. \A u \in Users : /\ TakeSnapshot(user[u][i]) \in UserRecord
                       /\ Depth(TakeSnapshot(user[u][i])) = 2
  <2>1. \A u \in Users : user[u][i] \in UserRecord /\ Depth(user[u][i]) = 1
    BY <1>4 DEF Sound, HasSnaps
  <2>2. \A u \in Users : /\ TakeSnapshot(user[u][i]) \in UserRecord
                         /\ Depth(TakeSnapshot(user[u][i])) = 1 + 1
    BY <2>1, UserTakes
  <2> QED
    BY <2>2
<1>8. \A n : \A s \in Sims, j \in Instances :
         OnSims(TakeSnapshot, SimsOf(i, n))[s][j]
            = IF j = i /\ s < n THEN TakeSnapshot(sim[s][j]) ELSE sim[s][j]
  BY DEF OnSims, SimsOf
<1>9. \A n : OnSims(TakeSnapshot, SimsOf(i, n)) \in [Sims -> [Instances -> SimRecord]]
  <2> SUFFICES ASSUME NEW n
               PROVE  OnSims(TakeSnapshot, SimsOf(i, n)) \in [Sims -> [Instances -> SimRecord]]
    OBVIOUS
  <2>1. \A s \in Sims, j \in Instances :
           (IF <<s, j>> \in SimsOf(i, n) THEN TakeSnapshot(sim[s][j]) ELSE sim[s][j]) \in SimRecord
    BY <1>6 DEF SimsOf, Sound
  <2> QED
    BY <2>1 DEF OnSims
<1>10. CASE /\ sim' = OnSims(TakeSnapshot, SimsOf(i, NSims + 1))
            /\ user' = OnUsers(TakeSnapshot, {i})
            /\ thr' = [thr EXCEPT ![i].ended = TRUE]
  <2>1. \A s \in Sims, j \in Instances :
           sim'[s][j] = IF j = i THEN TakeSnapshot(sim[s][j]) ELSE sim[s][j]
    <3>1. \A s \in Sims : s < NSims + 1
      BY Constants DEF Sims
    <3>2. \A s \in Sims, j \in Instances :
             sim'[s][j] = IF j = i /\ s < NSims + 1 THEN TakeSnapshot(sim[s][j]) ELSE sim[s][j]
      BY <1>8, <1>10
    <3> QED
      BY <3>1, <3>2
  <2>2. \A u \in Users, j \in Instances :
           user'[u][j] = IF j = i THEN TakeSnapshot(user[u][j]) ELSE user[u][j]
    BY <1>10 DEF OnUsers
  <2>3. Sound'
    <3>1. user' \in [Users -> [Instances -> UserRecord]]
      BY <1>7, <1>10 DEF OnUsers, Sound
    <3> QED
      BY <1>9, <1>10, <3>1 DEF Sound
  <2>4. /\ thr'[i] \in Threads /\ thr' = [thr EXCEPT ![i] = thr'[i]]
        /\ thr'[i].pc = "run" /\ thr'[i].ok /\ thr'[i].ended
        /\ thr'[i].time = thr[i].time /\ thr'[i].sub = thr[i].sub /\ thr'[i].from = thr[i].from
    BY <1>1, <1>2, <1>10 DEF RunnerOK, Threads
  <2>5. HasSnaps(i, 2)'
    <3>1. \A s \in Sims : Depth(sim'[s][i]) = 2
      BY <1>6, <2>1
    <3>2. \A u \in Users : Depth(user'[u][i]) = 2
      BY <1>7, <2>2
    <3> QED
      BY <3>1, <3>2 DEF HasSnaps
  <2>6. RunningInv(i)'
    <3>1. OnGrid(thr[i].time)'
      BY <1>2, <2>4 DEF OnGrid, RunningInv
    <3> QED
      BY <1>1, <1>2, <1>3, <1>5, <2>4, <2>5, <3>1 DEF RunningInv
  <2>7. AtLeastOne(i)'
    BY <2>5 DEF HasSnaps, AtLeastOne
  <2> QED
    BY <1>1, <2>1, <2>2, <2>3, <2>4, <2>6, <2>7, ThreadStep
<1>11. CASE /\ \E f \in Sims : sim' = OnSims(TakeSnapshot, SimsOf(i, f))
            /\ thr' = [thr EXCEPT ![i] = [Abort(i) EXCEPT !.ended = TRUE]]
            /\ UNCHANGED user
  <2>1. PICK f \in Sims : sim' = OnSims(TakeSnapshot, SimsOf(i, f))
    BY <1>11
  <2>2. \A s \in Sims, j \in Instances :
           sim'[s][j] = IF j = i /\ s < f THEN TakeSnapshot(sim[s][j]) ELSE sim[s][j]
    BY <1>8, <2>1
  <2>3. Sound'
    BY <1>9, <1>11, <2>1 DEF Sound
  <2>4. /\ thr'[i] \in Threads /\ thr' = [thr EXCEPT ![i] = thr'[i]]
        /\ thr'[i].pc = "done" /\ ~thr'[i].ok
    BY <1>1, <1>2, <1>11 DEF RunnerOK, Threads, Abort
  <2>5. AtLeastOne(i)'
    <3>1. \A s \in Sims : Depth(sim'[s][i]) >= 1
      BY <1>6, <2>2
    <3>2. \A u \in Users : Depth(user'[u][i]) >= 1
      BY <1>4, <1>11 DEF HasSnaps
    <3> QED
      BY <3>1, <3>2 DEF AtLeastOne
  <2> QED
    BY <1>1, <1>11, <2>2, <2>3, <2>4, <2>5, ThreadStep
<1> QED
  BY <1>10, <1>11 DEF TakeEndSnapshot

\* A time step of one instance.
LEMMA StepInvariant ==
    ASSUME IInv, NEW i \in Instances, StepInstance(i)
    PROVE  IInv'
<1> USE DEF IInv
<1>1. thr[i].pc = "run" /\ UNCHANGED runnerVars /\ ~SnapshotDue(i)
  BY DEF StepInstance, InWindow
<1>2. /\ start' = start /\ thr[i] \in Threads /\ thr[i].ok /\ RunningInv(i)
      /\ start \in Nat /\ start < EndTime /\ (EndedDue' <=> EndedDue)
  BY <1>1, ThreadFrame
<1>3. EndPeriod' = EndPeriod /\ EndAssign' = EndAssign /\ NbUpdates' = NbUpdates
  BY <1>2, SamePeriod
<1> DEFINE e == [at |-> thr[i].time, asg |-> asg[i], out |-> ~trajOff]
           Advance(r) == [r EXCEPT !.log = Append(@, e)]
<1>4. e \in [at : Int, asg : Assignments, out : BOOLEAN]
  BY <1>2 DEF Threads, RunnerOK
<1> HIDE DEF e
<1>5. \A r \in SimRecord : Advance(r) \in SimRecord /\ Advance(r).snaps = r.snaps
  BY <1>4, Advances
<1>6. \A r \in UserRecord : Advance(r) \in UserRecord /\ Advance(r).snaps = r.snaps
  BY <1>4, Advances
<1> HIDE DEF Advance
<1>7. \A s \in Sims, j \in Instances :
         /\ Advance(sim[s][j]) \in SimRecord /\ Advance(sim[s][j]).snaps = sim[s][j].snaps
  BY <1>5 DEF Sound
<1>8. \A u \in Users, j \in Instances :
         /\ Advance(user[u][j]) \in UserRecord /\ Advance(user[u][j]).snaps = user[u][j].snaps
  BY <1>6 DEF Sound
<1>9. /\ \E called \in SUBSET (Sims \X Instances) :
            sim' = [s \in Sims |-> [j \in Instances |->
                       IF <<s, j>> \in called THEN Advance(sim[s][j]) ELSE sim[s][j]]]
      /\ \E moved \in SUBSET Instances :
            user' = [u \in Users |-> [j \in Instances |->
                       IF j \in moved THEN Advance(user[u][j]) ELSE user[u][j]]]
      /\ \/ thr' = [thr EXCEPT ![i].time = @ + Dt]
         \/ thr' = [thr EXCEPT ![i] = [Abort(i) EXCEPT !.time = @ + Dt]]
  <2>1. /\ SimsOf(i, NSims + 1) \in SUBSET (Sims \X Instances)
        /\ \A f \in 0 .. NSims : SimsOf(i, f) \in SUBSET (Sims \X Instances)
        /\ \A f \in 0 .. NSims : (IF f = 0 THEN {} ELSE {i}) \in SUBSET Instances
        /\ {i} \in SUBSET Instances
    BY DEF SimsOf
  <2>2. CASE /\ sim' = OnSims(LAMBDA r : Advance(r), SimsOf(i, NSims + 1))
             /\ user' = OnUsers(LAMBDA r : Advance(r), {i})
             /\ thr' = [thr EXCEPT ![i].time = @ + Dt]
    BY <2>1, <2>2 DEF OnSims, OnUsers
  <2>3. CASE /\ \E f \in 0 .. NSims :
                   /\ sim' = OnSims(LAMBDA r : Advance(r), SimsOf(i, f))
                   /\ user' = OnUsers(LAMBDA r : Advance(r), IF f = 0 THEN {} ELSE {i})
             /\ thr' = [thr EXCEPT ![i] = [Abort(i) EXCEPT !.time = @ + Dt]]
    <3>1. PICK f \in 0 .. NSims :
             /\ sim' = OnSims(LAMBDA r : Advance(r), SimsOf(i, f))
             /\ user' = OnUsers(LAMBDA r : Advance(r), IF f = 0 THEN {} ELSE {i})
      BY <2>3
    <3> DEFINE called == SimsOf(i, f)
               moved == IF f = 0 THEN {} ELSE {i}
    <3>2. called \in SUBSET (Sims \X Instances) /\ moved \in SUBSET Instances
      BY <2>1
    <3>3. sim' = [s \in Sims |-> [j \in Instances |->
                    IF <<s, j>> \in called THEN Advance(sim[s][j]) ELSE sim[s][j]]]
      BY <3>1 DEF OnSims
    <3>4. user' = [u \in Users |-> [j \in Instances |->
                    IF j \in moved THEN Advance(user[u][j]) ELSE user[u][j]]]
      BY <3>1 DEF OnUsers
    <3> HIDE DEF called, moved
    <3> QED
      BY <2>3, <3>2, <3>3, <3>4
  <2> QED
    BY <2>2, <2>3 DEF StepInstance, Advance, e
<1>10. PICK called \in SUBSET (Sims \X Instances) :
         sim' = [s \in Sims |-> [j \in Instances |->
                    IF <<s, j>> \in called THEN Advance(sim[s][j]) ELSE sim[s][j]]]
  BY <1>9
<1>11. PICK moved \in SUBSET Instances :
         user' = [u \in Users |-> [j \in Instances |->
                    IF j \in moved THEN Advance(user[u][j]) ELSE user[u][j]]]
  BY <1>9
<1>12. /\ \A s \in Sims, j \in Instances : sim'[s][j].snaps = sim[s][j].snaps
       /\ \A u \in Users, j \in Instances : user'[u][j].snaps = user[u][j].snaps
  BY <1>7, <1>8, <1>10, <1>11
<1>13. Sound'
  BY <1>7, <1>8, <1>10, <1>11 DEF Sound
<1>14. \A n \in Nat : HasSnaps(i, n) => HasSnaps(i, n)'
  BY <1>12 DEF HasSnaps, Depth
<1>15. HasSnaps(i, IF thr[i].ended THEN 2 ELSE 1)
  BY <1>2 DEF RunningInv
<1>16. AtLeastOne(i)'
  BY <1>14, <1>15 DEF HasSnaps, AtLeastOne
<1>17. CASE thr' = [thr EXCEPT ![i].time = @ + Dt]
  <2>1. /\ thr'[i] \in Threads /\ thr' = [thr EXCEPT ![i] = thr'[i]]
        /\ thr'[i].pc = "run" /\ thr'[i].ok /\ (thr'[i].ended <=> thr[i].ended)
        /\ thr'[i].time = thr[i].time + Dt
        /\ thr'[i].sub = thr[i].sub /\ thr'[i].from = thr[i].from
    BY <1>1, <1>2, <1>17, Constants DEF RunnerOK, Threads
  <2>2. RunningInv(i)'
    <3>1. OnGrid(thr[i].time)'
      <4>1. OnGrid(thr[i].time + Dt)
        BY <1>2, Grid DEF RunningInv, Threads
      <4> QED
        BY <1>2, <2>1, <4>1 DEF OnGrid
    <3>2. HasSnaps(i, IF thr[i].ended THEN 2 ELSE 1)'
      BY <1>14, <1>15, <2>1
    <3>3. ~thr[i].ended => thr[i].time + Dt <= EndAssign
      <4>1. EndAssign \in Nat /\ thr[i].time \in Nat
        BY <1>2, UpdatesCover DEF Threads
      <4> QED
        BY <1>1, <4>1, Constants DEF SnapshotDue
    <3>4. start <= thr[i].from /\ thr[i].from <= thr[i].time + Dt
          /\ MinOf(start + thr[i].sub * TTUpdate, EndPeriod) <= thr[i].from
          /\ thr[i].sub < NbUpdates /\ (thr[i].ended => EndedDue)
      BY <1>1, <1>2, Constants DEF RunningInv, Threads
    <3> QED
      BY <1>2, <1>3, <2>1, <3>1, <3>2, <3>3, <3>4 DEF RunningInv
  <2> QED
    BY <1>1, <1>12, <1>13, <1>16, <2>1, <2>2, ThreadStep
<1>18. CASE thr' = [thr EXCEPT ![i] = [Abort(i) EXCEPT !.time = @ + Dt]]
  <2>1. /\ thr'[i] \in Threads /\ thr' = [thr EXCEPT ![i] = thr'[i]]
        /\ thr'[i].pc = "done" /\ ~thr'[i].ok
    <3>1. Abort(i) \in Threads /\ Abort(i).pc = "done" /\ ~Abort(i).ok
      BY <1>2 DEF Threads, Abort
    <3> DEFINE a == [Abort(i) EXCEPT !.time = @ + Dt]
    <3>2. a \in Threads /\ a.pc = "done" /\ ~a.ok
      BY <3>1, Constants DEF Threads
    <3>3. thr' = [thr EXCEPT ![i] = a]
      BY <1>18
    <3> HIDE DEF a
    <3> QED
      BY <3>2, <3>3 DEF RunnerOK
  <2> QED
    BY <1>1, <1>12, <1>13, <1>16, <2>1, ThreadStep
<1> QED
  BY <1>9, <1>17, <1>18

\* The end of an update period; the last one is not before the end of the
\* prediction.
LEMMA CostsInvariant ==
    ASSUME IInv, NEW i \in Instances, ComputeCosts(i)
    PROVE  IInv'
<1> USE DEF IInv
<1>1. /\ thr[i].pc = "run" /\ UNCHANGED runnerVars /\ sim' = sim /\ user' = user
      /\ thr[i].time >= WindowEnd(i)
  BY DEF ComputeCosts
<1>2. /\ start' = start /\ thr[i] \in Threads /\ thr[i].ok /\ RunningInv(i)
      /\ start \in Nat /\ start < EndTime /\ (EndedDue' <=> EndedDue)
  BY <1>1, ThreadFrame
<1>3. EndPeriod' = EndPeriod /\ EndAssign' = EndAssign /\ NbUpdates' = NbUpdates
  BY <1>2, SamePeriod
<1>4. Sound'
  BY <1>1 DEF Sound
<1>5. HasSnaps(i, IF thr[i].ended THEN 2 ELSE 1)
  BY <1>2 DEF RunningInv
<1>6. AtLeastOne(i)'
  BY <1>1, <1>5 DEF HasSnaps, AtLeastOne
<1>7. CASE thr' = [thr EXCEPT ![i] = NextUpdate(i)]
  <2>1. /\ thr'[i] \in Threads /\ thr' = [thr EXCEPT ![i] = thr'[i]]
        /\ thr'[i].pc = (IF thr[i].sub + 1 = NbUpdates THEN "done" ELSE "run")
        /\ thr'[i].ok /\ (thr'[i].ended <=> thr[i].ended)
        /\ thr'[i].time = thr[i].time
        /\ thr'[i].sub = thr[i].sub + 1 /\ thr'[i].from = thr[i].time
    <3> DEFINE p == IF thr[i].sub + 1 = NbUpdates THEN "done" ELSE "run"
    <3>1. p \in {"idle", "run", "done"} /\ thr[i].sub + 1 \in Nat /\ thr[i].time \in Nat
      BY <1>2 DEF Threads
    <3> HIDE DEF p
    <3>2. /\ NextUpdate(i) \in Threads /\ NextUpdate(i).pc = p
          /\ NextUpdate(i).ok = thr[i].ok /\ NextUpdate(i).ended = thr[i].ended
          /\ NextUpdate(i).time = thr[i].time
          /\ NextUpdate(i).sub = thr[i].sub + 1 /\ NextUpdate(i).from = thr[i].time
      BY <1>2, <3>1 DEF Threads, NextUpdate, p
    <3>3. thr'[i] = NextUpdate(i) /\ thr' = [thr EXCEPT ![i] = thr'[i]]
      BY <1>7 DEF RunnerOK
    <3> QED
      BY <1>2, <3>2, <3>3 DEF p
  <2>2. /\ EndPeriod \in Nat /\ NbUpdates \in Nat \ {0}
        /\ start + NbUpdates * TTUpdate >= EndPeriod
    BY <1>2, UpdatesCover
  <2>3. /\ thr[i].sub \in Nat /\ thr[i].time \in Nat /\ thr[i].from \in Nat
        /\ start <= thr[i].from /\ thr[i].from <= thr[i].time
        /\ MinOf(start + thr[i].sub * TTUpdate, EndPeriod) <= thr[i].from
        /\ thr[i].sub < NbUpdates /\ OnGrid(thr[i].time)
        /\ (~thr[i].ended => thr[i].time <= EndAssign) /\ (thr[i].ended => EndedDue)
    BY <1>1, <1>2 DEF RunningInv, Threads
  <2>4. MinOf(start + (thr[i].sub + 1) * TTUpdate, EndPeriod) <= thr[i].time
    <3>1. /\ (thr[i].sub + 1) * TTUpdate = thr[i].sub * TTUpdate + TTUpdate
          /\ thr[i].sub * TTUpdate \in Nat
      BY <2>3, Constants
    <3> DEFINE m == thr[i].sub * TTUpdate
    <3> HIDE DEF m
    <3>2. MinOf(start + (m + TTUpdate), EndPeriod) <= thr[i].time
      BY <1>1, <1>2, <2>2, <2>3, <3>1, Constants DEF WindowEnd, MinOf, m
    <3> QED
      BY <3>1, <3>2 DEF m
  <2>5. thr[i].sub + 1 = NbUpdates => thr[i].time >= EndPeriod
    BY <1>2, <2>2, <2>3, <2>4, Constants DEF MinOf
  <2>6. RunningInv(i)'
    <3>1. OnGrid(thr[i].time)'
      BY <1>2, <2>1, <2>3 DEF OnGrid
    <3>2. HasSnaps(i, IF thr[i].ended THEN 2 ELSE 1)'
      BY <1>1, <1>5, <2>1 DEF HasSnaps
    <3>3. thr[i].sub + 1 # NbUpdates => thr[i].sub + 1 < NbUpdates
      BY <2>2, <2>3
    <3> QED
      BY <1>2, <1>3, <2>1, <2>3, <2>4, <2>5, <3>1, <3>2, <3>3 DEF RunningInv
  <2> QED
    BY <1>1, <1>4, <1>6, <2>1, <2>6, ThreadStep
<1>8. CASE thr' = [thr EXCEPT ![i] = Abort(i)]
  <2>1. Abort(i) \in Threads /\ Abort(i).pc = "done" /\ ~Abort(i).ok
    BY <1>2 DEF Threads, Abort
  <2>2. /\ thr'[i] \in Threads /\ thr' = [thr EXCEPT ![i] = thr'[i]]
        /\ thr'[i].pc = "done" /\ ~thr'[i].ok
    BY <1>8, <2>1 DEF RunnerOK
  <2> QED
    BY <1>1, <1>4, <1>6, <2>2, ThreadStep
<1> QED
  BY <1>7, <1>8 DEF ComputeCosts

\* Every step, and none, keeps the invariant.
LEMMA NextInvariant ==
    ASSUME Reliable, IInv, [Next]_vars
    PROVE  IInv'
<1>1. CASE UNCHANGED vars
  BY <1>1 DEF vars, IInv, RunnerOK, Sound, PeriodInv, BatchInv, ThreadInv, KeptInv,
              RunningInv, HasSnaps, AtLeastOne, AtMostOne, CommitDue, EndedDue, OnGrid,
              EndPeriod, EndAssign, NbUpdates, NbBatches, BatchSize, LastBatchSize,
              ParallelSize
<1>2. CASE Runner
  BY <1>2, StartInvariant, FailInvariant, BatchInvariant, JoinInvariant, RollbackInvariant,
     CommitInvariant DEF Runner
<1>3. CASE \E i \in Instances : Thread(i)
  BY <1>3, SnapshotInvariant, StepInvariant, CostsInvariant DEF Thread
<1> QED
  BY <1>1, <1>2, <1>3 DEF Next, Finished

--------------------------------------------------------------------------------
(* The theorems *)

\* The invariant holds of every run in which no rollback between two batches fails.
THEOREM Invariance ==
    ASSUME Reliable
    PROVE  Spec => []IInv
<1>1. Init => IInv
  BY InitInvariant
<1>2. IInv /\ [Next]_vars => IInv'
  BY NextInvariant
<1> QED
  BY <1>1, <1>2, PTL DEF Spec

\* The variables keep their types (state of SimulationRunner and its threads).
THEOREM TypesAreCorrect ==
    ASSUME Reliable
    PROVE  Spec => []TypeOK
<1>1. IInv => TypeOK
  BY SoundTypes DEF IInv
<1> QED
  BY <1>1, Invariance, PTL

\* The snapshots of all participants are those the next call will look for.
THEOREM SnapshotsAreDisciplined ==
    ASSUME Reliable
    PROVE  Spec => []SnapshotDiscipline
<1>1. IInv => SnapshotDiscipline
  <2> SUFFICES ASSUME IInv PROVE SnapshotDiscipline
    OBVIOUS
  <2>1. \A s \in Sims, i \in Instances :
           /\ sim[s][i].flag <=> sim[s][i].snaps # <<>>
           /\ Len(sim[s][i].snaps) <= 2
    BY Zenon DEF IInv, Sound, SimRecord, Depth
  <2>2. \A u \in Users, i \in Instances : Len(user[u][i].snaps) <= 2
    BY DEF IInv, Sound, UserRecord, Depth
  <2>3. CommitDue => \A i \in Instances :
          /\ \A s \in Sims : Len(sim[s][i].snaps) = IF ended THEN 2 ELSE 1
          /\ \A u \in Users : Len(user[u][i].snaps) = IF ended THEN 2 ELSE 1
    BY DEF IInv, KeptInv, HasSnaps, Depth
  <2> QED
    BY <2>1, <2>2, <2>3 DEF SnapshotDiscipline
<1> QED
  BY <1>1, Invariance, PTL

\* Each thread that succeeds has simulated the whole prediction period.
THEOREM HorizonIsCovered ==
    ASSUME Reliable
    PROVE  Spec => []WholeHorizonSimulated
<1>1. IInv => WholeHorizonSimulated
  <2> SUFFICES ASSUME IInv, NEW i \in Instances, thr[i].pc = "done", thr[i].ok
               PROVE  thr[i].time >= EndPeriod /\ thr[i].from = thr[i].time
    BY DEF WholeHorizonSimulated
  <2>1. RunningInv(i)
    BY DEF IInv, ThreadInv
  <2> QED
    BY <2>1 DEF RunningInv
<1> QED
  BY <1>1, Invariance, PTL

--------------------------------------------------------------------------------
(* One timeline: all the participants agree on the state the period started from, and *)
(* the time they are stepped at is their own. *)

\* The assignment period is a whole number of time steps and, as the schema of the
\* configuration says, not longer than the prediction period.
Aligned == AssignLen % Dt = 0 /\ AssignLen <= PredLen

\* The records of instance i: those of its simulators, user engine and path writer.
Parts(i) == {sim[s][i] : s \in Sims} \cup {user[u][i] : u \in Users}

\* The histories a record holds.
Memory(r) == {r.log} \cup {r.snaps[k] : k \in DOMAIN r.snaps}

\* What a commit makes of it: the state at the end of the assignment period if the
\* thread went beyond, the present one otherwise.
Committed(r) == IF Depth(r) = 2 THEN r.snaps[2] ELSE r.log

\* The steps that thread i does, from the start of the period.
Plan(i) == [k \in Nat |-> [at |-> start + k * Dt, asg |-> asg[i], out |-> ~trajOff]]

\* History l is history b followed by the first n steps of plan f.
Extended(l, b, n, f) ==
    /\ Len(l) = Len(b) + n
    /\ \A k \in 1 .. Len(b) : l[k] = b[k]
    /\ \A k \in 1 .. n : l[Len(b) + k] = f[k - 1]

\* The whole steps of the assignment period.
Whole == (EndAssign - start) \div Dt

\* Those that a commit keeps.
CommitSteps == IF EndedDue THEN Whole ELSE CeilDiv(EndPeriod - start, Dt)

\* Instance i stands where the period started.
AtBase(i) == \A r \in Parts(i) : r.log = Timeline

\* A commit would find the assignment period, and no more, in instance i.
Ready(i) == \A r \in Parts(i) : Extended(Committed(r), Timeline, CommitSteps, Plan(i))

\* All the records agree on the start of the period.
OneBase == \A i \in Instances : \A r \in Parts(i) : Base(r) = Timeline

\* The instances that do not simulate stand there.
RestInv ==
    \A i \in Instances :
        /\ pc = "iteration" => AtBase(i)
        /\ pc = "batch" /\ (batch = 0 \/ ~(i < nb)) => AtBase(i)
        /\ pc = "join" /\ ~(i < BatchSize) => AtBase(i)
        /\ pc = "decide" /\ ~(i < nb) => AtBase(i)

\* The trajectories are output in the iteration to be committed only, and it runs
\* under one assignment.
ChoiceInv ==
    /\ pc \in Busy => (trajOff <=> OutputsOff)
    /\ pc \in {"join", "decide"} /\ (redoing \/ ~RedoLastIteration) =>
          \A i \in Instances : asg[i] = asg[0]

\* How far the thread of instance i is.
Walk(i) ==
    /\ thr[i].time < EndPeriod + Dt
    /\ \E n \in Nat : /\ thr[i].time = start + n * Dt
                      /\ \A r \in Parts(i) : Extended(r.log, Timeline, n, Plan(i))
    /\ thr[i].ended => \A r \in Parts(i) : Extended(r.snaps[2], Timeline, Whole, Plan(i))

WalkInv == \A i \in Instances : thr[i].pc # "idle" /\ thr[i].ok => Walk(i)

\* The instances joined are ready for a commit, and all of them when it is due.
DoneInv ==
    \A i \in Instances : (pc = "join" /\ ok /\ i < joined) \/ CommitDue => Ready(i)

\* The inductive invariant, with that of RollingHorizonProofs.
TInv ==
    /\ pc # "failed" => OneBase
    /\ RestInv /\ ChoiceInv /\ WalkInv /\ DoneInv

\* Each step of a history is at its time.
Clocked(l) == \A k \in DOMAIN l : l[k].at = (k - 1) * Dt

\* The histories are, those kept in snapshots included, and the period starts where
\* the committed one ends.
CInv ==
    /\ \A i \in Instances : \A r \in Parts(i) : \A l \in Memory(r) : Clocked(l)
    /\ pc = "iteration" => Len(Timeline) * Dt = clock
    /\ pc \in Busy => Len(Timeline) * Dt = start
--------------------------------------------------------------------------------
(* Histories that follow a plan *)

\* No step done yet.
LEMMA NoStep ==
    ASSUME NEW b \in Histories, NEW f
    PROVE  Extended(b, b, 0, f)
<1>1. Len(b) \in Nat
  BY DEF Histories
<1> QED
  BY <1>1 DEF Extended

\* One more step of the plan.
LEMMA OneMoreStep ==
    ASSUME NEW l \in Histories, NEW b \in Histories, NEW n \in Nat, NEW f,
           Extended(l, b, n, f), NEW q, q = Append(l, f[n])
    PROVE  Extended(q, b, n + 1, f)
<1> DEFINE m == Len(b)
<1>1. m \in Nat /\ Len(l) = m + n
  BY DEF Histories, Extended
<1>2. /\ Len(q) = Len(l) + 1 /\ q[Len(l) + 1] = f[n]
      /\ \A k \in 1 .. Len(l) : q[k] = l[k]
  BY DEF Histories
<1>3. /\ \A k \in 1 .. m : l[k] = b[k]
      /\ \A k \in 1 .. n : l[m + k] = f[k - 1]
  BY DEF Extended
<1> HIDE DEF m
<1>4. Len(q) = m + (n + 1)
  BY <1>1, <1>2
<1>5. \A k \in 1 .. m : q[k] = b[k]
  BY <1>1, <1>2, <1>3
<1>6. ASSUME NEW k \in 1 .. n + 1 PROVE q[m + k] = f[k - 1]
  <2>1. CASE k \in 1 .. n
    <3>1. m + k \in 1 .. Len(l)
      BY <1>1, <2>1
    <3> QED
      BY <1>2, <1>3, <2>1, <3>1
  <2>2. CASE k = n + 1
    <3>1. m + k = Len(l) + 1 /\ k - 1 = n
      BY <1>1, <2>2
    <3> QED
      BY <1>2, <3>1
  <2>3. k \in 1 .. n \/ k = n + 1
    BY <1>6
  <2> QED
    BY <2>1, <2>2, <2>3, Zenon
<1> QED
  BY <1>4, <1>5, <1>6 DEF Extended, m

\* The histories that follow a plan equally far are the same.
LEMMA SameHistory ==
    ASSUME NEW l \in Histories, NEW m \in Histories, NEW b \in Histories, NEW n \in Nat, NEW f,
           Extended(l, b, n, f), Extended(m, b, n, f)
    PROVE  l = m
<1>1. /\ Len(b) \in Nat /\ Len(l) = Len(b) + n /\ Len(m) = Len(b) + n
  BY DEF Histories, Extended
<1>2. ASSUME NEW k \in 1 .. Len(l) PROVE l[k] = m[k]
  <2>1. CASE k \in 1 .. Len(b)
    BY <2>1 DEF Extended
  <2>2. CASE k \notin 1 .. Len(b)
    <3>1. PICK j \in 1 .. n : k = Len(b) + j
      <4>1. k - Len(b) \in 1 .. n /\ k = Len(b) + (k - Len(b))
        BY <1>1, <1>2, <2>2
      <4> QED
        BY <4>1
    <3> QED
      BY <3>1 DEF Extended
  <2> QED
    BY <2>1, <2>2
<1>3. l \in Seq([at : Int, asg : Assignments, out : BOOLEAN])
      /\ m \in Seq([at : Int, asg : Assignments, out : BOOLEAN])
  BY DEF Histories
<1> QED
  BY <1>1, <1>2, <1>3, SeqEqual

\* A step of a plan.
LEMMA PlanStep ==
    ASSUME NEW i \in Instances, NEW n \in Nat
    PROVE  /\ Plan(i)[n] = [at |-> start + n * Dt, asg |-> asg[i], out |-> ~trajOff]
           /\ Plan(i)[n].at = start + n * Dt
  BY DEF Plan

\* The plan of an instance depends on the period, its assignment and the outputs.
LEMMA SamePlan ==
    ASSUME NEW i \in Instances, start' = start, asg' = asg, trajOff' = trajOff
    PROVE  Plan(i)' = Plan(i)
  BY DEF Plan

\* The number of whole steps is the quotient, from either side.
LEMMA WholeSteps ==
    ASSUME NEW a \in Nat, NEW n \in Nat
    PROVE  /\ n * Dt <= a /\ a < n * Dt + Dt => a \div Dt = n
           /\ a <= n * Dt /\ n * Dt < a + Dt => CeilDiv(a, Dt) = n
<1>1. ASSUME NEW c \in Nat, n * Dt <= c, c < n * Dt + Dt PROVE c \div Dt = n
  <2> DEFINE q == c \div Dt
  <2>1. q \in Nat /\ c % Dt \in Nat /\ c % Dt < Dt /\ c = q * Dt + (c % Dt)
    BY DivisionBounds, Constants
  <2>2. q * Dt <= c /\ c < q * Dt + Dt /\ q * Dt \in Nat /\ n * Dt \in Nat
    BY <2>1, Constants
  <2>3. q * Dt + Dt = (q + 1) * Dt /\ n * Dt + Dt = (n + 1) * Dt
    BY <2>1, Constants
  <2>4. n * Dt < (q + 1) * Dt /\ q * Dt < (n + 1) * Dt
    <3> DEFINE x == n * Dt
               y == q * Dt
    <3>1. x \in Nat /\ y \in Nat /\ x <= c /\ c < x + Dt /\ y <= c /\ c < y + Dt
      BY <1>1, <2>2
    <3> HIDE DEF x, y, q
    <3>2. x < y + Dt /\ y < x + Dt
      BY <3>1, Constants
    <3> QED
      BY <2>3, <3>2 DEF x, y
  <2>5. n < q + 1 /\ q < n + 1
    BY <2>1, <2>4, Monotone, Constants
  <2> QED
    BY <2>1, <2>5
<1>2. n * Dt \in Nat /\ a + Dt - 1 \in Nat
  BY Constants
<1>3. ASSUME a <= n * Dt, n * Dt < a + Dt PROVE CeilDiv(a, Dt) = n
  <2> DEFINE c == a + Dt - 1
             m == n * Dt
  <2>1. m <= c /\ c < m + Dt /\ c \in Nat
    BY <1>2, <1>3, Constants
  <2>2. c \div Dt = n
    BY <1>1, <2>1
  <2> QED
    BY <2>2 DEF CeilDiv
<1> QED
  BY <1>1, <1>3
--------------------------------------------------------------------------------
(* What the calls do to the histories of one record *)

\* The fields that all the records have.
LEMMA RecordFields ==
    ASSUME NEW r, r \in SimRecord \/ r \in UserRecord
    PROVE  /\ r.log \in Histories /\ r.snaps \in Seq(Histories)
           /\ Depth(r) \in 0 .. 2 /\ DOMAIN r.snaps = 1 .. Depth(r)
           /\ \A k \in 1 .. Depth(r) : r.snaps[k] \in Histories
           /\ r.snaps = <<>> <=> Depth(r) = 0
           /\ Base(r) = IF Depth(r) = 0 THEN r.log ELSE r.snaps[1]
           /\ Base(r) \in Histories /\ Committed(r) \in Histories
<1>1. r.log \in Histories /\ r.snaps \in Seq(Histories) /\ Depth(r) \in 0 .. 2
  BY SimFields, UserFields
<1>2. DOMAIN r.snaps = 1 .. Depth(r) /\ (r.snaps = <<>> <=> Depth(r) = 0)
  BY <1>1, Emptiness DEF Depth
<1>3. \A k \in 1 .. Depth(r) : r.snaps[k] \in Histories
  BY <1>1, <1>2, Element DEF Depth
<1>4. Base(r) = IF Depth(r) = 0 THEN r.log ELSE r.snaps[1]
  BY <1>2 DEF Base
<1>5. Base(r) \in Histories
  BY <1>1, <1>3, <1>4
<1>6. Committed(r) \in Histories
  BY <1>1, <1>3 DEF Committed
<1> QED
  BY <1>1, <1>2, <1>3, <1>4, <1>5, <1>6

\* A record keeps where its period started when it takes a snapshot.
LEMMA Taking ==
    ASSUME NEW r, r \in SimRecord \/ r \in UserRecord,
           NEW q, q.log = r.log, q.snaps = Append(r.snaps, r.log)
    PROVE  /\ Base(q) = Base(r) /\ Memory(q) \subseteq Memory(r)
           /\ Depth(r) = 1 => q.snaps[2] = r.log
<1> DEFINE n == Depth(r)
<1>1. /\ r.log \in Histories /\ r.snaps \in Seq(Histories)
      /\ n \in 0 .. 2 /\ DOMAIN r.snaps = 1 .. n /\ Len(r.snaps) = n
      /\ Base(r) = IF n = 0 THEN r.log ELSE r.snaps[1]
  BY RecordFields DEF Depth
<1>2. /\ DOMAIN q.snaps = 1 .. n + 1 /\ q.snaps[n + 1] = r.log
      /\ \A k \in 1 .. n : q.snaps[k] = r.snaps[k]
      /\ q.snaps # <<>>
  <2> DEFINE t == r.snaps
             u == q.snaps
  <2>1. t \in Seq(Histories) /\ r.log \in Histories /\ u = Append(t, r.log) /\ Len(t) = n
    BY <1>1
  <2> HIDE DEF t, u, n
  <2>2. /\ Len(u) = Len(t) + 1 /\ u[Len(t) + 1] = r.log /\ DOMAIN u = 1 .. Len(t) + 1
        /\ \A k \in 1 .. Len(t) : u[k] = t[k]
    BY <2>1
  <2>3. u # <<>>
    BY <2>1
  <2> QED
    BY <2>1, <2>2, <2>3 DEF t, u
<1> HIDE DEF n
<1>3. Base(q) = q.snaps[1]
  BY <1>2 DEF Base
<1>4. Base(q) = Base(r)
  BY <1>1, <1>2, <1>3
<1>5. \A k \in 1 .. n + 1 : k \in 1 .. n \/ k = n + 1
  BY <1>1
<1>6. Memory(q) \subseteq Memory(r)
  BY <1>1, <1>2, <1>5 DEF Memory
<1> QED
  BY <1>1, <1>2, <1>4, <1>6 DEF n

\* A record that restores a snapshot stands there.
LEMMA Restoring ==
    ASSUME NEW r, r \in SimRecord \/ r \in UserRecord, NEW k \in 1 .. Depth(r),
           NEW q, q.log = r.snaps[k], q.snaps = <<r.snaps[k]>>
    PROVE  Base(q) = r.snaps[k] /\ Memory(q) \subseteq Memory(r)
<1> DEFINE h == r.snaps[k]
<1>1. k \in DOMAIN r.snaps
  BY RecordFields
<1>2. q.snaps # <<>> /\ q.snaps[1] = h /\ DOMAIN q.snaps = {1}
  OBVIOUS
<1>3. Base(q) = h
  BY <1>2 DEF Base
<1>4. Memory(q) \subseteq {h}
  BY <1>2 DEF Memory
<1> QED
  BY <1>1, <1>3, <1>4 DEF Memory

\* A record without snapshot stands where it is.
LEMMA Dropping ==
    ASSUME NEW q, q.snaps = <<>>
    PROVE  Base(q) = q.log /\ Memory(q) = {q.log}
<1>1. DOMAIN q.snaps = {}
  OBVIOUS
<1> QED
  BY <1>1 DEF Base, Memory

\* AssignmentPeriodStart.
LEMMA Starting ==
    /\ \A r \in SimRecord : LET q == SimStart(r) IN
          q.log = r.log /\ Base(q) = Base(r) /\ Memory(q) \subseteq Memory(r)
    /\ \A r \in UserRecord : LET q == UserStart(r) IN
          q.log = r.log /\ Base(q) = Base(r) /\ Memory(q) \subseteq Memory(r)
<1>1. ASSUME NEW r \in SimRecord, NEW q, q = SimStart(r)
      PROVE  q.log = r.log /\ Base(q) = Base(r) /\ Memory(q) \subseteq Memory(r)
  <2>1. CASE r.flag
    BY <1>1, <2>1 DEF SimStart
  <2>2. CASE ~r.flag
    <3>1. q.log = r.log /\ q.snaps = Append(r.snaps, r.log)
      BY <1>1, <2>2 DEF SimStart, TakeSnapshot, SimRecord
    <3> QED
      BY <3>1, Taking
  <2> QED
    BY <2>1, <2>2
<1>2. ASSUME NEW r \in UserRecord, NEW q, q = UserStart(r)
      PROVE  q.log = r.log /\ Base(q) = Base(r) /\ Memory(q) \subseteq Memory(r)
  <2>1. CASE r.snaps # <<>>
    BY <1>2, <2>1 DEF UserStart
  <2>2. CASE r.snaps = <<>>
    <3>1. q.log = r.log /\ q.snaps = Append(r.snaps, r.log)
      BY <1>2, <2>2 DEF UserStart, TakeSnapshot, UserRecord
    <3> QED
      BY <3>1, Taking
  <2> QED
    BY <2>1, <2>2
<1> QED
  BY <1>1, <1>2

\* AssignmentPeriodRollback of a record that was started.
LEMMA GoingBack ==
    ASSUME NEW r, NEW q,
           \/ r \in SimRecord /\ q = SimRollback(r)
           \/ r \in UserRecord /\ q = UserRollback(r),
           Depth(r) >= 1
    PROVE  q.log = Base(r) /\ Base(q) = Base(r) /\ Memory(q) \subseteq Memory(r)
<1>1. q.log = r.snaps[1] /\ q.snaps = <<r.snaps[1]>>
  BY DEF SimRollback, UserRollback, RestoreTo, SimRecord, UserRecord
<1>2. 1 \in 1 .. Depth(r) /\ Base(r) = r.snaps[1]
  BY RecordFields
<1> QED
  BY <1>1, <1>2, Restoring

\* AssignmentPeriodCommit of a record with the snapshots it expects.
LEMMA Committing ==
    ASSUME NEW r, NEW q,
           \/ r \in SimRecord /\ q = SimCommit(r) /\ Depth(r) = IF ended THEN 2 ELSE 1
           \/ r \in UserRecord /\ q = UserCommit(r)
    PROVE  q.log = Committed(r) /\ Base(q) = Committed(r) /\ Memory(q) \subseteq Memory(r)
<1>1. CASE r \in SimRecord /\ q = SimCommit(r) /\ ended /\ Depth(r) = 2
  <2>1. q.log = r.snaps[2] /\ q.snaps = <<r.snaps[2]>>
    BY <1>1 DEF SimCommit, RestoreTo, SimRecord
  <2>2. 2 \in 1 .. Depth(r) /\ Committed(r) = r.snaps[2]
    BY <1>1 DEF Committed
  <2> QED
    BY <1>1, <2>1, <2>2, Restoring
<1>2. CASE r \in SimRecord /\ q = SimCommit(r) /\ ~ended /\ Depth(r) = 1
  <2>1. q.log = r.log /\ q.snaps = <<>>
    BY <1>2 DEF SimCommit, SimRecord
  <2>2. Committed(r) = r.log
    BY <1>2 DEF Committed
  <2> QED
    BY <2>1, <2>2, Dropping DEF Memory
<1>3. CASE r \in UserRecord /\ q = UserCommit(r)
  <2>1. q.log = Committed(r) /\ q.snaps = <<>>
    BY <1>3 DEF UserCommit, UserRecord, Committed, Depth
  <2>2. Committed(r) \in Memory(r)
    <3>1. Depth(r) = 2 => 2 \in DOMAIN r.snaps
      BY <1>3, RecordFields
    <3> QED
      BY <3>1 DEF Committed, Memory
  <2> QED
    BY <2>1, <2>2, Dropping
<1> QED
  BY <1>1, <1>2, <1>3
--------------------------------------------------------------------------------
(* What the steps do to the records of an instance *)

\* The records of an instance, whatever their owner.
LEMMA PartRecords ==
    ASSUME Sound, NEW i \in Instances, NEW r \in Parts(i)
    PROVE  /\ r \in SimRecord \/ r \in UserRecord
           /\ \A n \in Nat : HasSnaps(i, n) => Depth(r) = n
           /\ AtLeastOne(i) => Depth(r) >= 1
  BY DEF Parts, Sound, HasSnaps, AtLeastOne

\* The first simulator's first instance tells the timeline.
LEMMA FirstPart ==
    /\ 0 \in Instances /\ 1 \in Sims
    /\ sim[1][0] \in Parts(0) /\ sim'[1][0] \in Parts(0)'
<1>1. 0 \in Instances /\ 1 \in Sims
  BY InstanceCount, Constants DEF Instances, Sims
<1> QED
  BY <1>1 DEF Parts

\* StartIteration, complete or not.
LEMMA StartEffect ==
    ASSUME IInv, StartIteration, NEW i \in Instances, NEW q \in Parts(i)'
    PROVE  \E r \in Parts(i) :
              q.log = r.log /\ Base(q) = Base(r) /\ Memory(q) \subseteq Memory(r)
<1>1. PICK called : sim' = OnSims(SimStart, called)
  BY Zenon DEF StartIteration, CallSims
<1>2. user' = OnUsers(UserStart, Local(nb'))
  BY DEF StartIteration
<1>3. CASE \E s \in Sims : q = sim'[s][i]
  <2>1. PICK s \in Sims : q = sim'[s][i]
    BY <1>3
  <2>2. q \in {sim[s][i], SimStart(sim[s][i])} /\ sim[s][i] \in SimRecord
    BY <1>1, <2>1 DEF OnSims, IInv, Sound
  <2>3. sim[s][i] \in Parts(i)
    BY DEF Parts
  <2> QED
    BY <2>2, <2>3, Starting
<1>4. CASE \E u \in Users : q = user'[u][i]
  <2>1. PICK u \in Users : q = user'[u][i]
    BY <1>4
  <2>2. q \in {user[u][i], UserStart(user[u][i])} /\ user[u][i] \in UserRecord
    BY <1>2, <2>1 DEF OnUsers, IInv, Sound
  <2>3. user[u][i] \in Parts(i)
    BY DEF Parts
  <2> QED
    BY <2>2, <2>3, Starting
<1> QED
  BY <1>3, <1>4 DEF Parts

\* A rollback, of the instances the iteration asked for; of some of them if it fails.
LEMMA RollbackEffect ==
    ASSUME Sound, nb \in Nat,
           \A j \in Instances : IF j < nb THEN AtLeastOne(j) ELSE AtMostOne(j),
           NEW res \in BOOLEAN, CallSims("rollback", SimRollback, nb, res),
           user' = OnUsers(UserRollback, Local(nb)),
           NEW i \in Instances, NEW q \in Parts(i)'
    PROVE  \E r \in Parts(i) :
              /\ Base(q) = Base(r) /\ Memory(q) \subseteq Memory(r)
              /\ res => q.log = IF i < nb THEN Base(r) ELSE r.log
<1>1. PICK C :
         /\ sim' = OnSims(SimRollback, C)
         /\ \A s \in Sims, j \in Instances :
               /\ sim'[s][j] = IF <<s, j>> \in C THEN SimRollback(sim[s][j]) ELSE sim[s][j]
               /\ <<s, j>> \in C => j < nb
               /\ res /\ j < nb => <<s, j>> \in C
  BY RollbackReach
<1>2. CASE \E s \in Sims : q = sim'[s][i]
  <2>1. PICK s \in Sims : q = sim'[s][i]
    BY <1>2
  <2>2. /\ q = IF <<s, i>> \in C THEN SimRollback(sim[s][i]) ELSE sim[s][i]
        /\ <<s, i>> \in C => i < nb
        /\ res /\ i < nb => <<s, i>> \in C
    BY <1>1, <2>1
  <2>3. sim[s][i] \in SimRecord /\ sim[s][i] \in Parts(i)
    BY DEF Sound, Parts
  <2>4. i < nb => Depth(sim[s][i]) >= 1
    BY DEF AtLeastOne
  <2>5. CASE <<s, i>> \in C
    BY <2>2, <2>3, <2>4, <2>5, GoingBack
  <2> QED
    BY <2>2, <2>3, <2>5
<1>3. CASE \E u \in Users : q = user'[u][i]
  <2>1. PICK u \in Users : q = user'[u][i]
    BY <1>3
  <2>2. /\ q = IF i < nb THEN UserRollback(user[u][i]) ELSE user[u][i]
        /\ user[u][i] \in UserRecord /\ user[u][i] \in Parts(i)
    BY <2>1 DEF OnUsers, Local, Sound, Parts
  <2>3. i < nb => Depth(user[u][i]) >= 1
    BY DEF AtLeastOne
  <2>4. CASE i < nb
    BY <2>2, <2>3, <2>4, GoingBack
  <2> QED
    BY <2>2, <2>4
<1> QED
  BY <1>2, <1>3 DEF Parts

\* TakeEndSnapshot, complete unless the thread fails.
LEMMA TakeEffect ==
    ASSUME IInv, NEW i \in Instances, TakeEndSnapshot(i), NEW j \in Instances,
           NEW q \in Parts(j)'
    PROVE  \E r \in Parts(j) :
              /\ q.log = r.log /\ Base(q) = Base(r) /\ Memory(q) \subseteq Memory(r)
              /\ j # i => q = r
              /\ j = i /\ thr'[i].ok => q.snaps[2] = r.log
<1>1. /\ thr[i].pc = "run" /\ ~thr[i].ended /\ UNCHANGED runnerVars
  BY DEF TakeEndSnapshot, InWindow, SnapshotDue
<1>2. HasSnaps(i, 1) /\ thr[i] \in Threads /\ Sound
  BY <1>1, ThreadFrame DEF RunningInv, IInv
<1>3. \E n \in Nat, moved \in SUBSET {i} :
         /\ sim' = OnSims(TakeSnapshot, SimsOf(i, n))
         /\ user' = OnUsers(TakeSnapshot, moved)
         /\ thr'[i].ok => n = NSims + 1 /\ moved = {i}
  <2>1. CASE /\ sim' = OnSims(TakeSnapshot, SimsOf(i, NSims + 1))
             /\ user' = OnUsers(TakeSnapshot, {i})
    <3>1. NSims + 1 \in Nat
      BY Constants
    <3> QED
      BY <2>1, <3>1
  <2>2. CASE /\ \E f \in Sims : sim' = OnSims(TakeSnapshot, SimsOf(i, f))
             /\ thr' = [thr EXCEPT ![i] = [Abort(i) EXCEPT !.ended = TRUE]]
             /\ user' = user
    <3>1. PICK f \in Sims : sim' = OnSims(TakeSnapshot, SimsOf(i, f))
      BY <2>2
    <3>2. ~thr'[i].ok /\ f \in Nat
      BY <1>2, <2>2 DEF Abort, Threads, IInv, RunnerOK, Sims
    <3>3. user' = OnUsers(TakeSnapshot, {})
      BY <1>2, <2>2 DEF OnUsers, Sound
    <3> QED
      BY <3>1, <3>2, <3>3
  <2> QED
    BY <2>1, <2>2, Zenon DEF TakeEndSnapshot
<1>4. ASSUME NEW r \in Parts(j), NEW p, p = TakeSnapshot(r), j = i
      PROVE  /\ p.log = r.log /\ Base(p) = Base(r) /\ Memory(p) \subseteq Memory(r)
             /\ p.snaps[2] = r.log
  <2>1. (r \in SimRecord \/ r \in UserRecord) /\ Depth(r) = 1
    BY <1>2, <1>4, PartRecords
  <2>2. p.log = r.log /\ p.snaps = Append(r.snaps, r.log)
    BY <1>4, <2>1 DEF TakeSnapshot, SimRecord, UserRecord
  <2> QED
    BY <2>1, <2>2, Taking
<1>5. ASSUME NEW s \in Sims, q = sim'[s][j]
      PROVE  /\ sim[s][j] \in Parts(j)
             /\ q = sim[s][j] \/ (j = i /\ q = TakeSnapshot(sim[s][j]))
             /\ j = i /\ thr'[i].ok => q = TakeSnapshot(sim[s][j])
  <2>1. s < NSims + 1
    BY Constants DEF Sims
  <2>2. PICK n \in Nat : /\ sim' = OnSims(TakeSnapshot, SimsOf(i, n))
                         /\ thr'[i].ok => n = NSims + 1
    BY <1>3
  <2>3. q = IF j = i /\ s < n THEN TakeSnapshot(sim[s][j]) ELSE sim[s][j]
    BY <1>5, <2>2 DEF OnSims, SimsOf
  <2>4. sim[s][j] \in Parts(j)
    BY DEF Parts
  <2> QED
    BY <2>1, <2>2, <2>3, <2>4
<1>6. ASSUME NEW u \in Users, q = user'[u][j]
      PROVE  /\ user[u][j] \in Parts(j)
             /\ q = user[u][j] \/ (j = i /\ q = TakeSnapshot(user[u][j]))
             /\ j = i /\ thr'[i].ok => q = TakeSnapshot(user[u][j])
  <2>1. PICK moved \in SUBSET {i} : /\ user' = OnUsers(TakeSnapshot, moved)
                                    /\ thr'[i].ok => moved = {i}
    BY <1>3
  <2>2. q = IF j \in moved THEN TakeSnapshot(user[u][j]) ELSE user[u][j]
    BY <1>6, <2>1 DEF OnUsers
  <2>3. user[u][j] \in Parts(j)
    BY DEF Parts
  <2> QED
    BY <2>1, <2>2, <2>3
<1>7. PICK r \in Parts(j) : /\ q = r \/ (j = i /\ q = TakeSnapshot(r))
                            /\ j = i /\ thr'[i].ok => q = TakeSnapshot(r)
  BY <1>5, <1>6 DEF Parts
<1> QED
  BY <1>4, <1>7

\* The step that the thread of instance i does, and a record after it.
StepRecord(i) == [at |-> thr[i].time, asg |-> asg[i], out |-> ~trajOff]
Stepped(r, i) == [r EXCEPT !.log = Append(@, StepRecord(i))]

\* A time step of instance i, in all its records unless the thread fails.
LEMMA StepEffect ==
    ASSUME IInv, NEW i \in Instances, StepInstance(i), NEW j \in Instances,
           NEW q \in Parts(j)'
    PROVE  \E r \in Parts(j) :
              /\ Base(q) = Base(r) /\ q.snaps = r.snaps
              /\ q = r \/ (j = i /\ q.log = Append(r.log, StepRecord(i)))
              /\ j = i /\ thr'[i].ok => q.log = Append(r.log, StepRecord(i))
<1>1. thr[i].pc = "run" /\ UNCHANGED runnerVars
  BY DEF StepInstance, InWindow
<1>2. thr[i] \in Threads /\ Sound
  BY <1>1, ThreadFrame DEF IInv
<1>3. \E n \in Nat, moved \in SUBSET {i} :
         /\ sim' = [s \in Sims |-> [k \in Instances |->
                       IF <<s, k>> \in SimsOf(i, n) THEN Stepped(sim[s][k], i) ELSE sim[s][k]]]
         /\ user' = [u \in Users |-> [k \in Instances |->
                       IF k \in moved THEN Stepped(user[u][k], i) ELSE user[u][k]]]
         /\ thr'[i].ok => n = NSims + 1 /\ moved = {i}
  <2>1. CASE /\ sim' = OnSims(LAMBDA r : Stepped(r, i), SimsOf(i, NSims + 1))
             /\ user' = OnUsers(LAMBDA r : Stepped(r, i), {i})
    <3>1. NSims + 1 \in Nat
      BY Constants
    <3> QED
      BY <2>1, <3>1 DEF OnSims, OnUsers
  <2>2. CASE /\ \E f \in 0 .. NSims :
                   /\ sim' = OnSims(LAMBDA r : Stepped(r, i), SimsOf(i, f))
                   /\ user' = OnUsers(LAMBDA r : Stepped(r, i), IF f = 0 THEN {} ELSE {i})
             /\ thr' = [thr EXCEPT ![i] = [Abort(i) EXCEPT !.time = @ + Dt]]
    <3>1. PICK f \in 0 .. NSims :
             /\ sim' = OnSims(LAMBDA r : Stepped(r, i), SimsOf(i, f))
             /\ user' = OnUsers(LAMBDA r : Stepped(r, i), IF f = 0 THEN {} ELSE {i})
      BY <2>2
    <3> DEFINE moved == IF f = 0 THEN {} ELSE {i}
    <3>2. f \in Nat /\ moved \in SUBSET {i}
      BY Constants
    <3>3. sim' = [s \in Sims |-> [k \in Instances |->
                    IF <<s, k>> \in SimsOf(i, f) THEN Stepped(sim[s][k], i) ELSE sim[s][k]]]
      BY <3>1 DEF OnSims
    <3>4. user' = [u \in Users |-> [k \in Instances |->
                    IF k \in moved THEN Stepped(user[u][k], i) ELSE user[u][k]]]
      BY <3>1 DEF OnUsers
    <3>5. ~thr'[i].ok
      <4> DEFINE t == thr[i].time + Dt
                 a == [Abort(i) EXCEPT !.time = t]
      <4>1. ~a.ok
        BY <1>2 DEF Abort, Threads
      <4> HIDE DEF t
      <4>2. a = [Abort(i) EXCEPT !.time = @ + Dt]
        BY <1>2 DEF Abort, Threads, t
      <4> HIDE DEF a
      <4> QED
        BY <2>2, <4>1, <4>2 DEF IInv, RunnerOK
    <3> HIDE DEF moved
    <3> QED
      BY <3>2, <3>3, <3>4, <3>5
  <2> QED
    BY <2>1, <2>2 DEF StepInstance, Stepped, StepRecord
<1>4. ASSUME NEW r \in Parts(j), NEW p, p = Stepped(r, i)
      PROVE  p.log = Append(r.log, StepRecord(i)) /\ p.snaps = r.snaps
  <2>1. r \in SimRecord \/ r \in UserRecord
    BY <1>2, PartRecords
  <2> QED
    BY <1>4, <2>1 DEF SimRecord, UserRecord, Stepped
<1>5. ASSUME NEW s \in Sims, q = sim'[s][j]
      PROVE  /\ sim[s][j] \in Parts(j)
             /\ q = sim[s][j] \/ (j = i /\ q = Stepped(sim[s][j], i))
             /\ j = i /\ thr'[i].ok => q = Stepped(sim[s][j], i)
  <2>1. s < NSims + 1
    BY Constants DEF Sims
  <2>2. PICK n \in Nat :
         /\ sim' = [r \in Sims |-> [k \in Instances |->
                       IF <<r, k>> \in SimsOf(i, n) THEN Stepped(sim[r][k], i) ELSE sim[r][k]]]
         /\ thr'[i].ok => n = NSims + 1
    BY <1>3
  <2>3. q = IF j = i /\ s < n THEN Stepped(sim[s][j], i) ELSE sim[s][j]
    BY <1>5, <2>2 DEF SimsOf
  <2>4. sim[s][j] \in Parts(j)
    BY DEF Parts
  <2> QED
    BY <2>1, <2>2, <2>3, <2>4
<1>6. ASSUME NEW u \in Users, q = user'[u][j]
      PROVE  /\ user[u][j] \in Parts(j)
             /\ q = user[u][j] \/ (j = i /\ q = Stepped(user[u][j], i))
             /\ j = i /\ thr'[i].ok => q = Stepped(user[u][j], i)
  <2>1. PICK moved \in SUBSET {i} :
         /\ user' = [v \in Users |-> [k \in Instances |->
                       IF k \in moved THEN Stepped(user[v][k], i) ELSE user[v][k]]]
         /\ thr'[i].ok => moved = {i}
    BY <1>3
  <2>2. q = IF j \in moved THEN Stepped(user[u][j], i) ELSE user[u][j]
    BY <1>6, <2>1
  <2>3. user[u][j] \in Parts(j)
    BY DEF Parts
  <2> QED
    BY <2>1, <2>2, <2>3
<1>7. PICK r \in Parts(j) : /\ q = r \/ (j = i /\ q = Stepped(r, i))
                            /\ j = i /\ thr'[i].ok => q = Stepped(r, i)
  BY <1>5, <1>6 DEF Parts
<1>8. q.snaps = r.snaps /\ (q = r \/ (j = i /\ q.log = Append(r.log, StepRecord(i))))
      /\ (j = i /\ thr'[i].ok => q.log = Append(r.log, StepRecord(i)))
  BY <1>4, <1>7
<1>9. Base(q) = Base(r)
  <2>1. HasSnaps(i, IF thr[i].ended THEN 2 ELSE 1)
    BY <1>1, ThreadFrame DEF RunningInv
  <2>2. j = i => r.snaps # <<>>
    <3>1. (r \in SimRecord \/ r \in UserRecord) /\ (j = i => Depth(r) # 0)
      BY <1>2, <2>1, PartRecords
    <3> QED
      BY <3>1, RecordFields
  <2> QED
    BY <1>8, <2>2 DEF Base
<1> QED
  BY <1>8, <1>9

\* CommitPeriod; when it is due all the instances were asked for.
LEMMA CommitEffect ==
    ASSUME IInv, CommitPeriod, NEW i \in Instances, NEW q \in Parts(i)'
    PROVE  \E r \in Parts(i) :
              /\ Memory(q) \subseteq Memory(r)
              /\ pc' # "failed" => q.log = Committed(r) /\ Base(q) = Committed(r)
<1>1. /\ pc = "decide" /\ CommitDue /\ Sound /\ HasSnaps(i, IF ended THEN 2 ELSE 1)
      /\ user' = OnUsers(UserCommit, Instances)
  BY DEF CommitPeriod, CommitDue, IInv, KeptInv
<1>2. i < nb
  BY <1>1, InstanceCount DEF CommitDue, IInv, BatchInv, RunnerOK, Busy, RedoLastIteration,
                             Instances
<1>3. PICK called : /\ sim' = OnSims(SimCommit, called)
                    /\ pc' # "failed" => called = Called(nb)
  <2>1. PICK res \in BOOLEAN :
           /\ \/ CallSims("commit", SimCommit, nb, res)
              \/ ~res /\ "write" \in FailingCalls /\ UNCHANGED sim
           /\ Goto(IF period + 1 >= NPeriods THEN "ended" ELSE "iteration", res)
    BY Zenon DEF CommitPeriod
  <2>2. pc' # "failed" => res
    BY <2>1 DEF Goto
  <2>3. CASE UNCHANGED sim /\ ~res
    <3>1. sim = OnSims(SimCommit, {})
      BY <1>1 DEF OnSims, Sound
    <3> QED
      BY <2>2, <2>3, <3>1
  <2>4. CASE CallSims("commit", SimCommit, nb, res)
    BY <2>2, <2>4, Zenon DEF CallSims
  <2> QED
    BY <2>1, <2>3, <2>4
<1>4. CASE \E s \in Sims : q = sim'[s][i]
  <2>1. PICK s \in Sims : q = sim'[s][i]
    BY <1>4
  <2>2. /\ q \in {sim[s][i], SimCommit(sim[s][i])}
        /\ pc' # "failed" => q = SimCommit(sim[s][i])
        /\ sim[s][i] \in SimRecord /\ Depth(sim[s][i]) = IF ended THEN 2 ELSE 1
        /\ sim[s][i] \in Parts(i)
    BY <1>1, <1>2, <1>3, <2>1 DEF OnSims, Called, Local, Sound, HasSnaps, Parts
  <2> QED
    BY <2>2, Committing
<1>5. CASE \E u \in Users : q = user'[u][i]
  <2>1. PICK u \in Users : q = user'[u][i]
    BY <1>5
  <2>2. q = UserCommit(user[u][i]) /\ user[u][i] \in UserRecord /\ user[u][i] \in Parts(i)
    BY <1>1, <2>1 DEF OnUsers, Sound, Parts
  <2> QED
    BY <2>2, Committing
<1> QED
  BY <1>4, <1>5 DEF Parts

--------------------------------------------------------------------------------
(* The timeline and the threads under the steps of the program *)

\* A call after which each record has the base of one it replaces keeps the timeline.
LEMMA BaseKept ==
    ASSUME OneBase,
           \A i \in Instances : \A q \in Parts(i)' : \E r \in Parts(i) : Base(q) = Base(r)
    PROVE  /\ Timeline' = Timeline /\ OneBase'
           /\ \A i \in Instances : \A q \in Parts(i)' : Base(q) = Timeline
<1>1. \A i \in Instances : \A q \in Parts(i)' : Base(q) = Timeline
  BY DEF OneBase
<1>2. Timeline' = Timeline
  BY <1>1, FirstPart DEF Timeline
<1> QED
  BY <1>1, <1>2 DEF OneBase

\* The timeline is a history.
LEMMA TimelineHistory ==
    /\ Sound => Timeline \in Histories
    /\ Sound' => Timeline' \in Histories
<1>1. ASSUME Sound PROVE Timeline \in Histories
  BY <1>1, FirstPart, PartRecords, RecordFields DEF Timeline
<1>2. ASSUME Sound' PROVE Timeline' \in Histories
  <2>1. sim'[1][0] \in SimRecord
    BY <1>2, FirstPart DEF Sound
  <2> QED
    BY <2>1, RecordFields DEF Timeline
<1> QED
  BY <1>1, <1>2

\* Nothing is asked of a run that failed.
LEMMA FailedTimeline ==
    ASSUME pc' = "failed", \A i \in Instances : thr'[i].pc = "idle"
    PROVE  TInv'
BY Zenon DEF TInv, RestInv, ChoiceInv, WalkInv, DoneInv, CommitDue, Busy

\* No thread is at work outside of a batch.
LEMMA NoThread ==
    ASSUME IInv, pc # "join"
    PROVE  \A i \in Instances : thr[i].pc = "idle"
  BY Zenon DEF IInv, ThreadInv

\* StartIteration changes no history.
LEMMA StartTimeline ==
    ASSUME IInv, TInv, StartIteration
    PROVE  TInv'
<1>1. /\ pc = "iteration" /\ pc' \in {"batch", "failed"} /\ thr' = thr
      /\ trajOff' = OutputsOff /\ redoing' = redoing
  BY DEF StartIteration, Goto
<1>2. \A i \in Instances : thr'[i].pc = "idle"
  BY <1>1, NoThread
<1>3. CASE pc' = "failed"
  BY <1>2, <1>3, FailedTimeline
<1>4. CASE pc' = "batch"
  <2>1. Timeline' = Timeline /\ OneBase'
    BY <1>1, StartEffect, BaseKept DEF TInv
  <2>2. \A i \in Instances : AtBase(i)'
    <3>1. \A i \in Instances : AtBase(i)
      BY <1>1 DEF TInv, RestInv
    <3> QED
      BY <2>1, <3>1, StartEffect DEF AtBase
  <2>3. RestInv'
    BY <2>2 DEF RestInv
  <2>4. ChoiceInv'
    <3>1. trajOff' <=> OutputsOff'
      BY <1>1, Zenon DEF OutputsOff
    <3> QED
      BY <1>4, <3>1, Zenon DEF ChoiceInv
  <2>5. WalkInv' /\ DoneInv'
    BY <1>2, <1>4, Zenon DEF WalkInv, DoneInv, CommitDue
  <2> QED
    BY <2>1, <2>3, <2>4, <2>5, Zenon DEF TInv
<1> QED
  BY <1>1, <1>3, <1>4

\* A failing question changes nothing.
LEMMA FailTimeline ==
    ASSUME IInv, NeededFails \/ DecideFails
    PROVE  TInv'
<1>1. pc' = "failed" /\ thr' = thr /\ pc # "join"
  BY DEF NeededFails, DecideFails
<1> QED
  BY <1>1, NoThread, FailedTimeline

\* Going back puts every instance where the period started, if it succeeds.
LEMMA BackToBase ==
    ASSUME IInv, TInv, pc \in {"batch", "decide"},
           NEW res \in BOOLEAN, CallSims("rollback", SimRollback, nb, res),
           user' = OnUsers(UserRollback, Local(nb)),
           pc = "batch" => batch # 0
    PROVE  /\ Timeline' = Timeline /\ OneBase'
           /\ res => \A i \in Instances : AtBase(i)'
<1>1. /\ Sound /\ nb \in Nat /\ OneBase
      /\ \A j \in Instances : IF j < nb THEN AtLeastOne(j) ELSE AtMostOne(j)
  BY DEF IInv, KeptInv, Busy, RunnerOK, TInv
<1>2. ASSUME NEW i \in Instances, NEW q \in Parts(i)'
      PROVE  \E r \in Parts(i) :
              /\ Base(q) = Base(r) /\ Memory(q) \subseteq Memory(r)
              /\ res => q.log = IF i < nb THEN Base(r) ELSE r.log
  BY <1>1, <1>2, RollbackEffect
<1>3. Timeline' = Timeline /\ OneBase'
  BY <1>1, <1>2, BaseKept
<1>4. ASSUME NEW i \in Instances, ~(i < nb) PROVE AtBase(i)
  BY <1>4 DEF TInv, RestInv
<1>5. ASSUME res, NEW i \in Instances, NEW q \in Parts(i)' PROVE q.log = Timeline
  <2>1. PICK r \in Parts(i) : q.log = IF i < nb THEN Base(r) ELSE r.log
    BY <1>2, <1>5
  <2> QED
    BY <1>1, <1>4, <2>1 DEF OneBase, AtBase
<1> QED
  BY <1>3, <1>5 DEF AtBase

\* RollbackIteration and RedoIteration.
LEMMA BackTimeline ==
    ASSUME IInv, TInv, RollbackIteration \/ RedoIteration
    PROVE  TInv'
<1>1. pc = "decide" /\ thr' = thr /\ RollbackAll
  BY DEF RollbackIteration, RedoIteration
<1>2. PICK res \in BOOLEAN : CallSims("rollback", SimRollback, nb, res)
                             /\ Goto("iteration", res)
  BY <1>1, Zenon DEF RollbackAll
<1>3. user' = OnUsers(UserRollback, Local(nb))
  BY <1>1 DEF RollbackAll
<1>4. OneBase' /\ (res => \A i \in Instances : AtBase(i)')
  BY <1>1, <1>2, <1>3, BackToBase
<1>5. \A i \in Instances : thr'[i].pc = "idle"
  BY <1>1, NoThread
<1>6. pc' = IF res THEN "iteration" ELSE "failed"
  BY <1>2 DEF Goto
<1> QED
  BY <1>4, <1>5, <1>6, Zenon DEF TInv, RestInv, ChoiceInv, WalkInv, DoneInv, CommitDue, Busy

\* A batch simulates from the start of the period, the one to be committed under one
\* assignment.
LEMMA BatchTimeline ==
    ASSUME IInv, IInv', TInv, Reliable, StartBatch
    PROVE  TInv'
<1>1. /\ pc = "batch" /\ start' = start /\ redoing' = redoing /\ trajOff' = trajOff
      /\ nb' = nb /\ batch' = batch
  BY DEF StartBatch
<1>2. Timeline' = Timeline /\ OneBase' /\ \A i \in Instances : AtBase(i)'
  <2>1. CASE batch # 0
    <3>1. PICK res \in BOOLEAN : CallSims("rollback", SimRollback, nb, res)
      BY <2>1 DEF StartBatch
    <3>2. user' = OnUsers(UserRollback, Local(nb))
      BY <2>1 DEF StartBatch
    <3>3. nb \in 1 .. ModelMax /\ batch \in Nat /\ batch < NbBatches
      BY <1>1 DEF IInv, RunnerOK, BatchInv
    <3>4. res
      BY <2>1, <3>1, <3>3, SecondBatch DEF CallSims
    <3> QED
      BY <1>1, <2>1, <3>1, <3>2, <3>4, BackToBase
  <2>2. CASE batch = 0
    <3>1. sim' = sim /\ user' = user
      BY <2>2 DEF StartBatch, partVars
    <3>2. OneBase /\ \A i \in Instances : AtBase(i)
      BY <1>1, <2>2 DEF TInv, RestInv
    <3> QED
      BY <3>1, <3>2 DEF Timeline, OneBase, AtBase, Parts
  <2> QED
    BY <2>1, <2>2
<1>3. /\ nb \in 1 .. ModelMax /\ batch \in Nat /\ batch < NbBatches
      /\ start = period * AssignLen /\ start \in Nat /\ period \in Nat
      /\ redoing => batch = 0 /\ nb = ModelMax
  BY <1>1 DEF IInv, RunnerOK, BatchInv, PeriodInv, Busy, Stopped
<1>4. BatchSize \in 1 .. NInst /\ (nb = ModelMax /\ batch = 0 => BatchSize = NInst)
  BY <1>3, BatchBounds
<1>5. start < EndTime
  BY <1>1, <1>3, PeriodStarts DEF IInv, PeriodInv, Stopped
<1>6. CASE /\ asg' = NewAssignments
           /\ thr' = [i \in Instances |->
                        IF i < BatchSize
                        THEN [IdleThread EXCEPT !.pc = "run", !.time = start, !.from = start]
                        ELSE IdleThread]
           /\ pc' = "join" /\ joined' = 0
  <2>1. RestInv'
    BY <1>2, <1>6 DEF RestInv
  <2>2. ChoiceInv'
    <3>1. trajOff' <=> OutputsOff'
      BY <1>1, Zenon DEF OutputsOff, TInv, ChoiceInv, Busy
    <3>2. ASSUME redoing' \/ ~RedoLastIteration, NEW i \in Instances PROVE asg'[i] = asg'[0]
      <4>1. CASE NeedsParallel
        <5>1. redoing /\ BatchSize = NInst
          BY <1>1, <1>3, <1>4, <3>2, <4>1 DEF RedoLastIteration
        <5>2. \A j \in Instances : asg'[j] = <<period, iteration, ModelMax>>
          BY <1>6, <4>1, <5>1, InstanceCount DEF NewAssignments, Instances
        <5> QED
          BY <5>2, FirstPart
      <4>2. CASE ~NeedsParallel
        <5>1. NInst = 1
          BY <4>2, InstanceCount
        <5>2. i = 0
          BY <5>1 DEF Instances
        <5> QED
          BY <5>2
      <4> QED
        BY <4>1, <4>2
    <3> QED
      BY <3>1, <3>2, Zenon DEF ChoiceInv
  <2>3. WalkInv'
    <3> SUFFICES ASSUME NEW i \in Instances, thr'[i].pc # "idle" PROVE Walk(i)'
      BY DEF WalkInv
    <3>1. thr'[i].time = start /\ ~thr'[i].ended
      BY <1>6 DEF IdleThread
    <3>2. start < EndPeriod' + Dt
      BY <1>1, <1>3, <1>5, UpdatesCover, Constants DEF EndPeriod
    <3>3. start' = start + 0 * Dt
      BY <1>1, <1>3, Constants
    <3>4. \A q \in Parts(i)' : Extended(q.log, Timeline', 0, Plan(i)')
      BY <1>2, NoStep, TimelineHistory DEF AtBase, IInv
    <3>5. \E n \in Nat : /\ start = start' + n * Dt
                         /\ \A q \in Parts(i)' : Extended(q.log, Timeline', n, Plan(i)')
      BY <1>1, <3>3, <3>4
    <3> QED
      BY <3>1, <3>2, <3>5 DEF Walk
  <2>4. DoneInv'
    BY <1>6 DEF DoneInv, CommitDue, Instances
  <2> QED
    BY <1>2, <2>1, <2>2, <2>3, <2>4 DEF TInv
<1>7. CASE pc' = "failed" /\ thr' = thr
  BY <1>1, <1>7, NoThread, FailedTimeline
<1> QED
  BY <1>6, <1>7 DEF StartBatch

\* What the threads and the commit rely on is not disturbed from outside.
LEMMA WalkFrame ==
    ASSUME NEW i \in Instances, start' = start, asg' = asg, trajOff' = trajOff,
           Timeline' = Timeline, \A q \in Parts(i)' : q \in Parts(i)
    PROVE  /\ Walk(i) /\ thr'[i] = thr[i] => Walk(i)'
           /\ Ready(i) => Ready(i)'
           /\ AtBase(i) => AtBase(i)'
<1>1. Plan(i)' = Plan(i)
  BY SamePlan
<1>2. EndPeriod' = EndPeriod /\ Whole' = Whole /\ CommitSteps' = CommitSteps
  BY DEF EndPeriod, EndAssign, Whole, CommitSteps, EndedDue, OnGrid
<1>3. ASSUME Walk(i), thr'[i] = thr[i] PROVE Walk(i)'
  <2>1. PICK n \in Nat : /\ thr[i].time = start + n * Dt
                         /\ \A r \in Parts(i) : Extended(r.log, Timeline, n, Plan(i))
    BY <1>3 DEF Walk
  <2>2. /\ thr'[i].time = start' + n * Dt
        /\ \A q \in Parts(i)' : Extended(q.log, Timeline', n, Plan(i)')
    BY <1>1, <1>3, <2>1
  <2>3. thr'[i].ended => \A q \in Parts(i)' : Extended(q.snaps[2], Timeline', Whole', Plan(i)')
    BY <1>1, <1>2, <1>3 DEF Walk
  <2>4. thr'[i].time < EndPeriod' + Dt
    BY <1>2, <1>3 DEF Walk
  <2>5. \E k \in Nat : /\ thr'[i].time = start' + k * Dt
                       /\ \A q \in Parts(i)' : Extended(q.log, Timeline', k, Plan(i)')
    BY <2>2
  <2> QED
    BY <2>3, <2>4, <2>5 DEF Walk
<1>4. Ready(i) => Ready(i)'
  BY <1>1, <1>2 DEF Ready
<1>5. AtBase(i) => AtBase(i)'
  BY DEF AtBase
<1> QED
  BY <1>3, <1>4, <1>5

\* A thread that has done its work leaves its instance ready.
LEMMA DoneReady ==
    ASSUME IInv, TInv, NEW i \in Instances, thr[i].pc = "done", thr[i].ok
    PROVE  Ready(i)
<1>1. pc = "join" /\ RunningInv(i) /\ Walk(i) /\ thr[i] \in Threads /\ Sound
  BY DEF IInv, ThreadInv, RunnerOK, TInv, WalkInv
<1>2. start \in Nat /\ start = period * AssignLen /\ period \in Nat /\ period < NPeriods
  BY <1>1 DEF IInv, RunnerOK, PeriodInv, Busy, Stopped
<1>3. start < EndTime
  BY <1>2, PeriodStarts
<1>4. thr[i].ended <=> EndedDue
  BY <1>1, <1>2, <1>3, EndMet
<1>5. \A r \in Parts(i) : Depth(r) = IF thr[i].ended THEN 2 ELSE 1
  BY <1>1, PartRecords DEF RunningInv
<1>6. CASE thr[i].ended
  <2>1. CommitSteps = Whole
    BY <1>4, <1>6 DEF CommitSteps
  <2>2. \A r \in Parts(i) : Committed(r) = r.snaps[2]
    BY <1>5, <1>6 DEF Committed
  <2> QED
    BY <1>1, <1>6, <2>1, <2>2 DEF Ready, Walk
<1>7. CASE ~thr[i].ended
  <2>1. PICK n \in Nat : /\ thr[i].time = start + n * Dt
                         /\ \A r \in Parts(i) : Extended(r.log, Timeline, n, Plan(i))
    BY <1>1 DEF Walk
  <2>2. thr[i].time >= EndPeriod /\ thr[i].time < EndPeriod + Dt
    BY <1>1 DEF RunningInv, Walk
  <2>3. EndPeriod \in Nat /\ start < EndPeriod
    BY <1>2, <1>3, UpdatesCover
  <2> DEFINE a == EndPeriod - start
             m == n * Dt
  <2>4. a \in Nat /\ m \in Nat /\ thr[i].time = start + m
    BY <1>2, <2>1, <2>3, Constants
  <2>5. a <= m /\ m < a + Dt
    <3>1. a = EndPeriod - start
      OBVIOUS
    <3> HIDE DEF a, m
    <3> QED
      BY <1>2, <2>2, <2>3, <2>4, <3>1, Constants
  <2>6. CeilDiv(a, Dt) = n
    BY <2>4, <2>5, WholeSteps
  <2>7. CommitSteps = n
    BY <1>4, <1>7, <2>6 DEF CommitSteps
  <2>8. \A r \in Parts(i) : Committed(r) = r.log
    BY <1>5, <1>7 DEF Committed
  <2> QED
    BY <2>1, <2>7, <2>8 DEF Ready
<1> QED
  BY <1>6, <1>7

\* Joining a thread changes no history.
LEMMA JoinTimeline ==
    ASSUME IInv, IInv', TInv, Join
    PROVE  TInv'
<1>1. /\ pc = "join" /\ joined < BatchSize /\ joined' = joined + 1
      /\ thr' = [thr EXCEPT ![joined] = IdleThread] /\ thr[joined].pc = "done"
      /\ period' = period /\ start' = start /\ nb' = nb
      /\ redoing' = redoing /\ trajOff' = trajOff /\ asg' = asg /\ sim' = sim /\ user' = user
  BY DEF Join
<1>2. /\ nb \in 1 .. ModelMax /\ batch \in Nat /\ batch < NbBatches /\ joined \in Nat
      /\ thr \in [Instances -> Threads]
      /\ redoing => batch = 0 /\ nb = ModelMax
  BY <1>1 DEF IInv, RunnerOK, BatchInv, Busy
<1>3. /\ BatchSize \in 1 .. NInst /\ (nb = ModelMax /\ batch = 0 => BatchSize = NInst)
      /\ Offset \in Nat /\ Offset + BatchSize <= nb
  BY <1>2, BatchBounds
<1>4. joined \in Instances /\ \A i \in Instances : i <= joined => i < joined \/ i = joined
  BY <1>1, <1>2, <1>3, InstanceCount DEF Instances
<1>5. ok' => ok /\ thr[joined].ok
  <2>1. CASE ok /\ thr[joined].ok
    BY <2>1
  <2>2. CASE ~(ok /\ thr[joined].ok)
    BY <2>2, Zenon DEF Join
  <2> QED
    BY <2>1, <2>2
<1>6. Timeline' = Timeline /\ \A i \in Instances : Parts(i)' = Parts(i)
  BY <1>1 DEF Timeline, Parts
<1>7. OneBase /\ OneBase'
  BY <1>1, <1>6 DEF TInv, OneBase
<1>8. \A i \in Instances : /\ Walk(i) /\ thr'[i] = thr[i] => Walk(i)'
                           /\ Ready(i) => Ready(i)'
                           /\ AtBase(i) => AtBase(i)'
  BY <1>1, <1>6, WalkFrame
<1>9. ok' => \A i \in Instances : i <= joined => Ready(i)'
  <2> SUFFICES ASSUME ok', NEW i \in Instances, i <= joined PROVE Ready(i)
    BY <1>8
  <2>1. CASE i < joined
    BY <1>1, <1>5, <2>1 DEF TInv, DoneInv
  <2>2. CASE i = joined
    BY <1>1, <1>4, <1>5, <2>2, DoneReady
  <2> QED
    BY <1>4, <2>1, <2>2
<1>10. /\ thr'[joined].pc = "idle"
       /\ \A i \in Instances : i # joined => thr'[i] = thr[i]
  BY <1>1, <1>2, <1>4 DEF IdleThread
<1>11. WalkInv'
  BY <1>8, <1>10 DEF TInv, WalkInv
<1>12. \A i \in Instances : ~(i < BatchSize) => AtBase(i)'
  BY <1>1, <1>8 DEF TInv, RestInv
<1>13. CASE joined + 1 = BatchSize
  <2>1. /\ batch' = batch + 1
        /\ pc' = IF ok' THEN (IF redoing \/ batch + 1 = NbBatches THEN "decide" ELSE "batch")
                 ELSE "failed"
    BY <1>1, <1>13 DEF Join, Goto
  <2>2. \A i \in Instances : ~(i < nb) => ~(i < BatchSize)
    BY <1>2, <1>3, InstanceCount DEF Instances
  <2>3. RestInv'
    BY <1>1, <1>2, <1>12, <2>1, <2>2 DEF RestInv
  <2>4. ChoiceInv'
    <3>1. (trajOff' <=> OutputsOff') /\ (redoing' <=> redoing)
      BY <1>1, Zenon DEF OutputsOff, TInv, ChoiceInv, Busy
    <3>2. redoing' \/ ~RedoLastIteration => \A i \in Instances : asg'[i] = asg'[0]
      BY <1>1, Zenon DEF TInv, ChoiceInv
    <3> QED
      BY <3>1, <3>2, Zenon DEF ChoiceInv
  <2>5. DoneInv'
    <3> SUFFICES ASSUME NEW i \in Instances,
                        (pc' = "join" /\ ok' /\ i < joined') \/ CommitDue'
                 PROVE  Ready(i)'
      BY DEF DoneInv
    <3>1. pc' = "decide" /\ ok' /\ (redoing \/ ~RedoLastIteration)
      BY <1>1, <2>1 DEF CommitDue, RedoLastIteration
    <3>2. BatchSize = NInst
      BY <1>1, <1>2, <1>3, <3>1, InstanceCount DEF RedoLastIteration
    <3>3. i <= joined
      BY <1>2, <1>13, <3>2, InstanceCount DEF Instances
    <3> QED
      BY <1>9, <3>1, <3>3
  <2> QED
    BY <1>7, <1>11, <2>3, <2>4, <2>5 DEF TInv
<1>14. CASE joined + 1 # BatchSize
  <2>1. pc' = pc /\ batch' = batch
    BY <1>1, <1>14 DEF Join
  <2>2. BatchSize' = BatchSize
    BY <1>1, <2>1, SameBatch
  <2>3. RestInv'
    BY <1>1, <1>12, <2>1, <2>2 DEF RestInv
  <2>4. ChoiceInv'
    <3>1. (trajOff' <=> OutputsOff') /\ (redoing' <=> redoing)
      BY <1>1, Zenon DEF OutputsOff, TInv, ChoiceInv, Busy
    <3>2. redoing' \/ ~RedoLastIteration => \A i \in Instances : asg'[i] = asg'[0]
      BY <1>1, Zenon DEF TInv, ChoiceInv
    <3> QED
      BY <3>1, <3>2, Zenon DEF ChoiceInv
  <2>5. DoneInv'
    <3>1. \A i \in Instances : i < joined' => i <= joined
      BY <1>1, <1>2, InstanceCount DEF Instances
    <3> QED
      BY <1>1, <1>9, <2>1, <3>1 DEF DoneInv, CommitDue
  <2> QED
    BY <1>7, <1>11, <2>3, <2>4, <2>5 DEF TInv
<1> QED
  BY <1>13, <1>14

\* What a commit that succeeds adds to the timeline, in every record.
LEMMA CommitAdds ==
    ASSUME IInv, IInv', TInv, CommitPeriod, pc' # "failed"
    PROVE  /\ Extended(Timeline', Timeline, CommitSteps, Plan(0))
           /\ \A i \in Instances : \A q \in Parts(i)' : q.log = Timeline' /\ Base(q) = Timeline'
<1>1. pc = "decide" /\ CommitDue /\ (redoing \/ ~RedoLastIteration) /\ Sound /\ Sound'
  BY DEF CommitPeriod, CommitDue, IInv
<1>2. start \in Nat /\ start = period * AssignLen /\ period \in Nat /\ period < NPeriods
  BY <1>1 DEF IInv, RunnerOK, PeriodInv, Busy, Stopped
<1>3. start < EndTime
  BY <1>2, PeriodStarts
<1>4. CommitSteps \in Nat
  <2>1. EndPeriod - start \in Nat /\ EndAssign - start \in Nat
    BY <1>2, <1>3, UpdatesCover
  <2> QED
    BY <2>1, CeilDivBounds, DivisionBounds, Constants DEF CommitSteps, Whole
<1>5. ASSUME NEW i \in Instances, NEW q \in Parts(i)'
      PROVE  /\ q.log \in Histories /\ Base(q) = q.log
             /\ Extended(q.log, Timeline, CommitSteps, Plan(0))
  <2>1. PICK r \in Parts(i) : q.log = Committed(r) /\ Base(q) = Committed(r)
    BY <1>5, CommitEffect
  <2>2. Extended(Committed(r), Timeline, CommitSteps, Plan(i))
    BY <1>1 DEF TInv, DoneInv, Ready
  <2>3. Plan(i) = Plan(0)
    BY <1>1 DEF TInv, ChoiceInv, Plan
  <2>4. Committed(r) \in Histories
    BY <1>1, PartRecords, RecordFields
  <2> QED
    BY <2>1, <2>2, <2>3, <2>4
<1>6. /\ Timeline' = sim'[1][0].log /\ Timeline' \in Histories
      /\ Extended(Timeline', Timeline, CommitSteps, Plan(0))
  BY <1>5, FirstPart DEF Timeline
<1>7. Timeline \in Histories
  BY <1>1, TimelineHistory
<1>8. ASSUME NEW i \in Instances, NEW q \in Parts(i)' PROVE q.log = Timeline' /\ Base(q) = Timeline'
  BY <1>4, <1>5, <1>6, <1>7, <1>8, SameHistory
<1> QED
  BY <1>6, <1>8

\* A commit leaves every record at the end of the assignment period.
LEMMA CommitTimeline ==
    ASSUME IInv, IInv', TInv, CommitPeriod
    PROVE  TInv'
<1>1. pc = "decide" /\ thr' = thr /\ pc' \in {"ended", "iteration", "failed"}
  BY DEF CommitPeriod, Goto
<1>2. \A i \in Instances : thr'[i].pc = "idle"
  BY <1>1, NoThread
<1>3. CASE pc' = "failed"
  BY <1>2, <1>3, FailedTimeline
<1>4. CASE pc' # "failed"
  <2>1. OneBase' /\ \A i \in Instances : AtBase(i)'
    BY <1>4, CommitAdds DEF OneBase, AtBase
  <2> QED
    BY <1>1, <1>2, <1>4, <2>1, Zenon
       DEF TInv, RestInv, ChoiceInv, WalkInv, DoneInv, CommitDue, Busy
<1> QED
  BY <1>3, <1>4

\* A step of thread i that keeps its own part, and the other instances as they are,
\* keeps the whole.
LEMMA ThreadTimeline ==
    ASSUME IInv, TInv, NEW i \in Instances, thr[i].pc = "run", UNCHANGED runnerVars,
           thr' = [thr EXCEPT ![i] = thr'[i]],
           \A j \in Instances : \A q \in Parts(j)' : \E r \in Parts(j) :
              Base(q) = Base(r) /\ (j # i => q = r),
           Timeline' = Timeline /\ thr'[i].ok => Walk(i)'
    PROVE  TInv'
<1>1. /\ pc = "join" /\ i < BatchSize /\ ~(i < joined) /\ BatchSize' = BatchSize
  BY ThreadFrame
<1>2. /\ pc' = pc /\ start' = start /\ redoing' = redoing /\ trajOff' = trajOff
      /\ asg' = asg /\ joined' = joined /\ ok' = ok
  BY DEF runnerVars
<1>3. Timeline' = Timeline /\ OneBase'
  BY <1>1, BaseKept DEF TInv
<1>4. ASSUME NEW j \in Instances, j # i
      PROVE  /\ Walk(j) => Walk(j)'
             /\ Ready(j) => Ready(j)'
             /\ AtBase(j) => AtBase(j)'
             /\ thr'[j] = thr[j]
  <2>1. thr'[j] = thr[j]
    BY <1>4 DEF IInv, RunnerOK
  <2>2. \A q \in Parts(j)' : q \in Parts(j)
    BY <1>4
  <2> QED
    BY <1>2, <1>3, <2>1, <2>2, WalkFrame
<1>5. RestInv'
  <2>1. ASSUME NEW j \in Instances, ~(j < BatchSize) PROVE AtBase(j)'
    <3>1. j # i /\ AtBase(j)
      BY <1>1, <2>1 DEF TInv, RestInv
    <3> QED
      BY <1>4, <3>1
  <2> QED
    BY <1>1, <1>2, <2>1 DEF RestInv
<1>6. ChoiceInv'
  <2>1. (trajOff' <=> OutputsOff') /\ (redoing' <=> redoing)
    BY <1>1, <1>2, Zenon DEF OutputsOff, TInv, ChoiceInv, Busy
  <2>2. redoing' \/ ~RedoLastIteration => \A j \in Instances : asg'[j] = asg'[0]
    BY <1>1, <1>2, Zenon DEF TInv, ChoiceInv
  <2> QED
    BY <2>1, <2>2, Zenon DEF ChoiceInv
<1>7. WalkInv'
  BY <1>3, <1>4 DEF TInv, WalkInv
<1>8. DoneInv'
  <2>1. ASSUME ok, NEW j \in Instances, j < joined PROVE Ready(j)'
    <3>1. j # i /\ Ready(j)
      BY <1>1, <2>1 DEF TInv, DoneInv
    <3> QED
      BY <1>4, <3>1
  <2> QED
    BY <1>1, <1>2, <2>1 DEF DoneInv, CommitDue
<1> QED
  BY <1>3, <1>5, <1>6, <1>7, <1>8 DEF TInv

\* Keeping the state at the end of the assignment period.
LEMMA SnapshotTimeline ==
    ASSUME IInv, TInv, NEW i \in Instances, TakeEndSnapshot(i)
    PROVE  TInv'
<1>1. /\ thr[i].pc = "run" /\ ~thr[i].ended /\ UNCHANGED runnerVars
      /\ thr[i].time + Dt > EndAssign
  BY DEF TakeEndSnapshot, InWindow, SnapshotDue
<1>2. /\ thr[i] \in Threads /\ thr[i].ok /\ RunningInv(i) /\ start \in Nat /\ start < EndTime
  BY <1>1, ThreadFrame
<1>3. /\ start' = start /\ asg' = asg /\ trajOff' = trajOff
  BY <1>1 DEF runnerVars
<1>4. /\ thr' = [thr EXCEPT ![i] = thr'[i]] /\ thr'[i].time = thr[i].time
  <2>1. CASE thr' = [thr EXCEPT ![i].ended = TRUE]
    BY <1>2, <2>1 DEF IInv, RunnerOK, Threads
  <2>2. CASE thr' = [thr EXCEPT ![i] = [Abort(i) EXCEPT !.ended = TRUE]]
    BY <1>2, <2>2 DEF IInv, RunnerOK, Threads, Abort
  <2> QED
    BY <2>1, <2>2 DEF TakeEndSnapshot
<1>5. \A j \in Instances : \A q \in Parts(j)' : \E r \in Parts(j) :
         Base(q) = Base(r) /\ (j # i => q = r)
  BY TakeEffect
<1>6. ASSUME Timeline' = Timeline, thr'[i].ok PROVE Walk(i)'
  <2>1. Walk(i) /\ Plan(i)' = Plan(i)
    BY <1>1, <1>2, <1>3, SamePlan DEF TInv, WalkInv
  <2>2. PICK n \in Nat : /\ thr[i].time = start + n * Dt
                         /\ \A r \in Parts(i) : Extended(r.log, Timeline, n, Plan(i))
    BY <2>1 DEF Walk
  <2>3. Whole = n
    <3> DEFINE a == EndAssign - start
               m == n * Dt
    <3>1. EndAssign \in Nat /\ start <= EndAssign
      BY <1>2, UpdatesCover
    <3>2. a \in Nat /\ m \in Nat /\ thr[i].time = start + m /\ a = EndAssign - start
      BY <1>2, <2>2, <3>1, Constants
    <3>3. thr[i].time <= EndAssign
      BY <1>1, <1>2 DEF RunningInv
    <3> HIDE DEF a, m
    <3>4. m <= a /\ a < m + Dt
      BY <1>1, <1>2, <3>1, <3>2, <3>3, Constants
    <3>5. a \div Dt = n
      BY <3>2, <3>4, WholeSteps DEF m
    <3> QED
      BY <3>5 DEF a, Whole
  <2>4. ASSUME NEW q \in Parts(i)'
        PROVE  /\ Extended(q.log, Timeline', n, Plan(i)')
               /\ Extended(q.snaps[2], Timeline', n, Plan(i)')
    <3>1. PICK r \in Parts(i) : q.log = r.log /\ q.snaps[2] = r.log
      BY <1>6, TakeEffect
    <3> QED
      BY <1>6, <2>1, <2>2, <3>1
  <2>5. Whole' = Whole /\ EndPeriod' = EndPeriod
    BY <1>3 DEF Whole, EndAssign, EndPeriod
  <2>6. thr'[i].time < EndPeriod' + Dt
    BY <1>4, <2>1, <2>5 DEF Walk
  <2>7. \E k \in Nat : /\ thr'[i].time = start' + k * Dt
                       /\ \A q \in Parts(i)' : Extended(q.log, Timeline', k, Plan(i)')
    BY <1>3, <1>4, <2>2, <2>4
  <2>8. \A q \in Parts(i)' : Extended(q.snaps[2], Timeline', Whole', Plan(i)')
    BY <2>3, <2>4, <2>5
  <2> QED
    BY <2>6, <2>7, <2>8 DEF Walk
<1> QED
  BY <1>1, <1>4, <1>5, <1>6, ThreadTimeline

\* A time step extends every record of the instance by the next step of its plan.
LEMMA StepTimeline ==
    ASSUME IInv, TInv, NEW i \in Instances, StepInstance(i)
    PROVE  TInv'
<1>1. /\ thr[i].pc = "run" /\ UNCHANGED runnerVars /\ thr[i].time < WindowEnd(i)
  BY DEF StepInstance, InWindow
<1>2. /\ thr[i] \in Threads /\ thr[i].ok /\ RunningInv(i) /\ start \in Nat /\ start < EndTime
      /\ Sound
  BY <1>1, ThreadFrame DEF IInv
<1>3. /\ start' = start /\ asg' = asg /\ trajOff' = trajOff
  BY <1>1 DEF runnerVars
<1>4. /\ thr' = [thr EXCEPT ![i] = thr'[i]]
      /\ thr'[i].ok => thr'[i].time = thr[i].time + Dt /\ thr'[i].ended = thr[i].ended
  <2> DEFINE t == thr[i].time + Dt
             a == [thr[i] EXCEPT !.time = t]
             b == [Abort(i) EXCEPT !.time = t]
  <2>1. a.time = t /\ a.ended = thr[i].ended /\ ~b.ok
    BY <1>2 DEF Threads, Abort
  <2> HIDE DEF t
  <2>2. thr' = [thr EXCEPT ![i] = a] \/ thr' = [thr EXCEPT ![i] = b]
    <3>1. a = [thr[i] EXCEPT !.time = @ + Dt] /\ b = [Abort(i) EXCEPT !.time = @ + Dt]
      BY <1>2 DEF Threads, Abort, t
    <3> HIDE DEF a, b
    <3>2. CASE thr' = [thr EXCEPT ![i].time = @ + Dt]
      BY <1>2, <3>1, <3>2 DEF IInv, RunnerOK
    <3>3. CASE thr' = [thr EXCEPT ![i] = [Abort(i) EXCEPT !.time = @ + Dt]]
      BY <3>1, <3>3
    <3> QED
      BY <3>2, <3>3 DEF StepInstance
  <2> HIDE DEF a, b
  <2> QED
    BY <2>1, <2>2 DEF t, IInv, RunnerOK
<1>5. \A j \in Instances : \A q \in Parts(j)' : \E r \in Parts(j) :
         Base(q) = Base(r) /\ (j # i => q = r)
  BY StepEffect
<1>6. ASSUME Timeline' = Timeline, thr'[i].ok PROVE Walk(i)'
  <2>1. Walk(i) /\ Plan(i)' = Plan(i)
    BY <1>1, <1>2, <1>3, SamePlan DEF TInv, WalkInv
  <2>2. PICK n \in Nat : /\ thr[i].time = start + n * Dt
                         /\ \A r \in Parts(i) : Extended(r.log, Timeline, n, Plan(i))
    BY <2>1 DEF Walk
  <2>3. StepRecord(i) = Plan(i)[n]
    BY <2>2, PlanStep DEF StepRecord
  <2>4. ASSUME NEW q \in Parts(i)'
        PROVE  /\ Extended(q.log, Timeline', n + 1, Plan(i)')
               /\ thr'[i].ended => Extended(q.snaps[2], Timeline', Whole, Plan(i)')
    <3>1. PICK r \in Parts(i) : q.log = Append(r.log, StepRecord(i)) /\ q.snaps = r.snaps
      BY <1>6, StepEffect
    <3>2. r.log \in Histories /\ Timeline \in Histories
      BY <1>2, PartRecords, RecordFields, TimelineHistory
    <3>3. Extended(q.log, Timeline, n + 1, Plan(i))
      BY <2>2, <2>3, <3>1, <3>2, OneMoreStep
    <3> QED
      BY <1>4, <1>6, <2>1, <3>1, <3>3 DEF Walk
  <2>5. Whole' = Whole /\ EndPeriod' = EndPeriod
    BY <1>3 DEF Whole, EndAssign, EndPeriod
  <2>6. thr'[i].time < EndPeriod' + Dt
    <3>1. thr[i].time < EndPeriod /\ EndPeriod \in Nat
      BY <1>1, <1>2, UpdatesCover, Constants DEF WindowEnd, MinOf, Threads
    <3> QED
      BY <1>2, <1>4, <1>6, <2>5, <3>1, Constants DEF Threads
  <2>7. thr'[i].time = start' + (n + 1) * Dt
    <3>1. (n + 1) * Dt = n * Dt + Dt /\ n * Dt \in Nat
      BY Constants
    <3> DEFINE m == n * Dt
    <3> HIDE DEF m
    <3>2. thr[i].time = start + m /\ m \in Nat /\ (n + 1) * Dt = m + Dt
      BY <2>2, <3>1 DEF m
    <3> QED
      BY <1>2, <1>3, <1>4, <1>6, <3>2, Constants
  <2>8. \E k \in Nat : /\ thr'[i].time = start' + k * Dt
                       /\ \A q \in Parts(i)' : Extended(q.log, Timeline', k, Plan(i)')
    <3>1. n + 1 \in Nat
      OBVIOUS
    <3> QED
      BY <2>4, <2>7, <3>1
  <2> QED
    BY <2>4, <2>5, <2>6, <2>8 DEF Walk
<1> QED
  BY <1>1, <1>4, <1>5, <1>6, ThreadTimeline

\* Computing costs changes no history.
LEMMA CostsTimeline ==
    ASSUME IInv, TInv, NEW i \in Instances, ComputeCosts(i)
    PROVE  TInv'
<1>1. /\ thr[i].pc = "run" /\ UNCHANGED runnerVars /\ sim' = sim /\ user' = user
  BY DEF ComputeCosts
<1>2. /\ thr[i] \in Threads /\ thr[i].ok
  BY <1>1, ThreadFrame
<1>3. /\ start' = start /\ asg' = asg /\ trajOff' = trajOff
  BY <1>1 DEF runnerVars
<1>4. /\ thr' = [thr EXCEPT ![i] = thr'[i]]
      /\ thr'[i].time = thr[i].time /\ thr'[i].ended = thr[i].ended
  <2>1. CASE thr' = [thr EXCEPT ![i] = NextUpdate(i)]
    <3> DEFINE s == thr[i].sub + 1
               p == IF s = NbUpdates THEN "done" ELSE "run"
               a == [thr[i] EXCEPT !.sub = s, !.from = thr[i].time, !.pc = p]
    <3>1. a.time = thr[i].time /\ a.ended = thr[i].ended
      <4> HIDE DEF s, p
      <4> QED
        BY <1>2 DEF Threads
    <3>2. NextUpdate(i) = a
      BY <1>2 DEF NextUpdate, Threads
    <3> HIDE DEF a
    <3> QED
      BY <2>1, <3>1, <3>2 DEF IInv, RunnerOK
  <2>2. CASE thr' = [thr EXCEPT ![i] = Abort(i)]
    BY <1>2, <2>2 DEF IInv, RunnerOK, Threads, Abort
  <2> QED
    BY <2>1, <2>2 DEF ComputeCosts
<1>5. \A j \in Instances : Parts(j)' = Parts(j)
  BY <1>1 DEF Parts
<1>6. \A j \in Instances : \A q \in Parts(j)' : \E r \in Parts(j) :
         Base(q) = Base(r) /\ (j # i => q = r)
  BY <1>5
<1>7. ASSUME Timeline' = Timeline PROVE Walk(i)'
  <2>1. Walk(i) /\ Plan(i)' = Plan(i) /\ Whole' = Whole /\ EndPeriod' = EndPeriod
    BY <1>1, <1>2, <1>3, SamePlan DEF TInv, WalkInv, Whole, EndAssign, EndPeriod
  <2> QED
    BY <1>3, <1>4, <1>5, <1>7, <2>1 DEF Walk
<1> QED
  BY <1>1, <1>4, <1>6, <1>7, ThreadTimeline

\* Nothing has been simulated at first.
LEMMA InitTimeline == Init => TInv
<1> SUFFICES ASSUME Init PROVE TInv
  OBVIOUS
<1>1. /\ pc = "iteration" /\ \A i \in Instances : thr[i].pc = "idle"
      /\ \A s \in Sims, i \in Instances : sim[s][i].log = <<>> /\ sim[s][i].snaps = <<>>
      /\ \A u \in Users, i \in Instances : user[u][i].log = <<>> /\ user[u][i].snaps = <<>>
  BY DEF Init, IdleThread
<1>2. \A i \in Instances : \A r \in Parts(i) : r.log = <<>> /\ Base(r) = <<>>
  BY <1>1 DEF Parts, Base
<1>3. Timeline = <<>>
  BY <1>2, FirstPart DEF Timeline
<1>4. OneBase /\ RestInv
  BY <1>1, <1>2, <1>3 DEF OneBase, RestInv, AtBase
<1> QED
  BY <1>1, <1>4, Zenon DEF TInv, ChoiceInv, WalkInv, DoneInv, CommitDue, Busy

\* Every step, and none, keeps the invariant.
LEMMA NextTimeline ==
    ASSUME Reliable, IInv, IInv', TInv, [Next]_vars
    PROVE  TInv'
<1>1. CASE UNCHANGED vars
  <2>1. \A i \in Instances : Parts(i)' = Parts(i) /\ Plan(i)' = Plan(i)
    BY <1>1 DEF vars, Parts, Plan
  <2>2. /\ Timeline' = Timeline /\ Whole' = Whole /\ CommitSteps' = CommitSteps
        /\ EndPeriod' = EndPeriod /\ BatchSize' = BatchSize /\ (OutputsOff' <=> OutputsOff)
    BY <1>1 DEF vars, Timeline, Whole, CommitSteps, EndedDue, OnGrid, EndAssign, EndPeriod,
                BatchSize, LastBatchSize, NbBatches, ParallelSize, OutputsOff
  <2>3. OneBase' <=> OneBase
    BY <2>1, <2>2 DEF OneBase
  <2>4. \A i \in Instances : /\ AtBase(i)' <=> AtBase(i)
                             /\ Ready(i)' <=> Ready(i)
                             /\ Walk(i)' <=> Walk(i)
    BY <1>1, <2>1, <2>2 DEF vars, AtBase, Ready, Walk
  <2>5. RestInv' /\ WalkInv' /\ DoneInv'
    BY <1>1, <2>2, <2>4 DEF TInv, vars, RestInv, WalkInv, DoneInv, CommitDue
  <2>6. ChoiceInv'
    BY <1>1, <2>2 DEF TInv, vars, ChoiceInv
  <2> QED
    BY <1>1, <2>3, <2>5, <2>6 DEF TInv, vars
<1>2. CASE Runner
  BY <1>2, StartTimeline, FailTimeline, BatchTimeline, JoinTimeline, BackTimeline,
     CommitTimeline DEF Runner
<1>3. CASE \E i \in Instances : Thread(i)
  BY <1>3, SnapshotTimeline, StepTimeline, CostsTimeline DEF Thread
<1> QED
  BY <1>1, <1>2, <1>3 DEF Next, Finished

\* Whatever is tried, one timeline.
THEOREM TimelineInvariance ==
    ASSUME Reliable
    PROVE  Spec => [](IInv /\ TInv)
<1>1. Init => IInv /\ TInv
  BY InitInvariant, InitTimeline
<1>2. IInv /\ TInv /\ [Next]_vars => (IInv /\ TInv)'
  BY NextInvariant, NextTimeline
<1> QED
  BY <1>1, <1>2, PTL DEF Spec

\* All the simulator instances, user engines and path writers agree on where the
\* current period started (AssignmentPeriodStart, Rollback and Commit).
THEOREM ParticipantsAgree ==
    ASSUME Reliable
    PROVE  Spec => []OneTimeline
<1>1. TInv => OneTimeline
  BY DEF TInv, OneBase, OneTimeline, Parts
<1> QED
  BY <1>1, TimelineInvariance, PTL
--------------------------------------------------------------------------------
(* The clocks *)

\* The calls that simulate nothing and commit nothing remember nothing new.
LEMMA QuietSteps ==
    ASSUME IInv,
           \/ StartIteration \/ NeededFails \/ StartBatch \/ Join
           \/ RollbackIteration \/ RedoIteration \/ DecideFails
           \/ \E i \in Instances : TakeEndSnapshot(i) \/ ComputeCosts(i),
           NEW j \in Instances, NEW q \in Parts(j)'
    PROVE  \E r \in Parts(j) : Base(q) = Base(r) /\ Memory(q) \subseteq Memory(r)
<1>1. CASE sim' = sim /\ user' = user
  BY <1>1 DEF Parts
<1>2. CASE StartIteration
  BY <1>2, StartEffect
<1>3. CASE \E i \in Instances : TakeEndSnapshot(i)
  BY <1>3, TakeEffect
<1>4. CASE RollbackIteration \/ RedoIteration \/ (StartBatch /\ batch # 0)
  <2>1. /\ pc \in {"decide", "batch"} /\ user' = OnUsers(UserRollback, Local(nb))
        /\ \E res \in BOOLEAN : CallSims("rollback", SimRollback, nb, res)
    <3>1. CASE StartBatch /\ batch # 0
      BY <3>1 DEF StartBatch
    <3>2. CASE (RollbackIteration \/ RedoIteration) /\ RollbackAll
      BY <3>2, Zenon DEF RollbackAll, RollbackIteration, RedoIteration
    <3> QED
      BY <1>4, <3>1, <3>2 DEF RollbackIteration, RedoIteration
  <2>2. PICK res \in BOOLEAN : CallSims("rollback", SimRollback, nb, res)
    BY <2>1
  <2>3. /\ Sound /\ nb \in Nat
        /\ \A k \in Instances : IF k < nb THEN AtLeastOne(k) ELSE AtMostOne(k)
    BY <2>1 DEF IInv, KeptInv, Busy, RunnerOK
  <2>4. \E r \in Parts(j) : Base(q) = Base(r) /\ Memory(q) \subseteq Memory(r)
    BY <2>1, <2>2, <2>3, RollbackEffect
  <2> QED
    BY <2>4
<1>5. CASE StartBatch /\ batch = 0
  BY <1>1, <1>5 DEF StartBatch, partVars
<1> QED
  BY <1>1, <1>2, <1>3, <1>4, <1>5 DEF NeededFails, Join, DecideFails, ComputeCosts

\* Nothing but a commit moves the timeline.
LEMMA TimelineKept ==
    ASSUME IInv, TInv, Next, ~CommitPeriod
    PROVE  Timeline' = Timeline
<1>1. CASE pc \in Stopped
  <2>1. ~Runner /\ \A i \in Instances : thr[i].pc = "idle"
    <3>1. ~Runner
      BY <1>1 DEF Runner, StartIteration, NeededFails, StartBatch, Join, RollbackIteration,
                  RedoIteration, CommitPeriod, DecideFails, Stopped
    <3> QED
      BY <1>1, <3>1, NoThread DEF Stopped
  <2>2. UNCHANGED vars
    BY <2>1 DEF Next, Finished, Thread, TakeEndSnapshot, StepInstance, ComputeCosts, InWindow
  <2> QED
    BY <2>2 DEF vars, Timeline
<1>2. CASE pc \notin Stopped
  <2>1. OneBase
    BY <1>2 DEF TInv, Stopped
  <2>2. CASE \E i \in Instances : StepInstance(i)
    BY <2>1, <2>2, StepEffect, BaseKept
  <2>3. CASE ~(\E i \in Instances : StepInstance(i))
    <3>1. \/ StartIteration \/ NeededFails \/ StartBatch \/ Join
          \/ RollbackIteration \/ RedoIteration \/ DecideFails
          \/ \E i \in Instances : TakeEndSnapshot(i) \/ ComputeCosts(i)
      BY <1>2, <2>3, Zenon DEF Next, Runner, Thread, Finished
    <3> QED
      BY <2>1, <3>1, QuietSteps, BaseKept
  <2> QED
    BY <2>2, <2>3
<1> QED
  BY <1>1, <1>2

\* A commit keeps the whole steps of the assignment period, whether or not the
\* prediction goes further.
LEMMA CommitWhole ==
    ASSUME Aligned, start \in Nat, start < EndTime
    PROVE  CommitSteps = Whole /\ Whole \in Nat
<1>1. /\ EndPeriod \in Nat /\ EndAssign \in Nat /\ start < EndPeriod /\ start <= EndAssign
  BY UpdatesCover
<1>2. EndAssign <= EndPeriod
  BY Constants DEF Aligned, EndAssign, EndPeriod, MinOf
<1>3. EndAssign - start \in Nat /\ Whole \in Nat
  BY <1>1, DivisionBounds, Constants DEF Whole
<1>4. CASE ~EndedDue
  <2> DEFINE n == CeilDiv(EndPeriod - start, Dt)
             x == (n - 1) * Dt
  <2>1. EndPeriod - start \in Nat /\ EndPeriod - start > 0
    BY <1>1
  <2>2. /\ n \in Nat /\ n > 0 /\ n * Dt >= EndPeriod - start /\ x < EndPeriod - start
    BY <2>1, CeilDivBounds, Constants
  <2>3. n - 1 \in Nat /\ x \in Nat /\ n * Dt = x + Dt
    BY <2>2, Constants
  <2> HIDE DEF x, n
  <2>4. start + x \in Nat /\ start + x < EndPeriod
    BY <1>1, <2>2, <2>3
  <2>5. OnGrid(start + x)
    BY <2>3 DEF OnGrid, x
  <2>6. start + x + Dt <= EndAssign
    BY <1>1, <1>4, <2>3, <2>4, <2>5, Constants DEF EndedDue
  <2>7. n * Dt = EndAssign - start
    BY <1>1, <1>2, <2>2, <2>3, <2>6, Constants
  <2>8. (EndAssign - start) \div Dt = n
    <3>1. n * Dt <= EndAssign - start /\ EndAssign - start < n * Dt + Dt
      BY <1>1, <2>7, Constants
    <3> QED
      BY <1>3, <2>2, <3>1, WholeSteps
  <2> QED
    BY <1>3, <1>4, <2>8 DEF CommitSteps, Whole, n
<1> QED
  BY <1>3, <1>4 DEF CommitSteps

\* One more step at the time of the history keeps it clocked.
LEMMA StepClocked ==
    ASSUME NEW l \in Histories, Clocked(l), NEW e, e.at = Len(l) * Dt, NEW q, q = Append(l, e)
    PROVE  Clocked(q)
<1>1. Len(l) \in Nat /\ DOMAIN l = 1 .. Len(l)
  BY DEF Histories
<1>2. /\ DOMAIN q = 1 .. Len(l) + 1 /\ q[Len(l) + 1] = e
      /\ \A k \in 1 .. Len(l) : q[k] = l[k]
  BY DEF Histories
<1>3. ASSUME NEW k \in DOMAIN q PROVE q[k].at = (k - 1) * Dt
  <2>1. CASE k \in 1 .. Len(l)
    BY <1>1, <1>2, <2>1 DEF Clocked
  <2>2. CASE k = Len(l) + 1
    <3>1. k - 1 = Len(l)
      BY <1>1, <2>2
    <3> QED
      BY <1>2, <2>2, <3>1
  <2> QED
    BY <1>1, <1>2, <2>1, <2>2
<1> QED
  BY <1>3 DEF Clocked

\* The clock of a thread is that of the records it steps.
LEMMA ThreadClock ==
    ASSUME IInv, TInv, CInv, NEW i \in Instances, thr[i].pc = "run", NEW r \in Parts(i)
    PROVE  r.log \in Histories /\ Len(r.log) * Dt = thr[i].time
<1>1. pc = "join" /\ thr[i].ok /\ start \in Nat /\ Sound
  BY DEF IInv, ThreadInv, RunnerOK
<1>2. Walk(i) /\ Len(Timeline) * Dt = start
  BY <1>1 DEF TInv, WalkInv, CInv, Busy
<1>3. PICK n \in Nat : thr[i].time = start + n * Dt /\ Extended(r.log, Timeline, n, Plan(i))
  BY <1>2 DEF Walk
<1>4. Timeline \in Histories /\ r.log \in Histories
  BY <1>1, TimelineHistory, PartRecords, RecordFields
<1> DEFINE m == Len(Timeline)
<1>5. m \in Nat /\ m * Dt = start /\ Len(r.log) = m + n
  BY <1>2, <1>3, <1>4 DEF Extended, Histories
<1> HIDE DEF m
<1>6. (m + n) * Dt = m * Dt + n * Dt
  BY <1>3, <1>5, Constants
<1> QED
  BY <1>3, <1>4, <1>5, <1>6

\* The histories stay clocked.
LEMMA MemoryClocked ==
    ASSUME IInv, TInv, CInv, Next, NEW j \in Instances, NEW q \in Parts(j)',
           NEW l \in Memory(q)
    PROVE  Clocked(l)
<1>1. ASSUME NEW r \in Parts(j), Memory(q) \subseteq Memory(r) PROVE Clocked(l)
  BY <1>1 DEF CInv
<1>2. CASE CommitPeriod
  BY <1>1, <1>2, CommitEffect
<1>3. CASE \E i \in Instances : StepInstance(i)
  <2>1. PICK i \in Instances : StepInstance(i)
    BY <1>3
  <2>2. thr[i].pc = "run" /\ Sound
    BY <2>1 DEF StepInstance, InWindow, IInv
  <2>3. PICK r \in Parts(j) :
           /\ q.snaps = r.snaps
           /\ q = r \/ (j = i /\ q.log = Append(r.log, StepRecord(i)))
    BY <2>1, StepEffect
  <2>4. \A h \in Memory(r) : Clocked(h)
    BY DEF CInv
  <2>5. Memory(q) \subseteq Memory(r) \cup {q.log} /\ r.log \in Memory(r)
    BY <2>3 DEF Memory
  <2>6. CASE q = r
    BY <1>1, <2>6
  <2>7. CASE j = i /\ q.log = Append(r.log, StepRecord(i))
    <3>1. r.log \in Histories /\ Len(r.log) * Dt = thr[i].time
      BY <2>2, <2>7, ThreadClock
    <3>2. StepRecord(i).at = Len(r.log) * Dt
      BY <3>1 DEF StepRecord
    <3>3. Clocked(q.log)
      BY <2>4, <2>5, <2>7, <3>1, <3>2, StepClocked
    <3> QED
      BY <2>4, <2>5, <3>3
  <2> QED
    BY <2>3, <2>6, <2>7
<1>4. CASE Finished
  BY <1>1, <1>4 DEF Finished, vars, Parts
<1>5. CASE ~CommitPeriod /\ ~(\E i \in Instances : StepInstance(i)) /\ ~Finished
  <2>1. \/ StartIteration \/ NeededFails \/ StartBatch \/ Join
        \/ RollbackIteration \/ RedoIteration \/ DecideFails
        \/ \E i \in Instances : TakeEndSnapshot(i) \/ ComputeCosts(i)
    BY <1>5, Zenon DEF Next, Runner, Thread
  <2>2. PICK r \in Parts(j) : Memory(q) \subseteq Memory(r)
    BY <2>1, QuietSteps
  <2> QED
    BY <1>1, <2>2
<1> QED
  BY <1>2, <1>3, <1>4, <1>5

\* A commit before the last one ends at the next multiple of the assignment period.
LEMMA CommitClock ==
    ASSUME IInv, IInv', TInv, CInv, Aligned, CommitPeriod, pc' = "iteration"
    PROVE  Len(Timeline') * Dt = clock'
<1>1. /\ pc = "decide" /\ clock' = EndAssign /\ period' = period + 1 /\ Sound
  BY DEF CommitPeriod, IInv
<1>2. /\ start \in Nat /\ start = period * AssignLen /\ period \in Nat /\ period < NPeriods
      /\ clock' = period' * AssignLen
  BY <1>1 DEF IInv, RunnerOK, PeriodInv, Busy, Stopped
<1>3. start < EndTime
  BY <1>2, PeriodStarts
<1>4. EndAssign = start + AssignLen
  <2>1. (period + 1) * AssignLen = period * AssignLen + AssignLen
    BY <1>2, Constants
  <2> QED
    BY <1>1, <1>2, <2>1
<1>5. Len(Timeline) * Dt = start
  BY <1>1 DEF CInv, Busy
<1>6. /\ CommitSteps = Whole /\ Whole \in Nat
      /\ Extended(Timeline', Timeline, CommitSteps, Plan(0))
  BY <1>2, <1>3, CommitWhole, CommitAdds
<1>7. Whole * Dt = AssignLen
  <2>1. EndAssign - start = AssignLen
    BY <1>2, <1>4, Constants
  <2>2. AssignLen = (AssignLen \div Dt) * Dt + (AssignLen % Dt) /\ AssignLen % Dt = 0
        /\ AssignLen \div Dt \in Nat
    BY DivisionBounds, Constants DEF Aligned
  <2> DEFINE d == AssignLen \div Dt
  <2>3. Whole = d
    BY <2>1 DEF Whole
  <2> HIDE DEF d
  <2>4. d \in Nat /\ AssignLen = d * Dt + 0
    BY <2>2 DEF d
  <2> QED
    BY <2>3, <2>4, Constants
<1> DEFINE m == Len(Timeline)
           w == Whole
<1>8. m \in Nat /\ m * Dt = start /\ Len(Timeline') = m + w /\ w \in Nat /\ w * Dt = AssignLen
  BY <1>1, <1>5, <1>6, <1>7, TimelineHistory DEF Extended, Histories
<1> HIDE DEF m, w
<1>9. (m + w) * Dt = m * Dt + w * Dt
  BY <1>8, Constants
<1> QED
  BY <1>1, <1>4, <1>8, <1>9

\* Nothing has been simulated at first, at time 0.
LEMMA InitClocks == Init => CInv
<1> SUFFICES ASSUME Init PROVE CInv
  OBVIOUS
<1>1. /\ pc = "iteration" /\ clock = 0
      /\ \A s \in Sims, i \in Instances : sim[s][i].log = <<>> /\ sim[s][i].snaps = <<>>
      /\ \A u \in Users, i \in Instances : user[u][i].log = <<>> /\ user[u][i].snaps = <<>>
  BY DEF Init
<1>2. \A i \in Instances : \A r \in Parts(i) : r.log = <<>> /\ r.snaps = <<>>
  BY <1>1 DEF Parts
<1>3. \A i \in Instances : \A r \in Parts(i) : Base(r) = <<>> /\ Memory(r) = {<<>>}
  BY <1>2, Dropping
<1>4. Timeline = <<>>
  BY <1>3, FirstPart DEF Timeline
<1>5. Clocked(<<>>)
  BY DEF Clocked
<1>6. Len(Timeline) * Dt = 0
  <2>1. Len(Timeline) = 0
    BY <1>4
  <2> QED
    BY <2>1, Constants
<1> QED
  BY <1>1, <1>3, <1>5, <1>6 DEF CInv, Busy

\* Every step, and none, keeps the clocks.
LEMMA NextClocks ==
    ASSUME Aligned, IInv, IInv', TInv, CInv, [Next]_vars
    PROVE  CInv'
<1>1. CASE UNCHANGED vars
  <2>1. \A i \in Instances : Parts(i)' = Parts(i)
    BY <1>1 DEF vars, Parts
  <2>2. Timeline' = Timeline
    BY <1>1 DEF vars, Timeline
  <2> QED
    BY <1>1, <2>1, <2>2 DEF CInv, vars
<1>2. CASE Next
  <2>1. \A i \in Instances : \A q \in Parts(i)' : \A l \in Memory(q) : Clocked(l)
    BY <1>2, MemoryClocked
  <2>2. CASE CommitPeriod
    <3>1. pc' = "iteration" \/ pc' \notin Busy
      BY <2>2 DEF CommitPeriod, Goto, Busy
    <3>2. pc' = "iteration" => Len(Timeline') * Dt = clock'
      BY <2>2, CommitClock
    <3>3. pc' = "iteration" => pc' \notin Busy
      BY DEF Busy
    <3> QED
      BY <2>1, <3>1, <3>2, <3>3 DEF CInv
  <2>3. CASE ~CommitPeriod
    <3>1. Timeline' = Timeline
      BY <1>2, <2>3, TimelineKept
    <3>2. /\ pc' = "iteration" => Len(Timeline) * Dt = clock'
          /\ pc' \in Busy => Len(Timeline) * Dt = start'
      <4>1. CASE StartIteration
        BY <4>1 DEF StartIteration, Goto, CInv, Busy
      <4>2. CASE StartBatch \/ Join
        BY <4>2 DEF StartBatch, Join, Goto, CInv, Busy
      <4>3. CASE RollbackIteration \/ RedoIteration
        <5>1. pc = "decide" /\ RollbackAll /\ start' = start
          BY <4>3 DEF RollbackIteration, RedoIteration
        <5>2. clock' = start /\ pc' \in {"iteration", "failed"}
          BY <5>1 DEF RollbackAll, Goto
        <5> QED
          BY <5>1, <5>2 DEF CInv, Busy
      <4>4. CASE NeededFails \/ DecideFails
        BY <4>4 DEF NeededFails, DecideFails, Busy
      <4>5. CASE \E i \in Instances : Thread(i)
        <5>1. pc' = pc /\ start' = start /\ clock' = clock
          BY <4>5 DEF Thread, TakeEndSnapshot, StepInstance, ComputeCosts, runnerVars
        <5> QED
          BY <5>1 DEF CInv
      <4>6. CASE Finished
        BY <4>6 DEF Finished, vars, CInv
      <4> QED
        BY <1>2, <2>3, <4>1, <4>2, <4>3, <4>4, <4>5, <4>6 DEF Next, Runner
    <3> QED
      BY <2>1, <3>1, <3>2 DEF CInv
  <2> QED
    BY <2>2, <2>3
<1> QED
  BY <1>1, <1>2

\* The histories keep their clocks.
THEOREM ClockInvariance ==
    ASSUME Reliable, Aligned
    PROVE  Spec => [](IInv /\ TInv /\ CInv)
<1>1. Init => IInv /\ TInv /\ CInv
  BY InitInvariant, InitTimeline, InitClocks
<1>2. IInv /\ TInv /\ CInv /\ [Next]_vars => (IInv /\ TInv /\ CInv)'
  BY NextInvariant, NextTimeline, NextClocks
<1> QED
  BY <1>1, <1>2, PTL DEF Spec

\* The time the runner passes to Step is the simulator's own: no step of any history
\* is missing or done twice.
THEOREM StepsAreOnTime ==
    ASSUME Reliable, Aligned
    PROVE  Spec => []ClocksAgree
<1>1. CInv => ClocksAgree
  <2> SUFFICES ASSUME CInv PROVE ClocksAgree
    OBVIOUS
  <2>1. \A i \in Instances : \A r \in Parts(i) : Clocked(r.log)
    BY DEF CInv, Memory
  <2> QED
    BY <2>1 DEF ClocksAgree, Clocked, Parts
<1> QED
  BY <1>1, ClockInvariance, PTL

\* Between two periods every simulator stands at the runner's clock, the end of the
\* periods done (what AssignmentPeriodCommit keeps of the prediction).
THEOREM CommitsReachTheClock ==
    ASSUME Reliable, Aligned
    PROVE  Spec => []CommittedUpToClock
<1>1. IInv /\ TInv /\ CInv => CommittedUpToClock
  <2> SUFFICES ASSUME IInv, TInv, CInv, pc = "iteration"
               PROVE  /\ clock = MinOf(period * AssignLen, EndTime)
                      /\ \A s \in Sims, i \in Instances : Len(sim[s][i].log) * Dt = clock
    BY DEF CommittedUpToClock
  <2>1. period \in Nat /\ period < NPeriods /\ clock = period * AssignLen
    BY DEF IInv, RunnerOK, PeriodInv, Stopped
  <2>2. clock = MinOf(period * AssignLen, EndTime)
    BY <2>1, PeriodStarts DEF MinOf
  <2>3. Len(Timeline) * Dt = clock
    BY DEF CInv
  <2>4. \A s \in Sims, i \in Instances : sim[s][i].log = Timeline
    BY DEF TInv, RestInv, AtBase, Parts
  <2> QED
    BY <2>2, <2>3, <2>4
<1> QED
  BY <1>1, ClockInvariance, PTL
--------------------------------------------------------------------------------
(* The timeline of the run is that of CommittedTimeline *)

\* The simulation lasts a whole number of time steps.
WholeSimulation == EndTime % Dt = 0

\* What a commit adds is a segment of the abstract timeline.
LEMMA CommitSegment ==
    ASSUME IInv, TInv, CInv, Aligned, CommitDue, NEW h \in Histories,
           Extended(h, Timeline, CommitSteps, Plan(0))
    PROVE  /\ asg[0] \in Assignments
           /\ h = Timeline \o Abstract!Segment(Abstract!Reached, asg[0])
<1>1. pc = "decide" /\ (redoing \/ ~RedoLastIteration) /\ Sound
  BY DEF CommitDue, IInv
<1>2. /\ start \in Nat /\ start = period * AssignLen /\ period \in Nat /\ period < NPeriods
      /\ Len(Timeline) * Dt = start /\ Timeline \in Histories
  BY <1>1, TimelineHistory DEF IInv, RunnerOK, PeriodInv, Busy, Stopped, CInv
<1>3. start < EndTime
  BY <1>2, PeriodStarts
<1>4. asg[0] \in Assignments
  BY FirstPart DEF IInv, RunnerOK
<1>5. (~trajOff) = TRUE
  BY <1>1, Zenon DEF TInv, ChoiceInv, OutputsOff, Busy
<1>6. CommitSteps = Whole /\ Whole \in Nat
  BY <1>2, <1>3, CommitWhole
<1> DEFINE g == [k \in 1 .. Whole |-> [at |-> start + (k - 1) * Dt, asg |-> asg[0], out |-> TRUE]]
<1>7. Abstract!Segment(Abstract!Reached, asg[0]) = g
  <2>1. Abstract!Reached = start
    BY <1>2 DEF Abstract!Reached
  <2>2. Abstract!PeriodEnd(start) = EndAssign
    BY DEF Abstract!PeriodEnd, EndAssign, MinOf
  <2> QED
    BY <2>1, <2>2 DEF Abstract!Segment, Whole
<1>8. \A k \in 1 .. Whole : Plan(0)[k - 1] = g[k] /\ g[k] \in [at : Int, asg : Assignments, out : BOOLEAN]
  <2> SUFFICES ASSUME NEW k \in 1 .. Whole
               PROVE  /\ Plan(0)[k - 1] = g[k]
                      /\ g[k] \in [at : Int, asg : Assignments, out : BOOLEAN]
    OBVIOUS
  <2>1. k - 1 \in Nat
    BY <1>6
  <2>2. Plan(0)[k - 1] = [at |-> start + (k - 1) * Dt, asg |-> asg[0], out |-> ~trajOff]
    BY <2>1, PlanStep, FirstPart
  <2>3. start + (k - 1) * Dt \in Int
    BY <1>2, <2>1, Constants
  <2> QED
    BY <1>4, <1>5, <2>2, <2>3
<1>9. g \in Seq([at : Int, asg : Assignments, out : BOOLEAN]) /\ Len(g) = Whole
  <2> DEFINE R == [at : Int, asg : Assignments, out : BOOLEAN]
  <2>1. DOMAIN g = 1 .. Whole /\ g = [k \in DOMAIN g |-> g[k]]
    OBVIOUS
  <2>2. \A k \in 1 .. Whole : g[k] \in R
    BY <1>8
  <2> HIDE DEF g, R
  <2>3. g \in [1 .. Whole -> R]
    BY <2>1, <2>2
  <2>4. g \in Seq(R)
    BY <1>6, <2>3, SeqDef
  <2>5. Len(g) = Whole
    BY <1>6, <2>1, <2>4, LenProperties
  <2> QED
    BY <2>4, <2>5 DEF R
<1> HIDE DEF g
<1>10. h = Timeline \o g
  <2> DEFINE R == [at : Int, asg : Assignments, out : BOOLEAN]
             t == Timeline
  <2>1. t \in Seq(R) /\ g \in Seq(R) /\ h \in Seq(R)
    BY <1>2, <1>9 DEF Histories
  <2>2. /\ Len(h) = Len(t) + Len(g)
        /\ \A k \in 1 .. Len(t) : h[k] = t[k]
        /\ \A k \in 1 .. Len(g) : h[Len(t) + k] = g[k]
    BY <1>6, <1>8, <1>9 DEF Extended
  <2> HIDE DEF R, t
  <2>3. t \o g \in Seq(R) /\ Len(t \o g) = Len(t) + Len(g)
    BY <2>1
  <2>4. ASSUME NEW k \in 1 .. Len(h) PROVE h[k] = (t \o g)[k]
    <3>1. (t \o g)[k] = IF k <= Len(t) THEN t[k] ELSE g[k - Len(t)]
      BY <2>1, <2>2
    <3>2. CASE k <= Len(t)
      <4>1. k \in 1 .. Len(t)
        BY <2>1, <3>2
      <4> QED
        BY <2>2, <3>1, <3>2, <4>1
    <3>3. CASE ~(k <= Len(t))
      <4>1. k - Len(t) \in 1 .. Len(g) /\ Len(t) + (k - Len(t)) = k
        BY <2>1, <2>2, <3>3
      <4> QED
        BY <2>2, <3>1, <3>3, <4>1
    <3> QED
      BY <3>2, <3>3
  <2>5. h = t \o g
    BY <2>1, <2>2, <2>3, <2>4, SeqEqual
  <2> QED
    BY <2>5 DEF t
<1> QED
  BY <1>4, <1>7, <1>10

\* What a commit does to the first record, even when a later participant fails.
LEMMA FirstCommitted ==
    ASSUME IInv, CommitPeriod
    PROVE  Timeline' = Timeline \/ Timeline' = Committed(sim[1][0])
<1>1. /\ pc = "decide" /\ CommitDue /\ Sound /\ HasSnaps(0, IF ended THEN 2 ELSE 1)
      /\ 0 \in Instances /\ 1 \in Sims
  BY FirstPart DEF CommitPeriod, CommitDue, IInv, KeptInv
<1>2. sim'[1][0] \in {sim[1][0], SimCommit(sim[1][0])}
  <2>1. PICK res \in BOOLEAN : \/ CallSims("commit", SimCommit, nb, res)
                               \/ ~res /\ "write" \in FailingCalls /\ UNCHANGED sim
    BY Zenon DEF CommitPeriod
  <2>2. CASE UNCHANGED sim
    BY <2>2
  <2>3. CASE CallSims("commit", SimCommit, nb, res)
    <3>1. PICK called : sim' = OnSims(SimCommit, called)
      BY <2>3, Zenon DEF CallSims
    <3> QED
      BY <1>1, <3>1 DEF OnSims
  <2> QED
    BY <2>1, <2>2, <2>3
<1>3. sim[1][0] \in SimRecord /\ Depth(sim[1][0]) = IF ended THEN 2 ELSE 1
  BY <1>1 DEF Sound, HasSnaps
<1>4. Base(SimCommit(sim[1][0])) = Committed(sim[1][0])
  BY <1>3, Committing
<1> QED
  BY <1>2, <1>4 DEF Timeline

\* A commit ends the run exactly when the timeline has reached the end.
LEMMA CommitEnds ==
    ASSUME IInv, IInv', TInv, CInv, Aligned, WholeSimulation, CommitPeriod, pc' # "failed"
    PROVE  pc' = IF Len(Timeline') * Dt >= EndTime THEN "ended" ELSE "iteration"
<1>1. /\ pc = "decide" /\ clock' = EndAssign /\ period' = period + 1 /\ Sound /\ Sound'
      /\ pc' = IF period + 1 >= NPeriods THEN "ended" ELSE "iteration"
  BY DEF CommitPeriod, Goto, IInv
<1>2. /\ start \in Nat /\ start = period * AssignLen /\ period \in Nat /\ period < NPeriods
  BY <1>1 DEF IInv, RunnerOK, PeriodInv, Busy, Stopped
<1>3. start < EndTime
  BY <1>2, PeriodStarts
<1>4. CASE period + 1 >= NPeriods
  <2>1. NPeriods \in Nat /\ NPeriods * AssignLen >= EndTime
    BY CeilDivBounds, Constants DEF NPeriods
  <2>2. NPeriods * AssignLen <= (period + 1) * AssignLen
    BY <1>2, <1>4, <2>1, Monotone, Constants
  <2>3. (period + 1) * AssignLen = start + AssignLen
    BY <1>2, Constants
  <2>4. EndAssign = EndTime
    BY <1>2, <2>1, <2>2, <2>3, Constants DEF EndAssign, MinOf
  <2>5. /\ CommitSteps = Whole /\ Whole \in Nat
        /\ Extended(Timeline', Timeline, CommitSteps, Plan(0))
    BY <1>1, <1>2, <1>3, CommitWhole, CommitAdds
  <2> DEFINE e == EndTime \div Dt
             m == Len(Timeline)
             w == Whole
  <2>6. e \in Nat /\ EndTime = e * Dt
    BY DivisionBounds, Constants DEF WholeSimulation
  <2>7. m \in Nat /\ m * Dt = start /\ Len(Timeline') = m + w
    BY <1>1, <2>5, TimelineHistory DEF Extended, Histories, CInv, Busy
  <2>8. EndTime - start \in Nat
    BY <1>2, <1>3, Constants
  <2>9. w = (EndTime - start) \div Dt
    BY <2>4 DEF Whole
  <2> HIDE DEF e, m, w
  <2>10. m <= e /\ (e - m) * Dt = EndTime - start
    <3>1. m * Dt < e * Dt
      BY <1>3, <2>6, <2>7
    <3>2. m < e
      BY <2>6, <2>7, <3>1, Monotone, Constants
    <3>3. (e - m) * Dt = e * Dt - m * Dt
      BY <2>6, <2>7, Constants
    <3> QED
      BY <2>6, <2>7, <3>2, <3>3
  <2>11. w = e - m
    <3>1. e - m \in Nat
      BY <2>6, <2>7, <2>10
    <3>2. (e - m) * Dt <= EndTime - start /\ EndTime - start < (e - m) * Dt + Dt
      BY <2>8, <2>10, Constants
    <3> QED
      BY <2>8, <2>9, <3>1, <3>2, WholeSteps
  <2>12. Len(Timeline') * Dt = EndTime
    <3>1. m + w = e
      BY <2>6, <2>7, <2>11
    <3> QED
      BY <2>6, <2>7, <3>1
  <2> QED
    BY <1>1, <1>4, <2>12, Constants
<1>5. CASE ~(period + 1 >= NPeriods)
  <2>1. pc' = "iteration" /\ clock' = period' * AssignLen /\ period' \in Nat /\ period' < NPeriods
    BY <1>1, <1>5 DEF IInv, RunnerOK, PeriodInv, Stopped
  <2>2. Len(Timeline') * Dt = clock'
    BY <2>1, CommitClock
  <2>3. clock' < EndTime /\ clock' \in Nat
    BY <2>1, PeriodStarts DEF IInv, RunnerOK
  <2>4. ~(clock' >= EndTime)
    BY <2>3, Constants
  <2>5. ~(Len(Timeline') * Dt >= EndTime)
    BY <2>2, <2>4
  <2> QED
    BY <2>1, <2>5
<1> QED
  BY <1>4, <1>5

\* A commit is a commit of the abstract timeline, or a failure.
LEMMA CommitImplements ==
    ASSUME IInv, IInv', TInv, CInv, Aligned, WholeSimulation, CommitPeriod
    PROVE  Abstract!Next
<1>1. pc = "decide" /\ CommitDue /\ Sound
  BY DEF CommitPeriod, CommitDue, IInv
<1>2. CASE pc' # "failed"
  <2>1. Timeline' \in Histories /\ Extended(Timeline', Timeline, CommitSteps, Plan(0))
    BY <1>2, CommitAdds, TimelineHistory DEF IInv
  <2>2. \E a \in Assignments : Timeline' = Timeline \o Abstract!Segment(Abstract!Reached, a)
    BY <1>1, <2>1, CommitSegment
  <2>3. pc' = IF Len(Timeline') * Dt >= EndTime THEN "ended" ELSE "iteration"
    BY <1>2, CommitEnds
  <2> QED
    BY <1>1, <2>2, <2>3 DEF Abstract!Next, Abstract!CommitPeriod, Stopped
<1>3. CASE pc' = "failed"
  <2>1. CASE Timeline' = Timeline
    BY <1>1, <1>3, <2>1 DEF Abstract!Next, Abstract!Fail, Stopped
  <2>2. CASE Timeline' = Committed(sim[1][0])
    <3>1. Timeline' \in Histories
      BY TimelineHistory DEF IInv
    <3>2. Extended(Timeline', Timeline, CommitSteps, Plan(0))
      BY <1>1, <2>2, FirstPart DEF TInv, DoneInv, Ready
    <3>3. \E a \in Assignments : Timeline' = Timeline \o Abstract!Segment(Abstract!Reached, a)
      BY <1>1, <3>1, <3>2, CommitSegment
    <3> QED
      BY <1>1, <1>3, <3>3 DEF Abstract!Next, Abstract!CommitPeriod, Stopped
  <2> QED
    BY <2>1, <2>2, FirstCommitted
<1> QED
  BY <1>2, <1>3

\* Everything else leaves the abstract timeline alone, but may fail.
LEMMA StepImplements ==
    ASSUME Aligned, WholeSimulation, IInv, IInv', TInv, CInv, [Next]_vars
    PROVE  [Abstract!Next]_(Abstract!avars)
<1>1. CASE UNCHANGED vars
  BY <1>1 DEF vars, Timeline, Abstract!avars
<1>2. CASE Next /\ CommitPeriod
  BY <1>2, CommitImplements
<1>3. CASE Next /\ ~CommitPeriod /\ ~(UNCHANGED vars)
  <2>1. Timeline' = Timeline
    BY <1>3, TimelineKept
  <2>2. pc \notin Stopped /\ pc' # "ended"
    <3>1. CASE Runner
      BY <1>3, <3>1 DEF Runner, StartIteration, NeededFails, StartBatch, Join, RollbackIteration,
                        RedoIteration, RollbackAll, DecideFails, Goto, Stopped
    <3>2. CASE \E i \in Instances : Thread(i)
      <4>1. PICK i \in Instances : thr[i].pc = "run" /\ pc' = pc
        BY <3>2 DEF Thread, TakeEndSnapshot, StepInstance, ComputeCosts, InWindow, runnerVars
      <4>2. pc = "join"
        BY <4>1 DEF IInv, ThreadInv
      <4> QED
        BY <4>1, <4>2 DEF Stopped
    <3> QED
      BY <1>3, <3>1, <3>2 DEF Next, Finished
  <2>3. CASE pc' = "failed"
    BY <2>1, <2>2, <2>3 DEF Abstract!Next, Abstract!Fail, Stopped
  <2>4. CASE pc' # "failed"
    BY <2>1, <2>2, <2>4 DEF Abstract!avars, Stopped
  <2> QED
    BY <2>3, <2>4
<1> QED
  BY <1>1, <1>2, <1>3

\* With its retries, its batches and its failures, a run is a run of
\* CommittedTimeline: what is committed grows by whole assignment periods, each under
\* one assignment and with its outputs, and is never taken back.
THEOREM RunImplementsTimeline ==
    ASSUME Reliable, Aligned, WholeSimulation
    PROVE  Spec => ImplementsTimeline
<1>1. Init => Abstract!Init
  <2> SUFFICES ASSUME Init PROVE Abstract!Init
    OBVIOUS
  <2>1. pc = "iteration" /\ sim[1][0].log = <<>> /\ sim[1][0].snaps = <<>>
    BY FirstPart DEF Init
  <2> QED
    BY <2>1 DEF Abstract!Init, Timeline, Base, Stopped
<1>2. (IInv /\ TInv /\ CInv) /\ (IInv /\ TInv /\ CInv)' /\ [Next]_vars
         => [Abstract!Next]_(Abstract!avars)
  BY StepImplements
<1> QED
  BY <1>1, <1>2, ClockInvariance, PTL DEF Spec, ImplementsTimeline, Abstract!Spec

\* When no rollback between two batches fails, each batch simulates from the start of the period ("we have
\* to rollback between each batch"): the run in which this is violated ignores one
\* that failed.
THEOREM BatchesStartFromBase ==
    ASSUME Reliable
    PROVE  Spec => []BatchStartsFromBase
<1>1. IInv /\ TInv => BatchStartsFromBase
  <2> SUFFICES ASSUME IInv, TInv, pc = "join", NEW i \in Instances, thr[i].pc = "run",
                      thr[i].time = start, NEW s \in Sims
               PROVE  sim[s][i].log = Base(sim[s][i])
    BY DEF BatchStartsFromBase
  <2>1. thr[i].ok /\ start \in Nat /\ Sound /\ sim[s][i] \in Parts(i)
    BY DEF IInv, ThreadInv, RunnerOK, Parts
  <2>2. PICK n \in Nat : thr[i].time = start + n * Dt
                         /\ Extended(sim[s][i].log, Timeline, n, Plan(i))
    BY <2>1 DEF TInv, WalkInv, Walk
  <2>3. n = 0
    <3>1. n * Dt \in Nat /\ n * Dt = 0
      BY <2>1, <2>2, Constants
    <3> QED
      BY <3>1, Constants
  <2>4. sim[s][i].log \in Histories /\ Timeline \in Histories
    BY <2>1, PartRecords, RecordFields, TimelineHistory
  <2>5. sim[s][i].log = Timeline
    BY <2>2, <2>3, <2>4, NoStep, SameHistory
  <2>6. Base(sim[s][i]) = Timeline
    BY <2>1 DEF TInv, OneBase
  <2> QED
    BY <2>5, <2>6
<1> QED
  BY <1>1, TimelineInvariance, PTL

================================================================================
