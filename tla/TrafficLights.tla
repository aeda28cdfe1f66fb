------------------------------ MODULE TrafficLights ------------------------------
(***************************************************************************)
(* A traffic light controller of SymuVia (ControleurDeFeux) and its        *)
(* priority for guided vehicles.  The plan of signals is a cycle of        *)
(* sequences.  When a priority bus passes an upstream sensor, the          *)
(* controller replaces the plan by one that ends with an endless sequence  *)
(* green for the bus ("pre-priority", then "priority" once the bus is in   *)
(* the controlled zone); when the last bus leaves the zone, a return plan  *)
(* brings the signals back in phase with the cycle ("post-priority").      *)
(*                                                                         *)
(* Times are in ticks, Ticks to the second: a return plan stretches or     *)
(* shrinks sequences, and the tick stands for a double.  A time step       *)
(* lasts one second.  Not modelled: a plan imposed from outside            *)
(* (SendSignalPlan, ReplaceSignalPlan), several plans over the day.        *)
(***************************************************************************)
EXTENDS Integers, Sequences, SequencesExt

CONSTANTS
    Plan,         \* the sequences of the cycle: [len, signals], a signal being
                  \* [mv, green, orange, delay]: durations of one movement
    Movements,    \* the pairs of an upstream and a downstream link
    Crossing,     \* the sets of two movements whose paths cross
    Buses,        \* the priority buses
    Movement,     \* Movement[b]: the movement of bus b through the controller
    SharedSeq,    \* SharedSeq[b]: the sequence its line shares, 0 if priority is total
    Estimates,    \* the times to reach the zone computed when a bus is detected
    VertMin,      \* m_dbDureeVertMin
    Degagement,   \* m_dbDureeRougeDegagement
    Ticks,        \* ticks in a second
    Duration,     \* m_dbDureeSimu
    Period,       \* time between two instants at which a snapshot may be asked for
    LastInstant,  \* bound: the last instant simulated
    MaxRollbacks  \* bound: rollbacks in a behaviour

\* DBL_MAX: the length of an endless sequence.
Endless == 10 ^ 8

\* The instant at which the base plan starts is 0.
Whole(t) == t % Ticks = 0

SignalledIn(i) == {Plan[i].signals[j].mv : j \in DOMAIN Plan[i].signals}

Signals == [mv : Movements, green : Int, orange : Int, delay : Nat]

\* Crossing movements have no sequence in common, and priority lines do not cross each
\* other, as the code supposes, nor the movements of the sequence they share.  No
\* instant or clearance is near DBL_MAX.
ASSUME TrafficLightsAssumption ==
    /\ Ticks \in Nat \ {0}
    /\ {VertMin, Degagement, Duration, LastInstant, MaxRollbacks} \subseteq Nat
    /\ Whole(LastInstant) /\ LastInstant + Ticks + Degagement < Endless
    /\ Period \in Nat \ {0}
    /\ Estimates \subseteq Nat /\ \A e \in Estimates : Whole(e)
    /\ Plan \in Seq([len : Nat \ {0}, signals : Seq(Signals)]) /\ Len(Plan) > 0
    /\ \A i \in DOMAIN Plan :
          /\ Whole(Plan[i].len) /\ Plan[i].len < Endless /\ Plan[i].signals # <<>>
          /\ \A pair \in Crossing : ~ pair \subseteq SignalledIn(i)
    /\ \A pair \in Crossing : \E a, b \in Movements : pair = {a, b}
    /\ IsFiniteSet(Buses)
    /\ \A a, b \in Buses : {Movement[a], Movement[b]} \notin Crossing
    /\ \A b \in Buses : SharedSeq[b] # 0 =>
          \A mv \in SignalledIn(SharedSeq[b]) : {mv, Movement[b]} \notin Crossing
    /\ Movement \in [Buses -> Movements]
    /\ SharedSeq \in [Buses -> 0..Len(Plan)]

NoPlan == [seqs |-> <<>>, cycle |-> 0]

VARIABLES
    cdf,       \* the controller: mode, m_LstVGPs, m_pPDFEx and its dates, return
               \* sequences, whether m_pPDFEx is the object held by the snapshot
    instant,   \* m_dbInstSimu
    place,     \* where each bus is (external state)
    snap,      \* the snapshot taken, if any
    rollbacks

vars == <<cdf, instant, place, snap, rollbacks>>

NoSnapshot == [instant |-> -1]

Init ==
    /\ cdf = [mode |-> "N", vgps |-> {}, ex |-> NoPlan, deb |-> 0, fin |-> 0,
              ret1 |-> 1, ret2 |-> 1, shared |-> FALSE, due |-> 0]
    /\ instant = 0 /\ place = [b \in Buses |-> "upstream"]
    /\ snap = NoSnapshot /\ rollbacks = 0

--------------------------------------------------------------------------------
(* Plans and sequences *)

\* EndOf(seqs)[i]: the time from the start of a plan to the end of its sequence i.
EndOf(seqs) ==
    LET end[i \in 0..Len(seqs)] ==
            IF i = 0 THEN 0
            ELSE IF seqs[i].len = Endless THEN Endless ELSE end[i - 1] + seqs[i].len
    IN  end

TotalLength(seqs) == EndOf(seqs)[Len(seqs)]

\* PlanDeFeux with these sequences: AddSequence adds each length to the cycle.
PlanOf(seqs) == [seqs |-> seqs, cycle |-> TotalLength(seqs)]

\* The cycle is truncated to seconds; (int)DBL_MAX leaves the instant as it is.
InCycle(sec, cycle) ==
    IF cycle = Endless THEN sec ELSE sec % (cycle \div Ticks)

\* PlanDeFeux::GetSequence, sec seconds after the start of the plan: the index of
\* the sequence and the time elapsed in it.
SequenceAt(plan, sec) ==
    LET at == Ticks * InCycle(sec, plan.cycle)
        end == EndOf(plan.seqs)
        i == CHOOSE i \in DOMAIN plan.seqs :
                end[i] > at /\ \A j \in 1..(i - 1) : end[j] <= at
    IN  [index |-> i, elapsed |-> at - end[i - 1], seq |-> plan.seqs[i]]

Base == PlanOf(Plan)

\* Nor are two cycles.
ASSUME CycleAssumption == 2 * TotalLength(Plan) < Endless

BaseAt(t) == SequenceAt(Base, t \div Ticks)

\* Variant to test the properties with: the last sequence is not followed by the first.
NextUnwrapped(i) == i + 1

\* PlanDeFeux::GetNextSequence.
NextSequence(i) == (i % Len(Plan)) + 1

\* A plan of priority read after its end is discarded, by any reader.
AfterReading(c, t) ==
    IF c.ex # NoPlan /\ t >= c.deb /\ t > c.fin
    THEN [c EXCEPT !.ex = NoPlan, !.shared = FALSE] ELSE c

\* ControleurDeFeux::GetSequence.
GetSequence(c, t) ==
    IF c.ex # NoPlan /\ c.deb <= t /\ t <= c.fin
    THEN SequenceAt(c.ex, (t - c.deb) \div Ticks)
    ELSE BaseAt(t)

SignalColour(s, elapsed) ==
    IF elapsed < s.delay THEN "red"
    ELSE IF elapsed < s.delay + s.green THEN "green"
    ELSE IF elapsed < s.delay + s.green + s.orange THEN "orange" ELSE "red"

\* The signals of the sequence for the movement, the first of which decides.
SignalsOf(seq, mv) == {i \in DOMAIN seq.signals : seq.signals[i].mv = mv}
GetSignalActif(seq, mv) == seq.signals[Min(SignalsOf(seq, mv))]

\* GetCouleurFeux.
Colour(c, t, mv) ==
    LET at == GetSequence(c, t)
    IN  IF SignalsOf(at.seq, mv) = {} THEN "red"
        ELSE SignalColour(GetSignalActif(at.seq, mv), at.elapsed)

\* Variant to test the properties with: the time already spent is forgotten.
EndOfWholeSequence(t, at) == t + at.seq.len

\* The end of the sequence met at t.
EndOfSequence(t, at) == t + at.seq.len - at.elapsed

\* A turn of the loop of GetInstantVertSuivant, in the base plan: from v.at to the end of
\* the sequence met there.  A sequence without a signal for the movement met twice ends it.
NextTurn(v, ref, mv) ==
    LET at == BaseAt(v.at)
        signals == SignalsOf(at.seq, mv)
        start == GetSignalActif(at.seq, mv).delay + v.at
    IN  [at |-> EndOfSequence(v.at, at),
         green |-> IF signals # {} /\ start > ref THEN start ELSE v.green,
         elapsed |-> at.elapsed,
         seen |-> IF signals = {} THEN v.seen \cup {at.index} ELSE v.seen,
         abort |-> signals = {} /\ at.index \in v.seen]

\* GetInstantVertSuivant: the next time of green of a movement that is red at ref, or
\* Duration.
NextGreen(ref, mv) ==
    LET turns == 2 * Len(Plan) + 1
        visit[k \in 0..turns] ==
            IF k = 0
            THEN NextTurn([at |-> ref, green |-> 0, elapsed |-> 0, seen |-> {}, abort |-> FALSE],
                          ref, mv)
            ELSE LET v == visit[k - 1]
                 IN  IF v.abort \/ v.green - v.elapsed >= ref \/ v.at >= Duration
                     THEN v ELSE NextTurn(v, ref, mv)
        last == visit[turns]
    IN  IF last.abort \/ last.at >= Duration THEN Duration
        ELSE last.green - last.elapsed

--------------------------------------------------------------------------------
(* Update: detection of a bus by its upstream sensor *)

LongestSoFar(set) == CHOOSE x \in set : \A y \in set : y <= x

\* CDFSequence::GetMinDuree and GetMinDureeVert.
MinLength(seq) == VertMin + LongestSoFar({seq.signals[i].delay : i \in DOMAIN seq.signals})
MinGreen(seq) ==
    LET greens == {seq.signals[i].green : i \in DOMAIN seq.signals}
    IN  CHOOSE x \in greens : \A y \in greens : x <= y

\* The signal added for a bus: green as long as the sequence.
PrioritySignal(mv, seq) == [mv |-> mv, green |-> seq.len, orange |-> 0, delay |-> 0]
WithSignal(seq, mv) == [seq EXCEPT !.signals = Append(@, PrioritySignal(mv, seq))]
EndlessFor(mv, signals) == WithSignal([len |-> Endless, signals |-> signals], mv)

\* The first signal of the movement never turns green.
RedFor(seq, mv) ==
    [seq EXCEPT !.signals =
        [i \in DOMAIN @ |->
            IF @[i].mv = mv /\ \A j \in 1..(i - 1) : @[j].mv # mv
            THEN [@[i] EXCEPT !.green = 0] ELSE @[i]]]
AllRed(seq) ==
    [seq EXCEPT !.signals = [i \in DOMAIN @ |-> [@[i] EXCEPT !.green = 0]]]

\* Does bus b share the sequence it would meet?
Shares(b, zone) == SharedSeq[b] = zone.index

\* Variant to test the properties with: the delay before the plan starts is ignored.
RespectedFromNow(b, t, est, zone, deb) ==
    PlanOf(<<[zone.seq EXCEPT !.len = est - Degagement], EndlessFor(Movement[b], <<>>)>>)

\* The three ways of preparing the arrival of bus b in est, detected at t while
\* sequence act has run for act.elapsed; zone is the sequence the bus would meet and
\* deb the time at which the plan starts.
MinimumRespected(b, t, est, zone, deb) ==     \* type 1
    LET kept == [zone.seq EXCEPT !.len = est - (deb - t) - Degagement]
    IN  IF Shares(b, zone)
        THEN \* lengthened after the cycle of the plan is added up
             [PlanOf(<<kept>>) EXCEPT !.seqs =
                 <<WithSignal([kept EXCEPT !.len = Endless], Movement[b])>>]
        ELSE PlanOf(<<kept, EndlessFor(Movement[b], <<>>)>>)

CurrentShortened(b, zone) ==                  \* type 2
    PlanOf(<<RedFor([zone.seq EXCEPT !.len = MinLength(zone.seq)], Movement[b]),
             AllRed([zone.seq EXCEPT !.len = Degagement]),
             EndlessFor(Movement[b], <<>>)>>)

\* Variant to test the properties with: the sequence the bus meets is always copied.
ProlongedWithZone(b, arrival, zone, act, deb) ==
    PlanOf(<<[act.seq EXCEPT !.len = arrival - deb],
             EndlessFor(Movement[b], zone.seq.signals)>>)

CurrentProlonged(b, arrival, zone, act, deb) ==   \* type 3
    PlanOf(<<[act.seq EXCEPT !.len = arrival - deb],
             EndlessFor(Movement[b], IF Shares(b, zone) THEN zone.seq.signals ELSE <<>>)>>)

\* The first priority bus: any return plan is dropped and a plan of priority built.
DetectFirst(c, b, t, est) ==
    LET zone == BaseAt(t + est)
        act == BaseAt(t)
        previous == IF zone.index = 1 THEN Len(Plan) ELSE zone.index - 1
        early == t + est - zone.elapsed - Plan[previous].len
        start == IF t <= early THEN early ELSE t
        kind == IF zone.index # act.index THEN 3
                ELSE IF act.elapsed + est >= MinLength(zone.seq) + Degagement THEN 1 ELSE 2
        deb == IF kind = 1 THEN start ELSE start - act.elapsed
    IN  [c EXCEPT
            !.mode = "O", !.vgps = {b}, !.shared = FALSE,
            !.ex = CASE kind = 1 -> MinimumRespected(b, t, est, zone, deb)
                     [] kind = 2 -> CurrentShortened(b, zone)
                     [] kind = 3 -> CurrentProlonged(b, t + est, zone, act, deb),
            !.deb = deb, !.fin = Endless,
            !.ret1 = NextSequence(act.index),
            !.ret2 = NextSequence(NextSequence(act.index)),
            !.due = IF kind = 2 THEN deb + MinLength(zone.seq) + Degagement ELSE t + est]

\* A further one: its signal is added to the last sequence.
DetectFurther(c, b) ==
    LET n == Len(c.ex.seqs)
    IN  [c EXCEPT !.vgps = @ \cup {b},
                  !.ex.seqs[n] = WithSignal(@, Movement[b])]

Detect(c, b, t, est) ==
    IF c.vgps = {} THEN DetectFirst(c, b, t, est) ELSE DetectFurther(c, b)

--------------------------------------------------------------------------------
(* Update: entry into the zone, exit from it, return to the cycle *)

\* One of the buses processed passes the entry of the zone.
PrePriority(c, entering) ==
    IF c.mode = "O" /\ c.vgps \cap entering # {}
    THEN [c EXCEPT !.mode = "P"] ELSE c

\* The sequence of the cycle stretched or shrunk, and its greens with it.
Resized(seq, len) ==
    [len |-> len,
     signals |-> [i \in DOMAIN seq.signals |->
                    [seq.signals[i] EXCEPT !.green = @ + len - seq.len]]]

\* The same, the change of the green counted from another length.
ResizedFrom(seq, from, len) == Resized([seq EXCEPT !.len = from], len)

\* len * num / den, for a len and a den of whole seconds.
Share(len, num, den) == ((len \div Ticks) * num) \div (den \div Ticks)

\* The length of the sequences of the cycle that follow sequence i, up to sequence last.
LengthUpTo(i, last) ==
    LET n == Len(Plan)
        turns == ((last + n - i - 1) % n) + 1
        length[k \in 0..turns] ==
            IF k = 0 THEN 0 ELSE length[k - 1] + Plan[((i + k - 1) % n) + 1].len
    IN  length[turns]

\* Variant to test the properties with: the time already spent is counted again.
TimeToEndFromStart(t, last) == BaseAt(t).seq.len + LengthUpTo(BaseAt(t).index, last)

\* The time from t to the end of sequence last of the cycle, which follows the current one.
TimeToEnd(t, last) ==
    LET at == BaseAt(t) IN at.seq.len - at.elapsed + LengthUpTo(at.index, last)

\* Variant to test the properties with: the minimum is not looked at.
RaisedNever(seq) == seq

\* Lengthened so that each green lasts VertMin.
Raised(seq) ==
    IF MinGreen(seq) >= VertMin THEN seq
    ELSE [len |-> seq.len + VertMin - MinGreen(seq),
          signals |-> [i \in DOMAIN seq.signals |->
                [seq.signals[i] EXCEPT !.green = IF @ < VertMin THEN VertMin ELSE @]]]

\* The return plan: the two sequences that followed the one under way when the bus
\* was detected, resized to end with the second of them in the cycle; a third one is
\* added when they shrink and a green gets shorter than the minimum.
ReturnPlan(c, t) ==
    LET r1 == Plan[c.ret1]   r2 == Plan[c.ret2]   r3 == Plan[NextSequence(c.ret2)]
        back == TimeToEnd(t, c.ret2)
        usual == r1.len + r2.len
        s1 == Resized(r1, Share(r1.len, back, usual))
        s2 == Resized(r2, Share(r2.len, back, usual))
        tooShort == back < usual /\ (MinGreen(s1) < VertMin \/ MinGreen(s2) < VertMin)
        Length(s, r) == IF MinGreen(s) < VertMin THEN Raised(s).len ELSE r.len
        back3 == r3.len + Length(s1, r1) + Length(s2, r2)
        usual3 == r1.len - BaseAt(t).elapsed + r2.len + r3.len
        Third(s, r) == ResizedFrom(Raised(s), r.len, Share(r.len, back3, usual3))
    IN  IF tooShort THEN PlanOf(<<Third(s1, r1), Third(s2, r2),
                                Resized(r3, Share(r3.len, back3, usual3))>>)
        ELSE PlanOf(<<s1, s2>>)

\* Buses that have passed the exit of the zone, or left the network, are forgotten;
\* without any left the return plan starts.
Priority(c, t, leaving) ==
    IF c.mode # "P" THEN c
    ELSE LET left == c.vgps \ leaving
             plan == ReturnPlan(c, t)
         IN  IF left # {} THEN [c EXCEPT !.vgps = left]
             ELSE [c EXCEPT !.mode = "Q", !.vgps = {}, !.ex = plan, !.shared = FALSE,
                            !.deb = t, !.fin = t + plan.cycle]

\* Variant to test the properties with: the mode ends one step late.
PostPriorityLate(c, t) ==
    IF c.mode = "Q" /\ t > c.fin
    THEN [c EXCEPT !.mode = "N", !.ex = NoPlan, !.shared = FALSE, !.fin = 0, !.vgps = {}]
    ELSE c

\* The end of the return plan.
PostPriority(c, t) ==
    IF c.mode = "Q" /\ t >= c.fin
    THEN [c EXCEPT !.mode = "N", !.ex = NoPlan, !.shared = FALSE, !.fin = 0, !.vgps = {}]
    ELSE c

\* Update at t, when the buses of detected pass their sensor, those of entering the
\* entry of the zone, and those of leaving its exit or have no link any more.
Update(c, t, detected, est, entering, leaving) ==
    LET seen[k \in 0..Len(detected)] ==
            IF k = 0 THEN c ELSE Detect(seen[k - 1], detected[k], t, est)
    IN  PostPriority(Priority(PrePriority(seen[Len(detected)], entering), t, leaving), t)

--------------------------------------------------------------------------------
(* The steps of the simulation *)

Places == {"upstream", "approach", "zone", "out", "gone"}

\* Where a bus can be after a step.  It enters the zone and leaves it by its own
\* means, but crosses only when its signal is not red; it may also end its service.
NextPlaces(b, t) ==
    CASE place[b] = "upstream" -> {"upstream", "approach"}
      [] place[b] = "approach" -> {"approach", "zone", "gone"}
      [] place[b] = "zone" ->
            IF Colour(cdf, t, Movement[b]) = "red" THEN {"zone", "gone"} ELSE {"zone", "out", "gone"}
      [] OTHER -> {place[b]}

Moved(from, to) == {b \in Buses : place[b] \in from /\ place'[b] \in to}

\* A plan shared with the snapshot is modified in it too.
SharedPlan == IF cdf'.shared /\ snap # NoSnapshot THEN [snap EXCEPT !.cdf.ex = cdf'.ex] ELSE snap

\* A time step: vehicles move and read their lights, then Update runs.  Buses
\* detected in the same step are taken in the order of the lines.
Step ==
    /\ instant < LastInstant
    /\ instant' = instant + Ticks
    /\ place' \in [Buses -> Places]
    /\ \A b \in Buses : place'[b] \in NextPlaces(b, instant')
    /\ \E est \in Estimates :
          cdf' = Update(AfterReading(cdf, instant'), instant',
                        SetToSeq(Moved({"upstream"}, {"approach"})), est,
                        Moved({"approach"}, {"zone"}),
                        Moved({"zone"}, {"out"}) \cup {b \in Buses : place'[b] = "gone"})
    /\ snap' = SharedPlan
    /\ UNCHANGED rollbacks

\* A mesoscopic node asks for the colour at a later time.
ReadAhead ==
    /\ \E t \in {cdf.fin + Ticks} \cap (instant..LastInstant) :
          AfterReading(cdf, t) # cdf /\ cdf' = AfterReading(cdf, t)
    /\ UNCHANGED <<instant, place, snap, rollbacks>>

\* SimulationSnapshot::Backup copies the plan, adding up its lengths again.
TakeSnapshot ==
    /\ snap = NoSnapshot /\ instant % Period = 0
    /\ snap' = [instant |-> instant, place |-> place,
                cdf |-> [cdf EXCEPT !.ex = PlanOf(@.seqs), !.shared = FALSE]]
    /\ cdf' = [cdf EXCEPT !.shared = FALSE]
    /\ UNCHANGED <<instant, place, rollbacks>>

\* Restore: the buses are found again by their identifier, those that had left the
\* network are not; the plan restored is that of the snapshot, not a copy.
Restore ==
    /\ snap # NoSnapshot /\ rollbacks < MaxRollbacks
    /\ rollbacks' = rollbacks + 1
    /\ instant' = snap.instant /\ place' = snap.place
    /\ cdf' = [snap.cdf EXCEPT
                 !.vgps = {b \in @ : snap.place[b] # "gone"},
                 !.shared = (@ \/ snap.cdf.ex # NoPlan)]
    /\ UNCHANGED snap

Next == Step \/ ReadAhead \/ TakeSnapshot \/ Restore

Spec == Init /\ [][Next]_vars

--------------------------------------------------------------------------------
(* Properties *)

Plans == [seqs : Seq([len : Int, signals : Seq(Signals)]), cycle : Int]
Controllers == [mode : {"N", "O", "P", "Q"}, vgps : SUBSET Buses, ex : Plans, deb : Int,
                fin : Int, ret1 : DOMAIN Plan, ret2 : DOMAIN Plan, shared : BOOLEAN, due : Int]
Snapshots == [instant : 0..LastInstant, place : [Buses -> Places], cdf : Controllers]

TypeOK ==
    /\ cdf \in Controllers
    /\ instant \in 0..LastInstant /\ rollbacks \in 0..MaxRollbacks
    /\ place \in [Buses -> Places]
    /\ snap # NoSnapshot => snap \in Snapshots

\* What Update asserts when it detects a further bus: while buses are processed there is
\* a plan of priority, without an end, and the mode is pre-priority or priority.  The
\* other way round a priority mode has buses to process, but for those a restore does
\* not find again.  Post-priority lasts at most until the end of the return plan.
PriorityPlanInForce ==
    /\ cdf.vgps # {} => cdf.mode \in {"O", "P"}
    /\ cdf.mode \in {"O", "P"} => cdf.ex # NoPlan /\ cdf.fin = Endless
    /\ cdf.mode = "P" \/ (cdf.mode = "O" /\ rollbacks = 0) => cdf.vgps # {}
    /\ cdf.mode = "Q" => instant < cdf.fin
    /\ cdf.mode = "N" => cdf.ex = NoPlan

\* Movements whose paths cross are never both allowed, whatever plan is in force when
\* the vehicles read it in the step that begins.
NoConflictingGreens ==
    \A t \in {instant, instant + Ticks}, pair \in Crossing :
        \E mv \in pair : Colour(cdf, t, mv) = "red"

\* From the time the first bus was expected in the zone, or from the end of the shortest
\* clearance, every bus being processed has green until it has passed.
ProcessedBusGreen ==
    cdf.mode \in {"O", "P"} /\ instant >= cdf.due =>
        \A b \in cdf.vgps : Colour(cdf, instant, Movement[b]) = "green"

\* A return plan of two sequences ends just when the sequence that follows them begins in
\* the cycle: the controller is back in phase.
ReturnInPhase ==
    cdf.mode = "Q" /\ Len(cdf.ex.seqs) = 2 =>
        LET at == BaseAt(cdf.fin)
        IN  Whole(cdf.fin) /\ at.elapsed = 0 /\ at.index = NextSequence(cdf.ret2)

\* In a return plan every signal keeps the minimum of green, whatever time is left to
\* be back in phase.
ReturnKeepsMinGreen ==
    cdf.mode = "Q" => \A i \in DOMAIN cdf.ex.seqs : MinGreen(cdf.ex.seqs[i]) >= VertMin

\* After the first instant, where 0 is taken for an answer, the next green announced to a
\* mesoscopic node for a red light is the first time of green; the end of the simulation,
\* far enough, is announced only when there is none.
NextGreenIsGreen ==
    cdf.mode = "N" /\ instant > 0 =>
        \A mv \in Movements :
            LET next == NextGreen(instant, mv)
            IN  Colour(cdf, instant, mv) = "red" =>
                    /\ next < Duration => Colour(cdf, next, mv) = "green"
                    /\ \A t \in {i * Ticks : i \in (instant \div Ticks)..(Duration \div Ticks)} :
                          t < next => Colour(cdf, t, mv) # "green"
================================================================================
