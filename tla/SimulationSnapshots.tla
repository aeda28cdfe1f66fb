--------------------------- MODULE SimulationSnapshots ---------------------------
(***************************************************************************)
(* The stack of simulation snapshots of a SymuVia network (Affectation,    *)
(* SimulationSnapshot) and the output files that follow it.  Between a     *)
(* snapshot and its fate the outputs go to temporary files of the newest   *)
(* snapshot; they are copied to the main files when the snapshot is        *)
(* validated and removed when it is discarded.  Two writers with their own *)
(* idea of where to write: the XML documents hang on the last snapshot of  *)
(* the stack, the CSV writer keeps a pointer and names its files by an     *)
(* index.  A third one, of travel times, gathers the steps of a period     *)
(* before it writes anything: what it has gathered is state of the network *)
(* that a snapshot must keep, for a period may straddle it.                *)
(*                                                                         *)
(* The network's state is abstracted to the history of its time steps; the *)
(* actions here are the exported calls, free of any client.                *)
(***************************************************************************)
EXTENDS Integers, SequencesExt

CONSTANTS
    MaxSteps,      \* bound: time steps in a history
    MaxSnapshots,  \* bound: snapshots on the stack
    MaxRollbacks,  \* bound: rollbacks in a behaviour
    OutputPeriod   \* GetTravelTimesOutputPeriod(), in time steps

ASSUME SnapshotsAssumption ==
    /\ {MaxSteps, MaxSnapshots, MaxRollbacks} \subseteq Nat
    /\ OutputPeriod \in Nat \ {0}

VARIABLES
    hist,       \* state of the network: the time steps that led to it
    snaps,      \* m_SimulationSnapshots
    xmlMain,    \* the main XML file
    csvMain,    \* the main CSV file
    disk,       \* the temporary CSV files, by the index in their name
    cur,        \* m_pCurrentSimulationSnapshot: its place in snaps, 0 for NULL
    travel,     \* the TravelTimesOutputManager: m_nPeriode and the data of the period
    ttMain,     \* m_TravelTimes: the periods written, each the steps it is about
    trajOut,    \* whether trajectories are being output in XML
    rollbacks,  \* how many rollbacks so far, so that a step done again is another one
    finished    \* FinSimuTrafic has been called

stackVars == <<hist, snaps, xmlMain, csvMain, disk, cur, travel, ttMain, rollbacks,
               finished>>
apiVars == <<stackVars, trajOut>>

Init ==
    /\ hist = <<>> /\ snaps = <<>> /\ xmlMain = <<>> /\ csvMain = <<>>
    /\ disk = <<>> /\ cur = 0 /\ rollbacks = 0
    /\ travel = [period |-> 0, data |-> <<>>] /\ ttMain = <<>>
    /\ trajOut = TRUE /\ finished = FALSE

\* A temporary file is opened empty, whatever was there.
Created(files, idx) == [i \in DOMAIN files \cup {idx} |-> IF i = idx THEN <<>> ELSE files[i]]
Removed(files, idx) == [i \in DOMAIN files \ {idx} |-> files[i]]

\* CalculInfoCapteurs at instant n: the data of the step are gathered, and the
\* period closed when its end has been reached.  The first one is opened that way,
\* at the first step, and nothing is written.
PeriodClosed(n) == n >= travel.period * OutputPeriod
Gathered(step) == Append(travel.data, step)
WrittenAt(n, step) ==
    IF PeriodClosed(n) /\ travel.period > 0 THEN <<Gathered(step)>> ELSE <<>>
TravelAfter(n, step) ==
    IF PeriodClosed(n) THEN [period |-> travel.period + 1, data |-> <<>>]
                       ELSE [travel EXCEPT !.data = Gathered(step)]

\* The periods go to the temporary document of the current snapshot, if any.
PeriodsTo(docs, periods) ==
    IF cur = 0 THEN docs ELSE [docs EXCEPT ![cur].periods = @ \o periods]
PeriodsToMain(periods) == IF cur = 0 THEN ttMain \o periods ELSE ttMain

\* One time step: the network moves, and its rows go to the temporary document
\* of the last snapshot and to the file of the CSV writer's snapshot, if any.  The
\* XML row is saved only while trajectories are being output (DoSortieTraj); the
\* CSV one is written whatever the switch says.
TimeStep ==
    /\ ~finished
    /\ Len(hist) < MaxSteps
    /\ LET step == [n |-> Len(hist) + 1, attempt |-> rollbacks, out |-> trajOut]
           row == IF trajOut THEN <<step>> ELSE <<>>
       IN /\ hist' = Append(hist, step)
          /\ LET periods == WrittenAt(step.n, step)
                 docs == PeriodsTo(snaps, periods)
             IN /\ ttMain' = PeriodsToMain(periods)
                /\ IF snaps = <<>>
                   THEN xmlMain' = xmlMain \o row /\ snaps' = docs
                   ELSE /\ snaps' = [docs EXCEPT ![Len(snaps)].xml = @ \o row]
                        /\ UNCHANGED xmlMain
          /\ travel' = TravelAfter(step.n, step)
          /\ IF cur = 0
             THEN csvMain' = Append(csvMain, step) /\ UNCHANGED disk
             ELSE disk' = [disk EXCEPT ![snaps[cur].file] = Append(@, step)] /\ UNCHANGED csvMain
    /\ UNCHANGED <<cur, trajOut, rollbacks, finished>>

--------------------------------------------------------------------------------
(* Affectation: TakeSimulationSnapshot, SimulationRollback, SimulationCommit *)

\* A snapshot as it is when the outputs are switched to its files.
Snapshot(h, kept, idx) ==
    [hist |-> h, travel |-> kept, xml |-> <<>>, periods |-> <<>>, file |-> idx]

\* Backup, then SwitchToTempFiles with the size of the stack as the index.
TakeSimulationSnapshot ==
    /\ ~finished
    /\ Len(snaps) < MaxSnapshots
    /\ snaps' = Append(snaps, Snapshot(hist, travel, Len(snaps)))
    /\ disk' = Created(disk, Len(snaps))
    /\ cur' = Len(snaps) + 1
    /\ UNCHANGED <<hist, xmlMain, csvMain, travel, ttMain, rollbacks, finished>>

\* Variant to test the properties with: the earlier snapshots are not validated.
NoneValidated(files, s) == files

\* ValidateTempFiles: the document of the snapshot itself is added to the main
\* one, but the CSV writer copies the file whose name has no index.
ValidateTempFiles(files, s) ==
    [files EXCEPT !.xml = @ \o s.xml,
                  !.periods = @ \o s.periods,
                  !.csv = IF 0 \in DOMAIN files.disk THEN @ \o files.disk[0] ELSE @]

DiscardTempFiles(files, s) == [files EXCEPT !.disk = Removed(@, s.file)]

\* The loop over the stack: the first k - 1 snapshots are validated, and the
\* files of all of them are removed.
Unwound(k) ==
    FoldLeft(LAMBDA files, i :
                DiscardTempFiles(IF i < k THEN ValidateTempFiles(files, snaps[i]) ELSE files,
                                 snaps[i]),
             [xml |-> xmlMain, periods |-> ttMain, csv |-> csvMain, disk |-> disk],
             [i \in DOMAIN snaps |-> i])

\* The main files and the temporary ones after that.
MainFiles(files) ==
    xmlMain' = files.xml /\ ttMain' = files.periods /\ csvMain' = files.csv

SimulationCommit ==
    /\ ~finished
    /\ LET files == Unwound(Len(snaps) + 1)
       IN MainFiles(files) /\ disk' = files.disk
    /\ snaps' = <<>>
    /\ cur' = 0
    /\ UNCHANGED <<hist, travel, rollbacks, finished>>

\* Variants to test the properties with: the CSV writer is left without its new
\* file, or with the place of the snapshot it wrote for.
NoPlace == 0
PlaceKept == cur

\* Where the CSV writer stands after SwitchToTempFiles of the restored snapshot.
FirstPlace == 1

\* Variant to test the properties with: the data gathered since are kept.
TravelKept(k) == [snaps[k].travel EXCEPT !.data = travel.data]

\* TravelTimesOutputManager::Restore.
RestoredTravel(k) == snaps[k].travel

\* Back to snapshot k (from 1), which becomes the only one and gets new files
\* of index 0.
SimulationRollback(k) ==
    /\ ~finished
    /\ k \in DOMAIN snaps
    /\ rollbacks < MaxRollbacks
    /\ LET files == Unwound(k)
       IN MainFiles(files) /\ disk' = Created(files.disk, 0)
    /\ hist' = snaps[k].hist
    /\ travel' = RestoredTravel(k)
    /\ snaps' = <<Snapshot(snaps[k].hist, snaps[k].travel, 0)>>
    /\ cur' = FirstPlace
    /\ rollbacks' = rollbacks + 1
    /\ UNCHANGED finished

\* The destructor of the TravelTimesOutputManager, in FinSimuTrafic: what is left
\* of a period is written, and the document of the current snapshot is added.
LeftOver ==
    IF travel.period > 0 /\ (travel.period - 1) * OutputPeriod # Len(hist)
    THEN <<travel.data>> ELSE <<>>

FinSimuTrafic ==
    /\ ~finished
    /\ finished' = TRUE
    /\ ttMain' = IF cur = 0 THEN ttMain \o LeftOver
                            ELSE ttMain \o snaps[cur].periods \o LeftOver
    /\ cur' = 0
    /\ UNCHANGED <<hist, snaps, xmlMain, csvMain, disk, travel, trajOut, rollbacks>>

\* SymDisableTrajectoriesOutput.
SwitchOutputs ==
    /\ ~finished
    /\ trajOut' = ~trajOut
    /\ UNCHANGED stackVars

Next ==
    \/ TimeStep
    \/ SwitchOutputs
    \/ FinSimuTrafic
    \/ /\ \/ TakeSimulationSnapshot
          \/ SimulationCommit
          \/ \E k \in 1 .. MaxSnapshots : SimulationRollback(k)
       /\ UNCHANGED trajOut

Spec == Init /\ [][Next]_apiVars
--------------------------------------------------------------------------------
(* Properties *)

Steps == [n : Nat \ {0}, attempt : Nat, out : BOOLEAN]
Travels == [period : Nat, data : Seq(Steps)]

TypeOK ==
    /\ hist \in Seq(Steps) /\ xmlMain \in Seq(Steps) /\ csvMain \in Seq(Steps)
    /\ snaps \in Seq([hist : Seq(Steps), travel : Travels, xml : Seq(Steps),
                      periods : Seq(Seq(Steps)), file : Nat])
    /\ travel \in Travels /\ ttMain \in Seq(Seq(Steps)) /\ finished \in BOOLEAN
    /\ \A idx \in DOMAIN disk : idx \in Nat /\ disk[idx] \in Seq(Steps)
    /\ cur \in 0 .. Len(snaps)
    /\ trajOut \in BOOLEAN /\ rollbacks \in 0 .. MaxRollbacks

\* The rows the steps that led to the current state should have left in the XML
\* document: those of the steps made with the trajectories being output.
Rows == FlattenSeq([i \in DOMAIN hist |-> IF hist[i].out THEN <<hist[i]>> ELSE <<>>])

\* The XML document, main file and temporary ones in the order of the stack,
\* tells the history of the current state: no step lost, none of an abandoned
\* attempt left, none twice.
XmlFollowsHistory ==
    xmlMain \o FlattenSeq([i \in DOMAIN snaps |-> snaps[i].xml]) = Rows

\* The CSV files, main file and temporary ones ("on recopie le contenu des fichiers
\* temporaires dans les fichiers finaux"), tell the whole history of the current
\* state: every step once and in order, those made with the trajectories switched
\* off included, and none of an abandoned attempt.
CsvFollowsHistory ==
    /\ \A i \in DOMAIN snaps : snaps[i].file \in DOMAIN disk
    /\ csvMain \o FlattenSeq([i \in DOMAIN snaps |-> disk[snaps[i].file]]) = hist

\* The steps of the current state between two instants, without the first step of
\* the simulation, which opens the first period and is in none.
StepsIn(from, to) == SubSeq(hist, IF from = 0 THEN 2 ELSE from + 1, to)

\* The travel times, the periods that straddle a snapshot included, tell the
\* history of the current state: each period that has ended is written once, with
\* its own steps and none of an abandoned attempt, and what is being gathered is
\* what follows the last of them.  Once the simulation is over the last period,
\* cut short, is written too.
TravelTimesFollowHistory ==
    LET nb == Len(hist) \div OutputPeriod
        whole == [k \in 1 .. nb |-> StepsIn((k - 1) * OutputPeriod, k * OutputPeriod)]
        rest == StepsIn(nb * OutputPeriod, Len(hist))
        documents == FlattenSeq([i \in DOMAIN snaps |-> snaps[i].periods])
    IN IF finished
       THEN ttMain = whole \o (IF Len(hist) = nb * OutputPeriod THEN <<>> ELSE <<rest>>)
       ELSE ttMain \o documents = whole /\ travel.data = rest

\* The CSV writer's pointer and the stack never part: it writes for the last
\* snapshot when there is one, two snapshots never share a file, and no file
\* outlives its snapshot.
WritersAgree ==
    /\ finished \/ cur = Len(snaps)
    /\ \A i, j \in DOMAIN snaps : snaps[i].file = snaps[j].file => i = j
    /\ DOMAIN disk = {snaps[i].file : i \in DOMAIN snaps}
===================================================================================
