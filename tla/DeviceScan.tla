----------------------------- MODULE DeviceScan -----------------------------
(***************************************************************************)
(* One run of the debugger up to its report (main.go, diagnostics.go):     *)
(* probe every target, sort, choose what to do, and for a diagnosis visit  *)
(* the reachable devices again and print what was found.  Each pass over   *)
(* the devices is a WorkerPool of its own.                                 *)
(***************************************************************************)
EXTENDS WorkerPool, Functions

CONSTANT Targets   \* the addresses to probe, in the order of targetsFromCIDR

Count == Len(Targets)

ASSUME TargetsAssumption ==
  /\ Targets \in Seq(Nat)
  /\ \A i, j \in 1..Count : i < j => Targets[i] < Targets[j]

VARIABLES
  json,      \* --json
  phase,     \* "probe", "menu", "diagnose", "print", or how the run ended
  reports    \* report.DeviceReports

vars == <<json, phase, reports, pool>>

Report == [IP : {Targets[i] : i \in 1..Count}, SSHReachable : BOOLEAN, Diagnosed : BOOLEAN]

TypeOK ==
  /\ json \in BOOLEAN
  /\ phase \in {"probe", "menu", "diagnose", "print", "done", "action", "crashed"}
  /\ reports \in {<<>>} \cup [1..Count -> Report]
  /\ next \in 1..Count + 1
  /\ queued \in 0..Count
  /\ closed \in BOOLEAN
  /\ held \in [Workers -> 1..Count \cup {Idle, Left}]
  /\ results \in Seq([index : 1..Count, report : Report])
  /\ capacity \in Nat

Init ==
  /\ json \in BOOLEAN
  /\ phase = "probe"
  /\ reports = <<>>
  /\ next = 1 /\ queued = 0 /\ closed = FALSE
  /\ held = [w \in Workers |-> Idle]
  /\ results = <<>>
  /\ capacity = Count
-----------------------------------------------------------------------------
(* A pass over the devices.                                                *)

MoreMutant == next <= Count + 1   \* off by one

More == next <= Count

\* The diagnosis skips the devices that did not answer the probe.
Wanted == phase = "diagnose" => reports[next].SSHReachable

HandOver(w) ==
  /\ phase \in {"probe", "diagnose"}
  /\ More /\ Wanted
  /\ Feed(w)
  /\ UNCHANGED <<json, phase, reports>>

PassOver ==
  /\ phase = "diagnose"
  /\ More /\ ~Wanted
  /\ Skip
  /\ UNCHANGED <<json, phase, reports>>

EndOfLoop ==
  /\ phase \in {"probe", "diagnose"}
  /\ ~More
  /\ CloseJobs
  /\ UNCHANGED <<json, phase, reports>>

\* The device accepts the key within the time limit, or it does not.
ProbeTarget(ip) ==
  {[IP |-> ip, SSHReachable |-> b, Diagnosed |-> FALSE] : b \in BOOLEAN}

\* The device keeps the mark of the probe.
DiagnoseTargetMutant(ip) ==
  {[IP |-> ip, SSHReachable |-> TRUE, Diagnosed |-> b] : b \in BOOLEAN}

\* The connection is made anew and may fail this time; once it is made, a
\* command that fails only leaves its field empty.
DiagnoseTarget(ip) ==
  {[IP |-> ip, SSHReachable |-> b, Diagnosed |-> b] : b \in BOOLEAN}

Work(w) ==
  /\ phase \in {"probe", "diagnose"} /\ w \in Busy
  /\ \E r \in IF phase = "probe" THEN ProbeTarget(Targets[held[w]])
                                 ELSE DiagnoseTarget(reports[held[w]].IP) :
       Deliver(w, r)
  /\ UNCHANGED <<json, phase, reports>>

Return(w) ==
  /\ phase \in {"probe", "diagnose"}
  /\ Leave(w)
  /\ UNCHANGED <<json, phase, reports>>

SortMutant(rs) == {rs}   \* not sorted

\* sort.Slice by address; it is not stable.
SortDeviceReports(rs) ==
  {out \in {[i \in DOMAIN rs |-> rs[p[i]]] : p \in Bijection(DOMAIN rs, DOMAIN rs)} :
     \A i, j \in DOMAIN rs : i < j => out[i].IP <= out[j].IP}

\* scanSSHReachability returns the reports as they came.
CollectProbe ==
  /\ phase = "probe" /\ Drained
  /\ reports' \in SortDeviceReports([k \in 1..Len(results) |-> results[k].report])
  /\ phase' = "menu"
  /\ UNCHANGED <<json, pool>>

\* Receiving from a closed and empty channel gives the zero value.
Received(k) ==
  IF k <= Len(results) THEN results[k]
  ELSE [index |-> 1, report |-> [IP |-> 0, SSHReachable |-> FALSE, Diagnosed |-> FALSE]]

\* Filed by arrival instead of index.
FiledMutant ==
  [i \in DOMAIN reports |-> IF i <= queued THEN Received(i).report ELSE reports[i]]

\* The copy of reports after the queued results have been filed in it.
Filed ==
  [i \in DOMAIN reports |->
     LET mine == {k \in 1..queued : Received(k).index = i}
     IN IF mine = {} THEN reports[i]
        ELSE Received(CHOOSE k \in mine : \A j \in mine : j <= k).report]

CollectDiagnosis ==
  /\ phase = "diagnose" /\ Drained
  /\ reports' \in SortDeviceReports(Filed)
  /\ phase' = IF json THEN "done" ELSE "print"
  /\ UNCHANGED <<json, pool>>
-----------------------------------------------------------------------------
(* Between and after the passes.                                           *)

Reachable == {i \in DOMAIN reports : reports[i].SSHReachable}

\* --json always diagnoses.  Otherwise a run that reached nothing reports
\* that, and else a flag or the action menu decides.
StartDiagnosis ==
  /\ phase = "menu" /\ (json \/ Reachable # {})
  /\ phase' = "diagnose"
  /\ Open(Len(reports))
  /\ UNCHANGED <<json, reports>>

NobodyReached ==
  /\ phase = "menu" /\ ~json /\ Reachable = {}
  /\ phase' = "print"
  /\ UNCHANGED <<json, reports, pool>>

\* A guarded action instead of the diagnosis.
StartAction ==
  /\ phase = "menu" /\ ~json /\ Reachable # {}
  /\ phase' = "action"
  /\ UNCHANGED <<json, reports, pool>>

\* printTextReport reads the diagnostics of every device marked reachable;
\* a nil pointer among them would end the run with a panic.
PrintTextReport ==
  /\ phase = "print"
  /\ phase' = IF \E i \in Reachable : ~reports[i].Diagnosed THEN "crashed" ELSE "done"
  /\ UNCHANGED <<json, reports, pool>>
-----------------------------------------------------------------------------
Pass ==
  \/ \E w \in Workers : HandOver(w) \/ Work(w) \/ Return(w)
  \/ PassOver \/ EndOfLoop \/ CollectProbe \/ CollectDiagnosis

Next == Pass \/ StartDiagnosis \/ NobodyReached \/ StartAction \/ PrintTextReport

Spec == Init /\ [][Next]_vars

\* Every goroutine that can run does; a worker's job is bounded by the time
\* limits of the connection and of its commands, given that a device which
\* has accepted the connection also opens sessions or drops the connection.
FairSpec ==
  /\ Spec
  /\ \A w \in Workers : WF_vars(Work(w)) /\ WF_vars(Return(w))
  /\ WF_vars((\E w \in Workers : HandOver(w)) \/ PassOver \/ EndOfLoop)
  /\ WF_vars(CollectProbe \/ CollectDiagnosis)
  /\ WF_vars(StartDiagnosis \/ NobodyReached \/ StartAction)
  /\ WF_vars(PrintTextReport)
-----------------------------------------------------------------------------
(* Properties.                                                             *)

\* A worker that has a report can always send it: the buffer has room for
\* every device that was handed over, so the wait for the workers before the
\* first result is read cannot last for ever.
ResultsNeverBlock == Busy # {} => Len(results) < capacity

\* After the probe there is one report for every target, in the order of the
\* targets, whatever the order in which the workers finished; the diagnosis
\* moves none of them.
ReportsMatchTargets ==
  phase \notin {"probe", "crashed"} =>
    Len(reports) = Count /\ \A i \in 1..Count : reports[i].IP = Targets[i]

\* The text report never meets a reachable device without diagnostics, though
\* reachability is decided twice, by the probe and by the diagnosis.
NeverCrashes == phase # "crashed"

\* The scan does what a survey one device after the other does.
Verdict(r) == IF r.Diagnosed THEN "diagnosed"
              ELSE IF r.SSHReachable THEN "reachable" ELSE "unreachable"

ResultFor(i) == {results[k].report : k \in {k \in DOMAIN results : results[k].index = i}}

SurveyPass == CASE phase \in {"probe", "menu"} -> "probe"
                [] phase = "diagnose" -> "diagnose"
                [] OTHER -> "over"

SurveyLeft == CASE phase = "probe" -> {i \in 1..Count : ResultFor(i) = {}}
                [] phase = "diagnose" -> {i \in Reachable : ResultFor(i) = {}}
                [] OTHER -> {}

Only(S) == CHOOSE r \in S : TRUE

SurveyVerdict ==
  [i \in 1..Count |->
     IF phase \in {"probe", "diagnose"} /\ ResultFor(i) # {}
     THEN Verdict(Only(ResultFor(i)))
     ELSE IF phase = "probe" THEN "unknown" ELSE Verdict(reports[i])]

Survey == INSTANCE DeviceSurvey WITH
  pass <- SurveyPass, left <- SurveyLeft, verdict <- SurveyVerdict

ScanIsSurvey == Survey!Spec

\* The run comes to its report or its action.
ScanEnds == <>(phase \in {"done", "action"})
=============================================================================
