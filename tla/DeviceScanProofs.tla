-------------------------- MODULE DeviceScanProofs --------------------------
(***************************************************************************)
(* Theorems about DeviceScan for every number of workers and targets.      *)
(***************************************************************************)
EXTENDS DeviceScan, FiniteSetTheorems, SequenceTheorems, TLAPS

-----------------------------------------------------------------------------
(* The inductive invariant.                                                *)

Passing == phase \in {"probe", "diagnose"}

\* A device is with a worker, or its report is in the channel.
With(i) == \E w \in Workers : held[w] = i
Sent(i) == \E k \in DOMAIN results : results[k].index = i

\* Every device handed over is in one place.
Counted ==
  /\ IsFiniteSet(Busy)
  /\ Len(results) + Cardinality(Busy) = queued
  /\ queued < next
  /\ capacity = Count

\* No device is in two places.
Once ==
  /\ \A w \in Busy : held[w] < next
  /\ \A k \in DOMAIN results : results[k].index < next
  /\ \A v, w \in Busy : held[v] = held[w] => v = w
  /\ \A k, l \in DOMAIN results : results[k].index = results[l].index => k = l
  /\ \A w \in Busy, k \in DOMAIN results : results[k].index # held[w]

\* No device is forgotten.
Covered ==
  /\ phase = "probe" => queued = next - 1
  /\ phase = "diagnose" =>
       \A i \in 1..next - 1 : reports[i].SSHReachable => With(i) \/ Sent(i)
  /\ closed => next = Count + 1
  /\ \A w \in Workers : held[w] = Left => closed

\* What the reports say in each phase.
Told ==
  /\ phase # "probe" => reports \in [1..Count -> Report]
  /\ phase = "diagnose" =>
       \A k \in DOMAIN results :
         results[k].report.SSHReachable => results[k].report.Diagnosed
  /\ phase = "print" => \A i \in Reachable : reports[i].Diagnosed
  /\ phase # "crashed"

\* Every report is about the device at its position.
Addressed ==
  /\ Passing => \A k \in DOMAIN results :
                  results[k].report.IP = Targets[results[k].index]
  /\ phase # "probe" => \A i \in 1..Count : reports[i].IP = Targets[i]

\* Nothing is diagnosed before the diagnosis.
Fresh ==
  /\ phase = "probe" => \A k \in DOMAIN results : ~results[k].report.Diagnosed
  /\ phase \in {"menu", "diagnose"} => \A i \in 1..Count : ~reports[i].Diagnosed

\* Only devices that answered the probe are handed to the diagnosis.
Chosen ==
  phase = "diagnose" =>
    \A i \in 1..Count : With(i) \/ Sent(i) => reports[i].SSHReachable

IInv == TypeOK /\ Counted /\ Once /\ Covered /\ Told /\ Addressed /\ Fresh /\ Chosen
-----------------------------------------------------------------------------
(* Facts about the operators.                                              *)

\* Sorting only moves the reports, and leaves them in order.
LEMMA Permuting ==
  ASSUME NEW n \in Nat, NEW R, NEW rs \in [1..n -> R],
         NEW out \in SortDeviceReports(rs)
  PROVE  \E p \in [1..n -> 1..n] :
           /\ \A i, j \in 1..n : p[i] = p[j] => i = j
           /\ out = [i \in 1..n |-> rs[p[i]]]
           /\ \A i, j \in 1..n : i < j => out[i].IP <= out[j].IP
<1>1. PICK p \in Bijection(1..n, 1..n) : out = [i \in 1..n |-> rs[p[i]]]
  BY DEF SortDeviceReports
<1>2. p \in [1..n -> 1..n] /\ \A i, j \in 1..n : p[i] = p[j] => i = j
  BY DEF Bijection, Injection, IsInjective
<1>3. \A i, j \in 1..n : i < j => out[i].IP <= out[j].IP
  BY DEF SortDeviceReports
<1>. QED BY <1>1, <1>2, <1>3

LEMMA Sorting ==
  ASSUME NEW n \in Nat, NEW R, NEW rs \in [1..n -> R],
         NEW out \in SortDeviceReports(rs)
  PROVE  /\ out \in [1..n -> R]
         /\ \A i \in 1..n : \E j \in 1..n : out[i] = rs[j]
<1>1. PICK p \in [1..n -> 1..n] :
        /\ \A i, j \in 1..n : p[i] = p[j] => i = j
        /\ out = [i \in 1..n |-> rs[p[i]]]
        /\ \A i, j \in 1..n : i < j => out[i].IP <= out[j].IP
  BY Permuting
<1>2. out = [i \in 1..n |-> rs[p[i]]]
  BY <1>1
<1>. QED BY <1>2

LEMMA SortingReports ==
  ASSUME Count \in Nat, NEW rs \in [1..Count -> Report],
         NEW out \in SortDeviceReports(rs)
  PROVE  /\ out \in [1..Count -> Report]
         /\ \A i \in 1..Count : \E j \in 1..Count : out[i] = rs[j]
BY Sorting

LEMMA IntervalSize ==
  ASSUME NEW a \in Int, NEW b \in Int, a <= b + 1
  PROVE  IsFiniteSet(a..b) /\ Cardinality(a..b) = b - a + 1
<1>1. IsFiniteSet(a..b) /\ Cardinality(a..b) = IF a > b THEN 0 ELSE b - a + 1
  BY FS_Interval
<1>. QED BY <1>1

\* The only order-preserving way to arrange n things in n places.
LEMMA OrderedIdentity ==
  ASSUME NEW n \in Nat, NEW q \in [1..n -> 1..n],
         \A i, j \in 1..n : i < j => q[i] < q[j],
         NEW k \in 1..n
  PROVE  q[k] = k
<1>0. \A i, j \in 1..n : q[i] = q[j] => i = j
  <2> SUFFICES ASSUME NEW i \in 1..n, NEW j \in 1..n, q[i] = q[j]
               PROVE  i = j
    OBVIOUS
  <2>1. ~(i < j) /\ ~(j < i)
    OBVIOUS
  <2>. QED BY <2>1
<1>1. k - 1 <= q[k] - 1
  <2> DEFINE f == [i \in 1..k - 1 |-> q[i]]
  <2>1. f \in [1..k - 1 -> 1..q[k] - 1]
    <3>1. \A i \in 1..k - 1 : i \in 1..n /\ q[i] < q[k] /\ q[i] \in 1..n
      OBVIOUS
    <3>. QED BY <3>1
  <2>2. \A i, j \in 1..k - 1 : f[i] = f[j] => i = j
    BY <1>0
  <2>3. f \in Injection(1..k - 1, 1..q[k] - 1)
    BY <2>1, <2>2 DEF Injection, IsInjective
  <2>4. /\ IsFiniteSet(1..q[k] - 1)
        /\ Cardinality(1..k - 1) = k - 1 /\ Cardinality(1..q[k] - 1) = q[k] - 1
    <3>1. q[k] \in 1..n
      OBVIOUS
    <3>2. Cardinality(1..k - 1) = k - 1
      BY IntervalSize
    <3>3. ASSUME NEW b \in Int, 1 <= b + 1
          PROVE  IsFiniteSet(1..b) /\ Cardinality(1..b) = b
      BY <3>3, IntervalSize
    <3>4. IsFiniteSet(1..q[k] - 1) /\ Cardinality(1..q[k] - 1) = q[k] - 1
      BY <3>1, <3>3
    <3>. QED BY <3>2, <3>4
  <2>5. Cardinality(1..k - 1) <= Cardinality(1..q[k] - 1)
    BY <2>3, <2>4, FS_Injection
  <2>. QED BY <2>4, <2>5
<1>2. n - k <= n - q[k]
  <2> DEFINE f == [i \in k + 1..n |-> q[i]]
  <2>1. f \in [k + 1..n -> q[k] + 1..n]
    <3>1. \A i \in k + 1..n : i \in 1..n /\ q[k] < q[i] /\ q[i] \in 1..n
      OBVIOUS
    <3>. QED BY <3>1
  <2>2. \A i, j \in k + 1..n : f[i] = f[j] => i = j
    BY <1>0
  <2>3. f \in Injection(k + 1..n, q[k] + 1..n)
    BY <2>1, <2>2 DEF Injection, IsInjective
  <2>4. /\ IsFiniteSet(q[k] + 1..n)
        /\ Cardinality(k + 1..n) = n - k /\ Cardinality(q[k] + 1..n) = n - q[k]
    <3>1. q[k] \in 1..n
      OBVIOUS
    <3>2. Cardinality(k + 1..n) = n - k
      BY IntervalSize
    <3>3. ASSUME NEW a \in Int, a <= n
          PROVE  IsFiniteSet(a + 1..n) /\ Cardinality(a + 1..n) = n - a
      BY <3>3, IntervalSize
    <3>4. IsFiniteSet(q[k] + 1..n) /\ Cardinality(q[k] + 1..n) = n - q[k]
      <4>1. q[k] \in Int /\ q[k] <= n
        BY <3>1
      <4>. QED BY <4>1, <3>3, Zenon
    <3>. QED BY <3>2, <3>4
  <2>5. Cardinality(k + 1..n) <= Cardinality(q[k] + 1..n)
    BY <2>3, <2>4, FS_Injection
  <2>. QED BY <2>4, <2>5
<1>. QED BY <1>1, <1>2

\* Reports of different targets, sorted by address, are in target order; at
\* says which target each report is about.
About(rs, at) ==
  /\ rs \in [1..Count -> Report]
  /\ at \in [1..Count -> 1..Count]
  /\ \A i, j \in 1..Count : at[i] = at[j] => i = j
  /\ \A i \in 1..Count : rs[i].IP = Targets[at[i]]

Placed(out, rs, at) ==
  \A k \in 1..Count :
    out[k].IP = Targets[k] /\ \E j \in 1..Count : at[j] = k /\ out[k] = rs[j]

LEMMA TargetOrder ==
  ASSUME Count \in Nat, NEW rs, NEW at, About(rs, at),
         NEW out \in SortDeviceReports(rs)
  PROVE  Placed(out, rs, at)
<1>0. /\ rs \in [1..Count -> Report]
      /\ at \in [1..Count -> 1..Count]
      /\ \A i, j \in 1..Count : at[i] = at[j] => i = j
      /\ \A i \in 1..Count : rs[i].IP = Targets[at[i]]
  BY DEF About
<1>1. PICK p \in [1..Count -> 1..Count] :
        /\ \A i, j \in 1..Count : p[i] = p[j] => i = j
        /\ out = [i \in 1..Count |-> rs[p[i]]]
        /\ \A i, j \in 1..Count : i < j => out[i].IP <= out[j].IP
  BY <1>0, Permuting
<1> DEFINE q == [i \in 1..Count |-> at[p[i]]]
<1>2. q \in [1..Count -> 1..Count] /\ \A i, j \in 1..Count : q[i] = q[j] => i = j
  BY <1>0, <1>1
<1>3. \A i \in 1..Count : out[i] = rs[p[i]] /\ out[i].IP = Targets[q[i]]
  BY <1>0, <1>1
<1>4. \A i, j \in 1..Count : i < j => Targets[q[i]] <= Targets[q[j]]
  <2>1. \A i, j \in 1..Count : i < j => out[i].IP <= out[j].IP
    BY <1>1
  <2>. HIDE DEF q
  <2>. QED BY <1>3, <2>1
<1>5. q \in [1..Count -> 1..Count] /\ \A i \in 1..Count : Targets[i] \in Nat
  BY <1>2, TargetsAssumption DEF Count
<1> HIDE DEF q
<1>6. ASSUME NEW i \in 1..Count, NEW j \in 1..Count, i < j
      PROVE  q[i] < q[j]
  <2>1. q[i] # q[j]
    BY <1>2, <1>6
  <2>2. Targets[q[i]] <= Targets[q[j]]
    BY <1>4, <1>6
  <2>3. q[i] \in 1..Count /\ q[j] \in 1..Count
    BY <1>5
  <2>4. q[j] < q[i] => Targets[q[j]] < Targets[q[i]]
    BY <2>3, TargetsAssumption
  <2>5. Targets[q[i]] \in Nat /\ Targets[q[j]] \in Nat
    BY <1>5, <2>3
  <2>6. ~(q[j] < q[i])
    <3>1. \A a, b \in Nat : a < b => ~(b <= a)
      OBVIOUS
    <3>. QED BY <2>2, <2>4, <2>5, <3>1, Zenon
  <2>7. \A a, b \in 1..Count : a = b \/ a < b \/ b < a
    OBVIOUS
  <2>. QED BY <2>1, <2>3, <2>6, <2>7, Zenon
<1>7. \A i \in 1..Count : q[i] = i
  BY <1>5, <1>6, OrderedIdentity
<1>8. \A i \in 1..Count : p[i] \in 1..Count /\ at[p[i]] = q[i]
  BY DEF q
<1>9. \A k \in 1..Count : out[k].IP = Targets[k]
  BY <1>3, <1>7
<1>10. \A k \in 1..Count :
         p[k] \in 1..Count /\ at[p[k]] = k /\ out[k] = rs[p[k]]
  BY <1>3, <1>7, <1>8
<1>11. \A k \in 1..Count : \E j \in 1..Count : at[j] = k /\ out[k] = rs[j]
  BY <1>10
<1> HIDE DEF q
<1>. QED BY <1>9, <1>11 DEF Placed

LEMMA OntoItself ==
  ASSUME NEW n \in Nat, NEW q \in [1..n -> 1..n],
         \A i, j \in 1..n : q[i] = q[j] => i = j
  PROVE  q \in Bijection(1..n, 1..n)
<1>1. q \in Injection(1..n, 1..n)
  BY DEF Injection, IsInjective
<1>2. IsFiniteSet(1..n)
  BY IntervalSize
<1>3. q \in Surjection(1..n, 1..n)
  BY <1>1, <1>2, FS_Injection
<1>. QED BY <1>1, <1>3 DEF Bijection

\* Such reports can be sorted.
LEMMA Sortable ==
  ASSUME Count \in Nat, NEW rs, NEW at, About(rs, at)
  PROVE  SortDeviceReports(rs) # {}
<1>1. /\ rs \in [1..Count -> Report]
      /\ at \in [1..Count -> 1..Count]
      /\ \A i, j \in 1..Count : at[i] = at[j] => i = j
      /\ \A i \in 1..Count : rs[i].IP = Targets[at[i]]
  BY DEF About
<1>2. \A i \in 1..Count : \E j \in 1..Count : at[j] = i
  <2>1. at \in Bijection(1..Count, 1..Count)
    BY <1>1, OntoItself
  <2>. QED BY <2>1 DEF Bijection, Surjection
<1> DEFINE p == [i \in 1..Count |-> CHOOSE j \in 1..Count : at[j] = i]
           out == [i \in 1..Count |-> rs[p[i]]]
<1>3. \A i \in 1..Count : p[i] \in 1..Count /\ at[p[i]] = i
  BY <1>2
<1>4. p \in [1..Count -> 1..Count]
  BY <1>3
<1> HIDE DEF p
<1>5. p \in Bijection(1..Count, 1..Count)
  BY <1>3, <1>4, OntoItself
<1>6. \A i \in 1..Count : out[i].IP = Targets[i]
  BY <1>1, <1>3
<1>7. \A i, j \in 1..Count : i < j => out[i].IP <= out[j].IP
  <2> HIDE DEF out
  <2>1. \A i \in 1..Count : Targets[i] \in Nat
    BY TargetsAssumption DEF Count
  <2>2. ASSUME NEW i \in 1..Count, NEW j \in 1..Count, i < j
        PROVE  Targets[i] <= Targets[j]
    <3>1. Targets[i] < Targets[j]
      BY <2>2, TargetsAssumption
    <3>. QED BY <2>1, <3>1
  <2>. QED BY <1>6, <2>2
<1>8. DOMAIN rs = 1..Count
  BY <1>1
<1>9. out \in SortDeviceReports(rs)
  BY <1>5, <1>7, <1>8 DEF SortDeviceReports
<1>. QED BY <1>9

LEMMA ResultType ==
  ASSUME TypeOK, NEW k \in DOMAIN results
  PROVE  results[k].index \in 1..Count /\ results[k].report \in Report
<1>1. k \in 1..Len(results)
  BY DEF TypeOK
<1>2. results[k] \in [index : 1..Count, report : Report]
  BY <1>1, ElementOfSeq DEF TypeOK
<1>. QED BY <1>2

\* Both kinds of visit report the address they were given.
LEMMA VisitType ==
  ASSUME TypeOK, phase # "probe" => reports \in [1..Count -> Report],
         NEW w \in Busy,
         NEW r \in IF phase = "probe" THEN ProbeTarget(Targets[held[w]])
                                     ELSE DiagnoseTarget(reports[held[w]].IP)
  PROVE  /\ held[w] \in 1..Count
         /\ r \in Report
         /\ phase # "probe" /\ r.SSHReachable => r.Diagnosed
<1>1. held[w] \in 1..Count
  BY WorkersAssumption DEF TypeOK, Busy
<1>2. CASE phase = "probe"
  <2>1. PICK b \in BOOLEAN : r = [IP |-> Targets[held[w]],
                                 SSHReachable |-> b, Diagnosed |-> FALSE]
    BY <1>2 DEF ProbeTarget
  <2>. QED BY <1>1, <1>2, <2>1 DEF Report
<1>3. CASE phase # "probe"
  <2>1. reports[held[w]] \in Report
    BY <1>1, <1>3
  <2>2. PICK b \in BOOLEAN : r = [IP |-> reports[held[w]].IP,
                                 SSHReachable |-> b, Diagnosed |-> b]
    BY <1>3 DEF DiagnoseTarget
  <2>. QED BY <1>1, <2>1, <2>2 DEF Report
<1>. QED BY <1>2, <1>3

\* When the workers have left, the queued reports are all in the channel.
LEMMA AllArrived ==
  ASSUME TypeOK, Counted, Covered, Drained
  PROVE  Busy = {} /\ Len(results) = queued /\ next = Count + 1
<1>1. Busy = {}
  BY DEF Drained, Busy
<1>2. closed
  BY WorkersAssumption DEF Drained, Covered
<1>. QED BY <1>1, <1>2, FS_EmptySet DEF Counted, Covered, TypeOK
\* A report that has arrived is filed at its device, the others stay.
LEMMA Filing ==
  ASSUME TypeOK, Counted, Once, Covered, Told, phase = "diagnose", Drained
  PROVE  /\ Filed \in [1..Count -> Report]
         /\ \A i \in 1..Count :
              \/ ~Sent(i) /\ Filed[i] = reports[i]
              \/ \E k \in DOMAIN results :
                   results[k].index = i /\ Filed[i] = results[k].report
<1>1. Len(results) = queued /\ DOMAIN results = 1..queued
  BY AllArrived DEF TypeOK
<1>2. \A k \in 1..queued : Received(k) = results[k]
  BY <1>1 DEF Received, TypeOK
<1>3. DOMAIN reports = 1..Count /\ \A i \in 1..Count : reports[i] \in Report
  BY DEF Told
<1>4. \A k \in DOMAIN results : results[k].report \in Report
  BY ResultType
<1>5. ASSUME NEW i \in 1..Count
      PROVE  /\ Filed[i] \in Report
             /\ \/ ~Sent(i) /\ Filed[i] = reports[i]
                \/ \E k \in DOMAIN results :
                     results[k].index = i /\ Filed[i] = results[k].report
  <2> DEFINE mine == {k \in 1..queued : Received(k).index = i}
  <2>1. Filed[i] = IF mine = {} THEN reports[i]
                   ELSE Received(CHOOSE k \in mine : \A j \in mine : j <= k).report
    BY <1>3 DEF Filed
  <2>2. \A k \in mine : k \in DOMAIN results /\ results[k].index = i
    BY <1>1, <1>2
  <2>3. CASE mine = {}
    <3>1. ~Sent(i)
      BY <1>1, <1>2, <2>3 DEF Sent
    <3>. QED BY <1>3, <2>1, <2>3, <3>1
  <2>4. CASE mine # {}
    <3>1. \E k \in mine : \A j \in mine : j <= k
      BY <2>2, <2>4 DEF Once
    <3>2. PICK k \in mine : Filed[i] = Received(k).report
      BY <2>1, <2>4, <3>1
    <3>. QED BY <1>1, <1>2, <1>4, <2>2, <3>2
  <2>. QED BY <2>3, <2>4
<1>. QED BY <1>3, <1>5 DEF Filed
-----------------------------------------------------------------------------
(* Each part is preserved.                                                 *)

LEMMA TypeOKNext ==
  ASSUME TypeOK, Counted, Once, Covered, Told, [Next]_vars
  PROVE  TypeOK'
<1> USE DEF TypeOK, pool
<1>1. ASSUME NEW w \in Workers, HandOver(w) PROVE TypeOK'
  <2>1. next \in 1..Count /\ queued + 1 \in 0..Count
    BY <1>1, TargetsAssumption DEF HandOver, More, Counted, Count
  <2>2. held' \in [Workers -> 1..Count \cup {Idle, Left}]
    BY <1>1, <2>1 DEF HandOver, Feed
  <2>. QED BY <1>1, <2>1, <2>2, TargetsAssumption DEF HandOver, Feed, Count
<1>2. ASSUME NEW w \in Workers, Work(w) PROVE TypeOK'
  <2>1. PICK r \in IF phase = "probe" THEN ProbeTarget(Targets[held[w]])
                                     ELSE DiagnoseTarget(reports[held[w]].IP) :
              Deliver(w, r)
    BY <1>2 DEF Work
  <2>2. held[w] \in 1..Count /\ r \in Report
    BY <1>2, VisitType DEF Work, Told
  <2>. QED BY <1>2, <2>1, <2>2 DEF Work, Deliver
<1>3. ASSUME NEW w \in Workers, Return(w) PROVE TypeOK'
  BY <1>3 DEF Return, Leave
<1>4. CASE PassOver
  BY <1>4, TargetsAssumption DEF PassOver, More, Skip, Count
<1>5. CASE EndOfLoop
  BY <1>5 DEF EndOfLoop, CloseJobs
<1>6. CASE CollectProbe
  <2>1. Count \in Nat /\ Len(results) = Count
    BY <1>6, AllArrived, TargetsAssumption DEF CollectProbe, Covered, Count
  <2>2. [k \in 1..Len(results) |-> results[k].report] \in [1..Count -> Report]
    BY <2>1, ResultType
  <2>3. reports' \in [1..Count -> Report]
    BY <1>6, <2>1, <2>2, Sorting DEF CollectProbe
  <2>. QED BY <1>6, <2>3 DEF CollectProbe
<1>7. CASE CollectDiagnosis
  <2>1. reports' \in [1..Count -> Report]
    <3>1. Count \in Nat /\ Filed \in [1..Count -> Report]
      BY <1>7, Filing, TargetsAssumption DEF CollectDiagnosis, Count
    <3>. QED BY <1>7, <3>1, Sorting DEF CollectDiagnosis
  <2>. QED BY <1>7, <2>1 DEF CollectDiagnosis
<1>8. CASE StartDiagnosis
  <2>1. Count \in Nat /\ Len(reports) = Count
    BY <1>8, TargetsAssumption DEF StartDiagnosis, Told, Count
  <2>2. next' = 1 /\ next' \in 1..Count + 1 /\ queued' \in 0..Count
    BY <1>8, <2>1 DEF StartDiagnosis, Open
  <2>3. held' \in [Workers -> 1..Count \cup {Idle, Left}]
    BY <1>8 DEF StartDiagnosis, Open
  <2>4. results' = <<>> /\ closed' = FALSE /\ capacity' = Count
    BY <1>8, <2>1 DEF StartDiagnosis, Open
  <2>5. results' \in Seq([index : 1..Count, report : Report])
    BY <2>4, EmptySeq
  <2>6. UNCHANGED <<json, reports>> /\ phase' = "diagnose"
    BY <1>8 DEF StartDiagnosis
  <2>. QED BY <2>1, <2>2, <2>3, <2>4, <2>5, <2>6
<1>9. CASE NobodyReached
  BY <1>9 DEF NobodyReached
<1>10. CASE StartAction
  BY <1>10 DEF StartAction
<1>11. CASE PrintTextReport
  BY <1>11 DEF PrintTextReport
<1>12. CASE UNCHANGED vars
  BY <1>12 DEF vars, pool
<1>. QED
  BY <1>1, <1>2, <1>3, <1>4, <1>5, <1>6, <1>7, <1>8, <1>9, <1>10, <1>11, <1>12 DEF Next, Pass
LEMMA CountedNext ==
  ASSUME TypeOK, Counted, Told, [Next]_vars
  PROVE  Counted'
<1> USE DEF Counted, pool
<1>1. ASSUME NEW w \in Workers, HandOver(w) PROVE Counted'
  <2>1. next \in Nat /\ held[w] = Idle /\ w \notin Busy
    BY <1>1, TargetsAssumption DEF HandOver, Feed, TypeOK, Count, Busy
  <2>2. Busy' = Busy \cup {w}
    BY <1>1, <2>1, WorkersAssumption DEF HandOver, Feed, TypeOK, Busy
  <2>3. IsFiniteSet(Busy') /\ Cardinality(Busy') = Cardinality(Busy) + 1
    BY <2>1, <2>2, FS_AddElement
  <2>4. Len(results) \in Nat /\ queued \in Nat /\ Cardinality(Busy) \in Nat
    BY FS_CardinalityType, TargetsAssumption DEF TypeOK, Count
  <2>5. UNCHANGED <<results, capacity>> /\ queued' = queued + 1 /\ next' = next + 1
    BY <1>1 DEF HandOver, Feed
  <2>. QED BY <2>1, <2>3, <2>4, <2>5
<1>2. ASSUME NEW w \in Workers, Work(w) PROVE Counted'
  <2>1. PICK r : Deliver(w, r)
    BY <1>2 DEF Work
  <2>2. w \in Busy /\ Busy' = Busy \ {w}
    BY <2>1 DEF Deliver, TypeOK, Busy
  <2>3. IsFiniteSet(Busy') /\ Cardinality(Busy') = Cardinality(Busy) - 1
    BY <2>2, FS_RemoveElement
  <2>4. Len(results') = Len(results) + 1
    BY <2>1 DEF Deliver, TypeOK
  <2>. QED BY <2>1, <2>3, <2>4, FS_CardinalityType DEF Deliver, TypeOK
<1>3. ASSUME NEW w \in Workers, Return(w) PROVE Counted'
  <2>1. Busy' = Busy
    BY <1>3 DEF Return, Leave, TypeOK, Busy
  <2>. QED BY <1>3, <2>1 DEF Return, Leave
<1>4. CASE PassOver
  <2>1. Busy' = Busy
    BY <1>4 DEF PassOver, Skip, Busy
  <2>. QED BY <1>4, <2>1, TargetsAssumption DEF PassOver, Skip, TypeOK, Count
<1>5. CASE EndOfLoop
  BY <1>5 DEF EndOfLoop, CloseJobs, Busy
<1>6. CASE CollectProbe
  BY <1>6 DEF CollectProbe, Busy
<1>7. CASE CollectDiagnosis
  BY <1>7 DEF CollectDiagnosis, Busy
<1>8. CASE StartDiagnosis
  <2>1. Busy' = {}
    BY <1>8 DEF StartDiagnosis, Open, Busy
  <2>2. Len(reports) = Count
    BY <1>8, TargetsAssumption DEF StartDiagnosis, Told, Count
  <2>3. results' = <<>> /\ queued' = 0 /\ next' = 1 /\ capacity' = Count
    BY <1>8, <2>2 DEF StartDiagnosis, Open
  <2>. QED BY <2>1, <2>3, FS_EmptySet
<1>9. CASE NobodyReached
  BY <1>9 DEF NobodyReached, Busy
<1>10. CASE StartAction
  BY <1>10 DEF StartAction, Busy
<1>11. CASE PrintTextReport
  BY <1>11 DEF PrintTextReport, Busy
<1>12. CASE UNCHANGED vars
  BY <1>12 DEF vars, pool, Busy
<1>. QED
  BY <1>1, <1>2, <1>3, <1>4, <1>5, <1>6, <1>7, <1>8, <1>9, <1>10, <1>11, <1>12 DEF Next, Pass

LEMMA OnceNext ==
  ASSUME TypeOK, Once, [Next]_vars
  PROVE  Once'
<1> USE DEF Once, Busy, pool
<1>1. ASSUME NEW w \in Workers, HandOver(w) PROVE Once'
  <2>1. next \in Nat /\ held[w] = Idle
    BY <1>1, TargetsAssumption DEF HandOver, Feed, TypeOK, Count
  <2>2. \A v \in Workers : held'[v] = IF v = w THEN next ELSE held[v]
    BY <1>1 DEF HandOver, Feed, TypeOK
  <2>3. \A v \in Busy : held[v] \in Nat
    BY TargetsAssumption DEF TypeOK, Count
  <2>4. \A k \in DOMAIN results : results[k].index \in Nat
    BY ResultType
  <2>5. results' = results /\ next' = next + 1
    BY <1>1 DEF HandOver, Feed
  <2>. QED BY <2>1, <2>2, <2>3, <2>4, <2>5
<1>2. ASSUME NEW w \in Workers, Work(w) PROVE Once'
  <2>1. PICK r : Deliver(w, r)
    BY <1>2 DEF Work
  <2>2. \A v \in Workers : held'[v] = IF v = w THEN Idle ELSE held[v]
    BY <2>1 DEF Deliver, TypeOK
  <2>3. /\ DOMAIN results' = DOMAIN results \cup {Len(results) + 1}
        /\ Len(results) + 1 \notin DOMAIN results
        /\ \A k \in DOMAIN results : results'[k] = results[k]
        /\ results'[Len(results) + 1].index = held[w]
    BY <2>1 DEF Deliver, TypeOK
  <2>. QED BY <2>1, <2>2, <2>3 DEF Deliver
<1>3. ASSUME NEW w \in Workers, Return(w) PROVE Once'
  BY <1>3 DEF Return, Leave, TypeOK
<1>4. CASE PassOver
  <2>1. \A v \in Busy : held[v] \in Nat
    BY TargetsAssumption DEF TypeOK, Count
  <2>2. \A k \in DOMAIN results : results[k].index \in Nat
    BY ResultType
  <2>. QED BY <1>4, <2>1, <2>2, TargetsAssumption DEF PassOver, Skip, TypeOK, Count
<1>5. CASE EndOfLoop
  BY <1>5 DEF EndOfLoop, CloseJobs
<1>6. CASE CollectProbe
  BY <1>6 DEF CollectProbe
<1>7. CASE CollectDiagnosis
  BY <1>7 DEF CollectDiagnosis
<1>8. CASE StartDiagnosis
  BY <1>8 DEF StartDiagnosis, Open
<1>9. CASE NobodyReached
  BY <1>9 DEF NobodyReached
<1>10. CASE StartAction
  BY <1>10 DEF StartAction
<1>11. CASE PrintTextReport
  BY <1>11 DEF PrintTextReport
<1>12. CASE UNCHANGED vars
  BY <1>12 DEF vars, pool
<1>. QED
  BY <1>1, <1>2, <1>3, <1>4, <1>5, <1>6, <1>7, <1>8, <1>9, <1>10, <1>11, <1>12 DEF Next, Pass

LEMMA CoveredNext ==
  ASSUME TypeOK, Covered, Told, [Next]_vars
  PROVE  Covered'
<1> USE DEF Covered, With, Sent, pool
<1>1. ASSUME NEW w \in Workers, HandOver(w) PROVE Covered'
  <2>1. next \in Nat /\ held[w] = Idle
    BY <1>1, TargetsAssumption DEF HandOver, Feed, TypeOK, Count
  <2>2. \A v \in Workers : held'[v] = IF v = w THEN next ELSE held[v]
    BY <1>1 DEF HandOver, Feed, TypeOK
  <2>3. ~closed
    BY <1>1, TargetsAssumption DEF HandOver, More, Count
  <2>4. UNCHANGED <<phase, reports, results, closed>> /\ next' = next + 1 /\ queued' = queued + 1
    BY <1>1 DEF HandOver, Feed
  <2>5. ~closed'
    BY <2>3, <2>4
  <2>6. phase' = "probe" => queued' = next' - 1
    BY <2>1, <2>4 DEF TypeOK
  <2>7. \A v \in Workers : held'[v] # Left
    BY <2>1, <2>2, <2>3, WorkersAssumption
  <2>8. ASSUME phase' = "diagnose", NEW i \in 1..next' - 1, reports'[i].SSHReachable
        PROVE  With(i)' \/ Sent(i)'
    <3>1. CASE i = next
      BY <2>2, <3>1
    <3>2. CASE i # next
      <4>1. i \in 1..next - 1
        BY <2>1, <2>4, <3>2
      <4>2. With(i) \/ Sent(i)
        BY <2>4, <2>8, <4>1
      <4>3. \A v \in Workers : held[v] = i => held'[v] = i
        BY <2>1, <2>2, <4>1, WorkersAssumption
      <4>. QED BY <2>4, <4>2, <4>3
    <3>. QED BY <3>1, <3>2
  <2>. QED BY <2>5, <2>6, <2>7, <2>8
<1>2. ASSUME NEW w \in Workers, Work(w) PROVE Covered'
  <2>1. PICK r : Deliver(w, r)
    BY <1>2 DEF Work
  <2>2. \A v \in Workers : held'[v] = IF v = w THEN Idle ELSE held[v]
    BY <2>1 DEF Deliver, TypeOK
  <2>3. /\ \A k \in DOMAIN results : k \in DOMAIN results' /\ results'[k] = results[k]
        /\ Len(results) + 1 \in DOMAIN results'
        /\ results'[Len(results) + 1].index = held[w]
    BY <2>1 DEF Deliver, TypeOK
  <2>4. UNCHANGED <<phase, reports, next, queued, closed>>
    BY <1>2, <2>1 DEF Work, Deliver
  <2>5. \A i : With(i) \/ Sent(i) => With(i)' \/ Sent(i)'
    BY <2>2, <2>3
  <2>. QED BY <2>2, <2>4, <2>5, WorkersAssumption
<1>3. ASSUME NEW w \in Workers, Return(w) PROVE Covered'
  <2>1. \A v \in Workers : held'[v] = IF v = w THEN Left ELSE held[v]
    BY <1>3 DEF Return, Leave, TypeOK
  <2>2. UNCHANGED <<phase, reports, next, queued, closed, results>> /\ closed
    BY <1>3 DEF Return, Leave
  <2>3. \A i \in Nat : With(i) => With(i)'
    BY <1>3, <2>1, WorkersAssumption DEF Return, Leave
  <2>4. \A i \in Nat : With(i) \/ Sent(i) => With(i)' \/ Sent(i)'
    BY <2>2, <2>3
  <2>5. next \in Nat
    BY TargetsAssumption DEF TypeOK, Count
  <2>. QED BY <2>2, <2>4, <2>5
<1>4. CASE PassOver
  <2>1. next \in Nat /\ ~reports[next].SSHReachable
    BY <1>4, TargetsAssumption DEF PassOver, Wanted, TypeOK, Count
  <2>2. UNCHANGED <<phase, reports, held, results, closed>> /\ next' = next + 1
    BY <1>4 DEF PassOver, Skip
  <2>3. ~closed /\ phase = "diagnose"
    BY <1>4, TargetsAssumption DEF PassOver, More, Count
  <2>. QED BY <2>1, <2>2, <2>3
<1>5. CASE EndOfLoop
  BY <1>5, TargetsAssumption DEF EndOfLoop, More, CloseJobs, TypeOK, Count
<1>6. CASE CollectProbe
  BY <1>6 DEF CollectProbe
<1>7. CASE CollectDiagnosis
  BY <1>7 DEF CollectDiagnosis
<1>8. CASE StartDiagnosis
  BY <1>8, WorkersAssumption DEF StartDiagnosis, Open
<1>9. CASE NobodyReached
  BY <1>9 DEF NobodyReached
<1>10. CASE StartAction
  BY <1>10 DEF StartAction
<1>11. CASE PrintTextReport
  BY <1>11 DEF PrintTextReport
<1>12. CASE UNCHANGED vars
  BY <1>12 DEF vars, pool
<1>. QED
  BY <1>1, <1>2, <1>3, <1>4, <1>5, <1>6, <1>7, <1>8, <1>9, <1>10, <1>11, <1>12 DEF Next, Pass

LEMMA ToldNext ==
  ASSUME TypeOK, Counted, Once, Covered, Told, [Next]_vars
  PROVE  Told'
<1> USE DEF Told, Reachable, pool
<1>1. ASSUME NEW w \in Workers, HandOver(w) PROVE Told'
  BY <1>1 DEF HandOver, Feed
<1>2. ASSUME NEW w \in Workers, Work(w) PROVE Told'
  <2>1. PICK r \in IF phase = "probe" THEN ProbeTarget(Targets[held[w]])
                                     ELSE DiagnoseTarget(reports[held[w]].IP) :
              Deliver(w, r)
    BY <1>2 DEF Work
  <2>2. phase # "probe" /\ r.SSHReachable => r.Diagnosed
    BY <2>1, VisitType DEF Deliver
  <2>3. \A k \in DOMAIN results' :
          results'[k] = IF k \in DOMAIN results THEN results[k]
                        ELSE [index |-> held[w], report |-> r]
    BY <2>1 DEF Deliver, TypeOK
  <2>4. UNCHANGED <<phase, reports>> /\ phase \in {"probe", "diagnose"}
    BY <1>2 DEF Work
  <2>. QED BY <2>2, <2>3, <2>4
<1>3. ASSUME NEW w \in Workers, Return(w) PROVE Told'
  BY <1>3 DEF Return, Leave
<1>4. CASE PassOver
  BY <1>4 DEF PassOver, Skip
<1>5. CASE EndOfLoop
  BY <1>5 DEF EndOfLoop, CloseJobs
<1>6. CASE CollectProbe
  <2>1. Count \in Nat /\ Len(results) = Count
    BY <1>6, AllArrived, TargetsAssumption DEF CollectProbe, Covered, Count
  <2>2. [k \in 1..Len(results) |-> results[k].report] \in [1..Count -> Report]
    BY <2>1, ResultType
  <2>3. reports' \in [1..Count -> Report]
    BY <1>6, <2>1, <2>2, Sorting DEF CollectProbe
  <2>. QED BY <1>6, <2>3 DEF CollectProbe
<1>7. CASE CollectDiagnosis
  <2>1. Count \in Nat /\ next = Count + 1
    BY <1>7, AllArrived, TargetsAssumption DEF CollectDiagnosis, Count
  <2>2. Filed \in [1..Count -> Report]
    BY <1>7, Filing DEF CollectDiagnosis
  <2>3. \A i \in 1..Count : Filed[i].SSHReachable => Filed[i].Diagnosed
    <3> SUFFICES ASSUME NEW i \in 1..Count, Filed[i].SSHReachable
                 PROVE  Filed[i].Diagnosed
      OBVIOUS
    <3>1. ~With(i)
      BY <1>7, <2>1, WorkersAssumption DEF CollectDiagnosis, Drained, With
    <3>2. CASE Sent(i)
      BY <1>7, <3>2, Filing DEF CollectDiagnosis
    <3>3. CASE ~Sent(i)
      <4>1. ~reports[i].SSHReachable
        BY <1>7, <2>1, <3>1, <3>3 DEF CollectDiagnosis, Covered
      <4>. QED BY <1>7, <3>3, <4>1, Filing DEF CollectDiagnosis, Sent
    <3>. QED BY <3>2, <3>3
  <2>4. /\ reports' \in [1..Count -> Report]
        /\ \A i \in 1..Count : \E j \in 1..Count : reports'[i] = Filed[j]
    <3>1. reports' \in SortDeviceReports(Filed)
      BY <1>7 DEF CollectDiagnosis
    <3>. QED BY <2>1, <2>2, <3>1, SortingReports
  <2>. QED BY <1>7, <2>1, <2>3, <2>4 DEF CollectDiagnosis
<1>8. CASE StartDiagnosis
  BY <1>8 DEF StartDiagnosis, Open
<1>9. CASE NobodyReached
  BY <1>9 DEF NobodyReached
<1>10. CASE StartAction
  BY <1>10 DEF StartAction
<1>11. CASE PrintTextReport
  BY <1>11 DEF PrintTextReport
<1>12. CASE UNCHANGED vars
  BY <1>12 DEF vars, pool
<1>. QED
  BY <1>1, <1>2, <1>3, <1>4, <1>5, <1>6, <1>7, <1>8, <1>9, <1>10, <1>11, <1>12 DEF Next, Pass

\* The reports of a probe as they arrived, and the target of each.
Arrived == [k \in 1..Len(results) |-> results[k].report]
ArrivedAt == [k \in 1..Count |-> results[k].index]

LEMMA ProbeArrived ==
  ASSUME TypeOK, Counted, Once, Covered, Addressed, phase = "probe", Drained
  PROVE  /\ Count \in Nat /\ DOMAIN results = 1..Count
         /\ About(Arrived, ArrivedAt)
         /\ \A k \in 1..Count :
              Arrived[k] = results[k].report /\ ArrivedAt[k] = results[k].index
<1>1. Count \in Nat /\ Len(results) = Count /\ DOMAIN results = 1..Count
  <2>1. Len(results) = queued /\ next = Count + 1 /\ queued = next - 1
    BY AllArrived DEF Covered
  <2>2. Count \in Nat /\ DOMAIN results = 1..Len(results)
    BY TargetsAssumption DEF Count, TypeOK
  <2>. QED BY <2>1, <2>2
<1>2. Arrived \in [1..Count -> Report] /\ ArrivedAt \in [1..Count -> 1..Count]
  BY <1>1, ResultType DEF Arrived, ArrivedAt
<1>3. \A k \in 1..Count :
        Arrived[k] = results[k].report /\ ArrivedAt[k] = results[k].index
  BY <1>1 DEF Arrived, ArrivedAt
<1>4. \A k, l \in 1..Count : ArrivedAt[k] = ArrivedAt[l] => k = l
  BY <1>1, <1>3 DEF Once
<1>5. \A k \in 1..Count : Arrived[k].IP = Targets[ArrivedAt[k]]
  BY <1>1, <1>3 DEF Addressed, Passing
<1>6. About(Arrived, ArrivedAt)
  BY <1>2, <1>4, <1>5 DEF About
<1>. QED BY <1>1, <1>3, <1>6

\* What the probe leaves in reports: at every position the report that came
\* from the worker which had that target.
LEMMA ProbeCollected ==
  ASSUME TypeOK, Counted, Once, Covered, Addressed, CollectProbe, NEW i \in 1..Count
  PROVE  /\ reports'[i].IP = Targets[i]
         /\ \E k \in DOMAIN results :
              results[k].index = i /\ reports'[i] = results[k].report
<1>1. phase = "probe" /\ Drained /\ reports' \in SortDeviceReports(Arrived)
  BY DEF CollectProbe, Arrived
<1>2. Placed(reports', Arrived, ArrivedAt)
  BY <1>1, ProbeArrived, TargetOrder
<1>3. /\ reports'[i].IP = Targets[i]
      /\ \E k \in 1..Count : ArrivedAt[k] = i /\ reports'[i] = Arrived[k]
  BY <1>2 DEF Placed
<1>. QED BY <1>1, <1>3, ProbeArrived

\* After the diagnosis every report is still at its target.
InPlace == [k \in 1..Count |-> k]

LEMMA DiagnosisFiled ==
  ASSUME TypeOK, Counted, Once, Covered, Told, Addressed, phase = "diagnose", Drained
  PROVE  Count \in Nat /\ About(Filed, InPlace)
<1>1. Count \in Nat
  BY TargetsAssumption DEF Count
<1>2. Filed \in [1..Count -> Report]
  BY <1>1, Filing
<1>3. ASSUME NEW k \in 1..Count
      PROVE  Filed[k].IP = Targets[k]
  <2>1. CASE Filed[k] = reports[k]
    BY <2>1 DEF Addressed
  <2>2. ASSUME NEW m \in DOMAIN results,
               results[m].index = k, Filed[k] = results[m].report
        PROVE  Filed[k].IP = Targets[k]
    BY <2>2 DEF Addressed, Passing
  <2>. QED BY <2>1, <2>2, Filing
<1>4. InPlace \in [1..Count -> 1..Count] /\ \A k \in 1..Count : InPlace[k] = k
  BY DEF InPlace
<1>5. ASSUME NEW f, f \in [1..Count -> Report],
             \A k \in 1..Count : f[k].IP = Targets[k]
      PROVE  About(f, InPlace)
  BY <1>4, <1>5 DEF About
<1>. QED BY <1>1, <1>2, <1>3, <1>5

\* The sort after the diagnosis moves nothing.
LEMMA DiagnosisCollected ==
  ASSUME TypeOK, Counted, Once, Covered, Told, Addressed, CollectDiagnosis,
         NEW i \in 1..Count
  PROVE  reports'[i] = Filed[i] /\ reports'[i].IP = Targets[i]
<1>1. phase = "diagnose" /\ Drained /\ reports' \in SortDeviceReports(Filed)
  BY DEF CollectDiagnosis
<1>2. Placed(reports', Filed, InPlace)
  <2>1. Count \in Nat /\ About(Filed, InPlace)
    BY <1>1, DiagnosisFiled
  <2>2. ASSUME NEW f, About(f, InPlace), reports' \in SortDeviceReports(f)
        PROVE  Placed(reports', f, InPlace)
    BY <2>1, <2>2, TargetOrder
  <2>. QED BY <1>1, <2>1, <2>2
<1>3. /\ reports'[i].IP = Targets[i]
      /\ \E k \in 1..Count : InPlace[k] = i /\ reports'[i] = Filed[k]
  BY <1>2 DEF Placed
<1>. QED BY <1>3 DEF InPlace

LEMMA AddressedNext ==
  ASSUME TypeOK, Counted, Once, Covered, Told, Addressed, [Next]_vars
  PROVE  Addressed'
<1> USE DEF Addressed, Passing, pool
<1>1. ASSUME NEW w \in Workers, HandOver(w) PROVE Addressed'
  BY <1>1 DEF HandOver, Feed
<1>2. ASSUME NEW w \in Workers, Work(w) PROVE Addressed'
  <2>1. PICK r \in IF phase = "probe" THEN ProbeTarget(Targets[held[w]])
                                     ELSE DiagnoseTarget(reports[held[w]].IP) :
              Deliver(w, r)
    BY <1>2 DEF Work
  <2>2. held[w] \in 1..Count
    BY <2>1, VisitType DEF Deliver, Told
  <2>3. r.IP = Targets[held[w]]
    <3>1. CASE phase = "probe"
      BY <2>1, <3>1 DEF ProbeTarget
    <3>2. CASE phase # "probe"
      BY <2>1, <2>2, <3>2 DEF DiagnoseTarget
    <3>. QED BY <3>1, <3>2
  <2>4. \A k \in DOMAIN results' :
          results'[k] = IF k \in DOMAIN results THEN results[k]
                        ELSE [index |-> held[w], report |-> r]
    BY <2>1 DEF Deliver, TypeOK
  <2>5. UNCHANGED <<phase, reports>>
    BY <1>2 DEF Work
  <2>. QED BY <2>3, <2>4, <2>5
<1>3. ASSUME NEW w \in Workers, Return(w) PROVE Addressed'
  BY <1>3 DEF Return, Leave
<1>4. CASE PassOver
  BY <1>4 DEF PassOver, Skip
<1>5. CASE EndOfLoop
  BY <1>5 DEF EndOfLoop, CloseJobs
<1>6. CASE CollectProbe
  BY <1>6, ProbeCollected DEF CollectProbe
<1>7. CASE CollectDiagnosis
  BY <1>7, DiagnosisCollected DEF CollectDiagnosis
<1>8. CASE StartDiagnosis
  BY <1>8 DEF StartDiagnosis, Open
<1>9. CASE NobodyReached
  BY <1>9 DEF NobodyReached
<1>10. CASE StartAction
  BY <1>10 DEF StartAction
<1>11. CASE PrintTextReport
  BY <1>11 DEF PrintTextReport
<1>12. CASE UNCHANGED vars
  BY <1>12 DEF vars, pool
<1>. QED
  BY <1>1, <1>2, <1>3, <1>4, <1>5, <1>6, <1>7, <1>8, <1>9, <1>10, <1>11, <1>12 DEF Next, Pass

LEMMA FreshNext ==
  ASSUME TypeOK, Counted, Once, Covered, Addressed, Fresh, [Next]_vars
  PROVE  Fresh'
<1> USE DEF Fresh, pool
<1>1. ASSUME NEW w \in Workers, HandOver(w) PROVE Fresh'
  BY <1>1 DEF HandOver, Feed
<1>2. ASSUME NEW w \in Workers, Work(w) PROVE Fresh'
  <2>1. PICK r \in IF phase = "probe" THEN ProbeTarget(Targets[held[w]])
                                     ELSE DiagnoseTarget(reports[held[w]].IP) :
              Deliver(w, r)
    BY <1>2 DEF Work
  <2>2. phase = "probe" => ~r.Diagnosed
    BY <2>1 DEF ProbeTarget
  <2>3. \A k \in DOMAIN results' :
          results'[k] = IF k \in DOMAIN results THEN results[k]
                        ELSE [index |-> held[w], report |-> r]
    BY <2>1 DEF Deliver, TypeOK
  <2>4. UNCHANGED <<phase, reports>>
    BY <1>2 DEF Work
  <2>. QED BY <2>2, <2>3, <2>4
<1>3. ASSUME NEW w \in Workers, Return(w) PROVE Fresh'
  BY <1>3 DEF Return, Leave
<1>4. CASE PassOver
  BY <1>4 DEF PassOver, Skip
<1>5. CASE EndOfLoop
  BY <1>5 DEF EndOfLoop, CloseJobs
<1>6. CASE CollectProbe
  BY <1>6, ProbeCollected DEF CollectProbe
<1>7. CASE CollectDiagnosis
  BY <1>7 DEF CollectDiagnosis
<1>8. CASE StartDiagnosis
  BY <1>8 DEF StartDiagnosis, Open
<1>9. CASE NobodyReached
  BY <1>9 DEF NobodyReached
<1>10. CASE StartAction
  BY <1>10 DEF StartAction
<1>11. CASE PrintTextReport
  BY <1>11 DEF PrintTextReport
<1>12. CASE UNCHANGED vars
  BY <1>12 DEF vars, pool
<1>. QED
  BY <1>1, <1>2, <1>3, <1>4, <1>5, <1>6, <1>7, <1>8, <1>9, <1>10, <1>11, <1>12 DEF Next, Pass

LEMMA ChosenNext ==
  ASSUME TypeOK, Chosen, [Next]_vars
  PROVE  Chosen'
<1> USE DEF Chosen, With, Sent, pool
<1>1. ASSUME NEW w \in Workers, HandOver(w) PROVE Chosen'
  <2>1. \A v \in Workers : held'[v] = IF v = w THEN next ELSE held[v]
    BY <1>1 DEF HandOver, Feed, TypeOK
  <2>. QED BY <1>1, <2>1 DEF HandOver, Feed, Wanted
<1>2. ASSUME NEW w \in Workers, Work(w) PROVE Chosen'
  <2>1. PICK r : Deliver(w, r)
    BY <1>2 DEF Work
  <2>2. \A v \in Workers : held'[v] = IF v = w THEN Idle ELSE held[v]
    BY <2>1 DEF Deliver, TypeOK
  <2>3. \A k \in DOMAIN results' :
          results'[k].index = IF k \in DOMAIN results THEN results[k].index ELSE held[w]
    BY <2>1 DEF Deliver, TypeOK
  <2>4. UNCHANGED <<phase, reports>>
    BY <1>2 DEF Work
  <2>5. \A i \in 1..Count : With(i)' \/ Sent(i)' => With(i) \/ Sent(i)
    <3>1. \A i \in 1..Count : i # Idle
      BY WorkersAssumption, TargetsAssumption DEF Count
    <3>. QED BY <2>2, <2>3, <3>1
  <2>. QED BY <2>4, <2>5
<1>3. ASSUME NEW w \in Workers, Return(w) PROVE Chosen'
  <2>1. \A v \in Workers : held'[v] = IF v = w THEN Left ELSE held[v]
    BY <1>3 DEF Return, Leave, TypeOK
  <2>2. \A i \in 1..Count : i # Left
    BY WorkersAssumption, TargetsAssumption DEF Count
  <2>. QED BY <1>3, <2>1, <2>2 DEF Return, Leave
<1>4. CASE PassOver
  BY <1>4 DEF PassOver, Skip
<1>5. CASE EndOfLoop
  BY <1>5 DEF EndOfLoop, CloseJobs
<1>6. CASE CollectProbe
  BY <1>6 DEF CollectProbe
<1>7. CASE CollectDiagnosis
  BY <1>7 DEF CollectDiagnosis
<1>8. CASE StartDiagnosis
  <2>1. \A i \in 1..Count : i # Idle
    BY WorkersAssumption, TargetsAssumption DEF Count
  <2>. QED BY <1>8, <2>1 DEF StartDiagnosis, Open
<1>9. CASE NobodyReached
  BY <1>9 DEF NobodyReached
<1>10. CASE StartAction
  BY <1>10 DEF StartAction
<1>11. CASE PrintTextReport
  BY <1>11 DEF PrintTextReport
<1>12. CASE UNCHANGED vars
  BY <1>12 DEF vars, pool
<1>. QED
  BY <1>1, <1>2, <1>3, <1>4, <1>5, <1>6, <1>7, <1>8, <1>9, <1>10, <1>11, <1>12 DEF Next, Pass
-----------------------------------------------------------------------------
(* The theorems.                                                           *)

LEMMA InitIInv == Init => IInv
<1> SUFFICES ASSUME Init PROVE IInv
  OBVIOUS
<1>1. Count \in Nat
  BY TargetsAssumption DEF Count
<1>2. TypeOK
  <2>1. results \in Seq([index : 1..Count, report : Report])
    BY EmptySeq DEF Init
  <2>2. next \in 1..Count + 1 /\ queued \in 0..Count /\ capacity \in Nat
    BY <1>1 DEF Init
  <2>. QED BY <2>1, <2>2 DEF Init, TypeOK
<1>3. Counted
  <2>1. Busy = {}
    BY DEF Init, Busy
  <2>. QED BY <2>1, FS_EmptySet DEF Init, Counted
<1>4. Once /\ Covered
  BY WorkersAssumption DEF Init, Once, Covered, Busy
<1>5. Told /\ Addressed /\ Fresh /\ Chosen
  BY DEF Init, Told, Addressed, Fresh, Chosen
<1>. QED BY <1>2, <1>3, <1>4, <1>5 DEF IInv

LEMMA NextIInv == IInv /\ [Next]_vars => IInv'
BY TypeOKNext, CountedNext, OnceNext, CoveredNext, ToldNext, AddressedNext, FreshNext, ChosenNext
   DEF IInv

\* The inductive invariant holds throughout.
THEOREM Invariance == Spec => []IInv
BY InitIInv, NextIInv, PTL DEF Spec

\* Every variable keeps its type.
THEOREM TypeCorrect == Spec => []TypeOK
<1>1. IInv => TypeOK
  BY DEF IInv
<1>. QED BY <1>1, Invariance, PTL

\* The results channel has room for every report, for any number of workers
\* and targets: the feeder may wait for the workers before it reads.
THEOREM NeverBlock == Spec => []ResultsNeverBlock
<1>1. IInv => ResultsNeverBlock
  <2> SUFFICES ASSUME IInv, Busy # {} PROVE Len(results) < capacity
    BY DEF ResultsNeverBlock
  <2>1. Len(results) \in Nat /\ Cardinality(Busy) \in Nat /\ Cardinality(Busy) # 0
    BY FS_CardinalityType, FS_EmptySet DEF IInv, TypeOK, Counted
  <2>2. Count \in Nat
    BY TargetsAssumption DEF Count
  <2>. QED BY <2>1, <2>2 DEF IInv, TypeOK, Counted
<1>. QED BY <1>1, Invariance, PTL

\* After the probe, and through the diagnosis, report i is about target i,
\* whatever the order in which the workers finished.
THEOREM TargetsMatched == Spec => []ReportsMatchTargets
<1>1. IInv => ReportsMatchTargets
  BY TargetsAssumption DEF IInv, Told, Addressed, ReportsMatchTargets, Count
<1>. QED BY <1>1, Invariance, PTL

\* The text report never dereferences missing diagnostics, although a device
\* may be reachable in the probe and unreachable in the diagnosis.
THEOREM NoCrash == Spec => []NeverCrashes
<1>1. IInv => NeverCrashes
  BY DEF IInv, Told, NeverCrashes
<1>. QED BY <1>1, Invariance, PTL
-----------------------------------------------------------------------------
(* The scan implements DeviceSurvey.                                       *)

LEMMA SurveyStutter ==
  ASSUME UNCHANGED <<phase, reports, results>>
  PROVE  UNCHANGED Survey!vars
BY DEF Survey!vars, SurveyPass, SurveyLeft, SurveyVerdict, ResultFor, Reachable

\* A target has at most one report in the channel.
LEMMA ResultForSent ==
  ASSUME TypeOK, Once, NEW i
  PROVE  /\ ResultFor(i) # {} <=> Sent(i)
         /\ \A k \in DOMAIN results : results[k].index = i =>
              ResultFor(i) = {results[k].report}
BY DEF ResultFor, Sent, Once

LEMMA OnlyOne ==
  ASSUME NEW r PROVE Only({r}) = r
BY DEF Only

LEMMA SurveyInit == Init => Survey!Init
<1> SUFFICES ASSUME Init PROVE Survey!Init
  OBVIOUS
<1>1. \A i : ResultFor(i) = {}
  BY DEF Init, ResultFor
<1>. QED BY <1>1 DEF Init, Survey!Init, SurveyPass, SurveyLeft, SurveyVerdict

\* A worker's report is one visit.
LEMMA SurveyWork ==
  ASSUME IInv, NEW w \in Workers, Work(w)
  PROVE  Survey!Next
<1>1. PICK r \in IF phase = "probe" THEN ProbeTarget(Targets[held[w]])
                                   ELSE DiagnoseTarget(reports[held[w]].IP) :
            Deliver(w, r)
  BY DEF Work
<1>0. held[w] \in 1..Count
  BY <1>1, VisitType DEF Deliver, IInv, Told
<1> PICK h \in 1..Count : h = held[w]
  BY <1>0
<1>2. /\ phase = "probe" => Verdict(r) \in {"reachable", "unreachable"}
      /\ phase = "diagnose" => Verdict(r) \in {"diagnosed", "unreachable"}
  <2>2. CASE phase = "probe"
    BY <1>1, <2>2 DEF ProbeTarget, Verdict
  <2>3. CASE phase # "probe"
    BY <1>0, <1>1, <2>3 DEF DiagnoseTarget, Verdict
  <2>. QED BY <2>2, <2>3
<1>3. UNCHANGED <<phase, reports>> /\ Passing
  BY DEF Work, Passing
<1>4. ResultFor(h) = {}
  BY <1>1, ResultForSent DEF Deliver, IInv, Once, Sent
<1>5. \A i : ResultFor(i)' = IF i = h THEN {r} ELSE ResultFor(i)
  <2>1. /\ DOMAIN results' = DOMAIN results \cup {Len(results) + 1}
        /\ \A k \in DOMAIN results : results'[k] = results[k]
        /\ results'[Len(results) + 1] = [index |-> h, report |-> r]
    BY <1>1 DEF Deliver, IInv, TypeOK
  <2>2. \A i : ResultFor(i)' =
          ResultFor(i) \cup (IF i = h THEN {r} ELSE {})
    BY <2>1 DEF ResultFor
  <2>. QED BY <1>4, <2>2
<1>6. SurveyPass' = SurveyPass /\ SurveyPass \in {"probe", "diagnose"}
      /\ SurveyPass = phase
  BY <1>3 DEF SurveyPass, Passing
<1>7. h \in SurveyLeft
  <2>1. phase = "diagnose" => h \in Reachable
    <3>1. With(h)
      BY <1>1 DEF Deliver, Busy, With
    <3>2. phase = "diagnose" => DOMAIN reports = 1..Count
      BY DEF IInv, Told
    <3>. QED BY <1>2, <3>1, <3>2 DEF IInv, Chosen, Reachable
  <2>. QED BY <1>2, <1>3, <1>4, <2>1 DEF SurveyLeft, Passing
<1>8. SurveyLeft' = SurveyLeft \ {h}
  <2>1. \A i : ResultFor(i)' = {} <=> i # h /\ ResultFor(i) = {}
    BY <1>4, <1>5
  <2>2. Reachable' = Reachable
    BY <1>3 DEF Reachable
  <2>3. CASE phase = "probe"
    <3>1. SurveyLeft = {i \in 1..Count : ResultFor(i) = {}}
      BY <2>3 DEF SurveyLeft
    <3>2. SurveyLeft' = {i \in 1..Count : ResultFor(i)' = {}}
      BY <1>3, <2>3 DEF SurveyLeft
    <3>. QED BY <2>1, <3>1, <3>2
  <2>4. CASE phase = "diagnose"
    <3>1. SurveyLeft = {i \in Reachable : ResultFor(i) = {}}
      BY <2>4 DEF SurveyLeft
    <3>2. SurveyLeft' = {i \in Reachable : ResultFor(i)' = {}}
      BY <1>3, <2>2, <2>4 DEF SurveyLeft
    <3>. QED BY <2>1, <3>1, <3>2
  <2>. QED BY <1>3, <2>3, <2>4 DEF Passing
<1>9. SurveyVerdict' = [SurveyVerdict EXCEPT ![h] = Verdict(r)]
  <2> DEFINE before(i) == IF phase = "probe" THEN "unknown" ELSE Verdict(reports[i])
  <2>1. SurveyVerdict = [i \in 1..Count |->
                           IF ResultFor(i) # {} THEN Verdict(Only(ResultFor(i))) ELSE before(i)]
    BY <1>3 DEF SurveyVerdict, Passing
  <2>2. SurveyVerdict' = [i \in 1..Count |->
                            IF ResultFor(i)' # {} THEN Verdict(Only(ResultFor(i)')) ELSE before(i)]
    BY <1>3 DEF SurveyVerdict, Passing, Verdict, Only
  <2> HIDE DEF before
  <2>3. SurveyVerdict'[h] = Verdict(r)
    <3>1. ResultFor(h)' = {r}
      BY <1>5
    <3>. QED BY <1>2, <2>2, <3>1, OnlyOne
  <2>4. \A i \in 1..Count : i # h => SurveyVerdict'[i] = SurveyVerdict[i]
    <3> SUFFICES ASSUME NEW i \in 1..Count, i # h
                 PROVE  SurveyVerdict'[i] = SurveyVerdict[i]
      OBVIOUS
    <3>1. ResultFor(i)' = ResultFor(i)
      BY <1>5
    <3>. QED BY <2>1, <2>2, <3>1
  <2>. QED BY <2>1, <2>2, <2>3, <2>4
<1>10. Survey!Visit(h)
  BY <1>2, <1>6, <1>7, <1>8, <1>9 DEF Survey!Visit
<1>. QED BY <1>2, <1>10 DEF Survey!Next

\* The end of the probe changes nothing: every target has been visited, and
\* its verdict moves from the channel to the reports.
LEMMA SurveyCollectProbe ==
  ASSUME IInv, CollectProbe
  PROVE  UNCHANGED Survey!vars
<1>1. phase = "probe" /\ phase' = "menu"
  BY DEF CollectProbe
<1>2. ASSUME NEW i \in 1..Count
      PROVE  ResultFor(i) = {reports'[i]}
  <2>1. PICK k \in DOMAIN results :
          results[k].index = i /\ reports'[i] = results[k].report
    BY ProbeCollected DEF IInv
  <2>. QED BY <2>1, ResultForSent DEF IInv
<1>3. SurveyLeft = {} /\ SurveyLeft' = {}
  BY <1>1, <1>2 DEF SurveyLeft
<1>4. SurveyPass' = SurveyPass
  BY <1>1 DEF SurveyPass
<1>5. SurveyVerdict = [i \in 1..Count |-> Verdict(reports'[i])]
  BY <1>1, <1>2, OnlyOne DEF SurveyVerdict
<1>6. SurveyVerdict' = [i \in 1..Count |-> Verdict(reports'[i])]
  BY <1>1 DEF SurveyVerdict, Verdict
<1>. QED BY <1>3, <1>4, <1>5, <1>6 DEF Survey!vars

LEMMA SurveyCollectDiagnosis ==
  ASSUME IInv, CollectDiagnosis
  PROVE  Survey!Stop
<1>1. phase = "diagnose" /\ phase' \in {"print", "done"} /\ Drained
  BY DEF CollectDiagnosis
<1>2. ASSUME NEW i \in 1..Count
      PROVE  /\ i \in Reachable => ResultFor(i) # {}
             /\ ResultFor(i) = {} => reports'[i] = reports[i]
             /\ ResultFor(i) # {} => ResultFor(i) = {reports'[i]}
  <2>1. reports'[i] = Filed[i]
    BY DiagnosisCollected DEF IInv
  <2>2. \/ ~Sent(i) /\ Filed[i] = reports[i]
        \/ \E k \in DOMAIN results : results[k].index = i /\ Filed[i] = results[k].report
    BY <1>1, Filing DEF IInv
  <2>3. ~With(i)
    BY <1>1, WorkersAssumption, TargetsAssumption DEF Drained, With, Count
  <2>4. i \in 1..next - 1
    BY <1>1, AllArrived, TargetsAssumption DEF IInv, Count
  <2>5. i \in Reachable => Sent(i)
    BY <1>1, <2>3, <2>4 DEF IInv, Covered, Reachable
  <2>. QED BY <2>1, <2>2, <2>5, ResultForSent DEF IInv, Sent
<1>3. DOMAIN reports = 1..Count
  BY <1>1 DEF IInv, Told
<1>4. SurveyLeft = {} /\ SurveyLeft' = {}
  BY <1>1, <1>2, <1>3 DEF SurveyLeft, Reachable
<1>5. SurveyPass' = "over"
  BY <1>1 DEF SurveyPass
<1>6. SurveyVerdict = [i \in 1..Count |-> Verdict(reports'[i])]
  BY <1>1, <1>2, OnlyOne DEF SurveyVerdict
<1>7. SurveyVerdict' = [i \in 1..Count |-> Verdict(reports'[i])]
  BY <1>1 DEF SurveyVerdict, Verdict
<1>. QED BY <1>4, <1>5, <1>6, <1>7 DEF Survey!Stop

\* A diagnosis visits again exactly the devices that were found reachable.
LEMMA SurveyStartDiagnosis ==
  ASSUME IInv, StartDiagnosis
  PROVE  Survey!Again
<1>1. phase = "menu" /\ phase' = "diagnose" /\ reports' = reports
  BY DEF StartDiagnosis
<1>2. \A i : ResultFor(i)' = {}
  BY DEF StartDiagnosis, Open, ResultFor
<1>3. DOMAIN reports = 1..Count /\ \A i \in 1..Count : ~reports[i].Diagnosed
  BY <1>1 DEF IInv, Told, Fresh
<1>4. SurveyPass = "probe" /\ SurveyPass' = "diagnose" /\ SurveyLeft = {}
  BY <1>1 DEF SurveyPass, SurveyLeft
<1>5. SurveyVerdict = [i \in 1..Count |-> Verdict(reports[i])]
  BY <1>1 DEF SurveyVerdict
<1>6. SurveyVerdict' = SurveyVerdict
  BY <1>1, <1>2, <1>5 DEF SurveyVerdict, Verdict
<1>7. \A i \in 1..Count : SurveyVerdict[i] = "reachable" <=> reports[i].SSHReachable
  BY <1>3, <1>5 DEF Verdict
<1>8. SurveyLeft' = {i \in 1..Count : SurveyVerdict[i] = "reachable"}
  BY <1>1, <1>2, <1>3, <1>7 DEF SurveyLeft, Reachable
<1>. QED BY <1>4, <1>6, <1>8 DEF Survey!Again

\* Once the last pass is over nothing more is found out.
LEMMA SurveyAfter ==
  ASSUME phase \in {"menu", "print"}, phase' \in {"print", "action", "done", "crashed"},
         reports' = reports
  PROVE  Survey!Stop
BY DEF Survey!Stop, SurveyPass, SurveyLeft, SurveyVerdict, Verdict

LEMMA SurveyNext ==
  ASSUME IInv, [Next]_vars
  PROVE  [Survey!Next]_(Survey!vars)
<1>1. ASSUME NEW w \in Workers, HandOver(w) PROVE UNCHANGED Survey!vars
  BY <1>1, SurveyStutter DEF HandOver, Feed
<1>2. ASSUME NEW w \in Workers, Work(w) PROVE Survey!Next
  BY <1>2, SurveyWork
<1>3. ASSUME NEW w \in Workers, Return(w) PROVE UNCHANGED Survey!vars
  BY <1>3, SurveyStutter DEF Return, Leave
<1>4. CASE PassOver
  BY <1>4, SurveyStutter DEF PassOver, Skip
<1>5. CASE EndOfLoop
  BY <1>5, SurveyStutter DEF EndOfLoop, CloseJobs
<1>6. CASE CollectProbe
  BY <1>6, SurveyCollectProbe
<1>7. CASE CollectDiagnosis
  BY <1>7, SurveyCollectDiagnosis DEF Survey!Next
<1>8. CASE StartDiagnosis
  BY <1>8, SurveyStartDiagnosis DEF Survey!Next
<1>9. CASE NobodyReached
  BY <1>9, SurveyAfter DEF NobodyReached, Survey!Next
<1>10. CASE StartAction
  BY <1>10, SurveyAfter DEF StartAction, Survey!Next
<1>11. CASE PrintTextReport
  BY <1>11, SurveyAfter DEF PrintTextReport, Survey!Next
<1>12. CASE UNCHANGED vars
  BY <1>12, SurveyStutter DEF vars, pool
<1>. QED
  BY <1>1, <1>2, <1>3, <1>4, <1>5, <1>6, <1>7, <1>8, <1>9, <1>10, <1>11, <1>12 DEF Next, Pass

\* The two passes of the worker pool, whatever the number of goroutines and
\* their order, do what a survey one device after the other does.
THEOREM ScanImplementsSurvey == Spec => ScanIsSurvey
<1>1. Init => Survey!Init
  BY SurveyInit
<1>2. IInv /\ [Next]_vars => [Survey!Next]_(Survey!vars)
  BY SurveyNext
<1>. QED BY <1>1, <1>2, Invariance, PTL DEF Spec, ScanIsSurvey, Survey!Spec
-----------------------------------------------------------------------------
(* The scan runs down and is never stuck: what ScanEnds needs besides the  *)
(* fairness of the goroutines.                                             *)

\* The most steps a pass can still take: three for a device that is handed
\* over, worked on and delivered, two of them still ahead once a worker has
\* it, one for the close and one for every worker that returns.
There == {w \in Workers : held[w] # Left}

Remaining ==
  3 * (Count + 1 - next) + 2 * Cardinality(Busy) + Cardinality(There)
  + (IF closed THEN 0 ELSE 1)

WholePass == 3 * Count + Cardinality(Workers) + 1

\* The most steps the scan can still take.
StepsLeft ==
  CASE phase = "probe" -> Remaining + WholePass + 4
    [] phase = "menu" -> WholePass + 3
    [] phase = "diagnose" -> Remaining + 2
    [] phase = "print" -> 1
    [] OTHER -> 0

\* Somebody can go on: the feeder, a worker, the wait for the workers, or the
\* main goroutine between the passes.
FeederCan ==
  \/ More /\ Wanted /\ \E w \in Workers : held[w] = Idle
  \/ More /\ ~Wanted /\ phase = "diagnose"
  \/ ~More /\ ~closed

WorkerCan ==
  \/ Busy # {} /\ Len(results) < capacity
  \/ closed /\ \E w \in Workers : held[w] = Idle

CollectorCan ==
  /\ Drained
  /\ IF phase = "probe"
     THEN SortDeviceReports([k \in 1..Len(results) |-> results[k].report]) # {}
     ELSE SortDeviceReports(Filed) # {}

SomebodyCan ==
  CASE Passing -> FeederCan \/ WorkerCan \/ CollectorCan
    [] phase \in {"menu", "print"} -> TRUE
    [] OTHER -> phase \in {"done", "action"}

LEMMA Sizes ==
  ASSUME IInv
  PROVE  /\ Count \in Nat /\ Cardinality(Workers) \in Nat
         /\ Cardinality(Busy) \in Nat /\ Cardinality(There) \in Nat
         /\ next \in Nat /\ next <= Count + 1
         /\ IsFiniteSet(Busy) /\ IsFiniteSet(There)
         /\ Cardinality(Busy) <= next - 1
         /\ Cardinality(There) <= Cardinality(Workers)
<1>1. Count \in Nat
  BY TargetsAssumption DEF Count
<1>2. There \in SUBSET Workers /\ IsFiniteSet(Workers)
  BY WorkersAssumption DEF There
<1>3. IsFiniteSet(There) /\ Cardinality(There) <= Cardinality(Workers)
  BY <1>2, FS_Subset
<1>4. IsFiniteSet(Busy) /\ next \in 1..Count + 1
  BY DEF IInv, Counted, TypeOK
<1>5. /\ Len(results) + Cardinality(Busy) = queued /\ queued < next
      /\ Len(results) \in Nat /\ queued \in 0..Count
  BY DEF IInv, Counted, TypeOK
<1>6. Cardinality(Busy) \in Nat
  BY <1>4, FS_CardinalityType
<1>7. Cardinality(Busy) <= next - 1
  BY <1>1, <1>4, <1>5, <1>6
<1>. QED BY <1>1, <1>2, <1>3, <1>4, <1>7, FS_CardinalityType

LEMMA RemainingType ==
  ASSUME IInv
  PROVE  Remaining \in Nat /\ WholePass \in Nat
BY Sizes DEF Remaining, WholePass

\* Every step of a pass brings its end nearer.
LEMMA PassRunsDown ==
  ASSUME IInv, NEW w \in Workers,
         HandOver(w) \/ Work(w) \/ Return(w) \/ PassOver \/ EndOfLoop
  PROVE  Remaining' \in Int /\ Remaining' < Remaining
<1> USE Sizes
<1>1. CASE HandOver(w)
  <2>1. w \notin Busy /\ Busy' = Busy \cup {w}
    BY <1>1, WorkersAssumption DEF HandOver, Feed, IInv, TypeOK, Busy
  <2>2. Cardinality(Busy') = Cardinality(Busy) + 1
    BY <2>1, FS_AddElement
  <2>3. There' = There
    BY <1>1, WorkersAssumption DEF HandOver, Feed, IInv, TypeOK, There
  <2>. QED BY <1>1, <2>2, <2>3 DEF HandOver, Feed, Remaining
<1>2. CASE Work(w)
  <2>1. PICK r : Deliver(w, r)
    BY <1>2 DEF Work
  <2>2. w \in Busy /\ Busy' = Busy \ {w}
    BY <2>1 DEF Deliver, IInv, TypeOK, Busy
  <2>3. Cardinality(Busy') = Cardinality(Busy) - 1
    BY <2>2, FS_RemoveElement
  <2>4. There' = There
    BY <2>1, WorkersAssumption DEF Deliver, IInv, TypeOK, There, Busy
  <2>5. UNCHANGED <<next, closed>>
    BY <2>1 DEF Deliver
  <2>. QED BY <2>3, <2>4, <2>5 DEF Remaining
<1>3. CASE Return(w)
  <2>1. Busy' = Busy
    BY <1>3 DEF Return, Leave, IInv, TypeOK, Busy
  <2>2. w \in There /\ There' = There \ {w}
    BY <1>3, WorkersAssumption DEF Return, Leave, IInv, TypeOK, There
  <2>3. Cardinality(There') = Cardinality(There) - 1
    BY <2>2, FS_RemoveElement
  <2>. QED BY <1>3, <2>1, <2>3 DEF Return, Leave, Remaining
<1>4. CASE PassOver
  <2>1. Busy' = Busy /\ There' = There
    BY <1>4 DEF PassOver, Skip, Busy, There
  <2>. QED BY <1>4, <2>1 DEF PassOver, Skip, Remaining
<1>5. CASE EndOfLoop
  <2>1. Busy' = Busy /\ There' = There
    BY <1>5 DEF EndOfLoop, CloseJobs, Busy, There
  <2>. QED BY <1>5, <2>1 DEF EndOfLoop, CloseJobs, Remaining
<1>. QED BY <1>1, <1>2, <1>3, <1>4, <1>5

\* A pass that begins has all of its steps ahead.
LEMMA WholePassAhead ==
  ASSUME IInv, StartDiagnosis
  PROVE  Remaining' = WholePass
<1>1. Busy' = {} /\ There' = Workers
  BY WorkersAssumption DEF StartDiagnosis, Open, Busy, There
<1>2. next' = 1 /\ closed' = FALSE
  BY DEF StartDiagnosis, Open
<1>3. Cardinality(Busy') = 0 /\ Cardinality(There') = Cardinality(Workers)
  BY <1>1, FS_EmptySet
<1>. QED BY <1>2, <1>3, Sizes DEF Remaining, WholePass

\* No step is taken in vain.
EveryStepCounts == [][StepsLeft' < StepsLeft]_vars

\* With every step the scan has fewer steps before it, for any number of
\* workers and targets: no goroutine can go round in circles, and a scan of n
\* targets by k workers is over within 6n + 2k + 6 steps.
THEOREM ScanRunsDown ==
  Spec => /\ [](StepsLeft \in 0..2 * WholePass + 4)
          /\ EveryStepCounts
<1>1. IInv => StepsLeft \in 0..2 * WholePass + 4
  <2> SUFFICES ASSUME IInv PROVE StepsLeft \in 0..2 * WholePass + 4
    OBVIOUS
  <2>1. Remaining \in Nat /\ WholePass \in Nat
    BY RemainingType
  <2>2. Remaining <= WholePass
    BY Sizes DEF Remaining, WholePass
  <2>. QED BY <2>1, <2>2 DEF StepsLeft
<1>2. IInv /\ [Next]_vars => [StepsLeft' < StepsLeft]_vars
  <2> SUFFICES ASSUME IInv, Next PROVE StepsLeft' < StepsLeft
    OBVIOUS
  <2>1. Remaining \in Nat /\ WholePass \in Nat /\ WholePass' = WholePass
    BY RemainingType DEF WholePass
  <2>2. ASSUME NEW w \in Workers,
               HandOver(w) \/ Work(w) \/ Return(w) \/ PassOver \/ EndOfLoop
        PROVE  StepsLeft' < StepsLeft
    <3>1. phase' = phase /\ phase \in {"probe", "diagnose"}
      BY <2>2 DEF HandOver, Work, Return, PassOver, EndOfLoop
    <3>2. Remaining' \in Int /\ Remaining' < Remaining
      BY <2>2, PassRunsDown
    <3>. QED BY <2>1, <3>1, <3>2 DEF StepsLeft
  <2>3. PassOver \/ EndOfLoop => StepsLeft' < StepsLeft
    BY <2>2, WorkersAssumption
  <2>4. CASE CollectProbe
    BY <2>1, <2>4 DEF CollectProbe, StepsLeft
  <2>5. CASE CollectDiagnosis
    BY <2>1, <2>5 DEF CollectDiagnosis, StepsLeft
  <2>6. CASE StartDiagnosis
    <3>1. Remaining' = WholePass
      BY <2>6, WholePassAhead
    <3>. QED BY <2>1, <2>6, <3>1 DEF StartDiagnosis, StepsLeft
  <2>7. CASE NobodyReached
    BY <2>1, <2>7 DEF NobodyReached, StepsLeft
  <2>8. CASE StartAction
    BY <2>1, <2>8 DEF StartAction, StepsLeft
  <2>9. CASE PrintTextReport
    BY <2>9 DEF PrintTextReport, StepsLeft
  <2>. QED BY <2>2, <2>3, <2>4, <2>5, <2>6, <2>7, <2>8, <2>9 DEF Next, Pass
<1>. QED BY <1>1, <1>2, Invariance, PTL DEF Spec, EveryStepCounts

\* Until the scan is over somebody can go on, for any number of workers and
\* targets: the feeder, the workers and the wait for them never wait for each
\* other in a circle, and what was collected can be sorted.
THEOREM NeverStuck == Spec => []SomebodyCan
<1>1. IInv => SomebodyCan
  <2> SUFFICES ASSUME IInv PROVE SomebodyCan
    OBVIOUS
  <2>1. CASE ~Passing
    BY <2>1 DEF SomebodyCan, Passing, IInv, TypeOK, Told
  <2>2. ASSUME Passing PROVE FeederCan \/ WorkerCan \/ CollectorCan
    <3>1. Busy # {} => Len(results) < capacity
      <4> SUFFICES ASSUME Busy # {} PROVE Len(results) < capacity
        OBVIOUS
      <4>1. Len(results) \in Nat /\ Cardinality(Busy) \in Nat /\ Cardinality(Busy) # 0
        BY FS_CardinalityType, FS_EmptySet DEF IInv, TypeOK, Counted
      <4>. QED BY <4>1, Sizes DEF IInv, TypeOK, Counted
    <3>2. Busy # {} => WorkerCan
      BY <3>1 DEF WorkerCan
    <3>3. CASE ~closed /\ Busy = {}
      <4>1. \A w \in Workers : held[w] = Idle
        BY <3>3 DEF IInv, Covered, Busy
      <4>2. \E w \in Workers : held[w] = Idle
        BY <4>1, WorkersAssumption
      <4>. QED BY <3>3, <4>2 DEF FeederCan, Wanted
    <3>4. CASE closed /\ ~Drained /\ Busy = {}
      <4>1. \E w \in Workers : held[w] = Idle
        BY <3>4 DEF Drained, Busy
      <4>. QED BY <3>4, <4>1 DEF WorkerCan
    <3>5. CASE Drained /\ phase = "probe"
      <4>1. SortDeviceReports(Arrived) # {}
        BY <3>5, ProbeArrived, Sortable DEF IInv
      <4>. QED BY <3>5, <4>1 DEF CollectorCan, Arrived
    <3>6. CASE Drained /\ phase = "diagnose"
      <4>1. Count \in Nat /\ About(Filed, InPlace)
        BY <3>6, DiagnosisFiled DEF IInv
      <4>2. \A f : About(f, InPlace) => SortDeviceReports(f) # {}
        BY <4>1, Sortable
      <4>3. SortDeviceReports(Filed) # {}
        BY <4>1, <4>2
      <4>. QED BY <3>6, <4>3 DEF CollectorCan
    <3>. QED BY <2>2, <3>2, <3>3, <3>4, <3>5, <3>6 DEF Passing
  <2>. QED BY <2>1, <2>2 DEF SomebodyCan
<1>. QED BY <1>1, Invariance, PTL
=============================================================================
