------------------------ MODULE CustomInstallProofs ------------------------
(***************************************************************************)
(* Proofs about CustomInstall, for any sessions, URLs and branches and any *)
(* number of outages: types, one installer at a time, no checkout lost,    *)
(* what a script that ended well leaves, consent, that the install         *)
(* implements GuardedRecord, and the two copies of the branch migration.   *)
(***************************************************************************)
EXTENDS CustomInstall, InstallerBranch, TLAPS

Asking == {"url", "connect", "plan", "replace", "confirm"}
Consented(s) == plan[s].OpenpilotExists => approved[s]
Planned(s) == customURL[s] \in URLs /\ plan[s].MigratedBranch \in Branches
Alone(s) == \A t \in Sessions \ {s} : ~confirmed[t]

(* What the place of a session says of its answers, plan and script.       *)
Stage == \A s \in Sessions :
  /\ ~confirmed[s] => script[s] = "off"
  /\ pc[s] \in Asking => ~confirmed[s]
  /\ pc[s] \in {"connect", "plan"} => customURL[s] \in URLs
  /\ pc[s] = "replace" => Planned(s)
  /\ pc[s] = "confirm" \/ confirmed[s] => Planned(s) /\ Consented(s)
  /\ pc[s] = "installed" => script[s] = "ok"
  /\ s \in orphans => script[s] = "killed"
  /\ s \in spared => confirmed[s] /\ ~Alone(s)

(* What the place of a script says of /data, if no kill has missed one.     *)
Spoilt(x) == x \in {NoCheckout, Damaged} /\ orphans # {}
Stored(d, e) == e = [d EXCEPT !.tmppilot = e.tmppilot]

Work == spared = {} => \A s \in Sessions :
  /\ script[s] = "cloning" => data.tmppilot = Partial \/ Spoilt(data.tmppilot)
  /\ script[s] \in {"checkout", "aside", "move"} =>
       data.tmppilot = plan[s].MigratedBranch \/ Spoilt(data.tmppilot)
  /\ script[s] = "move" => data.openpilot = NoCheckout
  /\ script[s] \in {"launch", "sync", "verify", "restart"} =>
       data.openpilot \in {plan[s].MigratedBranch} \cup {Damaged : t \in orphans}
  /\ script[s] \in {"sync", "verify", "restart"} => data.continueSh /\ data.url = customURL[s]
  /\ script[s] \in {"verify", "restart"} => Stored(data, disk) /\ (orphans = {} => disk = data)

(* What is made in /data/tmppilot is what some confirmed session planned.   *)
Made == {NoCheckout, Partial, Damaged} \cup
        {plan[t].MigratedBranch : t \in {t \in Sessions : confirmed[t]}}
Sources == data.tmppilot \in Made /\ disk.tmppilot \in Made

(* Until its second move, a session that was shown no checkout still finds  *)
(* none if nobody else has confirmed.                                       *)
Early == {"sent", "ls_remote", "stop", "rm", "clone", "cloning", "checkout", "aside"}

Unshown == \A s \in Sessions :
  (pc[s] = "confirm" \/ script[s] \in Early) /\ ~approved[s] /\ Alone(s) =>
    data.openpilot = NoCheckout

(* A single installer leaves what it planned, on the disk.                 *)
Lasting == \A s \in Sessions :
  script[s] = "ok" /\ Alone(s) => disk.openpilot = plan[s].MigratedBranch /\ disk = data

Untouched == (\A s \in Sessions : ~confirmed[s]) => disk = data
OnDisk == Kept(disk) \subseteq Kept(data)

IInv ==
  /\ TypeOK /\ Stage /\ OneInstaller /\ Work /\ Sources
  /\ Unshown /\ Lasting /\ Untouched /\ OnDisk
-----------------------------------------------------------------------------
LEMMA Initially == Init => IInv
<1> SUFFICES ASSUME Init PROVE IInv
  OBVIOUS
<1>1. TypeOK
  <2>1. data \in Data
    BY DEF Init, Data, Checkouts
  <2>. QED BY <2>1, InstallAssumption DEF Init, TypeOK, PC, NoPlan, Plan
<1>2. Stage /\ OneInstaller /\ Work /\ Sources /\ Unshown /\ Lasting /\ Untouched /\ OnDisk
  BY DEF Init, Stage, OneInstaller, PastStop, Work, Sources, Made, Unshown, Early, Lasting,
         Untouched, OnDisk, Asking
<1>. QED BY <1>1, <1>2 DEF IInv

(* The client writes nothing on the device but its request.                 *)
LEMMA ClientFrame ==
  ASSUME TypeOK, Stage, NEW s \in Sessions, Client(s)
  PROVE  /\ UNCHANGED <<device, outages>>
         /\ \/ UNCHANGED <<script, confirmed>>
            \/ /\ pc[s] = "confirm" /\ ~confirmed[s] /\ script[s] = "off"
               /\ confirmed' = [confirmed EXCEPT ![s] = TRUE]
               /\ script' \in {script, [script EXCEPT ![s] = "sent"]}
         /\ \A t \in Sessions : t # s \/ confirmed[t] \/ pc[t] = "confirm" =>
              customURL'[t] = customURL[t] /\ plan'[t] = plan[t] /\ approved'[t] = approved[t]
         /\ \A t \in Sessions \ {s} : pc'[t] = pc[t]
<1> USE DEF TypeOK, Stage, Asking, Goto, Return, PC, Returned, device
<1>1. CASE SelectURL(s)
  BY <1>1 DEF SelectURL
<1>2. CASE Connect(s)
  BY <1>2 DEF Connect
<1>3. CASE ReadPlan(s)
  BY <1>3 DEF ReadPlan
<1>4. CASE AnswerReplace(s)
  BY <1>4 DEF AnswerReplace
<1>5. CASE AnswerConfirm(s)
  <2>1. pc[s] = "confirm" /\ ~confirmed[s] /\ script[s] = "off"
    BY <1>5 DEF AnswerConfirm
  <2>2. \/ /\ confirmed' = [confirmed EXCEPT ![s] = TRUE]
           /\ script' = [script EXCEPT ![s] = IF s \in link THEN "sent" ELSE @]
        \/ UNCHANGED <<script, confirmed>>
    BY <1>5 DEF AnswerConfirm
  <2>3. [script EXCEPT ![s] = script[s]] = script
    OBVIOUS
  <2>4. \/ confirmed' = [confirmed EXCEPT ![s] = TRUE]
           /\ script' \in {script, [script EXCEPT ![s] = "sent"]}
        \/ UNCHANGED <<script, confirmed>>
    BY <2>2, <2>3
  <2>5. /\ UNCHANGED <<plan, approved, customURL, device, outages>>
        /\ \A t \in Sessions \ {s} : pc'[t] = pc[t]
    BY <1>5 DEF AnswerConfirm
  <2>. QED BY <2>1, <2>4, <2>5
<1>6. CASE ScriptReturns(s)
  BY <1>6 DEF ScriptReturns
<1>7. CASE ExecuteFails(s)
  BY <1>7 DEF ExecuteFails
<1>. QED BY <1>1, <1>2, <1>3, <1>4, <1>5, <1>6, <1>7 DEF Client

(* What a preflight reports.                                                *)
LEMMA PlanFields ==
  ASSUME NEW s \in Sessions, customURL[s] \in URLs, NEW p \in InstallPlans(s)
  PROVE  /\ p \in Plan /\ p.MigratedBranch \in Branches
         /\ p.OpenpilotExists <=> data.openpilot # NoCheckout
<1>1. PICK b \in Offers[customURL[s]] :
        p = [OpenpilotExists |-> data.openpilot # NoCheckout, MigratedBranch |-> b]
  BY DEF InstallPlans
<1>2. b \in Branches
  BY DEF Branches
<1>3. (data.openpilot # NoCheckout) \in BOOLEAN
  OBVIOUS
<1>4. p \in Plan
  BY <1>1, <1>2, <1>3 DEF Plan
<1>5. p.OpenpilotExists = (data.openpilot # NoCheckout)
  BY <1>1
<1>. QED BY <1>1, <1>2, <1>4, <1>5

LEMMA ClientTypes ==
  ASSUME IInv, NEW s \in Sessions, Client(s)
  PROVE  TypeOK' /\ Stage'
<1> USE DEF IInv, device
<1>1. TypeOK'
  <2> USE DEF TypeOK, Goto, Return, PC, Returned
  <2>1. CASE SelectURL(s)
    BY <2>1, InstallAssumption DEF SelectURL, Accepted
  <2>2. CASE Connect(s)
    BY <2>2 DEF Connect
  <2>3. CASE ReadPlan(s)
    <3>1. pc[s] = "plan" /\ customURL[s] \in URLs
      BY <2>3 DEF ReadPlan, Stage
    <3>2. \A p \in InstallPlans(s) : p \in Plan
      BY <3>1, PlanFields
    <3>. QED BY <2>3, <3>2 DEF ReadPlan
  <2>4. CASE AnswerReplace(s)
    BY <2>4 DEF AnswerReplace
  <2>5. CASE AnswerConfirm(s)
    <3>1. script' \in [Sessions -> {"off", "sent"} \cup Live \cup Ended]
      BY ClientFrame
    <3>. QED BY <2>5, <3>1 DEF AnswerConfirm
  <2>6. CASE ScriptReturns(s)
    BY <2>6 DEF ScriptReturns
  <2>7. CASE ExecuteFails(s)
    BY <2>7 DEF ExecuteFails
  <2>. QED BY <2>1, <2>2, <2>3, <2>4, <2>5, <2>6, <2>7 DEF Client
<1>2. Stage'
  <2> USE DEF TypeOK, Stage, Asking, Consented, Planned, Alone, Goto, Return
  <2>1. CASE SelectURL(s)
    BY <2>1, InstallAssumption DEF SelectURL, Accepted
  <2>2. CASE Connect(s)
    BY <2>2 DEF Connect
  <2>3. CASE ReadPlan(s)
    <3>1. pc[s] = "plan" /\ customURL[s] \in URLs /\ ~confirmed[s]
      BY <2>3 DEF ReadPlan
    <3>2. ASSUME NEW p \in InstallPlans(s)
          PROVE  p \in Plan /\ p.MigratedBranch \in Branches
      BY <3>1, <3>2, PlanFields
    <3>3. CASE Return(s, "plan", "error") /\ UNCHANGED plan
      BY <2>3, <3>1, <3>3 DEF ReadPlan
    <3>4. ASSUME NEW p \in InstallPlans(s), plan' = [plan EXCEPT ![s] = p],
                 Goto(s, "plan", IF p.OpenpilotExists THEN "replace" ELSE "confirm")
          PROVE  Stage'
      <4>1. plan'[s] = p /\ Planned(s)'
        BY <2>3, <3>1, <3>2, <3>4 DEF ReadPlan
      <4>. QED BY <2>3, <3>1, <3>4, <4>1 DEF ReadPlan
    <3>. QED BY <2>3, <3>3, <3>4 DEF ReadPlan
  <2>4. CASE AnswerReplace(s)
    BY <2>4 DEF AnswerReplace
  <2>5. CASE AnswerConfirm(s)
    BY <2>5 DEF AnswerConfirm
  <2>6. CASE ScriptReturns(s)
    BY <2>6 DEF ScriptReturns
  <2>7. CASE ExecuteFails(s)
    BY <2>7 DEF ExecuteFails
  <2>. QED BY <2>1, <2>2, <2>3, <2>4, <2>5, <2>6, <2>7 DEF Client
<1>. QED BY <1>1, <1>2

LEMMA ClientPreserves ==
  ASSUME IInv, NEW s \in Sessions, Client(s)
  PROVE  IInv'
<1> USE DEF IInv
<1>1. TypeOK' /\ Stage'
  BY ClientTypes
<1>2. data' = data /\ disk' = disk
  BY ClientFrame DEF device
<1>3. ASSUME NEW t \in Sessions, script'[t] # "sent"
      PROVE  script'[t] = script[t]
  BY <1>3, ClientFrame DEF TypeOK
<1>4. ASSUME NEW t \in Sessions, script'[t] # "off", script[t] # "off"
      PROVE  plan'[t] = plan[t] /\ customURL'[t] = customURL[t] /\ approved'[t] = approved[t]
  BY <1>4, ClientFrame DEF Stage
<1>5. OneInstaller'
  BY <1>3, ClientFrame DEF OneInstaller, PastStop, device
<1>6. Work'
  BY <1>2, <1>3, <1>4, ClientFrame DEF Work, Spoilt, Stored, device
<1>7. ASSUME NEW t \in Sessions, confirmed[t]
      PROVE  confirmed'[t]
  BY <1>7, ClientFrame DEF TypeOK
<1>11. Sources'
  BY <1>2, <1>7, ClientFrame DEF Sources, Made
<1>8. Lasting'
  BY <1>2, <1>3, <1>4, <1>7 DEF Lasting, Alone
<1>9. Untouched' /\ OnDisk'
  BY <1>2, <1>7 DEF Untouched, OnDisk, Kept
<1>10. Unshown'
  <2> SUFFICES ASSUME NEW t \in Sessions, pc'[t] = "confirm" \/ script'[t] \in Early,
                      ~approved'[t], Alone(t)'
               PROVE  data.openpilot = NoCheckout
    BY <1>2 DEF Unshown
  <2>1. Alone(t)
    BY <1>7 DEF Alone
  <2>2. CASE script[t] \in Early
    BY <1>4, <2>1, <2>2, ClientFrame DEF Unshown, Stage, Early
  <2>3. CASE pc[t] = "confirm"
    BY <2>1, <2>3, ClientFrame DEF Unshown
  <2>4. CASE pc[t] # "confirm" /\ script[t] \notin Early
    <3>1. script'[t] \notin Early
      BY <2>4, ClientFrame DEF TypeOK
    <3>2. t = s /\ pc'[s] = "confirm" /\ pc[s] # "confirm"
      BY <2>4, <3>1, ClientFrame
    <3>3. AnswerReplace(s) => approved'[t]
      BY <3>2 DEF AnswerReplace, TypeOK, Return, Goto
    <3>4. ReadPlan(s)
      BY <3>2, <3>3 DEF Client, SelectURL, Connect, AnswerReplace, AnswerConfirm, ScriptReturns,
             ExecuteFails, Goto, Return, TypeOK
    <3>5. PICK p \in InstallPlans(s) : plan' = [plan EXCEPT ![s] = p] /\ ~p.OpenpilotExists
      BY <3>2, <3>4 DEF ReadPlan, Goto, Return, TypeOK
    <3>6. customURL[s] \in URLs
      BY <3>4 DEF ReadPlan, Goto, Return, Stage
    <3>. QED BY <3>5, <3>6, PlanFields
  <2>. QED BY <2>2, <2>3, <2>4
<1>. QED BY <1>1, <1>5, <1>6, <1>8, <1>9, <1>10, <1>11
-----------------------------------------------------------------------------
(* The script.  All its steps but the one that stops the wrapper move it    *)
(* alone, and one that deletes some files does not move it.                 *)
Steps(s) ==
  \/ StartScript(s) \/ LsRemote(s) \/ RemoveTmp(s) \/ StartClone(s) \/ FinishClone(s)
  \/ CheckoutBranch(s) \/ MoveAside(s) \/ MoveIntoPlace(s) \/ WriteLauncher(s)
  \/ Sync(s) \/ VerifyInstall(s) \/ RestartWrapper(s)

Successor == [c \in {"sent"} \cup Live |->
  CASE c = "sent" -> "ls_remote" [] c = "ls_remote" -> "stop" [] c = "rm" -> "clone"
    [] c = "clone" -> "cloning" [] c = "cloning" -> "checkout" [] c = "checkout" -> "aside"
    [] c = "aside" -> "move" [] c = "move" -> "launch" [] c = "launch" -> "sync"
    [] c = "sync" -> "verify" [] c = "verify" -> "restart" [] OTHER -> "ok"]

LEMMA SoloFrame ==
  ASSUME TypeOK, Stage, NEW s \in Sessions, Steps(s) \/ OrphanDies(s)
  PROVE  /\ UNCHANGED <<flag, client, link, spared, outages>>
         /\ orphans' \in {orphans, orphans \cup {s}}
         /\ orphans' # orphans => script'[s] = "killed" /\ script[s] \in PastStop
         /\ confirmed[s]
         /\ script[s] \in {"sent"} \cup Live
         /\ \E c \in {Successor[script[s]], "err", "killed"} : script' = [script EXCEPT ![s] = c]
<1> USE DEF TypeOK, Advance, Fail, Change, device, Live, PastStop, InTmp, Successor
<1>1. /\ UNCHANGED <<flag, client, link, spared, outages>>
      /\ script[s] \in {"sent"} \cup Live
  BY DEF Steps, StartScript, LsRemote, RemoveTmp, StartClone, FinishClone, CheckoutBranch,
         MoveAside, MoveIntoPlace, WriteLauncher, Sync, VerifyInstall, RestartWrapper, OrphanDies
<1>2. \E c \in {Successor[script[s]], "err", "killed"} : script' = [script EXCEPT ![s] = c]
  <2>1. CASE StartScript(s) \/ LsRemote(s) \/ RemoveTmp(s) \/ StartClone(s)
    BY <2>1 DEF StartScript, LsRemote, RemoveTmp, StartClone
  <2>2. CASE FinishClone(s) \/ CheckoutBranch(s) \/ MoveAside(s) \/ MoveIntoPlace(s)
    BY <2>2 DEF FinishClone, CheckoutBranch, MoveAside, MoveIntoPlace
  <2>3. CASE WriteLauncher(s) \/ Sync(s) \/ VerifyInstall(s) \/ RestartWrapper(s)
    BY <2>3 DEF WriteLauncher, Sync, VerifyInstall, RestartWrapper
  <2>4. CASE OrphanDies(s)
    BY <2>4 DEF OrphanDies
  <2>. QED BY <2>1, <2>2, <2>3, <2>4 DEF Steps
<1>3. confirmed[s]
  BY <1>1 DEF Stage
<1>4. CASE Steps(s)
  BY <1>1, <1>2, <1>3, <1>4
  DEF Steps, StartScript, LsRemote, RemoveTmp, StartClone, FinishClone, CheckoutBranch,
      MoveAside, MoveIntoPlace, WriteLauncher, Sync, VerifyInstall, RestartWrapper
<1>5. CASE OrphanDies(s)
  BY <1>1, <1>2, <1>3, <1>5 DEF OrphanDies
<1>. QED BY <1>4, <1>5

(* What these steps do to /data and to the disk, for the stage the script   *)
(* gets to.                                                                 *)
Reaches(s, d, e) ==
  LET branch == plan[s].MigratedBranch
      c == script'[s]
  IN  /\ c = "cloning" => d.tmppilot = Partial \/ (d.tmppilot = Damaged /\ Shared(s))
      /\ c = "checkout" => \/ data.tmppilot = Partial /\ d.tmppilot = branch
                           \/ data.tmppilot = Damaged /\ d.tmppilot = Damaged
      /\ c = "aside" => \/ data.tmppilot = branch /\ d.tmppilot = branch
                        \/ data.tmppilot \in {Partial, Damaged} /\ d.tmppilot \in {branch, Damaged}
      /\ c = "move" => d.tmppilot = data.tmppilot /\ d.openpilot = NoCheckout
      /\ c = "launch" =>
           /\ data.tmppilot # NoCheckout
           /\ d.openpilot = IF data.openpilot # NoCheckout THEN data.openpilot
                            ELSE IF data.tmppilot = Partial THEN Damaged ELSE data.tmppilot
      /\ c \in {"sync", "verify", "restart"} => d.openpilot = data.openpilot
      /\ c = "sync" => d.continueSh /\ d.url = customURL[s]
      /\ c \in {"verify", "restart", "ok"} => d = data
      /\ c = "verify" => e = data
      /\ c \in {"restart", "ok"} => e = disk
      /\ c = "launch" \/ d.openpilot \in {data.openpilot, NoCheckout}
      /\ d.tmppilot \in {data.tmppilot, NoCheckout, Partial, Damaged, branch}
      /\ e \in {disk, data}
      /\ script[s] \notin PastStop => d = data /\ e = disk

\* A command that fails changes neither.
LEMMA FailFields ==
  ASSUME TypeOK, NEW s \in Sessions, script'[s] \in {"err", "killed"}, UNCHANGED <<data, disk>>
  PROVE  Reaches(s, data', disk')
BY DEF Reaches

LEMMA SoloFields ==
  ASSUME TypeOK, Stage, NEW s \in Sessions, Steps(s) \/ OrphanDies(s)
  PROVE  data' \in Data /\ disk' \in Data /\ Reaches(s, data', disk')
<1>1. data \in Data /\ disk \in Data
  BY DEF TypeOK
<1>2. plan[s].MigratedBranch \in Checkouts /\ customURL[s] \in URLs
  BY SoloFrame DEF Stage, Planned, Checkouts
<1>3. data.tmppilot \in Checkouts \cup {NoCheckout, Partial, Damaged}
  BY <1>1 DEF Data
<1>4. ASSUME NEW from, Fail(s, from)
      PROVE  data' \in Data /\ disk' \in Data /\ Reaches(s, data', disk')
  BY <1>1, <1>4, FailFields DEF Fail, Advance, TypeOK, device
<1>5. ASSUME NEW from, NEW to, NEW new, Change(s, from, to, new), ~Fail(s, from)
      PROVE  script[s] = from /\ script'[s] = to /\ data' = new /\ disk' = disk
  BY <1>5 DEF Change, Advance, TypeOK
<1> USE <1>1, <1>2 DEF Data, Reaches, PastStop
<1>6. CASE StartScript(s) \/ LsRemote(s)
  <2>1. CASE StartScript(s)
    BY <2>1 DEF StartScript, Advance, TypeOK, device
  <2>2. CASE LsRemote(s)
    BY <1>4, <2>2 DEF LsRemote, Advance, TypeOK, device
  <2>. QED BY <1>6, <2>1, <2>2
<1>7. CASE RemoveTmp(s)
  BY <1>4, <1>5, <1>7 DEF RemoveTmp
<1>8. CASE StartClone(s)
  <2>1. CASE ~Fail(s, "clone")
    <3> DEFINE x == IF Shared(s) THEN Damaged ELSE Partial
    <3>1. Change(s, "clone", "cloning", [data EXCEPT !.tmppilot = x])
      BY <1>8, <2>1 DEF StartClone
    <3>2. /\ script[s] = "clone" /\ script'[s] = "cloning"
          /\ data' = [data EXCEPT !.tmppilot = x] /\ disk' = disk
      BY <1>5, <2>1, <3>1
    <3>3. x = Partial \/ (x = Damaged /\ Shared(s))
      OBVIOUS
    <3> HIDE DEF x
    <3>. QED BY <3>2, <3>3
  <2>. QED BY <1>4, <2>1
<1>9. CASE FinishClone(s)
  <2>1. CASE data.tmppilot \in {Partial, Damaged} /\ script'[s] = "checkout" /\ script[s] = "cloning"
             /\ data' = (IF data.tmppilot = Damaged THEN data
                         ELSE [data EXCEPT !.tmppilot = plan[s].MigratedBranch])
    BY <1>9, <2>1 DEF FinishClone
  <2>2. CASE script'[s] = "err" /\ script[s] = "cloning"
             /\ data' = [data EXCEPT !.tmppilot = NoCheckout]
    BY <1>9, <2>2 DEF FinishClone
  <2>. QED BY <1>9, <2>1, <2>2 DEF FinishClone, Advance, TypeOK
<1>10. CASE CheckoutBranch(s)
  <2>1. CASE data.tmppilot = plan[s].MigratedBranch
    BY <1>4, <1>5, <1>10, <2>1 DEF CheckoutBranch
  <2>2. CASE data.tmppilot # plan[s].MigratedBranch /\ data.tmppilot \in {Partial, Damaged}
    <3>1. PICK made \in {plan[s].MigratedBranch, Damaged} :
            Change(s, "checkout", "aside", [data EXCEPT !.tmppilot = made])
      BY <1>10, <2>2 DEF CheckoutBranch
    <3>. QED BY <1>4, <1>5, <2>2, <3>1
  <2>3. CASE data.tmppilot # plan[s].MigratedBranch /\ data.tmppilot \notin {Partial, Damaged}
    BY <1>4, <1>10, <2>3 DEF CheckoutBranch
  <2>. QED BY <2>1, <2>2, <2>3
<1>11. CASE MoveAside(s)
  <2>1. CASE ~Fail(s, "aside")
    <3>1. /\ script[s] = "aside" /\ script'[s] = "move" /\ disk' = disk
          /\ data' = IF data.openpilot = NoCheckout THEN data
                     ELSE [data EXCEPT !.backups = @ \cup ({data.openpilot} \cap Checkouts),
                                       !.openpilot = NoCheckout]
      BY <1>5, <1>11, <2>1 DEF MoveAside
    <3>. QED BY <3>1
  <2>. QED BY <1>4, <2>1
<1>12. CASE MoveIntoPlace(s)
  <2>1. CASE ~Fail(s, "move")
    <3>1. /\ script[s] = "move" /\ script'[s] = "launch" /\ disk' = disk
          /\ data.tmppilot # NoCheckout
          /\ data' = [data EXCEPT !.openpilot = IF data.openpilot # NoCheckout THEN @
                                                ELSE IF data.tmppilot = Partial THEN Damaged
                                                ELSE data.tmppilot,
                                  !.tmppilot = NoCheckout]
      BY <1>5, <1>12, <2>1 DEF MoveIntoPlace
    <3>. QED BY <1>3, <3>1
  <2>. QED BY <1>4, <2>1
<1>13. CASE WriteLauncher(s)
  <2>1. CASE ~Fail(s, "launch")
    <3>1. /\ script[s] = "launch" /\ script'[s] = "sync" /\ disk' = disk
          /\ data' = [data EXCEPT !.continueSh = TRUE, !.url = customURL[s]]
      BY <1>5, <1>13, <2>1 DEF WriteLauncher
    <3>. QED BY <3>1
  <2>. QED BY <1>4, <2>1
<1>14. CASE Sync(s)
  BY <1>4, <1>14 DEF Sync, Advance, TypeOK
<1>15. CASE VerifyInstall(s)
  BY <1>4, <1>5, <1>15 DEF VerifyInstall
<1>16. CASE RestartWrapper(s)
  BY <1>16 DEF RestartWrapper, Advance, TypeOK
<1>17. CASE OrphanDies(s)
  <2>1. script'[s] = "killed" /\ disk' = disk
        /\ \/ data' = data
           \/ script[s] = "cloning" /\ data' = [data EXCEPT !.tmppilot = NoCheckout]
    <3>1. script[s] \in Live /\ script' = [script EXCEPT ![s] = "killed"] /\ disk' = disk
      BY <1>17 DEF OrphanDies
    <3>2. script'[s] = "killed"
      BY <3>1 DEF TypeOK
    <3>3. \/ data' = data
          \/ script[s] = "cloning" /\ data' = [data EXCEPT !.tmppilot = NoCheckout]
      BY <1>17 DEF OrphanDies
    <3>. QED BY <3>1, <3>2, <3>3
  <2>. QED BY <2>1
<1>. QED BY <1>6, <1>7, <1>8, <1>9, <1>10, <1>11, <1>12, <1>13, <1>14, <1>15, <1>16, <1>17 DEF Steps

\* No checkout leaves /data but by being moved within it.
LEMMA SoloKept ==
  ASSUME TypeOK, Stage, OnDisk, NEW s \in Sessions, Steps(s) \/ OrphanDies(s)
  PROVE  OnDisk'
<1>1. data \in Data /\ disk' \in {disk, data}
  BY SoloFields DEF TypeOK, Reaches
<1>2. Kept(data) \subseteq Kept(data')
  <2>1. CASE MoveAside(s)
    BY <1>1, <2>1 DEF MoveAside, Change, Fail, device, Kept, Data
  <2>2. CASE MoveIntoPlace(s)
    BY <1>1, <2>2, InstallAssumption DEF MoveIntoPlace, Change, Fail, device, Kept, Data
  <2>3. CASE ~MoveAside(s) /\ ~MoveIntoPlace(s)
    <3>1. data'.openpilot = data.openpilot /\ data'.backups = data.backups
      <4> USE <1>1 DEF Change, Fail, device, Data
      <4>1. CASE StartScript(s) \/ LsRemote(s) \/ RemoveTmp(s) \/ StartClone(s)
        BY <4>1 DEF StartScript, LsRemote, RemoveTmp, StartClone
      <4>2. CASE FinishClone(s) \/ CheckoutBranch(s) \/ WriteLauncher(s)
        BY <4>2 DEF FinishClone, CheckoutBranch, WriteLauncher
      <4>3. CASE Sync(s) \/ VerifyInstall(s) \/ RestartWrapper(s)
        BY <4>3 DEF Sync, VerifyInstall, RestartWrapper
      <4>4. CASE OrphanDies(s)
        BY <4>4 DEF OrphanDies
      <4>. QED BY <2>3, <4>1, <4>2, <4>3, <4>4 DEF Steps
    <3>. QED BY <3>1 DEF Kept
  <2>. QED BY <2>1, <2>2, <2>3
<1>. QED BY <1>1, <1>2 DEF OnDisk

LEMMA SoloPreserves ==
  ASSUME IInv, NEW s \in Sessions, Steps(s) \/ OrphanDies(s)
  PROVE  IInv'
<1>0. TypeOK /\ Stage /\ OneInstaller /\ Work /\ Sources /\ OnDisk /\ Unshown
  BY DEF IInv
<1>1. /\ UNCHANGED <<flag, client, link, spared, outages>>
      /\ orphans' \in {orphans, orphans \cup {s}}
      /\ orphans' # orphans => script'[s] = "killed" /\ script[s] \in PastStop
      /\ confirmed[s] /\ script[s] \in {"sent"} \cup Live
  BY <1>0, SoloFrame
<1>2. PICK c \in {Successor[script[s]], "err", "killed"} : script' = [script EXCEPT ![s] = c]
  BY <1>0, SoloFrame
<1>3. script'[s] = c /\ \A t \in Sessions \ {s} : script'[t] = script[t]
  BY <1>0, <1>2 DEF TypeOK
<1>4. /\ c \notin {"off", "sent"}
      /\ c \in Live \cup Ended
      /\ c \in PastStop => script[s] \in PastStop
      /\ c = "ok" => script[s] = "restart" \/ script[s] = "stop"
      /\ c = "cloning" => script[s] = "clone"
      /\ c = "checkout" => script[s] = "cloning"
      /\ c = "aside" => script[s] = "checkout"
      /\ c = "move" => script[s] = "aside"
      /\ c = "launch" => script[s] = "move"
      /\ c = "sync" => script[s] = "launch"
      /\ c = "verify" => script[s] = "sync"
      /\ c = "restart" => script[s] = "verify"
      /\ c \in Early => script[s] \in Early
  BY <1>1 DEF Successor, Live, PastStop, Ended, Early
<1>5. Planned(s) /\ Consented(s) /\ plan[s].MigratedBranch \in Branches
  BY <1>0, <1>1 DEF Stage, Planned
<1>6. data' \in Data /\ disk' \in Data /\ Reaches(s, data', disk') /\ OnDisk'
  BY <1>0, SoloFields, SoloKept
<1>7. TypeOK'
  BY <1>0, <1>1, <1>2, <1>4, <1>6 DEF TypeOK, client
<1>8. Stage'
  BY <1>0, <1>1, <1>3, <1>4 DEF Stage, client, Planned, Consented, Alone, Live, PastStop
<1>9. OneInstaller'
  BY <1>0, <1>1, <1>3, <1>4 DEF OneInstaller
<1>10. Work'
  <2> SUFFICES ASSUME script[s] \in PastStop, spared = {}
               PROVE  Work'
    <3>1. script[s] \notin PastStop => UNCHANGED <<data, disk, orphans>>
      BY <1>1, <1>6 DEF Reaches
    <3>2. script[s] \notin PastStop => c \notin PastStop
      BY <1>4
    <3>. QED BY <1>0, <1>1, <1>3, <3>1, <3>2 DEF Work, Spoilt, Stored, client, PastStop
  <2>1. ASSUME NEW t \in Sessions \ {s}
        PROVE  script'[t] \notin PastStop /\ script[t] \notin PastStop
    BY <1>0, <1>3, <2>1 DEF OneInstaller
  <2>2. c = "cloning" => data'.tmppilot = Partial \/ Spoilt(data'.tmppilot)
    <3>1. Shared(s) => orphans # {}
      BY <2>1 DEF Shared, PastStop
    <3>. QED BY <1>3, <1>6, <3>1 DEF Reaches, Spoilt
  <2>3. c \in {"checkout", "aside", "move"} =>
          data'.tmppilot = plan[s].MigratedBranch \/ Spoilt(data'.tmppilot)
    <3> USE <1>0, <1>3, <1>4, <1>5, <1>6, InstallAssumption DEF Work, Reaches, Spoilt, Checkouts
    <3>1. CASE c = "checkout"
      BY <3>1
    <3>2. CASE c = "aside"
      BY <3>2
    <3>3. CASE c = "move"
      BY <3>3
    <3>. QED BY <3>1, <3>2, <3>3
  <2>4. c = "move" => data'.openpilot = NoCheckout
    BY <1>3, <1>6 DEF Reaches
  <2>5. c \in {"launch", "sync", "verify", "restart"} =>
          data'.openpilot \in {plan[s].MigratedBranch} \cup {Damaged : t \in orphans}
    <3>1. CASE c = "launch"
      BY <1>0, <1>3, <1>4, <1>5, <1>6, <3>1, InstallAssumption DEF Work, Reaches, Spoilt, Checkouts
    <3>2. CASE c \in {"sync", "verify", "restart"}
      BY <1>0, <1>3, <1>4, <1>6, <3>2 DEF Work, Reaches
    <3>. QED BY <3>1, <3>2
  <2>6. c \in {"sync", "verify", "restart"} => data'.continueSh /\ data'.url = customURL[s]
    BY <1>0, <1>3, <1>4, <1>6 DEF Work, Reaches
  <2>7. c \in {"verify", "restart"} =>
          Stored(data', disk') /\ (orphans = {} => disk' = data')
    <3>1. \A d \in Data : d = [d EXCEPT !.tmppilot = d.tmppilot]
      BY DEF Data
    <3>2. data \in Data
      BY <1>0 DEF TypeOK
    <3>3. CASE c = "verify"
      BY <1>3, <1>6, <3>1, <3>2, <3>3 DEF Reaches, Stored
    <3>4. CASE c = "restart"
      BY <1>0, <1>3, <1>4, <1>6, <3>4 DEF Work, Reaches, Stored
    <3>. QED BY <3>3, <3>4
  <2>8. c \in PastStop => orphans' = orphans
    BY <1>1, <1>3 DEF PastStop
  <2>. QED BY <1>1, <1>3, <2>1, <2>2, <2>3, <2>4, <2>5, <2>6, <2>7, <2>8
       DEF Work, Spoilt, client, PastStop
<1>11. Unshown'
  <2>1. data'.openpilot = data.openpilot \/ data'.openpilot = NoCheckout
                                         \/ c \notin Early
    BY <1>3, <1>6 DEF Reaches, Early
  <2>2. pc[s] # "confirm"
    BY <1>0, <1>1 DEF Stage, Asking
  <2>. QED BY <1>0, <1>1, <1>3, <1>4, <2>1, <2>2 DEF Unshown, client, Alone
<1>12. Lasting'
  <2> SUFFICES ASSUME c = "ok", Alone(s)
               PROVE  disk'.openpilot = plan[s].MigratedBranch /\ disk' = data'
    BY <1>1, <1>3 DEF IInv, Lasting, Alone, client
  <2>1. script[s] = "restart"
    <3>1. RestartWrapper(s)
      BY <1>0, <1>3 DEF Steps, OrphanDies, StartScript, LsRemote, RemoveTmp, StartClone, FinishClone,
         CheckoutBranch, MoveAside, MoveIntoPlace, WriteLauncher, Sync, VerifyInstall, TypeOK,
         Advance, Fail, Change
    <3>. QED BY <3>1 DEF RestartWrapper, Advance
  <2>2. spared = {} /\ orphans = {}
    <3>1. \A t \in Sessions \ {s} : script[t] = "off" /\ t \notin spared /\ t \notin orphans
      BY <1>0 DEF Stage, Alone
    <3>2. s \notin spared /\ s \notin orphans
      BY <1>0, <2>1 DEF Stage
    <3>. QED BY <1>0, <3>1, <3>2 DEF TypeOK
  <2>3. disk = data /\ data.openpilot = plan[s].MigratedBranch
    BY <1>0, <2>1, <2>2 DEF Work
  <2>. QED BY <1>3, <1>6, <2>3 DEF Reaches
<1>13. Untouched'
  BY <1>1 DEF Untouched, client
<1>14. Sources'
  <2>1. Made' = Made
    BY <1>1 DEF Made, client
  <2>2. plan[s].MigratedBranch \in Made
    BY <1>1 DEF Made
  <2>. QED BY <1>0, <1>6, <2>1, <2>2 DEF Sources, Reaches, Made
<1>. QED BY <1>6, <1>7, <1>8, <1>9, <1>10, <1>11, <1>12, <1>13, <1>14 DEF IInv

(* The script that stops the wrapper ends every other one it does not miss. *)
LEMMA StopFrame ==
  ASSUME TypeOK, Stage, NEW s \in Sessions, StopWrapper(s)
  PROVE  /\ UNCHANGED <<flag, client, link, data, disk, outages>>
         /\ confirmed[s] /\ script[s] = "stop"
         /\ script' \in [Sessions -> {"off", "sent"} \cup Live \cup Ended]
         /\ script'[s] \in {"rm", "killed"}
         /\ \A t \in Sessions \ {s} :
              /\ script'[t] \in {script[t], "killed"}
              /\ script'[t] # script[t] => script[t] \in Live
              /\ script[t] \in PastStop /\ script'[t] # "killed" => t \in spared'
         /\ orphans \subseteq orphans' /\ orphans' \subseteq Sessions
         /\ \A t \in orphans' : script'[t] = "killed"
         /\ spared \subseteq spared' /\ spared' \subseteq Sessions
         /\ \A t \in spared' : t \in spared \/ (t # s /\ script[t] \in PastStop)
<1>1. /\ UNCHANGED <<flag, client, link, data, disk, outages>>
      /\ script[s] = "stop"
  BY DEF StopWrapper
<1>2. confirmed[s]
  BY <1>1 DEF Stage
<1>3. PICK gone \in SUBSET Rivals(s), me \in {"rm", "killed"} :
        /\ script' = [t \in Sessions |-> IF t = s THEN me
                                         ELSE IF t \in gone THEN "killed" ELSE script[t]]
        /\ orphans' = orphans \cup {t \in gone : script[t] \in InTmp}
        /\ spared' = spared \cup {t \in Rivals(s) \ gone : script[t] \in PastStop}
  BY DEF StopWrapper
<1>4. gone \subseteq Sessions \ {s} /\ \A t \in gone : script[t] \in Live
  BY <1>3 DEF Rivals
<1>5. script' \in [Sessions -> {"off", "sent"} \cup Live \cup Ended]
  BY <1>3 DEF TypeOK, Live, PastStop, Ended
<1>6. /\ orphans \subseteq orphans' /\ orphans' \subseteq Sessions
      /\ \A t \in orphans' : script'[t] = "killed"
  <2>1. orphans \subseteq Sessions /\ \A t \in orphans : script[t] = "killed"
    BY DEF TypeOK, Stage
  <2>2. s \notin orphans
    BY <1>1, <2>1
  <2>. QED BY <1>3, <1>4, <2>1, <2>2
<1>7. /\ spared \subseteq spared' /\ spared' \subseteq Sessions
      /\ \A t \in spared' : t \in spared \/ (t # s /\ script[t] \in PastStop)
  <2>1. Rivals(s) \subseteq Sessions \ {s}
    BY DEF Rivals
  <2>. QED BY <1>3, <2>1 DEF TypeOK
<1>8. ASSUME NEW t \in Sessions \ {s}
      PROVE  /\ script'[t] \in {script[t], "killed"}
             /\ script'[t] # script[t] => script[t] \in Live
             /\ script[t] \in PastStop /\ script'[t] # "killed" => t \in spared'
  BY <1>3, <1>4, <1>8 DEF Rivals, Live
<1>9. script'[s] \in {"rm", "killed"}
  BY <1>3
<1>. QED BY <1>1, <1>2, <1>5, <1>6, <1>7, <1>8, <1>9

LEMMA StopPreserves ==
  ASSUME IInv, NEW s \in Sessions, StopWrapper(s)
  PROVE  IInv'
<1>0. TypeOK /\ Stage /\ OneInstaller
  BY DEF IInv
<1>1. /\ UNCHANGED <<flag, client, link, data, disk, outages>>
      /\ confirmed[s] /\ script[s] = "stop"
      /\ script'[s] \in {"rm", "killed"}
      /\ \A t \in Sessions \ {s} :
           /\ script'[t] \in {script[t], "killed"}
           /\ script'[t] # script[t] => script[t] \in Live
           /\ script[t] \in PastStop /\ script'[t] # "killed" => t \in spared'
      /\ orphans \subseteq orphans' /\ spared \subseteq spared'
      /\ \A t \in spared' : t \in spared \/ (t # s /\ script[t] \in PastStop)
  BY <1>0, StopFrame
<1>2. TypeOK'
  BY <1>0, StopFrame DEF TypeOK, client
<1>3. Stage'
  <2>1. \A t \in orphans' : script'[t] = "killed"
    BY <1>0, StopFrame
  <2>2. ASSUME NEW t \in spared' PROVE confirmed'[t] /\ ~Alone(t)'
    <3>1. t \in Sessions /\ confirmed' = confirmed
      BY <1>1, <1>2 DEF TypeOK, client
    <3>2. CASE t \in spared
      BY <1>0, <3>1, <3>2 DEF Stage, Alone
    <3>3. CASE t # s /\ script[t] \in PastStop
      BY <1>0, <1>1, <3>1, <3>3 DEF Stage, Alone, PastStop
    <3>. QED BY <1>1, <3>2, <3>3
  <2>. QED BY <1>0, <1>1, <2>1, <2>2 DEF Stage, client, Planned, Consented, Live, PastStop
<1>4. \A t \in Sessions \ {s} : script'[t] \in PastStop => script[t] \in PastStop /\ t \in spared'
  BY <1>1 DEF PastStop
<1>5. OneInstaller'
  BY <1>0, <1>1, <1>4 DEF OneInstaller
<1>6. Work'
  BY <1>1, <1>4 DEF Work, client, PastStop
<1>7. Unshown' /\ Lasting' /\ Untouched' /\ OnDisk' /\ Sources'
  <2>2. \A t \in Sessions : script'[t] \in Early => script[t] \in Early
    BY <1>1 DEF Early
  <2>3. \A t \in Sessions : script'[t] = "ok" => script[t] = "ok"
    BY <1>1
  <2>. QED BY <1>1, <2>2, <2>3
       DEF IInv, Unshown, Lasting, Untouched, OnDisk, Kept, Alone, Sources, Made, client
<1>. QED BY <1>2, <1>3, <1>5, <1>6, <1>7 DEF IInv

(* A process that deletes or writes in /data/tmppilot under another one.    *)
LEMMA TamperFrame ==
  ASSUME TypeOK, Stage, NEW s \in Sessions, Meddle(s) \/ RemoveSome(s)
  PROVE  /\ UNCHANGED <<flag, client, link, script, orphans, spared, disk, outages>>
         /\ \E left \in {NoCheckout, Damaged} : data' = [data EXCEPT !.tmppilot = left]
         /\ confirmed[s]
         /\ \/ s \in orphans
            \/ script[s] = "rm"
            \/ script[s] = "cloning" /\ data.tmppilot # Partial
            \/ script[s] = "checkout" /\ data.tmppilot # plan[s].MigratedBranch
BY DEF Meddle, RemoveSome, Stage

LEMMA TamperPreserves ==
  ASSUME IInv, NEW s \in Sessions, Meddle(s) \/ RemoveSome(s)
  PROVE  IInv'
<1>0. TypeOK /\ Stage /\ OneInstaller /\ Work /\ OnDisk /\ Sources
  BY DEF IInv
<1>1. UNCHANGED <<flag, client, link, script, orphans, spared, disk, outages>> /\ confirmed[s]
  BY <1>0, TamperFrame
<1>2. PICK left \in {NoCheckout, Damaged} : data' = [data EXCEPT !.tmppilot = left]
  BY <1>0, TamperFrame
<1>3. data \in Data /\ disk \in Data
  BY <1>0 DEF TypeOK
<1>4. /\ data' \in Data /\ data'.openpilot = data.openpilot /\ data'.backups = data.backups
      /\ data'.continueSh = data.continueSh /\ data'.url = data.url
      /\ data'.tmppilot = left
  BY <1>2, <1>3 DEF Data
<1>5. TypeOK'
  BY <1>0, <1>1, <1>4 DEF TypeOK, client
<1>6. Stage' /\ OneInstaller'
  BY <1>0, <1>1 DEF Stage, OneInstaller, client, Planned, Consented, Alone
<1>7. Work'
  <2> SUFFICES ASSUME spared = {}
               PROVE  Work'
    BY <1>1 DEF Work
  <2>1. CASE orphans # {}
    <3>1. \A x : [[data EXCEPT !.tmppilot = left] EXCEPT !.tmppilot = x] =
                 [data EXCEPT !.tmppilot = x]
      BY <1>3 DEF Data
    <3>2. Stored(data, disk) => Stored(data', disk)
      BY <1>2, <3>1 DEF Stored
    <3>. QED BY <1>0, <1>1, <1>4, <2>1, <3>2 DEF Work, Spoilt, client
  <2>2. CASE orphans = {}
    <3>1. script[s] = "rm"
      BY <1>0, <2>2, TamperFrame DEF Work, Spoilt
    <3>2. \A t \in Sessions \ {s} : script[t] \notin PastStop
      BY <1>0, <3>1 DEF OneInstaller, PastStop
    <3>. QED BY <1>1, <3>1, <3>2 DEF Work, PastStop, client
  <2>. QED BY <2>1, <2>2
<1>8. Unshown'
  BY <1>1, <1>4 DEF IInv, Unshown, Alone, client
<1>9. Lasting' /\ Untouched'
  <2>1. ASSUME NEW t \in Sessions, script[t] = "ok", Alone(t)
        PROVE  FALSE
    <3>1. s = t
      BY <1>1, <2>1 DEF Alone
    <3>. QED BY <1>0, <2>1, <3>1, TamperFrame DEF Stage
  <2>. QED BY <1>1, <2>1 DEF Lasting, Untouched, Alone, client
<1>10. OnDisk' /\ Sources'
  BY <1>0, <1>1, <1>4 DEF OnDisk, Kept, Sources, Made, client
<1>. QED BY <1>5, <1>6, <1>7, <1>8, <1>9, <1>10 DEF IInv

LEMMA RestPreserves ==
  ASSUME IInv,
         \/ \E s \in Sessions : LoseLink(s)
         \/ WriteBack \/ PowerLoss \/ UNCHANGED vars
  PROVE  IInv'
<1> USE DEF Sources, Made
<1>2. ASSUME NEW s \in Sessions, LoseLink(s) PROVE IInv'
  <2>1. UNCHANGED <<flag, client, script, device, outages>> /\ link' \subseteq link
    BY <1>2 DEF LoseLink
  <2>. QED BY <2>1 DEF IInv, TypeOK, Stage, OneInstaller, Work, Spoilt, Stored, Unshown, Lasting,
                       Untouched, OnDisk, Kept, Alone, Planned, Consented, client, device
<1>3. CASE WriteBack
  <2>1. UNCHANGED <<flag, client, link, script, orphans, spared, data, outages>> /\ disk' = data
    BY <1>3 DEF WriteBack
  <2>2. Work'
    <3>1. data = [data EXCEPT !.tmppilot = data.tmppilot]
      BY DEF IInv, TypeOK, Data
    <3>. QED BY <2>1, <3>1 DEF IInv, Work, Spoilt, Stored, client
  <2>. QED BY <2>1, <2>2 DEF IInv, TypeOK, Stage, OneInstaller, Unshown, Lasting, Untouched, OnDisk,
                       Kept, Alone, Planned, Consented, client
<1>4. CASE PowerLoss
  <2>0. TypeOK /\ Stage
    BY DEF IInv
  <2>1. /\ UNCHANGED <<flag, client, disk>> /\ data' = disk
        /\ orphans' = {} /\ spared' = {} /\ link' = {}
        /\ outages' \in 0..MaxOutages
    BY <1>4, <2>0, InstallAssumption DEF PowerLoss, TypeOK
  <2>2. \A s \in Sessions : script'[s] = CASE script[s] = "sent" -> "off"
                                           [] script[s] \in Live -> "killed"
                                           [] OTHER -> script[s]
    BY <1>4 DEF PowerLoss
  <2>3. script' \in [Sessions -> {"off", "killed"} \cup Ended]
    BY <1>4, <2>0 DEF PowerLoss, TypeOK, Ended
  <2>4. TypeOK'
    BY <2>0, <2>1, <2>3 DEF TypeOK, client, Ended
  <2>5. ASSUME NEW s \in Sessions
        PROVE  /\ script'[s] \in {"off", "ok", "err", "killed"}
               /\ script[s] = "off" => script'[s] = "off"
               /\ script[s] = "ok" <=> script'[s] = "ok"
    BY <2>0, <2>2, <2>3 DEF TypeOK, Live, PastStop, Ended
  <2>6. Stage'
    BY <2>0, <2>1, <2>5 DEF Stage, client, Planned, Consented
  <2>7. OneInstaller' /\ Work'
    BY <2>5 DEF OneInstaller, Work, PastStop
  <2>8. Unshown'
    <3> SUFFICES ASSUME NEW s \in Sessions, pc[s] = "confirm", ~approved[s], Alone(s)
                 PROVE  disk.openpilot = NoCheckout
      BY <2>1, <2>5 DEF Unshown, Early, Alone, client
    <3>1. \A t \in Sessions : ~confirmed[t]
      BY <2>0 DEF Stage, Asking, Alone
    <3>. QED BY <3>1 DEF IInv, Untouched, Unshown
  <2>9. Lasting' /\ Untouched' /\ OnDisk' /\ Sources'
    BY <2>1, <2>5 DEF IInv, Lasting, Untouched, OnDisk, Kept, Alone, client
  <2>. QED BY <2>4, <2>6, <2>7, <2>8, <2>9 DEF IInv
<1>5. CASE UNCHANGED vars
  BY <1>5 DEF vars, IInv, TypeOK, Stage, OneInstaller, Work, Spoilt, Stored, Unshown, Lasting,
              Untouched, OnDisk, Kept, Alone, Planned, Consented, client, device
<1>. QED BY <1>2, <1>3, <1>4, <1>5

LEMMA StepPreserves == IInv /\ [Next]_vars => IInv'
BY ClientPreserves, SoloPreserves, StopPreserves, TamperPreserves, RestPreserves
DEF Next, Script, Steps

LEMMA Invariance == Spec => []IInv
BY Initially, StepPreserves, PTL DEF Spec
-----------------------------------------------------------------------------
\* The variables of the sessions and of the device keep their types.
THEOREM TypeCorrect == Spec => []TypeOK
BY Invariance, PTL DEF IInv

\* Whatever number of sessions are at it, only one script works on /data, the one
\* that stopped the wrapper last, and such as its kill has missed.
THEOREM OneInstallerAtATime == Spec => []OneInstaller
BY Invariance, PTL DEF IInv

\* What a session that was alone reports as installed is on the disk, for any
\* number of outages.
THEOREM InstalledLasts == Spec => []InstalledSurvivesOutage
<1>1. IInv => InstalledSurvivesOutage
  BY DEF IInv, Stage, Lasting, Alone, InstalledSurvivesOutage
<1>. QED BY <1>1, Invariance, PTL

\* What is written to the disk is /data as it is.
LEMMA DiskStep == IInv /\ [Next]_vars => disk' \in {disk, data}
<1> SUFFICES ASSUME IInv, [Next]_vars PROVE disk' \in {disk, data}
  OBVIOUS
<1>1. ASSUME NEW s \in Sessions, Client(s) PROVE disk' = disk
  BY <1>1, ClientFrame DEF IInv, device
<1>2. ASSUME NEW s \in Sessions, Steps(s) \/ OrphanDies(s) PROVE disk' \in {disk, data}
  BY <1>2, SoloFields DEF Reaches, IInv
<1>3. ASSUME NEW s \in Sessions, StopWrapper(s) \/ RemoveSome(s) \/ Meddle(s) \/ LoseLink(s)
      PROVE  disk' = disk
  BY <1>3 DEF StopWrapper, RemoveSome, Meddle, LoseLink, device
<1>. QED BY <1>1, <1>2, <1>3 DEF Next, Script, Steps, WriteBack, PowerLoss, vars, device

\* A checkout that is on the disk stays there, in its place or in a backup,
\* whatever fails, is killed, is retried or loses power.
THEOREM CheckoutsKept == Spec => CheckoutsNeverLost
<1>1. IInv /\ [Next]_vars => [Kept(disk) \subseteq Kept(disk')]_vars
  BY DiskStep DEF IInv, OnDisk, Kept
<1>. QED BY <1>1, Invariance, PTL DEF Spec, CheckoutsNeverLost

\* A script that ends well when no kill has missed a script leaves the planned
\* branch, its URL and its launcher, all of it on the disk, and the branch is
\* whole if no process whose shell was killed has been at it.
THEOREM ScriptEndsInstalled == Spec => EndsInstalled
<1> DEFINE Safe == \A s \in Sessions : script[s] # "ok" /\ script'[s] = "ok" /\ spared = {} =>
             /\ data.openpilot \in {plan[s].MigratedBranch} \cup {Damaged : t \in orphans}
             /\ data.url = customURL[s] /\ data.continueSh
             /\ disk = [data EXCEPT !.tmppilot = disk.tmppilot]
<1>1. IInv /\ [Next]_vars => [Safe]_vars
  <2> SUFFICES ASSUME IInv, Next, NEW s \in Sessions, script[s] # "ok", script'[s] = "ok"
               PROVE  script[s] = "restart"
    BY DEF IInv, Work, Stored
  <2>0. TypeOK /\ Stage
    BY DEF IInv
  <2>1. ASSUME NEW t \in Sessions, Client(t) PROVE FALSE
    BY <2>0, <2>1, ClientFrame DEF TypeOK
  <2>2. ASSUME NEW t \in Sessions, StopWrapper(t) PROVE FALSE
    BY <2>0, <2>2, StopFrame
  <2>3. ASSUME NEW t \in Sessions, Steps(t) \/ OrphanDies(t) PROVE script[s] = "restart"
    <3>1. RestartWrapper(t)
      BY <2>0, <2>3 DEF Steps, OrphanDies, StartScript, LsRemote, RemoveTmp, StartClone,
         FinishClone, CheckoutBranch, MoveAside, MoveIntoPlace, WriteLauncher, Sync, VerifyInstall,
         TypeOK, Advance, Fail, Change
    <3>. QED BY <2>0, <3>1 DEF RestartWrapper, Advance, TypeOK
  <2>4. ASSUME \/ \E t \in Sessions : Meddle(t) \/ RemoveSome(t) \/ LoseLink(t)
               \/ WriteBack \/ PowerLoss
        PROVE  FALSE
    BY <2>0, <2>4 DEF Meddle, RemoveSome, LoseLink, WriteBack, PowerLoss, TypeOK
  <2>. QED BY <2>1, <2>2, <2>3, <2>4 DEF Next, Script, Steps
<1>. QED BY <1>1, Invariance, PTL DEF Spec, EndsInstalled

\* A checkout is moved aside with its operator's approval, unless there was none
\* to show and another session's confirmed install has put it there since.
THEOREM AsideApproved == Spec => AsideOnlyApproved
<1> DEFINE Safe == \A s \in Sessions : Aside(s) =>
             \/ approved[s]
             \/ ~plan[s].OpenpilotExists /\ \E t \in Sessions \ {s} : confirmed[t]
<1>1. IInv /\ [Next]_vars => [Safe]_vars
  <2> SUFFICES ASSUME IInv, NEW s \in Sessions, Aside(s), ~approved[s]
               PROVE  ~plan[s].OpenpilotExists /\ \E t \in Sessions \ {s} : confirmed[t]
    OBVIOUS
  <2>1. confirmed[s] /\ ~plan[s].OpenpilotExists
    BY DEF IInv, Stage, Aside, Consented
  <2>. QED BY <2>1 DEF IInv, Unshown, Early, Aside, Alone
<1>. QED BY <1>1, Invariance, PTL DEF Spec, AsideOnlyApproved
-----------------------------------------------------------------------------
(* The install implements GuardedRecord.                                   *)

LEMMA RecordInit == Init => Record!Init
BY DEF Init, Record!Init, Granted, Command, Live, PastStop, Ended, Checkouts

\* A step that leaves the mapped values alone is a stutter.
LEMMA RecordStutter ==
  ASSUME data'.openpilot = data.openpilot, disk'.openpilot = disk.openpilot,
         Granted' = Granted, Command' = Command
  PROVE  UNCHANGED Record!vars
BY DEF Record!vars

LEMMA GrantedKept ==
  ASSUME confirmed' = confirmed,
         \A t \in Sessions : confirmed[t] => plan'[t] = plan[t]
  PROVE  Granted' = Granted
BY DEF Granted

LEMMA RecordClient ==
  ASSUME TypeOK, Stage, NEW s \in Sessions, Client(s)
  PROVE  [Record!Next]_(Record!vars)
<1>1. UNCHANGED <<data, disk>>
  BY ClientFrame DEF device
<1>2. CASE UNCHANGED <<script, confirmed>>
  <2>1. Granted' = Granted
    BY <1>2, ClientFrame, GrantedKept
  <2>2. Command' = Command
    BY <1>2 DEF Command
  <2>. QED BY <1>1, <2>1, <2>2, RecordStutter
<1>3. CASE /\ pc[s] = "confirm" /\ ~confirmed[s] /\ script[s] = "off"
           /\ confirmed' = [confirmed EXCEPT ![s] = TRUE]
           /\ script' \in {script, [script EXCEPT ![s] = "sent"]}
  <2>1. Command' = Command
    BY <1>3 DEF TypeOK, Command, Live, PastStop, Ended
  <2>2. \A t \in Sessions : t = s \/ confirmed[t] => plan'[t] = plan[t]
    BY <1>3, ClientFrame
  <2>3. Granted[s] = {}
    BY <1>3 DEF Granted
  <2>4. Granted' = [Granted EXCEPT ![s] = {NoCheckout, Damaged, plan[s].MigratedBranch}]
    BY <1>3, <2>2 DEF Granted, TypeOK
  <2>5. {NoCheckout, Damaged, plan[s].MigratedBranch}
          \in SUBSET (Checkouts \cup {NoCheckout, Damaged})
    BY DEF TypeOK, Plan, Checkouts
  <2>. QED BY <1>1, <2>1, <2>3, <2>4, <2>5 DEF Record!Next, Record!Grant
<1>. QED BY <1>2, <1>3, ClientFrame

LEMMA RecordSolo ==
  ASSUME IInv, NEW s \in Sessions, Steps(s) \/ OrphanDies(s)
  PROVE  Record!Next
<1>0. TypeOK /\ Stage /\ Sources
  BY DEF IInv
<1>1. client' = client /\ confirmed[s] /\ script[s] \in {"sent"} \cup Live
  BY <1>0, SoloFrame
<1>2. PICK c \in {Successor[script[s]], "err", "killed"} : script' = [script EXCEPT ![s] = c]
  BY <1>0, SoloFrame
<1>3. Granted' = Granted /\ Granted[s] = {NoCheckout, Damaged, plan[s].MigratedBranch}
  BY <1>1 DEF client, Granted
<1>4. CASE script[s] = "sent"
  <2>1. c = "ls_remote" /\ UNCHANGED <<data, disk>>
    BY <1>0, <1>2, <1>4 DEF Steps, OrphanDies, StartScript, LsRemote, RemoveTmp, StartClone,
       FinishClone, CheckoutBranch, MoveAside, MoveIntoPlace, WriteLauncher, Sync, VerifyInstall,
       RestartWrapper, TypeOK, Advance, Fail, Change, Live, PastStop, device
  <2>2. Command[s] = "idle" /\ Command' = [Command EXCEPT ![s] = "live"]
    BY <1>0, <1>2, <1>4, <2>1 DEF TypeOK, Command, Live, PastStop, Ended
  <2>. QED BY <1>3, <2>1, <2>2 DEF Record!Next, Record!Start
<1>5. CASE script[s] \in Live
  <2>1. c \in Live \cup Ended
    BY <1>1 DEF Successor, Live, PastStop, Ended
  <2>2. Command[s] = "live"
    BY <1>5 DEF Command
  <2>3. \E killed \in SUBSET {t \in Sessions : Command[t] = "live"} :
          Command' = [t \in Sessions |-> IF t \in killed THEN "ended" ELSE Command[t]]
    <3> DEFINE killed == {t \in {s} : c \in Ended}
    <3>1. killed \in SUBSET {t \in Sessions : Command[t] = "live"}
      BY <2>2
    <3>2. Live \cap Ended = {}
      BY DEF Live, PastStop, Ended
    <3>3. Command' = [t \in Sessions |-> IF t \in killed THEN "ended" ELSE Command[t]]
      BY <1>0, <1>2, <1>5, <2>1, <3>2 DEF TypeOK, Command
    <3>. QED BY <3>1, <3>3
  <2>4. Made \subseteq {Partial} \cup Record!Leaves(s)
    <3>1. Granted[s] \subseteq Record!Leaves(s)
      BY DEF Record!Leaves
    <3>2. ASSUME NEW t \in Sessions, confirmed[t]
          PROVE  plan[t].MigratedBranch \in Record!Leaves(s)
      BY <3>2 DEF Record!Leaves, Granted
    <3>. QED BY <1>3, <3>1, <3>2 DEF Made
  <2>5. NoCheckout \in Record!Leaves(s) /\ Damaged \in Record!Leaves(s)
    BY <1>3 DEF Record!Leaves
  <2>6. Reaches(s, data', disk')
    BY <1>0, SoloFields
  <2>7. data'.openpilot \in {data.openpilot} \cup Record!Leaves(s)
    BY <1>0, <2>4, <2>5, <2>6 DEF Reaches, Sources
  <2>8. disk'.openpilot \in {disk.openpilot, data'.openpilot}
    <3>1. disk' \in {disk, data}
      BY <2>6 DEF Reaches
    <3>2. disk' # disk => data' = data
      BY <1>0 DEF Steps, OrphanDies, StartScript, LsRemote, RemoveTmp, StartClone,
         FinishClone, CheckoutBranch, MoveAside, MoveIntoPlace, WriteLauncher, Sync, VerifyInstall,
         RestartWrapper, TypeOK, Fail, Change, device
    <3>. QED BY <3>1, <3>2
  <2>. QED BY <1>3, <2>2, <2>3, <2>7, <2>8 DEF Record!Next, Record!Work
<1>. QED BY <1>1, <1>4, <1>5

LEMMA RecordStop ==
  ASSUME TypeOK, Stage, NEW s \in Sessions, StopWrapper(s)
  PROVE  Record!Next
<1>1. /\ UNCHANGED <<client, data, disk>>
      /\ script'[s] \in {"rm", "killed"} /\ script[s] = "stop"
      /\ \A t \in Sessions \ {s} :
           /\ script'[t] \in {script[t], "killed"}
           /\ script'[t] # script[t] => script[t] \in Live
  BY StopFrame
<1>2. Granted' = Granted
  BY <1>1 DEF client, Granted
<1>3. Command[s] = "live"
  BY <1>1 DEF Command, Live
<1>4. \E killed \in SUBSET {t \in Sessions : Command[t] = "live"} :
        Command' = [t \in Sessions |-> IF t \in killed THEN "ended" ELSE Command[t]]
  <2> DEFINE killed == {t \in Sessions : Command[t] = "live" /\ script'[t] = "killed"}
  <2>1. killed \in SUBSET {t \in Sessions : Command[t] = "live"}
    OBVIOUS
  <2>2. ASSUME NEW t \in Sessions
        PROVE  Command'[t] = IF t \in killed THEN "ended" ELSE Command[t]
    <3>1. CASE t = s
      BY <1>1, <1>3, <3>1 DEF Command, Live, PastStop, Ended
    <3>2. CASE t # s /\ script'[t] = script[t]
      BY <3>2 DEF TypeOK, Command, Live, PastStop, Ended
    <3>3. CASE t # s /\ script'[t] = "killed" /\ script[t] \in Live
      BY <3>3 DEF Command, Live, PastStop, Ended
    <3>. QED BY <1>1, <3>1, <3>2, <3>3
  <2>3. Command' = [t \in Sessions |-> IF t \in killed THEN "ended" ELSE Command[t]]
    BY <2>2 DEF Command
  <2>. QED BY <2>1, <2>3
<1>. QED BY <1>1, <1>2, <1>3, <1>4 DEF Record!Next, Record!Work

LEMMA RecordRest ==
  ASSUME TypeOK, Stage,
         \/ \E s \in Sessions : Meddle(s) \/ RemoveSome(s) \/ LoseLink(s)
         \/ WriteBack \/ PowerLoss \/ UNCHANGED vars
  PROVE  [Record!Next]_(Record!vars)
<1>1. client' = client
  BY DEF Meddle, RemoveSome, LoseLink, WriteBack, PowerLoss, vars
<1>2. Granted' = Granted
  BY <1>1 DEF client, Granted
<1>3. CASE (\E s \in Sessions : Meddle(s) \/ RemoveSome(s) \/ LoseLink(s)) \/ UNCHANGED vars
  <2>1. script' = script /\ data'.openpilot = data.openpilot /\ disk' = disk
    BY <1>3 DEF Meddle, RemoveSome, LoseLink, vars, device, TypeOK, Data
  <2>2. Command' = Command
    BY <2>1 DEF Command
  <2>. QED BY <1>2, <2>1, <2>2, RecordStutter
<1>4. CASE WriteBack
  <2>1. Command' = Command
    BY <1>4 DEF WriteBack, Command
  <2>. QED BY <1>2, <1>4, <2>1 DEF WriteBack, Record!Next, Record!Flush
<1>5. CASE PowerLoss
  <2>1. Command' = [s \in Sessions |-> IF Command[s] = "live" THEN "ended" ELSE Command[s]]
    BY <1>5 DEF PowerLoss, Command, TypeOK, Live, PastStop, Ended
  <2>. QED BY <1>2, <1>5, <2>1 DEF PowerLoss, Record!Next, Record!Restart
<1>. QED BY <1>3, <1>4, <1>5

\* Whatever concurrent sessions, scripts that are killed or missed, orphaned
\* clones and outages do, /data/openpilot changes only under a session's
\* confirmed, running script, at most one per confirmation, and only to a branch
\* that a confirmed session planned, to what scripts sharing /data/tmppilot have
\* made of it, or to the gap between the two moves.
THEOREM InstallImplementsGuardedRecord == Spec => InstallIsGuarded
<1>1. IInv /\ [Next]_vars => [Record!Next]_(Record!vars)
  BY RecordClient, RecordSolo, RecordStop, RecordRest DEF IInv, Next, Script, Steps
<1>. QED BY <1>1, RecordInit, Invariance, PTL DEF Spec, InstallIsGuarded, Record!Spec
-----------------------------------------------------------------------------
\* The two copies agree on every branch and every device type, also on those
\* that neither of them names: what the test shows of the Go copy holds of the
\* one that runs.
THEOREM MigrationsAgree ==
  \A branch, type : Migrate(branch, type) = MigrateInstallerBranch(branch, type)
<1> TAKE branch, type
<1>1. CASE type = "tici"
  BY <1>1 DEF Migrate, MigrateInstallerBranch
<1>2. CASE type = "tizi"
  BY <1>2 DEF Migrate, MigrateInstallerBranch
<1>3. CASE type = "mici"
  BY <1>3 DEF Migrate, MigrateInstallerBranch
<1>4. CASE type \notin {"tici", "tizi", "mici"}
  BY <1>4 DEF Migrate, MigrateInstallerBranch
<1> QED
  BY <1>1, <1>2, <1>3, <1>4

\* A branch that has been migrated stays what it is: an installer made for a
\* migrated branch, and a second installation, end on the same branch.
THEOREM MigratesOnce ==
  \A branch, type : Migrate(Migrate(branch, type), type) = Migrate(branch, type)
<1> TAKE branch, type
<1>1. CASE type = "tici"
  BY <1>1 DEF Migrate
<1>2. CASE type = "tizi"
  BY <1>2 DEF Migrate
<1>3. CASE type = "mici"
  BY <1>3 DEF Migrate
<1>4. CASE type \notin {"tici", "tizi", "mici"}
  BY <1>4 DEF Migrate
<1> QED
  BY <1>1, <1>2, <1>3, <1>4
=============================================================================
