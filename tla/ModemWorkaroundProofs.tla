------------------------ MODULE ModemWorkaroundProofs ------------------------
(***************************************************************************)
(* Proofs about ModemWorkaround, for any sessions and any number of        *)
(* restarts: types, consent, what "applied" means, and that the workaround *)
(* implements GuardedRecord.                                               *)
(***************************************************************************)
EXTENDS ModemWorkaround, TLAPS

Asking == {"connect", "preflight", "replace", "confirm"}
Consented(s) == preflight[s] => approved[s]
Alone(s) == \A t \in Sessions \ {s} : ~confirmed[t]

(* What the place of a session says of its answers and of its script.      *)
Stage == \A s \in Sessions :
  /\ ~confirmed[s] => script[s] = "off"
  /\ pc[s] \in Asking => ~confirmed[s]
  /\ pc[s] = "confirm" => Consented(s)
  /\ confirmed[s] => Consented(s)
  /\ pc[s] = "verify" => script[s] = "ok"

(* While the connection of a session whose script has ended well lasts, the  *)
(* device has not restarted, and an object stays in the file.                *)
Object == \A s \in Sessions :
  s \in link /\ script[s] = "ok" /\ Alone(s) => file \in Objects

IInv == TypeOK /\ Stage /\ Object
-----------------------------------------------------------------------------
LEMMA Initially == Init => IInv
<1> SUFFICES ASSUME Init PROVE IInv
  OBVIOUS
<1>1. TypeOK
  BY WorkaroundAssumption DEF Init, TypeOK, PC
<1>2. Stage /\ Object
  BY DEF Init, Stage, Object, Asking
<1>. QED BY <1>1, <1>2 DEF IInv

LEMMA ClientPreserves == ASSUME IInv, NEW s \in Sessions, Client(s) PROVE IInv'
<1> USE DEF IInv, device
<1>1. TypeOK'
  <2> USE DEF TypeOK, Goto, Return, PC, Returned
  <2>1. CASE Connect(s)
    BY <2>1 DEF Connect
  <2>2. CASE ReadPreflight(s)
    BY <2>2 DEF ReadPreflight
  <2>3. CASE AnswerReplace(s)
    BY <2>3 DEF AnswerReplace
  <2>4. CASE AnswerConfirm(s)
    <3>1. pc' \in [Sessions -> PC] /\ link' \subseteq Sessions
      BY <2>4 DEF AnswerConfirm
    <3>2. confirmed' \in [Sessions -> BOOLEAN]
      BY <2>4 DEF AnswerConfirm
    <3>3. script' \in [Sessions -> {"off", "sent"} \cup Live \cup Ended]
      BY <2>4 DEF AnswerConfirm
    <3>. QED BY <2>4, <3>1, <3>2, <3>3 DEF AnswerConfirm
  <2>5. CASE ScriptReturns(s)
    BY <2>5 DEF ScriptReturns
  <2>6. CASE ExecuteFails(s)
    BY <2>6 DEF ExecuteFails
  <2>7. CASE ReadVerify(s)
    BY <2>7 DEF ReadVerify
  <2>. QED BY <2>1, <2>2, <2>3, <2>4, <2>5, <2>6, <2>7 DEF Client
<1>2. Stage'
  <2> USE DEF TypeOK, Stage, Asking, Consented, Goto, Return
  <2>1. CASE Connect(s)
    BY <2>1 DEF Connect
  <2>2. CASE ReadPreflight(s)
    BY <2>2 DEF ReadPreflight
  <2>3. CASE AnswerReplace(s)
    BY <2>3 DEF AnswerReplace
  <2>4. CASE AnswerConfirm(s)
    BY <2>4 DEF AnswerConfirm
  <2>5. CASE ScriptReturns(s)
    BY <2>5 DEF ScriptReturns
  <2>6. CASE ExecuteFails(s)
    BY <2>6 DEF ExecuteFails
  <2>7. CASE ReadVerify(s)
    BY <2>7 DEF ReadVerify
  <2>. QED BY <2>1, <2>2, <2>3, <2>4, <2>5, <2>6, <2>7 DEF Client
<1>3. Object'
  <2>1. file' = file
    BY DEF Client, Connect, ReadPreflight, AnswerReplace, AnswerConfirm, ScriptReturns,
           ExecuteFails, ReadVerify
  <2>2. ASSUME NEW t \in Sessions, confirmed[t] PROVE confirmed'[t]
    BY <2>2 DEF TypeOK, Client, Connect, ReadPreflight, AnswerReplace, AnswerConfirm,
                ScriptReturns, ExecuteFails, ReadVerify
  <2>3. ASSUME NEW t \in Sessions, t \in link', script'[t] = "ok"
        PROVE  t \in link /\ script[t] = "ok"
    BY <2>3 DEF TypeOK, Stage, Asking, Client, Connect, ReadPreflight, AnswerReplace,
                AnswerConfirm, ScriptReturns, ExecuteFails, ReadVerify, Goto, Return
  <2>. QED BY <2>1, <2>2, <2>3 DEF Object, Alone
<1>. QED BY <1>1, <1>2, <1>3

LEMMA ScriptPreserves ==
  ASSUME IInv, NEW s \in Sessions, Script(s) \/ OrphanDies(s)
  PROVE  IInv'
<1> USE DEF IInv, client, device
<1>1. UNCHANGED <<pc, preflight, approved, confirmed, link, restarts>>
  BY DEF Script, StartScript, OpenFile, WriteFile, CheckObject, OrphanDies
<1>2. TypeOK'
  BY DEF TypeOK, Script, StartScript, OpenFile, WriteFile, CheckObject, OrphanDies, Advance,
         Contents, Objects, Tee, Live, Ended
<1>3. script[s] \in {"sent"} \cup Live /\ confirmed[s]
  BY DEF Stage, Script, StartScript, OpenFile, WriteFile, CheckObject, OrphanDies, Advance, Live
<1>4. Stage'
  BY <1>1, <1>3 DEF TypeOK, Stage, Consented, Live, Script, StartScript, OpenFile, WriteFile,
                    CheckObject, OrphanDies, Advance
<1>5. Object'
  <2> SUFFICES ASSUME NEW t \in Sessions, t \in link', script'[t] = "ok", Alone(t)'
               PROVE  file' \in Objects
    BY DEF Object
  <2>1. t = s
    BY <1>1, <1>3 DEF Alone
  <2>2. CheckObject(s) /\ file \in Objects
    BY <1>3, <2>1 DEF TypeOK, Live, Script, StartScript, OpenFile, WriteFile, CheckObject,
                      OrphanDies, Advance
  <2>. QED BY <2>2 DEF CheckObject
<1>. QED BY <1>2, <1>4, <1>5

LEMMA RestPreserves ==
  ASSUME IInv, ServiceWrites \/ Restart \/ (\E s \in Sessions : LoseLink(s)) \/ UNCHANGED vars
  PROVE  IInv'
<1> USE WorkaroundAssumption DEF IInv, client, device
<1>1. CASE ServiceWrites
  BY <1>1 DEF ServiceWrites, TypeOK, Stage, Object, Consented, Alone, Contents, Objects
<1>2. CASE Restart
  <2>1. TypeOK'
    BY <1>2 DEF Restart, TypeOK, Contents, Live, Ended
  <2>2. Stage' /\ Object'
    BY <1>2 DEF Restart, TypeOK, Stage, Object, Consented, Live
  <2>. QED BY <2>1, <2>2
<1>3. ASSUME NEW s \in Sessions, LoseLink(s) PROVE IInv'
  BY <1>3 DEF LoseLink, TypeOK, Stage, Object, Consented, Alone
<1>4. CASE UNCHANGED vars
  BY <1>4 DEF vars, TypeOK, Stage, Object, Consented, Alone
<1>. QED BY <1>1, <1>2, <1>3, <1>4

LEMMA StepPreserves == IInv /\ [Next]_vars => IInv'
BY ClientPreserves, ScriptPreserves, RestPreserves DEF Next

LEMMA Invariance == Spec => []IInv
BY Initially, StepPreserves, PTL DEF Spec
-----------------------------------------------------------------------------
\* The variables of the sessions and of the device keep their types.
THEOREM TypeCorrect == Spec => []TypeOK
BY Invariance, PTL DEF IInv

\* A file that a session was shown is replaced with its operator's approval, and
\* no file is replaced before a confirmation, for any number of sessions.
THEOREM ShownGuarded == Spec => ShownReplacedOnlyApproved
<1> DEFINE Safe == \A s \in Sessions :
             Replaces(s) => confirmed[s] /\ (preflight[s] => approved[s])
<1>1. IInv /\ [Next]_vars => [Safe]_vars
  BY DEF IInv, Stage, Consented, Replaces
<1>. QED BY <1>1, Invariance, PTL DEF Spec, ShownReplacedOnlyApproved

\* A session that reports the workaround as applied leaves a JSON object in the
\* file if nobody else has confirmed; the service and restarts cannot change
\* that.
THEOREM AppliedHoldsObject == Spec => AppliedIsObject
<1> DEFINE Safe == \A s \in Sessions :
             /\ pc[s] = "verify" /\ pc'[s] = "applied"
             /\ \A t \in Sessions \ {s} : ~confirmed[t]
             => file \in Objects
<1>1. IInv /\ [Next]_vars => [Safe]_vars
  <2> SUFFICES ASSUME IInv, Next, NEW s \in Sessions,
                      pc[s] = "verify", pc'[s] = "applied", Alone(s)
               PROVE  file \in Objects
    BY DEF Alone
  <2>1. ReadVerify(s)
    BY DEF IInv, TypeOK, Next, Client, Script, Goto, Return, Connect, ReadPreflight,
           AnswerReplace, AnswerConfirm, ScriptReturns, ExecuteFails, ReadVerify, StartScript,
           OpenFile, WriteFile, CheckObject, OrphanDies, LoseLink, ServiceWrites, Restart, client
  <2>2. s \in link
    BY <2>1 DEF IInv, TypeOK, ReadVerify, Goto, Return
  <2>3. script[s] = "ok"
    BY DEF IInv, Stage
  <2>. QED BY <2>2, <2>3 DEF IInv, Object
<1>. QED BY <1>1, Invariance, PTL DEF Spec, AppliedIsObject
-----------------------------------------------------------------------------
(* The workaround implements GuardedRecord.                                *)

LEMMA RecordInit == Init => Record!Init
BY DEF Init, Record!Init, Granted, Command, Live, Ended, Contents

\* A step that leaves the mapped values alone is a stutter.
LEMMA RecordStutter ==
  ASSUME UNCHANGED <<file, confirmed, script>>
  PROVE  UNCHANGED Record!vars
BY DEF Record!vars, Granted, Command

LEMMA RecordClient ==
  ASSUME TypeOK, Stage, NEW s \in Sessions, Client(s)
  PROVE  [Record!Next]_(Record!vars)
<1>1. CASE UNCHANGED <<file, confirmed, script>>
  BY <1>1, RecordStutter
<1>2. CASE AnswerConfirm(s) /\ confirmed' = [confirmed EXCEPT ![s] = TRUE]
  <2>1. ~confirmed[s] /\ script[s] = "off" /\ file' = file
    BY <1>2 DEF AnswerConfirm, TypeOK, Goto, Return, Stage, Asking, PC, device
  <2>2. Command' = Command
    BY <1>2, <2>1 DEF AnswerConfirm, TypeOK, Command, Live, Ended
  <2>3. Granted[s] = {} /\ Granted' = [Granted EXCEPT ![s] = {Blank, Empty}]
    BY <1>2, <2>1 DEF TypeOK, Granted
  <2>4. {Blank, Empty} \in SUBSET Contents
    BY DEF Contents, Objects
  <2>. QED BY <2>1, <2>2, <2>3, <2>4 DEF Record!Next, Record!Grant
<1>. QED
  BY <1>1, <1>2 DEF Client, Connect, ReadPreflight, AnswerReplace, AnswerConfirm, ScriptReturns,
                    ExecuteFails, ReadVerify, device

LEMMA RecordScript ==
  ASSUME TypeOK, Stage, NEW s \in Sessions, Script(s) \/ OrphanDies(s)
  PROVE  Record!Next
<1>1. confirmed' = confirmed /\ Granted' = Granted
  BY DEF Script, StartScript, OpenFile, WriteFile, CheckObject, OrphanDies, client, Granted
<1>2. confirmed[s] /\ Granted[s] = {Blank, Empty}
  BY DEF Stage, Script, StartScript, OpenFile, WriteFile, CheckObject, OrphanDies, Advance, Live,
         Granted
<1>3. CASE StartScript(s)
  <2>1. Command[s] = "idle" /\ Command' = [Command EXCEPT ![s] = "live"] /\ file' = file
    BY <1>3 DEF StartScript, Advance, TypeOK, Command, Live, Ended, device
  <2>. QED BY <1>1, <1>2, <2>1 DEF Record!Next, Record!Start
<1>4. CASE ~StartScript(s)
  <2>1. /\ script[s] \in Live
        /\ \E c \in Live \cup Ended : script' = [script EXCEPT ![s] = c]
        /\ file' \in {file, Blank, Empty}
    BY <1>4 DEF Script, OpenFile, WriteFile, CheckObject, OrphanDies, Advance, Live, Ended, Tee,
                device
  <2>2. PICK c \in Live \cup Ended : script' = [script EXCEPT ![s] = c]
    BY <2>1
  <2>3. Command[s] = "live"
    BY <2>1 DEF Command
  <2>4. \E killed \in SUBSET {t \in Sessions : Command[t] = "live"} :
          Command' = [t \in Sessions |-> IF t \in killed THEN "ended" ELSE Command[t]]
    <3> DEFINE killed == {t \in {s} : c \in Ended}
    <3>1. killed \in SUBSET {t \in Sessions : Command[t] = "live"}
      BY <2>3
    <3>2. Command' = [t \in Sessions |-> IF t \in killed THEN "ended" ELSE Command[t]]
      BY <2>1, <2>2 DEF TypeOK, Command, Live, Ended
    <3>. QED BY <3>1, <3>2
  <2>. QED BY <1>1, <1>2, <2>1, <2>3, <2>4 DEF Record!Next, Record!Work, Record!Leaves
<1>. QED BY <1>3, <1>4

LEMMA RecordRestart ==
  ASSUME TypeOK, Restart
  PROVE  Record!Next
<1>1. Granted' = Granted /\ file' = NoFile
  BY DEF Restart, client, Granted
<1>2. Command' = [s \in Sessions |-> IF Command[s] = "live" THEN "ended" ELSE Command[s]]
  BY DEF TypeOK, Restart, Command, Live, Ended
<1>. QED BY <1>1, <1>2 DEF Record!Next, Record!Restart

\* Whatever concurrent sessions, the modem service, dying scripts and restarts
\* do, a session changes the file only under its confirmed, running command, at
\* most one per confirmation, and only to what its operator agreed to.
THEOREM WorkaroundImplementsGuardedRecord == Spec => WorkaroundIsGuarded
<1>1. IInv /\ [Next]_vars => [Record!Next]_(Record!vars)
  <2> SUFFICES ASSUME TypeOK, Stage, [Next]_vars
               PROVE  [Record!Next]_(Record!vars)
    BY DEF IInv
  <2>1. ASSUME NEW s \in Sessions, Client(s)
        PROVE  [Record!Next]_(Record!vars)
    BY <2>1, RecordClient
  <2>2. ASSUME NEW s \in Sessions, Script(s) \/ OrphanDies(s)
        PROVE  [Record!Next]_(Record!vars)
    BY <2>2, RecordScript
  <2>3. ASSUME NEW s \in Sessions, LoseLink(s)
        PROVE  [Record!Next]_(Record!vars)
    BY <2>3, RecordStutter DEF LoseLink, client, device
  <2>4. CASE ServiceWrites
    <3>1. Granted' = Granted /\ Command' = Command /\ file' \in {State}
      BY <2>4 DEF ServiceWrites, client, Granted, Command
    <3>. QED BY <3>1 DEF Record!Next, Record!OtherWrite
  <2>5. CASE Restart
    BY <2>5, RecordRestart
  <2>6. CASE UNCHANGED vars
    BY <2>6, RecordStutter DEF vars, client, device
  <2>. QED BY <2>1, <2>2, <2>3, <2>4, <2>5, <2>6 DEF Next
<1>. QED BY <1>1, RecordInit, Invariance, PTL DEF Spec, WorkaroundIsGuarded, Record!Spec
=============================================================================
