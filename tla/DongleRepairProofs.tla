------------------------- MODULE DongleRepairProofs -------------------------
(***************************************************************************)
(* Theorems about DongleRepair for every set of sessions, ids and texts,   *)
(* every choice of flags and any number of power losses.                   *)
(***************************************************************************)
EXTENDS DongleRepair, TLAPS

-----------------------------------------------------------------------------
(* The inductive invariant.                                                *)

Chosen == PC \ {"id", "error", "aborted"}
Verified == {"verify", "reboot", "repaired"}

\* How far each session has come, and what it has been told by then.
Stage ==
  \A s \in Sessions :
    /\ pc[s] = "id" => dongleID[s] = NoId
    /\ pc[s] \in Chosen \/ confirmed[s] => dongleID[s] \in Ids
    /\ confirmed[s] => pc[s] \notin Before
    /\ script[s] # "off" => confirmed[s]
    /\ pc[s] \in Verified => script[s] = "ok"
    /\ preflight[s].Value \in Ids => preflight[s].Exists
    /\ pc[s] = "confirm" \/ confirmed[s] => (preflight[s].Exists => approved[s])

\* Someone is still going to close what is open, or could not.
Mounted ==
  mount = "rw" => \E s \in Sessions : script[s] \in Armed \cup {"killed", "stuck"}

\* Past its own sync, a script whose id is in the file has it on the disk.
Durable ==
  \A s \in Sessions :
    /\ script[s] \in {"remount_ro", "check", "ok"}
    /\ \A t \in Sessions \ {s} : dongleID[t] # dongleID[s]
    /\ file = dongleID[s]
    => disk = dongleID[s]

\* A script that runs alone leaves its id in the file and on the disk.
Alone ==
  \A s \in Sessions :
    (\A t \in Sessions \ {s} : ~confirmed[t]) =>
      /\ script[s] = "check" => disk = file
      /\ script[s] = "ok" => file = dongleID[s] /\ disk = dongleID[s]

\* A session whose script has not opened the file, nor anyone else's, was shown
\* what is in the file and on the disk.
Untouched ==
  \A s \in Sessions :
    /\ \A t \in Sessions \ {s} : ~confirmed[t]
    /\ script[s] \in {"off", "sent", "remount_rw", "mkdir", "open"}
    => /\ disk = file
       /\ pc[s] \in {"overwrite", "confirm"} \/ confirmed[s] =>
            (file \in Ids => preflight[s].Exists)

IInv == TypeOK /\ Stage /\ Mounted /\ Durable /\ Alone /\ Untouched
-----------------------------------------------------------------------------
(* Facts about the operators.                                              *)

LEMMA NormalFormType ==
  ASSUME NEW t \in Texts
  PROVE  NormalForm[t] \in Ids \cup {Rejected}
BY ConstantsAssumption

\* The text on the command line is one an operator may type.
LEMMA FlagTextType ==
  ASSUME TypeOK, NEW s \in Sessions, cfg[s].RepairDongleID # NoText
  PROVE  cfg[s].RepairDongleID \in Texts
BY ConstantsAssumption DEF TypeOK

\* The id a session read is one of the ids, and is there only if it exists.
LEMMA RemoteType ==
  ASSUME TypeOK
  PROVE  /\ Remote \in [Exists : BOOLEAN, Value : Ids \cup {NoId}]
         /\ Remote.Value \in Ids => Remote.Exists
BY ConstantsAssumption
   DEF TypeOK, Contents, Remote, ParseDongleIDPreflight, DongleIDPreflight
-----------------------------------------------------------------------------
(* Type correctness.                                                       *)

LEMMA TypeClient ==
  ASSUME TypeOK, NEW s \in Sessions, Client(s)
  PROVE  TypeOK'
<1> USE DEF TypeOK, Goto, Return, client, device
<1>1. CASE SelectID(s)
  <2>1. pc' \in [Sessions -> PC]
    BY <1>1 DEF SelectID, PC, Before, Returned
  <2>2. dongleID' \in [Sessions -> Ids \cup {NoId}]
    BY <1>1, NormalFormType, FlagTextType DEF SelectID, Valid
  <2>. QED BY <1>1, <2>1, <2>2 DEF SelectID
<1>2. CASE Connect(s)
  BY <1>2 DEF Connect, PC, Before, Returned
<1>3. CASE ReadPreflight(s)
  <2>1. /\ Remote \in [Exists : BOOLEAN, Value : Ids \cup {NoId}]
        /\ Remote.Exists \in BOOLEAN
    BY RemoteType
  <2>2. pc' \in [Sessions -> PC]
    BY <1>3 DEF ReadPreflight, PC, Before, Returned
  <2>3. preflight' \in [Sessions -> [Exists : BOOLEAN, Value : Ids \cup {NoId}]]
    BY <1>3, <2>1 DEF ReadPreflight
  <2>4. approved' \in [Sessions -> BOOLEAN]
    BY <1>3, ConstantsAssumption DEF ReadPreflight
  <2>. QED BY <1>3, <2>2, <2>3, <2>4 DEF ReadPreflight
<1>4. CASE AnswerOverwrite(s)
  BY <1>4 DEF AnswerOverwrite, PC, Before, Returned
<1>5. CASE AnswerConfirm(s)
  BY <1>5 DEF AnswerConfirm, PC, Before, Returned
<1>6. CASE ScriptReturns(s)
  BY <1>6 DEF ScriptReturns, PC, Before, Returned
<1>7. CASE ExecuteFails(s)
  BY <1>7 DEF ExecuteFails, PC, Before, Returned
<1>8. CASE ReadVerify(s)
  BY <1>8 DEF ReadVerify, PC, Before, Returned
<1>9. CASE AnswerReboot(s)
  BY <1>9 DEF AnswerReboot, Restart, PC, Before, Returned, Live, Armed, Ended
<1>. QED
  BY <1>1, <1>2, <1>3, <1>4, <1>5, <1>6, <1>7, <1>8, <1>9 DEF Client

LEMMA TypeScript ==
  ASSUME TypeOK, NEW s \in Sessions, Script(s) \/ OrphanDies(s),
         script[s] # "off" => dongleID[s] \in Ids
  PROVE  TypeOK'
<1> USE DEF TypeOK, Contents, Live, Armed, Ended, Advance, client, device
<1>1. CASE StartScript(s)
  BY <1>1 DEF StartScript
<1>2. CASE RemountRW(s)
  BY <1>2 DEF RemountRW
<1>3. CASE Mkdir(s)
  BY <1>3 DEF Mkdir
<1>4. CASE OpenFile(s)
  BY <1>4 DEF OpenFile
<1>5. CASE WriteFile(s)
  BY <1>5 DEF WriteFile
<1>6. CASE Sync(s)
  BY <1>6 DEF Sync
<1>7. CASE RemountRO(s)
  BY <1>7 DEF RemountRO
<1>8. CASE CheckWritten(s)
  BY <1>8 DEF CheckWritten
<1>9. CASE ExitTrap(s)
  BY <1>9 DEF ExitTrap
<1>10. CASE OrphanDies(s)
  BY <1>10 DEF OrphanDies
<1>. QED
  BY <1>1, <1>2, <1>3, <1>4, <1>5, <1>6, <1>7, <1>8, <1>9, <1>10 DEF Script

LEMMA TypeNext ==
  ASSUME TypeOK, Stage, [Next]_vars
  PROVE  TypeOK'
<1>1. ASSUME NEW s \in Sessions, Client(s)
      PROVE  TypeOK'
  BY <1>1, TypeClient
<1>2. ASSUME NEW s \in Sessions, Script(s) \/ OrphanDies(s)
      PROVE  TypeOK'
  BY <1>2, TypeScript DEF Stage
<1>3. ASSUME NEW s \in Sessions, LoseLink(s)
      PROVE  TypeOK'
  BY <1>3 DEF LoseLink, TypeOK, client, device
<1>4. CASE WriteBack
  BY <1>4 DEF WriteBack, TypeOK, client
<1>5. CASE PowerLoss
  BY <1>5, ConstantsAssumption
  DEF PowerLoss, Restart, TypeOK, client, Live, Armed, Ended
<1>6. CASE UNCHANGED vars
  BY <1>6 DEF vars, TypeOK
<1>. QED
  BY <1>1, <1>2, <1>3, <1>4, <1>5, <1>6 DEF Next
-----------------------------------------------------------------------------
(* How far each session has come.                                          *)

LEMMA StageClient ==
  ASSUME TypeOK, Stage, NEW s \in Sessions, Client(s)
  PROVE  Stage'
<1> USE DEF TypeOK, Stage, Goto, Return, device, Before, Chosen, Verified, PC, Returned
<1>1. CASE SelectID(s)
  BY <1>1, NormalFormType, FlagTextType DEF SelectID, Valid
<1>2. CASE Connect(s)
  BY <1>2 DEF Connect
<1>3. CASE ReadPreflight(s)
  BY <1>3, RemoteType DEF ReadPreflight, Asks
<1>4. CASE AnswerOverwrite(s)
  BY <1>4 DEF AnswerOverwrite
<1>5. CASE AnswerConfirm(s)
  BY <1>5 DEF AnswerConfirm
<1>6. CASE ScriptReturns(s)
  BY <1>6 DEF ScriptReturns
<1>7. CASE ExecuteFails(s)
  BY <1>7 DEF ExecuteFails
<1>8. CASE ReadVerify(s)
  BY <1>8 DEF ReadVerify
<1>9. CASE AnswerReboot(s)
  BY <1>9 DEF AnswerReboot, Restart, Live, Armed
<1>. QED
  BY <1>1, <1>2, <1>3, <1>4, <1>5, <1>6, <1>7, <1>8, <1>9 DEF Client

LEMMA StageScript ==
  ASSUME TypeOK, Stage, NEW s \in Sessions, Script(s) \/ OrphanDies(s)
  PROVE  Stage'
<1> USE DEF TypeOK, Stage, Advance, client, Verified, Live, Armed
<1>1. CASE StartScript(s)
  BY <1>1 DEF StartScript
<1>2. CASE RemountRW(s)
  BY <1>2 DEF RemountRW
<1>3. CASE Mkdir(s)
  BY <1>3 DEF Mkdir
<1>4. CASE OpenFile(s)
  BY <1>4 DEF OpenFile
<1>5. CASE WriteFile(s)
  BY <1>5 DEF WriteFile
<1>6. CASE Sync(s)
  BY <1>6 DEF Sync
<1>7. CASE RemountRO(s)
  BY <1>7 DEF RemountRO
<1>8. CASE CheckWritten(s)
  BY <1>8 DEF CheckWritten
<1>9. CASE ExitTrap(s)
  BY <1>9 DEF ExitTrap
<1>10. CASE OrphanDies(s)
  BY <1>10 DEF OrphanDies
<1>. QED
  BY <1>1, <1>2, <1>3, <1>4, <1>5, <1>6, <1>7, <1>8, <1>9, <1>10 DEF Script

LEMMA StageNext ==
  ASSUME TypeOK, Stage, [Next]_vars
  PROVE  Stage'
<1>1. ASSUME NEW s \in Sessions, Client(s)
      PROVE  Stage'
  BY <1>1, StageClient
<1>2. ASSUME NEW s \in Sessions, Script(s) \/ OrphanDies(s)
      PROVE  Stage'
  BY <1>2, StageScript
<1>3. ASSUME NEW s \in Sessions, LoseLink(s)
      PROVE  Stage'
  BY <1>3 DEF LoseLink, Stage, client
<1>4. CASE WriteBack
  BY <1>4 DEF WriteBack, Stage, client
<1>5. CASE PowerLoss
  BY <1>5 DEF PowerLoss, Restart, Stage, TypeOK, client, Verified, Live, Armed
<1>6. CASE UNCHANGED vars
  BY <1>6 DEF vars, Stage
<1>. QED
  BY <1>1, <1>2, <1>3, <1>4, <1>5, <1>6 DEF Next
-----------------------------------------------------------------------------
(* Someone is still going to make /persist read-only.                      *)

LEMMA MountedClient ==
  ASSUME TypeOK, Stage, Mounted, NEW s \in Sessions, Client(s)
  PROVE  Mounted'
<1> USE DEF TypeOK, Mounted, device, Armed
<1>1. CASE SelectID(s)
  BY <1>1 DEF SelectID
<1>2. CASE Connect(s)
  BY <1>2 DEF Connect
<1>3. CASE ReadPreflight(s)
  BY <1>3 DEF ReadPreflight
<1>4. CASE AnswerOverwrite(s)
  BY <1>4 DEF AnswerOverwrite
<1>5. CASE AnswerConfirm(s)
  BY <1>5 DEF AnswerConfirm, Goto, Stage, Before, Return
<1>6. CASE ScriptReturns(s)
  BY <1>6 DEF ScriptReturns
<1>7. CASE ExecuteFails(s)
  BY <1>7 DEF ExecuteFails
<1>8. CASE ReadVerify(s)
  BY <1>8 DEF ReadVerify
<1>9. CASE AnswerReboot(s)
  BY <1>9 DEF AnswerReboot, Restart, Return, Goto
<1>. QED
  BY <1>1, <1>2, <1>3, <1>4, <1>5, <1>6, <1>7, <1>8, <1>9 DEF Client

LEMMA MountedScript ==
  ASSUME TypeOK, Mounted, NEW s \in Sessions, Script(s) \/ OrphanDies(s)
  PROVE  Mounted'
<1> USE DEF TypeOK, Mounted, Advance, device, Armed
<1>1. CASE StartScript(s)
  BY <1>1 DEF StartScript
<1>2. CASE RemountRW(s)
  BY <1>2 DEF RemountRW
<1>3. CASE Mkdir(s)
  BY <1>3 DEF Mkdir
<1>4. CASE OpenFile(s)
  BY <1>4 DEF OpenFile
<1>5. CASE WriteFile(s)
  BY <1>5 DEF WriteFile
<1>6. CASE Sync(s)
  BY <1>6 DEF Sync
<1>7. CASE RemountRO(s)
  BY <1>7 DEF RemountRO, Busy
<1>8. CASE CheckWritten(s)
  BY <1>8 DEF CheckWritten
<1>9. CASE ExitTrap(s)
  BY <1>9 DEF ExitTrap, Busy
<1>10. CASE OrphanDies(s)
  BY <1>10 DEF OrphanDies
<1>. QED
  BY <1>1, <1>2, <1>3, <1>4, <1>5, <1>6, <1>7, <1>8, <1>9, <1>10 DEF Script

LEMMA MountedNext ==
  ASSUME TypeOK, Stage, Mounted, [Next]_vars
  PROVE  Mounted'
<1>1. ASSUME NEW s \in Sessions, Client(s)
      PROVE  Mounted'
  BY <1>1, MountedClient
<1>2. ASSUME NEW s \in Sessions, Script(s) \/ OrphanDies(s)
      PROVE  Mounted'
  BY <1>2, MountedScript
<1>3. ASSUME NEW s \in Sessions, LoseLink(s)
      PROVE  Mounted'
  BY <1>3 DEF LoseLink, Mounted, client, device
<1>4. CASE WriteBack
  BY <1>4 DEF WriteBack, Mounted, client
<1>5. CASE PowerLoss
  BY <1>5 DEF PowerLoss, Restart, Mounted, TypeOK, client, Live, Armed
<1>6. CASE UNCHANGED vars
  BY <1>6 DEF vars, Mounted
<1>. QED
  BY <1>1, <1>2, <1>3, <1>4, <1>5, <1>6 DEF Next
-----------------------------------------------------------------------------
(* A script past its sync has its id on the disk.                          *)

LEMMA DurableClient ==
  ASSUME TypeOK, Stage, Durable, NEW s \in Sessions, Client(s)
  PROVE  Durable'
<1> USE DEF TypeOK, Durable, device
<1>1. CASE SelectID(s)
  BY <1>1, ConstantsAssumption, NormalFormType DEF SelectID, Valid, Goto, Stage, Before
<1>2. CASE Connect(s)
  BY <1>2 DEF Connect
<1>3. CASE ReadPreflight(s)
  BY <1>3 DEF ReadPreflight
<1>4. CASE AnswerOverwrite(s)
  BY <1>4 DEF AnswerOverwrite
<1>5. CASE AnswerConfirm(s)
  BY <1>5 DEF AnswerConfirm
<1>6. CASE ScriptReturns(s)
  BY <1>6 DEF ScriptReturns
<1>7. CASE ExecuteFails(s)
  BY <1>7 DEF ExecuteFails
<1>8. CASE ReadVerify(s)
  BY <1>8 DEF ReadVerify
<1>9. CASE AnswerReboot(s)
  BY <1>9 DEF AnswerReboot, Restart, Live, Armed
<1>. QED
  BY <1>1, <1>2, <1>3, <1>4, <1>5, <1>6, <1>7, <1>8, <1>9 DEF Client

LEMMA DurableScript ==
  ASSUME TypeOK, Stage, Durable, NEW s \in Sessions, Script(s) \/ OrphanDies(s)
  PROVE  Durable'
<1> USE DEF TypeOK, Durable, Advance, client, device
<1>1. CASE StartScript(s)
  BY <1>1 DEF StartScript
<1>2. CASE RemountRW(s)
  BY <1>2 DEF RemountRW
<1>3. CASE Mkdir(s)
  BY <1>3 DEF Mkdir
<1>4. CASE OpenFile(s)
  BY <1>4, ConstantsAssumption DEF OpenFile, Stage
<1>5. CASE WriteFile(s)
  BY <1>5 DEF WriteFile
<1>6. CASE Sync(s)
  BY <1>6 DEF Sync
<1>7. CASE RemountRO(s)
  BY <1>7 DEF RemountRO
<1>8. CASE CheckWritten(s)
  BY <1>8 DEF CheckWritten
<1>9. CASE ExitTrap(s)
  BY <1>9 DEF ExitTrap
<1>10. CASE OrphanDies(s)
  BY <1>10 DEF OrphanDies, Live, Armed
<1>. QED
  BY <1>1, <1>2, <1>3, <1>4, <1>5, <1>6, <1>7, <1>8, <1>9, <1>10 DEF Script

LEMMA DurableNext ==
  ASSUME TypeOK, Stage, Durable, [Next]_vars
  PROVE  Durable'
<1>1. ASSUME NEW s \in Sessions, Client(s)
      PROVE  Durable'
  BY <1>1, DurableClient
<1>2. ASSUME NEW s \in Sessions, Script(s) \/ OrphanDies(s)
      PROVE  Durable'
  BY <1>2, DurableScript
<1>3. ASSUME NEW s \in Sessions, LoseLink(s)
      PROVE  Durable'
  BY <1>3 DEF LoseLink, Durable, client, device
<1>4. CASE WriteBack
  BY <1>4 DEF WriteBack, Durable, client
<1>5. CASE PowerLoss
  BY <1>5 DEF PowerLoss, Restart, Durable, TypeOK, client, Live, Armed
<1>6. CASE UNCHANGED vars
  BY <1>6 DEF vars, Durable
<1>. QED
  BY <1>1, <1>2, <1>3, <1>4, <1>5, <1>6 DEF Next
-----------------------------------------------------------------------------
(* A script that runs alone leaves its id in the file and on the disk.     *)

LEMMA AloneClient ==
  ASSUME TypeOK, Stage, Alone, NEW s \in Sessions, Client(s)
  PROVE  Alone'
<1> USE DEF TypeOK, Alone, device
<1>1. CASE SelectID(s)
  BY <1>1 DEF SelectID, Goto, Stage, Before
<1>2. CASE Connect(s)
  BY <1>2 DEF Connect
<1>3. CASE ReadPreflight(s)
  BY <1>3 DEF ReadPreflight
<1>4. CASE AnswerOverwrite(s)
  BY <1>4 DEF AnswerOverwrite
<1>5. CASE AnswerConfirm(s)
  BY <1>5 DEF AnswerConfirm, Goto, Stage, Before
<1>6. CASE ScriptReturns(s)
  BY <1>6 DEF ScriptReturns
<1>7. CASE ExecuteFails(s)
  BY <1>7 DEF ExecuteFails
<1>8. CASE ReadVerify(s)
  BY <1>8 DEF ReadVerify
<1>9. CASE AnswerReboot(s)
  BY <1>9 DEF AnswerReboot, Restart, Live, Armed
<1>. QED
  BY <1>1, <1>2, <1>3, <1>4, <1>5, <1>6, <1>7, <1>8, <1>9 DEF Client

LEMMA AloneScript ==
  ASSUME TypeOK, Stage, Alone, NEW s \in Sessions, Script(s) \/ OrphanDies(s)
  PROVE  Alone'
<1> USE DEF TypeOK, Stage, Alone, Advance, client, device
<1>1. CASE StartScript(s)
  BY <1>1 DEF StartScript
<1>2. CASE RemountRW(s)
  BY <1>2 DEF RemountRW
<1>3. CASE Mkdir(s)
  BY <1>3 DEF Mkdir
<1>4. CASE OpenFile(s)
  BY <1>4 DEF OpenFile
<1>5. CASE WriteFile(s)
  BY <1>5 DEF WriteFile
<1>6. CASE Sync(s)
  BY <1>6 DEF Sync
<1>7. CASE RemountRO(s)
  BY <1>7 DEF RemountRO
<1>8. CASE CheckWritten(s)
  BY <1>8 DEF CheckWritten
<1>9. CASE ExitTrap(s)
  BY <1>9 DEF ExitTrap
<1>10. CASE OrphanDies(s)
  BY <1>10 DEF OrphanDies, Live, Armed
<1>. QED
  BY <1>1, <1>2, <1>3, <1>4, <1>5, <1>6, <1>7, <1>8, <1>9, <1>10 DEF Script

LEMMA AloneNext ==
  ASSUME TypeOK, Stage, Alone, [Next]_vars
  PROVE  Alone'
<1>1. ASSUME NEW s \in Sessions, Client(s)
      PROVE  Alone'
  BY <1>1, AloneClient
<1>2. ASSUME NEW s \in Sessions, Script(s) \/ OrphanDies(s)
      PROVE  Alone'
  BY <1>2, AloneScript
<1>3. ASSUME NEW s \in Sessions, LoseLink(s)
      PROVE  Alone'
  BY <1>3 DEF LoseLink, Alone, client, device
<1>4. CASE WriteBack
  BY <1>4 DEF WriteBack, Alone, client
<1>5. CASE PowerLoss
  BY <1>5 DEF PowerLoss, Restart, Alone, TypeOK, client, Live, Armed
<1>6. CASE UNCHANGED vars
  BY <1>6 DEF vars, Alone
<1>. QED
  BY <1>1, <1>2, <1>3, <1>4, <1>5, <1>6 DEF Next
-----------------------------------------------------------------------------
(* What a session was shown stays true while no script has touched it.     *)

LEMMA UntouchedClient ==
  ASSUME TypeOK, Stage, Untouched, NEW s \in Sessions, Client(s)
  PROVE  Untouched'
<1> USE DEF TypeOK, Untouched, device, Goto, Return
<1>1. CASE SelectID(s)
  BY <1>1 DEF SelectID, Stage, Before
<1>2. CASE Connect(s)
  BY <1>2 DEF Connect
<1>3. CASE ReadPreflight(s)
  <2>1. file \in Ids => Remote.Exists
    BY ConstantsAssumption DEF Remote, ParseDongleIDPreflight, DongleIDPreflight
  <2>2. ~confirmed[s]
    BY <1>3 DEF ReadPreflight, Stage, Before
  <2>. QED BY <1>3, <2>1, <2>2 DEF ReadPreflight
<1>4. CASE AnswerOverwrite(s)
  BY <1>4 DEF AnswerOverwrite
<1>5. CASE AnswerConfirm(s)
  BY <1>5 DEF AnswerConfirm, Stage, Before
<1>6. CASE ScriptReturns(s)
  BY <1>6 DEF ScriptReturns
<1>7. CASE ExecuteFails(s)
  BY <1>7 DEF ExecuteFails
<1>8. CASE ReadVerify(s)
  BY <1>8 DEF ReadVerify
<1>9. CASE AnswerReboot(s)
  BY <1>9 DEF AnswerReboot, Restart, Stage, Verified, Live, Armed
<1>. QED
  BY <1>1, <1>2, <1>3, <1>4, <1>5, <1>6, <1>7, <1>8, <1>9 DEF Client

LEMMA UntouchedScript ==
  ASSUME TypeOK, Stage, Untouched, NEW s \in Sessions, Script(s) \/ OrphanDies(s)
  PROVE  Untouched'
<1> USE DEF TypeOK, Stage, Untouched, Advance, client, device
<1>1. CASE StartScript(s)
  BY <1>1 DEF StartScript
<1>2. CASE RemountRW(s)
  BY <1>2 DEF RemountRW
<1>3. CASE Mkdir(s)
  BY <1>3 DEF Mkdir
<1>4. CASE OpenFile(s)
  BY <1>4 DEF OpenFile
<1>5. CASE WriteFile(s)
  BY <1>5 DEF WriteFile
<1>6. CASE Sync(s)
  BY <1>6 DEF Sync
<1>7. CASE RemountRO(s)
  BY <1>7 DEF RemountRO
<1>8. CASE CheckWritten(s)
  BY <1>8 DEF CheckWritten
<1>9. CASE ExitTrap(s)
  BY <1>9 DEF ExitTrap
<1>10. CASE OrphanDies(s)
  BY <1>10 DEF OrphanDies, Live, Armed
<1>. QED
  BY <1>1, <1>2, <1>3, <1>4, <1>5, <1>6, <1>7, <1>8, <1>9, <1>10 DEF Script

LEMMA UntouchedNext ==
  ASSUME TypeOK, Stage, Untouched, [Next]_vars
  PROVE  Untouched'
<1>1. ASSUME NEW s \in Sessions, Client(s)
      PROVE  Untouched'
  BY <1>1, UntouchedClient
<1>2. ASSUME NEW s \in Sessions, Script(s) \/ OrphanDies(s)
      PROVE  Untouched'
  BY <1>2, UntouchedScript
<1>3. ASSUME NEW s \in Sessions, LoseLink(s)
      PROVE  Untouched'
  BY <1>3 DEF LoseLink, Untouched, client, device
<1>4. CASE WriteBack
  BY <1>4 DEF WriteBack, Untouched, client
<1>5. CASE PowerLoss
  BY <1>5 DEF PowerLoss, Restart, Untouched, TypeOK, client, Live, Armed
<1>6. CASE UNCHANGED vars
  BY <1>6 DEF vars, Untouched
<1>. QED
  BY <1>1, <1>2, <1>3, <1>4, <1>5, <1>6 DEF Next
-----------------------------------------------------------------------------
(* The theorems.                                                           *)

LEMMA InitIInv == Init => IInv
<1> SUFFICES ASSUME Init PROVE IInv
  OBVIOUS
<1>1. TypeOK
  BY ConstantsAssumption DEF Init, TypeOK, Contents, PC, Before
<1>2. Stage
  BY ConstantsAssumption
  DEF Init, Stage, Chosen, Verified, PC, Before, Returned, Contents
<1>3. Mounted /\ Durable /\ Alone /\ Untouched
  BY DEF Init, Mounted, Durable, Alone, Untouched
<1>. QED BY <1>1, <1>2, <1>3 DEF IInv

LEMMA NextIInv == IInv /\ [Next]_vars => IInv'
BY TypeNext, StageNext, MountedNext, DurableNext, AloneNext, UntouchedNext DEF IInv

\* The inductive invariant holds throughout.
THEOREM Invariance == Spec => []IInv
BY InitIInv, NextIInv, PTL DEF Spec

\* Every variable keeps its type; in particular nothing but an id, a blank
\* or no file at all is ever found at /persist/comma/dongle_id.
THEOREM TypeCorrect == Spec => []TypeOK
<1>1. IInv => TypeOK
  BY DEF IInv
<1>. QED BY <1>1, Invariance, PTL

\* /persist is writable only while some script still has to close it, was
\* killed before it could, or was refused its trap's remount, for any number of
\* concurrent scripts.
THEOREM ReadOnlyAtRest == Spec => []PersistReadOnlyAtRest
<1>1. IInv => PersistReadOnlyAtRest
  BY DEF IInv, TypeOK, Mounted, PersistReadOnlyAtRest
<1>. QED BY <1>1, Invariance, PTL

\* A repair reported as verified survives any number of power losses and
\* reboots until another session is confirmed.
THEOREM SurvivesOutage == Spec => []VerifiedSurvivesOutage
<1>1. IInv => VerifiedSurvivesOutage
  BY DEF IInv, Stage, Verified, Alone, VerifiedSurvivesOutage
<1>. QED BY <1>1, Invariance, PTL

\* No session replaces an id it has seen without approval, nor anything at
\* all before its confirmation phrase.
THEOREM SeenIdGuarded == Spec => SeenIdReplacedOnlyApproved
<1> DEFINE Guarded == \A s \in Sessions : Replaces(s) =>
             confirmed[s] /\ (file = preflight[s].Value => approved[s])
<1>1. IInv => Guarded
  <2> SUFFICES ASSUME IInv, NEW s \in Sessions, Replaces(s)
               PROVE  confirmed[s] /\ (file = preflight[s].Value => approved[s])
    OBVIOUS
  <2>1. confirmed[s]
    BY DEF IInv, Stage, Replaces
  <2>2. file = preflight[s].Value => preflight[s].Exists
    BY ConstantsAssumption DEF IInv, TypeOK, Stage, Contents
  <2>. QED BY <2>1, <2>2 DEF IInv, Stage
<1>2. IInv /\ [Next]_vars => [Guarded]_vars
  BY <1>1
<1>. QED BY <1>2, Invariance, PTL DEF Spec, SeenIdReplacedOnlyApproved

\* A script that is about to truncate the file was approved for what is in it.
LEMMA AloneReplacesApproved ==
  ASSUME IInv, NEW s \in Sessions, Replaces(s), file \in Ids,
         \A t \in Sessions \ {s} : ~confirmed[t]
  PROVE  approved[s]
<1>1. script[s] = "open" /\ confirmed[s]
  BY DEF Replaces, IInv, Stage
<1>2. preflight[s].Exists
  BY <1>1 DEF IInv, Untouched
<1>. QED BY <1>1, <1>2 DEF IInv, Stage

\* No session replaces an id without approval while it is the only one that has
\* been confirmed: the approval it got was for what is in the file, whatever
\* commands failed or were cut short and however often the power was lost.
THEOREM ReplacesApprovedAlone ==
  Spec => [][\A s \in Sessions :
               /\ Replaces(s) /\ file \in Ids
               /\ \A t \in Sessions \ {s} : ~confirmed[t]
               => approved[s]]_vars
<1>1. IInv /\ [Next]_vars => [\A s \in Sessions :
                                /\ Replaces(s) /\ file \in Ids
                                /\ \A t \in Sessions \ {s} : ~confirmed[t]
                                => approved[s]]_vars
  BY AloneReplacesApproved
<1>. QED BY <1>1, Invariance, PTL DEF Spec

\* A single session, the case that the code is written for, replaces an id on
\* the device only with approval, for any ids, texts and command line.
THEOREM LoneReplacesApproved ==
  ASSUME NEW lone, Sessions = {lone}
  PROVE  Spec => ReplaceOnlyApproved
<1> DEFINE Approved == \A s \in Sessions : Replaces(s) /\ file \in Ids => approved[s]
<1>1. IInv => Approved
  BY AloneReplacesApproved
<1>2. IInv /\ [Next]_vars => [Approved]_vars
  BY <1>1
<1>. QED BY <1>2, Invariance, PTL DEF Spec, ReplaceOnlyApproved

\* When a session reports its id as verified, the id is on the disk, unless
\* another session has chosen the same id.
THEOREM ReportedIdDurable == Spec => VerifiedIsDurable
<1> DEFINE Safe == \A s \in Sessions :
             /\ pc[s] = "verify" /\ pc'[s] \in {"reboot", "repaired"}
             /\ \A t \in Sessions \ {s} : dongleID[t] # dongleID[s]
             => disk = dongleID[s]
<1>1. IInv /\ [Next]_vars => [Safe]_vars
  <2> SUFFICES ASSUME IInv, Next, NEW s \in Sessions,
                      pc[s] = "verify", pc'[s] \in {"reboot", "repaired"},
                      \A t \in Sessions \ {s} : dongleID[t] # dongleID[s]
               PROVE  disk = dongleID[s]
    OBVIOUS
  <2>1. ReadVerify(s)
    BY DEF IInv, TypeOK, Next, Client, Script, Goto, Return, SelectID, Connect,
           ReadPreflight, AnswerOverwrite, AnswerConfirm, ScriptReturns,
           ExecuteFails, ReadVerify, AnswerReboot, StartScript, RemountRW, Mkdir,
           OpenFile, WriteFile, Sync, RemountRO, CheckWritten, ExitTrap,
           OrphanDies, LoseLink, WriteBack, PowerLoss, client
  <2>2. file = dongleID[s]
    BY <2>1 DEF IInv, TypeOK, ReadVerify, Written, Goto, Return, Remote,
                ParseDongleIDPreflight, DongleIDPreflight
  <2>3. script[s] = "ok"
    BY DEF IInv, Stage, Verified
  <2>. QED BY <2>2, <2>3 DEF IInv, Durable
<1>. QED BY <1>1, Invariance, PTL DEF Spec, VerifiedIsDurable
-----------------------------------------------------------------------------
(* The repair implements GuardedRecord.                                    *)

LEMMA RecordInit == Init => Record!Init
BY DEF Init, Record!Init, Granted, Command, Live, Armed, Ended, Contents

\* A step that leaves the four mapped values alone is a stutter.
LEMMA RecordStutter ==
  ASSUME UNCHANGED <<file, disk, dongleID, confirmed, script>>
  PROVE  UNCHANGED Record!vars
BY DEF Record!vars, Granted, Command

\* A step of the running script of s is a Work step.
LEMMA RecordWork ==
  ASSUME TypeOK, Stage, NEW s \in Sessions, UNCHANGED <<dongleID, confirmed>>,
         script[s] \in Live, NEW c \in Live \cup Ended,
         script' = [script EXCEPT ![s] = c],
         file' \in {file, Blank, dongleID[s]}, disk' \in {disk, file'}
  PROVE  Record!Next
<1>1. confirmed[s] /\ Granted[s] = {Blank, dongleID[s]}
  BY DEF Stage, Live, Armed, Granted
<1>2. Granted' = Granted
  BY DEF Granted
<1>3. Command[s] = "live"
  BY DEF Command
<1>4. \E killed \in SUBSET {t \in Sessions : Command[t] = "live"} :
        Command' = [t \in Sessions |-> IF t \in killed THEN "ended" ELSE Command[t]]
  <2> DEFINE killed == {t \in {s} : c \in Ended}
  <2>1. killed \in SUBSET {t \in Sessions : Command[t] = "live"}
    BY <1>3
  <2>2. Command' = [t \in Sessions |-> IF t \in killed THEN "ended" ELSE Command[t]]
    BY DEF TypeOK, Command, Live, Armed, Ended
  <2>. QED BY <2>1, <2>2
<1>. QED BY <1>1, <1>2, <1>3, <1>4 DEF Record!Next, Record!Work, Record!Leaves

LEMMA RecordRestart ==
  ASSUME TypeOK, UNCHANGED <<dongleID, confirmed>>, Restart,
         file' \in {file, disk}, disk' = file'
  PROVE  Record!Next
<1>1. Granted' = Granted
  BY DEF Granted
<1>2. Command' = [s \in Sessions |->
                    IF Command[s] = "live" THEN "ended" ELSE Command[s]]
  BY DEF TypeOK, Restart, Command, Live, Armed, Ended
<1>. QED BY <1>1, <1>2 DEF Record!Next, Record!Restart

LEMMA RecordClient ==
  ASSUME TypeOK, Stage, NEW s \in Sessions, Client(s)
  PROVE  [Record!Next]_(Record!vars)
<1>1. CASE SelectID(s)
  <2>1. ~confirmed[s] /\ \A t \in Sessions \ {s} : dongleID'[t] = dongleID[t]
    BY <1>1 DEF SelectID, Goto, Stage, Before, TypeOK
  <2>2. Granted' = Granted
    BY <1>1, <2>1 DEF SelectID, Granted
  <2>3. Command' = Command
    BY <1>1 DEF SelectID, Command
  <2>. QED BY <1>1, <2>2, <2>3 DEF SelectID, device, Record!vars
<1>2. CASE Connect(s)
  BY <1>2, RecordStutter DEF Connect, device
<1>3. CASE ReadPreflight(s)
  BY <1>3, RecordStutter DEF ReadPreflight, device
<1>4. CASE AnswerOverwrite(s)
  BY <1>4, RecordStutter DEF AnswerOverwrite, device
<1>5. CASE AnswerConfirm(s)
  <2>1. CASE UNCHANGED <<confirmed, script>>
    BY <1>5, <2>1, RecordStutter DEF AnswerConfirm, device
  <2>2. CASE confirmed' = [confirmed EXCEPT ![s] = TRUE]
    <3>1. ~confirmed[s] /\ script[s] = "off" /\ dongleID[s] \in Ids
      BY <1>5, <2>2 DEF AnswerConfirm, Goto, Return, Stage, Before, Chosen, PC
    <3>2. Command' = Command
      BY <1>5, <3>1 DEF AnswerConfirm, TypeOK, Command, Live, Armed, Ended
    <3>3. Granted[s] = {} /\ Granted' = [Granted EXCEPT ![s] = {Blank, dongleID[s]}]
      BY <1>5, <2>2, <3>1 DEF AnswerConfirm, TypeOK, Granted
    <3>4. {Blank, dongleID[s]} \in SUBSET Contents
      BY <3>1 DEF Contents
    <3>. QED BY <1>5, <3>2, <3>3, <3>4
         DEF AnswerConfirm, device, Record!Next, Record!Grant
  <2>. QED BY <1>5, <2>1, <2>2 DEF AnswerConfirm
<1>6. CASE ScriptReturns(s)
  BY <1>6, RecordStutter DEF ScriptReturns, device
<1>7. CASE ExecuteFails(s)
  BY <1>7, RecordStutter DEF ExecuteFails, device
<1>8. CASE ReadVerify(s)
  BY <1>8, RecordStutter DEF ReadVerify, device
<1>9. CASE AnswerReboot(s)
  BY <1>9, RecordStutter, RecordRestart DEF AnswerReboot
<1>. QED
  BY <1>1, <1>2, <1>3, <1>4, <1>5, <1>6, <1>7, <1>8, <1>9 DEF Client

LEMMA RecordScript ==
  ASSUME TypeOK, Stage, NEW s \in Sessions, Script(s) \/ OrphanDies(s)
  PROVE  Record!Next
<1> USE RecordWork DEF Advance, client, device, Live, Armed, Ended
<1>1. CASE StartScript(s)
  <2>1. confirmed[s] /\ Granted[s] # {} /\ Granted' = Granted
    BY <1>1 DEF StartScript, Stage, Granted
  <2>2. Command[s] = "idle" /\ Command' = [Command EXCEPT ![s] = "live"]
    BY <1>1 DEF StartScript, TypeOK, Command
  <2>. QED BY <1>1, <2>1, <2>2 DEF StartScript, Record!Next, Record!Start
<1>2. CASE RemountRW(s)
  BY <1>2 DEF RemountRW
<1>3. CASE Mkdir(s)
  BY <1>3 DEF Mkdir
<1>4. CASE OpenFile(s)
  BY <1>4 DEF OpenFile
<1>5. CASE WriteFile(s)
  BY <1>5 DEF WriteFile
<1>6. CASE Sync(s)
  BY <1>6 DEF Sync
<1>7. CASE RemountRO(s)
  BY <1>7 DEF RemountRO
<1>8. CASE CheckWritten(s)
  BY <1>8 DEF CheckWritten
<1>9. CASE ExitTrap(s)
  BY <1>9 DEF ExitTrap
<1>10. CASE OrphanDies(s)
  BY <1>10 DEF OrphanDies
<1>. QED
  BY <1>1, <1>2, <1>3, <1>4, <1>5, <1>6, <1>7, <1>8, <1>9, <1>10 DEF Script

\* Whatever concurrent sessions, dying scripts and power losses do, the id on
\* the device changes only under a confirmed, running command, at most one
\* per confirmation, and only to what its operator agreed to.
THEOREM RepairImplementsGuardedRecord == Spec => RepairIsGuarded
<1>1. IInv /\ [Next]_vars => [Record!Next]_(Record!vars)
  <2> SUFFICES ASSUME TypeOK, Stage, [Next]_vars
               PROVE  [Record!Next]_(Record!vars)
    BY DEF IInv
  <2>1. ASSUME NEW s \in Sessions, Client(s)
        PROVE  [Record!Next]_(Record!vars)
    BY <2>1, RecordClient
  <2>2. ASSUME NEW s \in Sessions, Script(s) \/ OrphanDies(s)
        PROVE  [Record!Next]_(Record!vars)
    BY <2>2, RecordScript
  <2>3. ASSUME NEW s \in Sessions, LoseLink(s)
        PROVE  [Record!Next]_(Record!vars)
    BY <2>3, RecordStutter DEF LoseLink, client, device
  <2>4. CASE WriteBack
    <3>1. Granted' = Granted /\ Command' = Command
      BY <2>4 DEF WriteBack, client, Granted, Command
    <3>. QED BY <2>4, <3>1 DEF WriteBack, client, Record!Next, Record!Flush
  <2>5. CASE PowerLoss
    BY <2>5, RecordRestart DEF PowerLoss, client
  <2>6. CASE UNCHANGED vars
    BY <2>6, RecordStutter DEF vars
  <2>. QED BY <2>1, <2>2, <2>3, <2>4, <2>5, <2>6 DEF Next
<1>. QED BY <1>1, RecordInit, Invariance, PTL DEF Spec, RepairIsGuarded, Record!Spec
=============================================================================
