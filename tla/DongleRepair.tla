---------------------------- MODULE DongleRepair ----------------------------
(***************************************************************************)
(* The guarded repair of /persist/comma/dongle_id (repair.go).             *)
(*                                                                         *)
(* A session is one run of the debugger that has chosen the repair action  *)
(* for this device.  Its client side asks for an id, connects, reads the   *)
(* current id, asks for permission, runs the repair script over SSH with a *)
(* time limit, reads the id back and offers a reboot.  Its script runs on  *)
(* the device, one shell command per action, and outlives the client: after *)
(* a timeout or a lost connection it may go on, or be killed at any point. *)
(* Sessions share the device and nothing in the code excludes two of them, *)
(* a retry of a repair that timed out being the ordinary case.             *)
(***************************************************************************)
EXTENDS Naturals

CONSTANTS
  Sessions,     \* runs of the debugger
  Ids,          \* non-blank contents of the dongle_id file
  Texts,        \* what an operator may type or pass for the id
  NormalForm,   \* the id a text trims and lower-cases to, or Rejected
  Flags,        \* the command lines considered
  Rejected, NoText, NoId,
  NoFile,       \* there is no dongle_id file
  Blank,        \* the file exists and is empty
  MaxOutages    \* bound on losses of power

Contents == Ids \cup {NoFile, Blank}

ASSUME ConstantsAssumption ==
  /\ NormalForm \in [Texts -> Ids \cup {Rejected}]
  /\ Flags \subseteq [RepairDongleID : Texts \cup {NoText},
                      OverwriteDongleID : BOOLEAN, NoReboot : BOOLEAN]
  /\ Rejected \notin Ids /\ NoId \notin Contents
  /\ NoFile \notin Ids /\ Blank \notin Ids /\ NoFile # Blank
  /\ NoText \notin Texts
  /\ MaxOutages \in Nat

VARIABLES
  cfg,          \* flags of each session
  pc,           \* where runDongleIDRepair is, or how it returned
  dongleID,     \* the normalised id each session writes
  preflight,    \* what each session read before asking
  approved,     \* overwriting has been approved, by flag or by answer
  confirmed,    \* the confirmation phrase has been typed
  link,         \* sessions whose SSH connection works
  script,       \* each session's repair script: its request ("off", "sent"),
                \* its next command, or how it ended
  mount,        \* /persist is mounted "ro" or "rw"
  file,         \* dongle_id as programs on the device see it
  disk,         \* dongle_id as it would survive a loss of power
  outages

client == <<pc, dongleID, preflight, approved, confirmed>>
device == <<mount, file, disk>>
vars == <<cfg, pc, dongleID, preflight, approved, confirmed, link, script,
          mount, file, disk, outages>>

Before == {"id", "connect", "preflight", "overwrite", "confirm"}
Returned == {"error", "aborted", "failed", "unverified", "repaired"}
PC == Before \cup {"exec", "verify", "reboot"} \cup Returned

\* The script's EXIT trap is armed while one of these is its next command.
Armed == {"mkdir", "open", "write", "sync", "remount_ro", "trap"}
Live == {"remount_rw", "check"} \cup Armed
\* How it ends; "stuck" is an error whose trap could not close /persist either.
Ended == {"ok", "err", "stuck", "killed"}

TypeOK ==
  /\ cfg \in [Sessions -> Flags]
  /\ pc \in [Sessions -> PC]
  /\ dongleID \in [Sessions -> Ids \cup {NoId}]
  /\ preflight \in [Sessions -> [Exists : BOOLEAN, Value : Ids \cup {NoId}]]
  /\ approved \in [Sessions -> BOOLEAN]
  /\ confirmed \in [Sessions -> BOOLEAN]
  /\ link \subseteq Sessions
  /\ script \in [Sessions -> {"off", "sent"} \cup Live \cup Ended]
  /\ mount \in {"ro", "rw"}
  /\ file \in Contents
  /\ disk \in Contents
  /\ outages \in 0..MaxOutages

Init ==
  /\ cfg \in [Sessions -> Flags]
  /\ pc = [s \in Sessions |-> "id"]
  /\ dongleID = [s \in Sessions |-> NoId]
  /\ preflight = [s \in Sessions |-> [Exists |-> FALSE, Value |-> NoId]]
  /\ approved = [s \in Sessions |-> FALSE]
  /\ confirmed = [s \in Sessions |-> FALSE]
  /\ link = {}
  /\ script = [s \in Sessions |-> "off"]
  /\ mount = "ro"
  /\ file \in Contents
  /\ disk = file
  /\ outages = 0

-----------------------------------------------------------------------------
(* The client: runDongleIDRepair.                                          *)

Goto(s, from, to) == pc[s] = from /\ pc' = [pc EXCEPT ![s] = to]

\* A return runs the deferred client.Close().
Return(s, from, how) == Goto(s, from, how) /\ link' = link \ {s}

ValidMutant(t) == t \in Texts   \* the shape of the id is not checked

\* normalizeDongleID accepts the text.
Valid(t) == NormalForm[t] # Rejected

\* A malformed --repair-dongle-id is an error; a malformed answer is asked
\* again, which changes nothing.
SelectID(s) ==
  /\ UNCHANGED <<cfg, preflight, approved, confirmed, link, script, device, outages>>
  /\ \/ /\ cfg[s].RepairDongleID # NoText
        /\ ~Valid(cfg[s].RepairDongleID)
        /\ Goto(s, "id", "error")
        /\ UNCHANGED dongleID
     \/ \E t \in IF cfg[s].RepairDongleID # NoText
                 THEN {cfg[s].RepairDongleID} ELSE Texts :
          /\ Valid(t)
          /\ dongleID' = [dongleID EXCEPT ![s] = NormalForm[t]]
          /\ Goto(s, "id", "connect")

Connect(s) ==
  /\ UNCHANGED <<cfg, dongleID, preflight, approved, confirmed, script, device, outages>>
  /\ \/ Goto(s, "connect", "preflight") /\ link' = link \cup {s}
     \/ Return(s, "connect", "error")

\* What the preflight command prints for a file.
DongleIDPreflight(content) ==
  IF content = NoFile THEN [tag |-> "MISSING", value |-> NoId]
                      ELSE [tag |-> "EXISTS", value |-> content]

\* The parser trims the output first, so "EXISTS\t" with nothing behind it
\* loses its tab and is not recognised: a blank file counts as missing.
ParseDongleIDPreflight(out) ==
  IF out.tag = "EXISTS" /\ out.value # Blank
  THEN [Exists |-> TRUE, Value |-> out.value]
  ELSE [Exists |-> FALSE, Value |-> NoId]

Remote == ParseDongleIDPreflight(DongleIDPreflight(file))

AsksMutant(s) == Remote.Exists /\ cfg[s].OverwriteDongleID   \* flag inverted

\* An existing id is replaced only if the flag or the operator says so.
Asks(s) == Remote.Exists /\ ~cfg[s].OverwriteDongleID

ReadPreflight(s) ==
  /\ UNCHANGED <<cfg, dongleID, confirmed, script, device, outages>>
  /\ \/ /\ s \in link
        /\ preflight' = [preflight EXCEPT ![s] = Remote]
        /\ IF Asks(s)
           THEN Goto(s, "preflight", "overwrite") /\ UNCHANGED approved
           ELSE /\ Goto(s, "preflight", "confirm")
                /\ approved' = [approved EXCEPT ![s] = cfg[s].OverwriteDongleID]
        /\ UNCHANGED link
     \/ /\ Return(s, "preflight", "error")   \* command failed or timed out
        /\ UNCHANGED <<preflight, approved>>

\* "no" is taken for "yes".
AnswerOverwriteMutant(s) ==
  /\ UNCHANGED <<cfg, dongleID, preflight, confirmed, script, device, outages>>
  /\ Goto(s, "overwrite", "confirm")
  /\ UNCHANGED <<approved, link>>

AnswerOverwrite(s) ==
  /\ UNCHANGED <<cfg, dongleID, preflight, confirmed, script, device, outages>>
  /\ \/ /\ Goto(s, "overwrite", "confirm")
        /\ approved' = [approved EXCEPT ![s] = TRUE]
        /\ UNCHANGED link
     \/ Return(s, "overwrite", "aborted") /\ UNCHANGED approved

\* A wrong phrase is only remarked upon.
AnswerConfirmMutant(s) ==
  /\ UNCHANGED <<cfg, dongleID, preflight, approved, link, device, outages>>
  /\ Goto(s, "confirm", "exec")
  /\ confirmed' \in {confirmed, [confirmed EXCEPT ![s] = TRUE]}
  /\ script' = [script EXCEPT ![s] = "sent"]

\* The typed confirmation sends the script, if the connection still works.
AnswerConfirm(s) ==
  /\ UNCHANGED <<cfg, dongleID, preflight, approved, device, outages>>
  /\ \/ /\ Goto(s, "confirm", "exec")
        /\ confirmed' = [confirmed EXCEPT ![s] = TRUE]
        /\ script' = [script EXCEPT ![s] = IF s \in link THEN "sent" ELSE @]
        /\ UNCHANGED link
     \/ Return(s, "confirm", "aborted") /\ UNCHANGED <<confirmed, script>>

\* The script's exit status arrives before the time limit.
ScriptReturns(s) ==
  /\ s \in link
  /\ script[s] \in Ended
  /\ IF script[s] = "ok" THEN Goto(s, "exec", "verify") /\ UNCHANGED link
                         ELSE Return(s, "exec", "failed")
  /\ UNCHANGED <<cfg, dongleID, preflight, approved, confirmed, script, device, outages>>

\* A timeout is taken for a success.
ExecuteFailsMutant(s) ==
  /\ Goto(s, "exec", "verify")
  /\ UNCHANGED <<cfg, dongleID, preflight, approved, confirmed, link, script, device, outages>>

\* There is no time limit.
NoTimeoutMutant(s) ==
  /\ s \notin link
  /\ Return(s, "exec", "failed")
  /\ UNCHANGED <<cfg, dongleID, preflight, approved, confirmed, script, device, outages>>

\* executeCommand gives up: the time limit has passed, or the connection is
\* gone.  When the result is ready as well, select may still choose this.
ExecuteFails(s) ==
  /\ Return(s, "exec", "failed")
  /\ UNCHANGED <<cfg, dongleID, preflight, approved, confirmed, script, device, outages>>

WrittenMutant(s) == Remote.Exists   \* the value read back is not compared

\* The id that is read back is the one the session has chosen.
Written(s) == Remote.Exists /\ Remote.Value = dongleID[s]

ReadVerify(s) ==
  /\ UNCHANGED <<cfg, dongleID, preflight, approved, confirmed, script, device, outages>>
  /\ \/ /\ s \in link
        /\ IF ~Written(s)
           THEN Return(s, "verify", "unverified")
           ELSE IF cfg[s].NoReboot
                THEN Return(s, "verify", "repaired")
                ELSE Goto(s, "verify", "reboot") /\ UNCHANGED link
     \/ Return(s, "verify", "error")

\* Every process on the device stops and /persist comes back read-only.
Restart ==
  /\ script' = [s \in Sessions |-> CASE script[s] = "sent" -> "off"
                                     [] script[s] \in Live -> "killed"
                                     [] OTHER -> script[s]]
  /\ mount' = "ro"
  /\ link' = {}

\* A refused reboot, or one whose command fails, is reported as a success.
AnswerReboot(s) ==
  /\ Goto(s, "reboot", "repaired")
  /\ \/ s \in link /\ Restart /\ disk' = file
     \/ link' = link \ {s} /\ UNCHANGED <<script, mount, disk>>
  /\ UNCHANGED <<cfg, dongleID, preflight, approved, confirmed, file, outages>>
-----------------------------------------------------------------------------
(* The device: dongleIDRepairCommand, one shell command at a time.         *)

Advance(s, from, to) == script[s] = from /\ script' = [script EXCEPT ![s] = to]

\* A remount to read-only is refused while a tee holds dongle_id open.
Busy == \E s \in Sessions : script[s] = "write"

\* The request reaches the device, perhaps after the client has given up.
StartScript(s) ==
  /\ Advance(s, "sent", "remount_rw")
  /\ UNCHANGED <<cfg, client, link, device, outages>>

RemountRW(s) ==
  /\ UNCHANGED <<cfg, client, link, file, disk, outages>>
  /\ \/ Advance(s, "remount_rw", "mkdir") /\ mount' = "rw"
     \/ Advance(s, "remount_rw", "err") /\ UNCHANGED mount

Mkdir(s) ==
  /\ Advance(s, "mkdir", "open") \/ Advance(s, "mkdir", "trap")
  /\ UNCHANGED <<cfg, client, link, device, outages>>

\* tee truncates the file when it opens it.
OpenFile(s) ==
  /\ UNCHANGED <<cfg, client, link, mount, disk, outages>>
  /\ \/ Advance(s, "open", "write") /\ mount = "rw" /\ file' = Blank
     \/ Advance(s, "open", "trap") /\ UNCHANGED file

WriteFile(s) ==
  /\ UNCHANGED <<cfg, client, link, mount, disk, outages>>
  /\ \/ Advance(s, "write", "sync") /\ file' = dongleID[s]
     \/ Advance(s, "write", "trap") /\ UNCHANGED file

Sync(s) ==
  /\ UNCHANGED <<cfg, client, link, mount, file, outages>>
  /\ \/ Advance(s, "sync", "remount_ro") /\ disk' = file
     \/ Advance(s, "sync", "trap") /\ UNCHANGED disk

\* A refused remount is remarked upon, and the script goes on.
RemountROMutant(s) ==
  /\ UNCHANGED <<cfg, client, link, file, outages>>
  /\ Advance(s, "remount_ro", "check")
  /\ \/ ~Busy /\ mount' = "ro" /\ disk' = file
     \/ UNCHANGED <<mount, disk>>

\* A successful remount flushes the file system and disarms the trap.  It may
\* be refused for reasons of its own (sudo, another writer on /persist) and is
\* refused while a tee is at work.
RemountRO(s) ==
  /\ UNCHANGED <<cfg, client, link, file, outages>>
  /\ \/ ~Busy /\ Advance(s, "remount_ro", "check") /\ mount' = "ro" /\ disk' = file
     \/ Advance(s, "remount_ro", "trap") /\ UNCHANGED <<mount, disk>>

CheckWritten(s) ==
  /\ Advance(s, "check", IF file = dongleID[s] THEN "ok" ELSE "err")
  /\ UNCHANGED <<cfg, client, link, device, outages>>

\* The trap ignores the failure of its remount: whoever is told so, /persist
\* stays writable.  A tee that stood in the way has a script that closes it.
ExitTrap(s) ==
  /\ UNCHANGED <<cfg, client, link, file, outages>>
  /\ \/ ~Busy /\ Advance(s, "trap", "err") /\ mount' = "ro" /\ disk' = file
     \/ /\ Advance(s, "trap", IF Busy THEN "err" ELSE "stuck")
        /\ UNCHANGED <<mount, disk>>

\* Without its client the script may die of the SIGKILL sent at the time
\* limit or of a broken pipe.  The tee it is waiting for runs as root and
\* may still complete; a shell that is not killed outright runs its trap.
OrphanDies(s) ==
  /\ s \notin link /\ script[s] \in Live
  /\ \/ script' = [script EXCEPT ![s] = "killed"]
     \/ script[s] \in Armed /\ script' = [script EXCEPT ![s] = "trap"]
  /\ \/ UNCHANGED file
     \/ script[s] = "write" /\ file' = dongleID[s]
  /\ UNCHANGED <<cfg, client, link, mount, disk, outages>>
-----------------------------------------------------------------------------
(* The environment.                                                        *)

WriteBack ==
  /\ disk' = file
  /\ UNCHANGED <<cfg, client, link, script, mount, file, outages>>

LoseLink(s) ==
  /\ s \in link
  /\ link' = link \ {s}
  /\ UNCHANGED <<cfg, client, script, device, outages>>

PowerLoss ==
  /\ outages < MaxOutages
  /\ outages' = outages + 1
  /\ Restart
  /\ file' = disk
  /\ UNCHANGED <<cfg, client, disk>>
-----------------------------------------------------------------------------
Client(s) ==
  \/ SelectID(s) \/ Connect(s) \/ ReadPreflight(s)
  \/ AnswerOverwrite(s) \/ AnswerConfirm(s)
  \/ ScriptReturns(s) \/ ExecuteFails(s)
  \/ ReadVerify(s) \/ AnswerReboot(s)

Script(s) ==
  \/ StartScript(s) \/ RemountRW(s) \/ Mkdir(s) \/ OpenFile(s) \/ WriteFile(s) \/ Sync(s)
  \/ RemountRO(s) \/ CheckWritten(s) \/ ExitTrap(s)

Next ==
  \/ \E s \in Sessions : Client(s) \/ Script(s) \/ OrphanDies(s) \/ LoseLink(s)
  \/ WriteBack
  \/ PowerLoss

Spec == Init /\ [][Next]_vars

\* The operator eventually gives every prompt an answer that it accepts, and
\* what the client waits for is bounded by a time limit.  The one wait without
\* a limit is the opening of an SSH session (NewSession, ssh_client.go:44): the
\* device's sshd is assumed to open it, or the connection to fail.  Nothing is
\* assumed of the script, nor of the connection once the session is open.
FairSpec == Spec /\ \A s \in Sessions : WF_vars(Client(s))
-----------------------------------------------------------------------------
(* Properties.                                                             *)

\* Between repairs /persist is mounted read-only: whatever other commands
\* failed and in whatever order the scripts ran, it is writable only while some
\* script has its EXIT trap or its own remount ahead of it, was killed before
\* it got there, or has failed because the remount of its trap was refused.  A
\* script that succeeds leaves it writable for no reason of its own.
PersistReadOnlyAtRest ==
  (\A s \in Sessions : script[s] \notin Armed \cup {"killed", "stuck"}) => mount = "ro"

Replaces(s) == script[s] = "open" /\ script'[s] = "write"

\* An id that is on the device is replaced only with approval, by the flag
\* or by the answer to the question.
ReplaceOnlyApproved ==
  [][\A s \in Sessions : Replaces(s) /\ file \in Ids => approved[s]]_vars

\* What two sessions can still rely on: the id a session was shown is not
\* replaced by that session without approval, and no session replaces
\* anything before its confirmation.
SeenIdReplacedOnlyApproved ==
  [][\A s \in Sessions : Replaces(s) =>
       confirmed[s] /\ (file = preflight[s].Value => approved[s])]_vars

\* A repair reported as verified survives a loss of power and any reboot, as
\* long as no other session has been confirmed.
VerifiedSurvivesOutage ==
  \A s \in Sessions :
    /\ pc[s] \in {"reboot", "repaired"}
    /\ \A t \in Sessions \ {s} : ~confirmed[t]
    => file = dongleID[s] /\ disk = dongleID[s]

\* When a session reports its id as verified, that id is on the disk, even
\* with the scripts of other sessions running, provided they write other ids.
VerifiedIsDurable ==
  [][\A s \in Sessions :
       /\ pc[s] = "verify" /\ pc'[s] \in {"reboot", "repaired"}
       /\ \A t \in Sessions \ {s} : dongleID[t] # dongleID[s]
       => disk = dongleID[s]]_vars

\* The repair is a guarded action: see GuardedRecord.  A confirmation grants
\* the chosen id and the blank file that tee leaves while it works.
Granted == [s \in Sessions |-> IF confirmed[s] THEN {Blank, dongleID[s]} ELSE {}]
Command == [s \in Sessions |-> IF script[s] \in Live THEN "live"
                               ELSE IF script[s] \in Ended THEN "ended" ELSE "idle"]

Record == INSTANCE GuardedRecord WITH
  record <- file, durable <- disk, granted <- Granted, command <- Command,
  Others <- {}, Staging <- FALSE

RepairIsGuarded == Record!Spec

\* A session whose operator answers returns, whatever becomes of its script:
\* also when the script hangs, is killed or never starts.
SessionReturns == \A s \in Sessions : <>(pc[s] \in Returned)
=============================================================================
