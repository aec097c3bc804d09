---------------------------- MODULE CustomInstall ----------------------------
(***************************************************************************)
(* The guarded install of custom software (custom_install.go).             *)
(*                                                                         *)
(* A session is one run of the debugger that has chosen this action for    *)
(* this device.  Its client side reads a plan from the device, asks, and   *)
(* runs the install script over SSH with a time limit of 45 minutes.  The  *)
(* script replaces the checkout in /data/openpilot, one shell command per  *)
(* action, and outlives the client.  Nothing in the code excludes two      *)
(* sessions: an operator whose client timed out or lost its connection     *)
(* starts another one while the first script is still cloning.             *)
(***************************************************************************)
EXTENDS Naturals

CONSTANTS
  Sessions,     \* runs of the debugger
  URLs,         \* normalised custom software URLs
  Texts,        \* what an operator may type or pass for the URL
  NormalURL,    \* the URL a text normalises to, or Rejected
  Flags,        \* the values of --custom-software-url considered
  Offers,       \* per URL, the repository branches its installer may name
  Old,          \* the checkout that may be there before
  Rejected, NoText, NoURL,
  NoCheckout,   \* the directory does not exist
  Partial,      \* a clone that is not finished
  Damaged,      \* what several processes wrote or deleted in; perhaps complete
  MaxOutages    \* bound on losses of power

Branches == UNION {Offers[u] : u \in URLs}
Checkouts == Branches \cup {Old}

ASSUME InstallAssumption ==
  /\ NormalURL \in [Texts -> URLs \cup {Rejected}]
  /\ Flags \subseteq Texts \cup {NoText}
  /\ Rejected \notin URLs /\ NoURL \notin URLs /\ NoText \notin Texts
  /\ Checkouts \cap {NoCheckout, Partial, Damaged} = {}
  /\ NoCheckout # Partial /\ NoCheckout # Damaged /\ Partial # Damaged
  /\ MaxOutages \in Nat

VARIABLES
  flag,         \* --custom-software-url of each session
  pc,           \* where runCustomSoftwareInstall is, or how it returned
  customURL,    \* the URL each session installs
  plan,         \* what each session's preflight reported
  approved,     \* moving /data/openpilot aside has been approved
  confirmed,    \* the confirmation phrase has been typed
  link,         \* sessions whose SSH connection works
  script,       \* each session's install script: its request, its next command,
                \* or how it ended
  orphans,      \* sessions whose rm or git goes on without its shell, since
                \* the device started
  spared,       \* history: sessions whose script was at work in /data and that
                \* another script did not manage to kill, since then
  data,         \* /data as programs on the device see it
  disk,         \* /data as it would survive a loss of power
  outages

client == <<pc, customURL, plan, approved, confirmed>>
device == <<orphans, spared, data, disk>>
vars == <<flag, client, link, script, device, outages>>

Returned == {"error", "aborted", "failed", "installed"}
PC == {"url", "connect", "plan", "replace", "confirm", "exec"} \cup Returned

\* The commands after the one that stops the wrapper and other scripts.
PastStop == {"rm", "clone", "cloning", "checkout", "aside", "move", "launch",
             "sync", "verify", "restart"}
Live == {"ls_remote", "stop"} \cup PastStop
Ended == {"ok", "err", "killed"}

\* The commands that take their time in /data/tmppilot.
InTmp == {"rm", "cloning", "checkout"}

Data == [openpilot : Checkouts \cup {NoCheckout, Damaged},
         tmppilot : Checkouts \cup {NoCheckout, Partial, Damaged},
         backups : SUBSET Checkouts,
         continueSh : BOOLEAN,
         url : URLs \cup {NoURL}]

Plan == [OpenpilotExists : BOOLEAN, MigratedBranch : Branches \cup {NoCheckout}]
NoPlan == [OpenpilotExists |-> FALSE, MigratedBranch |-> NoCheckout]

TypeOK ==
  /\ flag \in [Sessions -> Flags]
  /\ pc \in [Sessions -> PC]
  /\ customURL \in [Sessions -> URLs \cup {NoURL}]
  /\ plan \in [Sessions -> Plan]
  /\ approved \in [Sessions -> BOOLEAN]
  /\ confirmed \in [Sessions -> BOOLEAN]
  /\ link \subseteq Sessions
  /\ script \in [Sessions -> {"off", "sent"} \cup Live \cup Ended]
  /\ orphans \subseteq Sessions /\ spared \subseteq Sessions
  /\ data \in Data
  /\ disk \in Data
  /\ outages \in 0..MaxOutages

\* Setup leaves no checkout, or an earlier install left one; a setup installer
\* that crashed may have left part of a clone.
Init ==
  /\ flag \in [Sessions -> Flags]
  /\ pc = [s \in Sessions |-> "url"]
  /\ customURL = [s \in Sessions |-> NoURL]
  /\ plan = [s \in Sessions |-> NoPlan]
  /\ approved = [s \in Sessions |-> FALSE]
  /\ confirmed = [s \in Sessions |-> FALSE]
  /\ link = {}
  /\ script = [s \in Sessions |-> "off"]
  /\ orphans = {} /\ spared = {}
  /\ \E c \in {NoCheckout, Old}, t \in {NoCheckout, Partial} :
       data = [openpilot |-> c, tmppilot |-> t, backups |-> {},
               continueSh |-> c # NoCheckout, url |-> NoURL]
  /\ disk = data
  /\ outages = 0
-----------------------------------------------------------------------------
(* The client: runCustomSoftwareInstall.                                   *)

Goto(s, from, to) == pc[s] = from /\ pc' = [pc EXCEPT ![s] = to]

\* A return runs the deferred client.Close().
Return(s, from, how) == Goto(s, from, how) /\ link' = link \ {s}

\* normalizeCustomSoftwareURL accepts the text.
Accepted(t) == NormalURL[t] # Rejected

\* A malformed flag is an error; a malformed answer is asked again.
SelectURL(s) ==
  /\ UNCHANGED <<flag, plan, approved, confirmed, link, script, device, outages>>
  /\ \/ /\ flag[s] # NoText
        /\ ~Accepted(flag[s])
        /\ Goto(s, "url", "error")
        /\ UNCHANGED customURL
     \/ \E t \in IF flag[s] # NoText THEN {flag[s]} ELSE Texts :
          /\ Accepted(t)
          /\ customURL' = [customURL EXCEPT ![s] = NormalURL[t]]
          /\ Goto(s, "url", "connect")

Connect(s) ==
  /\ UNCHANGED <<flag, customURL, plan, approved, confirmed, script, device, outages>>
  /\ \/ Goto(s, "connect", "plan") /\ link' = link \cup {s}
     \/ Return(s, "connect", "error")

\* The plan command downloads the installer on the device, looks for a
\* repository and a branch in it and asks the repository for the branch.
InstallPlans(s) ==
  {[OpenpilotExists |-> data.openpilot # NoCheckout, MigratedBranch |-> b] :
     b \in Offers[customURL[s]]}

\* What the plan says of an existing checkout is printed and not looked at.
ReadPlanMutant(s) ==
  /\ UNCHANGED <<flag, customURL, approved, confirmed, script, device, outages>>
  /\ \/ /\ s \in link
        /\ \E p \in InstallPlans(s) : plan' = [plan EXCEPT ![s] = p]
        /\ Goto(s, "plan", "confirm")
        /\ UNCHANGED link
     \/ Return(s, "plan", "error") /\ UNCHANGED plan

\* The command fails if it does not find the branch, and then, as after a
\* timeout, the session ends.
ReadPlan(s) ==
  /\ UNCHANGED <<flag, customURL, approved, confirmed, script, device, outages>>
  /\ \/ /\ s \in link
        /\ \E p \in InstallPlans(s) :
             /\ plan' = [plan EXCEPT ![s] = p]
             /\ Goto(s, "plan", IF p.OpenpilotExists THEN "replace" ELSE "confirm")
        /\ UNCHANGED link
     \/ Return(s, "plan", "error") /\ UNCHANGED plan

AnswerReplace(s) ==
  /\ UNCHANGED <<flag, customURL, plan, confirmed, script, device, outages>>
  /\ \/ /\ Goto(s, "replace", "confirm")
        /\ approved' = [approved EXCEPT ![s] = TRUE]
        /\ UNCHANGED link
     \/ Return(s, "replace", "aborted") /\ UNCHANGED approved

\* A wrong phrase is only remarked upon.
AnswerConfirmMutant(s) ==
  /\ UNCHANGED <<flag, customURL, plan, approved, link, device, outages>>
  /\ Goto(s, "confirm", "exec")
  /\ confirmed' \in {confirmed, [confirmed EXCEPT ![s] = TRUE]}
  /\ script' = [script EXCEPT ![s] = "sent"]

\* The typed confirmation sends the script, if the connection still works.
AnswerConfirm(s) ==
  /\ UNCHANGED <<flag, customURL, plan, approved, device, outages>>
  /\ \/ /\ Goto(s, "confirm", "exec")
        /\ confirmed' = [confirmed EXCEPT ![s] = TRUE]
        /\ script' = [script EXCEPT ![s] = IF s \in link THEN "sent" ELSE @]
        /\ UNCHANGED link
     \/ Return(s, "confirm", "aborted") /\ UNCHANGED <<confirmed, script>>

\* The script's exit status arrives in time; the client checks nothing else.
ScriptReturns(s) ==
  /\ s \in link
  /\ script[s] \in Ended
  /\ Return(s, "exec", IF script[s] = "ok" THEN "installed" ELSE "failed")
  /\ UNCHANGED <<flag, customURL, plan, approved, confirmed, script, device, outages>>

\* A timeout is taken for a success.
ExecuteFailsMutant(s) ==
  /\ Return(s, "exec", "installed")
  /\ UNCHANGED <<flag, customURL, plan, approved, confirmed, script, device, outages>>

\* executeCommand gives up.
ExecuteFails(s) ==
  /\ Return(s, "exec", "failed")
  /\ UNCHANGED <<flag, customURL, plan, approved, confirmed, script, device, outages>>
-----------------------------------------------------------------------------
(* The device: customSoftwareInstallCommand, one shell command at a time.  *)
(* set -e ends the script at the first command that fails.                 *)

Advance(s, from, to) == script[s] = from /\ script' = [script EXCEPT ![s] = to]

Fail(s, from) ==
  Advance(s, from, "err") /\ UNCHANGED <<flag, client, link, device, outages>>

\* A step that changes /data alone, or fails and changes nothing.
Change(s, from, to, new) ==
  \/ /\ Advance(s, from, to)
     /\ data' = new
     /\ UNCHANGED <<flag, client, link, orphans, spared, disk, outages>>
  \/ Fail(s, from)

StartScript(s) ==
  /\ Advance(s, "sent", "ls_remote")
  /\ UNCHANGED <<flag, client, link, device, outages>>

LsRemote(s) ==
  \/ Advance(s, "ls_remote", "stop") /\ UNCHANGED <<flag, client, link, device, outages>>
  \/ Fail(s, "ls_remote")

\* The script's own text does not match.
RivalsMutant(s) == {}

\* Every process with one of three paths in its command line is killed, to
\* stop the setup and the wrapper.  The text of this script holds one of them
\* and a login shell has the script on its command line, so the shells of
\* other sessions' scripts are meant too; what an rm or git they are waiting
\* for does goes on.
Rivals(s) == {t \in Sessions \ {s} : script[t] \in Live}

\* Nothing of this step fails the script: the Python text may miss any process,
\* or all of them.  Two scripts at this point may kill each other.
StopWrapper(s) ==
  /\ script[s] = "stop"
  /\ \E gone \in SUBSET Rivals(s) :
       /\ \E me \in {"rm"} \cup {"killed" : t \in {t \in Rivals(s) : script[t] = "stop"}} :
            script' = [t \in Sessions |-> IF t = s THEN me
                                          ELSE IF t \in gone THEN "killed" ELSE script[t]]
       /\ orphans' = orphans \cup {t \in gone : script[t] \in InTmp}
       /\ spared' = spared \cup {t \in Rivals(s) \ gone : script[t] \in PastStop}
  /\ UNCHANGED <<flag, client, link, data, disk, outages>>

\* rm -rf deletes file by file.
RemoveSome(s) ==
  /\ script[s] = "rm"
  /\ data.tmppilot # NoCheckout
  /\ data' = [data EXCEPT !.tmppilot = Damaged]
  /\ UNCHANGED <<flag, client, link, script, orphans, spared, disk, outages>>

RemoveTmp(s) == Change(s, "rm", "clone", [data EXCEPT !.tmppilot = NoCheckout])

\* Another git has the same directory for its own.
Shared(s) == orphans # {} \/ \E t \in Sessions \ {s} : script[t] \in {"cloning", "checkout"}

\* git clone refuses a directory that is not empty.
StartClone(s) ==
  IF data.tmppilot = NoCheckout
  THEN Change(s, "clone", "cloning",
              [data EXCEPT !.tmppilot = IF Shared(s) THEN Damaged ELSE Partial])
  ELSE Fail(s, "clone")

\* A clone that fails removes what it has made.
FinishClone(s) ==
  /\ UNCHANGED <<flag, client, link, orphans, spared, disk, outages>>
  /\ \/ /\ data.tmppilot \in {Partial, Damaged}
        /\ Advance(s, "cloning", "checkout")
        /\ data' = IF data.tmppilot = Damaged THEN data
                   ELSE [data EXCEPT !.tmppilot = plan[s].MigratedBranch]
     \/ /\ Advance(s, "cloning", "err")
        /\ data' = [data EXCEPT !.tmppilot = NoCheckout]

\* cd, git checkout, git reset and git submodule update, each of which may
\* fail.  They find the session's branch, or may make it of what they find.
CheckoutBranch(s) ==
  LET branch == plan[s].MigratedBranch
  IN  CASE data.tmppilot = branch -> Change(s, "checkout", "aside", data)
        [] data.tmppilot \in {Partial, Damaged} ->
             \E made \in {branch, Damaged} :
               Change(s, "checkout", "aside", [data EXCEPT !.tmppilot = made])
        [] OTHER -> Fail(s, "checkout")

\* The existing checkout is deleted.
DeleteOld(s) == Change(s, "aside", "move", [data EXCEPT !.openpilot = NoCheckout])

\* A backup made in the same second as another lands inside it.  One of a
\* damaged checkout is not counted.
MoveAside(s) ==
  Change(s, "aside", "move",
         IF data.openpilot = NoCheckout THEN data
         ELSE [data EXCEPT !.backups = @ \cup ({data.openpilot} \cap Checkouts),
                           !.openpilot = NoCheckout])

\* mv puts it inside a directory that is there again by now.
MoveIntoPlace(s) ==
  IF data.tmppilot # NoCheckout
  THEN Change(s, "move", "launch",
              [data EXCEPT !.openpilot = IF data.openpilot # NoCheckout THEN @
                                         ELSE IF data.tmppilot = Partial THEN Damaged
                                         ELSE data.tmppilot,
                           !.tmppilot = NoCheckout])
  ELSE Fail(s, "move")

WriteLauncher(s) ==
  Change(s, "launch", "sync", [data EXCEPT !.continueSh = TRUE, !.url = customURL[s]])

SyncMutant(s) == Change(s, "sync", "verify", data)   \* no sync

Sync(s) ==
  \/ /\ Advance(s, "sync", "verify")
     /\ disk' = data
     /\ UNCHANGED <<flag, client, link, orphans, spared, data, outages>>
  \/ Fail(s, "sync")

\* All that is asked of the checkout is a directory .git.
VerifyInstall(s) ==
  IF data.openpilot # NoCheckout /\ data.continueSh
  THEN Change(s, "verify", "restart", data)
  ELSE Fail(s, "verify")

\* A wrapper that cannot be started is a warning, not a failure, and whether
\* one is running is left out.
RestartWrapper(s) ==
  /\ Advance(s, "restart", "ok")
  /\ UNCHANGED <<flag, client, link, orphans, spared, data, disk, outages>>

\* Without its client a script may die of the SIGKILL sent at the time limit
\* or of a broken pipe, its clone with it (git removes it, or has no time to),
\* or what it is waiting for goes on.
OrphanDies(s) ==
  /\ s \notin link /\ script[s] \in Live
  /\ script' = [script EXCEPT ![s] = "killed"]
  /\ \/ UNCHANGED <<orphans, data>>
     \/ script[s] = "cloning" /\ data' = [data EXCEPT !.tmppilot = NoCheckout]
        /\ UNCHANGED orphans
     \/ script[s] \in InTmp /\ orphans' = orphans \cup {s} /\ UNCHANGED data
  /\ UNCHANGED <<flag, client, link, spared, disk, outages>>

\* A git that finds something else at its path than it has made there writes
\* into it, or deletes from it, file by file; so does, at any time, one whose
\* shell was killed, or an rm.
Meddle(s) ==
  /\ \/ s \in orphans
     \/ script[s] = "cloning" /\ data.tmppilot # Partial
     \/ script[s] = "checkout" /\ data.tmppilot # plan[s].MigratedBranch
  /\ \E left \in {NoCheckout, Damaged} : data' = [data EXCEPT !.tmppilot = left]
  /\ UNCHANGED <<flag, client, link, script, orphans, spared, disk, outages>>
-----------------------------------------------------------------------------
(* The environment.                                                        *)

\* The file system commits its journal in order.
WriteBack ==
  /\ disk' = data
  /\ UNCHANGED <<flag, client, link, script, orphans, spared, data, outages>>

LoseLink(s) ==
  /\ s \in link
  /\ link' = link \ {s}
  /\ UNCHANGED <<flag, client, script, device, outages>>

\* The device comes back as the disk has it.
PowerLoss ==
  /\ outages < MaxOutages
  /\ outages' = outages + 1
  /\ script' = [s \in Sessions |-> CASE script[s] = "sent" -> "off"
                                     [] script[s] \in Live -> "killed"
                                     [] OTHER -> script[s]]
  /\ orphans' = {} /\ spared' = {} /\ link' = {}
  /\ data' = disk
  /\ UNCHANGED <<flag, client, disk>>
-----------------------------------------------------------------------------
Client(s) ==
  \/ SelectURL(s) \/ Connect(s) \/ ReadPlan(s) \/ AnswerReplace(s) \/ AnswerConfirm(s)
  \/ ScriptReturns(s) \/ ExecuteFails(s)

Script(s) ==
  \/ StartScript(s) \/ LsRemote(s) \/ StopWrapper(s) \/ RemoveSome(s) \/ RemoveTmp(s)
  \/ StartClone(s) \/ FinishClone(s) \/ CheckoutBranch(s)
  \/ MoveAside(s) \/ MoveIntoPlace(s) \/ WriteLauncher(s)
  \/ Sync(s) \/ VerifyInstall(s) \/ RestartWrapper(s)

Next ==
  \/ \E s \in Sessions : \/ Client(s) \/ Script(s)
                         \/ OrphanDies(s) \/ Meddle(s) \/ LoseLink(s)
  \/ WriteBack
  \/ PowerLoss

Spec == Init /\ [][Next]_vars
-----------------------------------------------------------------------------
(* Properties.                                                             *)

\* No two scripts work on /data at the same time, although nothing in the
\* client excludes it: the script that comes second kills the first when it
\* stops the wrapper, or has tried to and missed it.
OneInstaller ==
  \A s, t \in Sessions : script[s] \in PastStop /\ script[t] \in PastStop =>
    s = t \/ s \in spared \/ t \in spared

\* A checkout that is on the disk stays on it, in /data/openpilot or in a
\* backup: through failures of any command, kills that hit or miss, retries
\* and outages.
Kept(d) == ({d.openpilot} \cup d.backups) \cap Checkouts

CheckoutsNeverLost == [][Kept(disk) \subseteq Kept(disk')]_vars

\* When a script ends well and no kill has missed a script, the branch its
\* session planned is in /data/openpilot, with its URL recorded and its launcher
\* written, all of it on the disk; only processes whose shell was killed, by
\* the script itself perhaps, may have damaged it before it was moved there.
EndsInstalled ==
  [][\A s \in Sessions : script[s] # "ok" /\ script'[s] = "ok" /\ spared = {} =>
       /\ data.openpilot \in {plan[s].MigratedBranch} \cup {Damaged : t \in orphans}
       /\ data.url = customURL[s] /\ data.continueSh
       /\ disk = [data EXCEPT !.tmppilot = disk.tmppilot]]_vars

\* An install reported as done survives a loss of power, as long as no other
\* session has been confirmed.
InstalledSurvivesOutage ==
  \A s \in Sessions :
    pc[s] = "installed" /\ (\A t \in Sessions \ {s} : ~confirmed[t]) =>
      disk.openpilot = plan[s].MigratedBranch /\ data = disk

\* A session that was shown a checkout moves nothing aside without approval,
\* and one that was shown none finds one only if another session has been
\* confirmed: the question and the test in the script are minutes apart.
Aside(s) == script[s] = "aside" /\ script'[s] = "move" /\ data.openpilot # NoCheckout

AsideOnlyApproved ==
  [][\A s \in Sessions : Aside(s) =>
       \/ approved[s]
       \/ ~plan[s].OpenpilotExists /\ \E t \in Sessions \ {s} : confirmed[t]]_vars

\* The install is a guarded action: see GuardedRecord.  A confirmation grants
\* the planned branch, the gap between the two moves, and what may become of
\* the branch when scripts that no kill has reached share /data/tmppilot.
Granted == [s \in Sessions |->
              IF confirmed[s] THEN {NoCheckout, Damaged, plan[s].MigratedBranch} ELSE {}]
Command == [s \in Sessions |-> IF script[s] \in Live THEN "live"
                               ELSE IF script[s] \in Ended THEN "ended" ELSE "idle"]

Record == INSTANCE GuardedRecord WITH
  Contents <- Checkouts \cup {NoCheckout, Damaged},
  record <- data.openpilot, durable <- disk.openpilot,
  granted <- Granted, command <- Command,
  Others <- {}, Staging <- TRUE

InstallIsGuarded == Record!Spec
=============================================================================
