--------------------------- MODULE ModemWorkaround ---------------------------
(***************************************************************************)
(* The guarded workaround for the modem state (workaround.go): it writes   *)
(* an empty JSON object to /dev/shm/modem, a file of the modem service, on *)
(* a file system that lives in memory.                                     *)
(*                                                                         *)
(* A session is one run of the debugger that has chosen this action for    *)
(* this device; as in DongleRepair its script outlives its client.  Here   *)
(* the record has an owner as well: the modem service writes its state to  *)
(* the file whenever it has one, between any two steps of a session.       *)
(***************************************************************************)
EXTENDS Naturals

CONSTANTS
  Sessions,     \* runs of the debugger
  NoFile,       \* there is no /dev/shm/modem
  Blank,        \* the file is empty: tee has opened it
  Garbage,      \* contents that are not a JSON object
  Empty,        \* {}
  State,        \* the JSON object that the modem service writes
  MaxRestarts   \* bound on restarts of the device

Objects == {Empty, State}
Contents == Objects \cup {NoFile, Blank, Garbage}

ASSUME WorkaroundAssumption ==
  /\ NoFile \notin {Blank, Garbage, Empty, State}
  /\ Blank \notin {Garbage, Empty, State}
  /\ Garbage \notin {Empty, State}
  /\ MaxRestarts \in Nat

VARIABLES
  pc,           \* where runModemStateWorkaround is, or how it returned
  preflight,    \* the file existed when the session looked
  approved,     \* replacing it has been approved
  confirmed,    \* the confirmation phrase has been typed
  link,         \* sessions whose SSH connection works
  script,       \* each session's script: its request ("off", "sent"), its
                \* next command, or how it ended
  detached,     \* sessions whose tee has a file open that was replaced since
  file,         \* /dev/shm/modem
  restarts

client == <<pc, preflight, approved, confirmed>>
device == <<detached, file>>
vars == <<client, link, script, device, restarts>>

Returned == {"error", "aborted", "failed", "missing", "applied"}
PC == {"connect", "preflight", "replace", "confirm", "exec", "verify"} \cup Returned
Live == {"open", "write", "check"}
Ended == {"ok", "err", "killed"}

TypeOK ==
  /\ pc \in [Sessions -> PC]
  /\ preflight \in [Sessions -> BOOLEAN]
  /\ approved \in [Sessions -> BOOLEAN]
  /\ confirmed \in [Sessions -> BOOLEAN]
  /\ link \subseteq Sessions
  /\ script \in [Sessions -> {"off", "sent"} \cup Live \cup Ended]
  /\ detached \subseteq Sessions
  /\ file \in Contents
  /\ restarts \in 0..MaxRestarts

Init ==
  /\ pc = [s \in Sessions |-> "connect"]
  /\ preflight = [s \in Sessions |-> FALSE]
  /\ approved = [s \in Sessions |-> FALSE]
  /\ confirmed = [s \in Sessions |-> FALSE]
  /\ link = {}
  /\ script = [s \in Sessions |-> "off"]
  /\ detached = {}
  /\ file \in Contents
  /\ restarts = 0
-----------------------------------------------------------------------------
(* The client: runModemStateWorkaround.                                    *)

Goto(s, from, to) == pc[s] = from /\ pc' = [pc EXCEPT ![s] = to]

\* A return runs the deferred client.Close().
Return(s, from, how) == Goto(s, from, how) /\ link' = link \ {s}

Connect(s) ==
  /\ \/ Goto(s, "connect", "preflight") /\ link' = link \cup {s}
     \/ Return(s, "connect", "error")
  /\ UNCHANGED <<preflight, approved, confirmed, script, device, restarts>>

\* An existing file is replaced without a question.
ReadPreflightMutant(s) ==
  /\ s \in link /\ UNCHANGED link
  /\ preflight' = [preflight EXCEPT ![s] = file # NoFile]
  /\ Goto(s, "preflight", "confirm")
  /\ UNCHANGED <<approved, confirmed, script, device, restarts>>

\* The answer is a line EXISTS or MISSING; the rest is for the operator.
ReadPreflight(s) ==
  /\ \/ /\ s \in link /\ UNCHANGED link
        /\ preflight' = [preflight EXCEPT ![s] = file # NoFile]
        /\ Goto(s, "preflight", IF preflight'[s] THEN "replace" ELSE "confirm")
     \/ Return(s, "preflight", "error") /\ UNCHANGED preflight
  /\ UNCHANGED <<approved, confirmed, script, device, restarts>>

AnswerReplace(s) ==
  /\ \/ /\ Goto(s, "replace", "confirm")
        /\ approved' = [approved EXCEPT ![s] = TRUE]
        /\ UNCHANGED link
     \/ Return(s, "replace", "aborted") /\ UNCHANGED approved
  /\ UNCHANGED <<preflight, confirmed, script, device, restarts>>

\* The script is sent whatever was typed.
AnswerConfirmMutant(s) ==
  /\ Goto(s, "confirm", "exec")
  /\ confirmed' \in {confirmed, [confirmed EXCEPT ![s] = TRUE]}
  /\ script' = [script EXCEPT ![s] = "sent"]
  /\ UNCHANGED <<preflight, approved, link, device, restarts>>

AnswerConfirm(s) ==
  /\ \/ /\ Goto(s, "confirm", "exec")
        /\ confirmed' = [confirmed EXCEPT ![s] = TRUE]
        /\ script' = [script EXCEPT ![s] = IF s \in link THEN "sent" ELSE @]
        /\ UNCHANGED link
     \/ Return(s, "confirm", "aborted") /\ UNCHANGED <<confirmed, script>>
  /\ UNCHANGED <<preflight, approved, device, restarts>>

\* The exit status of the script is not looked at.
ScriptReturnsMutant(s) ==
  /\ s \in link /\ script[s] \in Ended
  /\ Goto(s, "exec", "verify")
  /\ UNCHANGED <<preflight, approved, confirmed, link, script, device, restarts>>

ScriptReturns(s) ==
  /\ s \in link /\ script[s] \in Ended
  /\ IF script[s] = "ok" THEN Goto(s, "exec", "verify") /\ UNCHANGED link
                         ELSE Return(s, "exec", "failed")
  /\ UNCHANGED <<preflight, approved, confirmed, script, device, restarts>>

\* executeCommand gives up after 8 seconds or with the connection, even when
\* the result is ready as well.
ExecuteFails(s) ==
  /\ Return(s, "exec", "failed")
  /\ UNCHANGED <<preflight, approved, confirmed, script, device, restarts>>

\* The second look asks only whether the file is there.
ReadVerify(s) ==
  /\ \/ s \in link /\ Return(s, "verify", IF file # NoFile THEN "applied" ELSE "missing")
     \/ Return(s, "verify", "error")
  /\ UNCHANGED <<preflight, approved, confirmed, script, device, restarts>>
-----------------------------------------------------------------------------
(* The device: modemStateWorkaroundCommand.                                *)

Advance(s, from, to) == script[s] = from /\ script' = [script EXCEPT ![s] = to]

\* The request reaches the device, perhaps after the client has given up.
StartScript(s) ==
  /\ Advance(s, "sent", "open")
  /\ UNCHANGED <<client, link, device, restarts>>

\* tee truncates the file when it opens it.
OpenFile(s) ==
  /\ \/ Advance(s, "open", "write") /\ file' = Blank
     \/ Advance(s, "open", "err") /\ UNCHANGED file
  /\ UNCHANGED <<client, link, detached, restarts>>

\* What tee writes is lost when its file is no longer /dev/shm/modem.
Tee(s) == IF s \in detached THEN file ELSE Empty

\* A tee that fails is an exit; nothing that follows it in the script (the
\* change of the mode, the listing) can fail the script.
WriteFile(s) ==
  /\ \/ Advance(s, "write", "check") /\ file' = Tee(s)
     \/ Advance(s, "write", "err") /\ UNCHANGED file
  /\ detached' = detached \ {s}
  /\ UNCHANGED <<client, link, restarts>>

\* The file parses as a JSON object; the parser may fail to run.
CheckObject(s) ==
  /\ \/ Advance(s, "check", "ok") /\ file \in Objects
     \/ Advance(s, "check", "err")
  /\ UNCHANGED <<client, link, device, restarts>>

\* Without its client the script may be killed; the tee it waits for runs as
\* root and may still complete.
OrphanDies(s) ==
  /\ s \notin link /\ script[s] \in Live
  /\ script' = [script EXCEPT ![s] = "killed"]
  /\ file' \in IF script[s] = "write" THEN {file, Tee(s)} ELSE {file}
  /\ detached' = detached \ {s}
  /\ UNCHANGED <<client, link, restarts>>
-----------------------------------------------------------------------------
(* The environment.                                                        *)

\* The modem service writes its state to a new file and renames it.
ServiceWrites ==
  /\ file' = State
  /\ detached' = {s \in Sessions : script[s] = "write"}
  /\ UNCHANGED <<client, link, script, restarts>>

LoseLink(s) ==
  /\ s \in link
  /\ link' = link \ {s}
  /\ UNCHANGED <<client, script, device, restarts>>

\* A restart empties the file system and stops every script.
Restart ==
  /\ restarts < MaxRestarts
  /\ restarts' = restarts + 1
  /\ script' = [s \in Sessions |-> CASE script[s] = "sent" -> "off"
                                     [] script[s] \in Live -> "killed"
                                     [] OTHER -> script[s]]
  /\ link' = {}
  /\ detached' = {}
  /\ file' = NoFile
  /\ UNCHANGED client
-----------------------------------------------------------------------------
Client(s) ==
  \/ Connect(s) \/ ReadPreflight(s) \/ AnswerReplace(s) \/ AnswerConfirm(s)
  \/ ScriptReturns(s) \/ ExecuteFails(s) \/ ReadVerify(s)

Script(s) == StartScript(s) \/ OpenFile(s) \/ WriteFile(s) \/ CheckObject(s)

Next ==
  \/ \E s \in Sessions : Client(s) \/ Script(s) \/ OrphanDies(s) \/ LoseLink(s)
  \/ ServiceWrites
  \/ Restart

Spec == Init /\ [][Next]_vars
-----------------------------------------------------------------------------
(* Properties.                                                             *)

Replaces(s) == script[s] = "open" /\ script'[s] = "write"

\* Whatever the modem service and other sessions write in between, a session
\* that was shown a file replaces nothing without the operator's consent, and
\* no session replaces anything before its confirmation.
ShownReplacedOnlyApproved ==
  [][\A s \in Sessions : Replaces(s) => confirmed[s] /\ (preflight[s] => approved[s])]_vars

\* The last look asks only whether there is a file.  It is enough: when a
\* session reports the workaround as applied, the file holds a JSON object,
\* its own or the service's, unless another session is at work.  Across a
\* failed tee, a lost connection and a restart this rests on the exit status.
AppliedIsObject ==
  [][\A s \in Sessions :
       /\ pc[s] = "verify" /\ pc'[s] = "applied"
       /\ \A t \in Sessions \ {s} : ~confirmed[t]
       => file \in Objects]_vars

\* The workaround is a guarded action on a record of which no copy survives a
\* restart and which the modem service writes as well: see GuardedRecord.
Granted == [s \in Sessions |-> IF confirmed[s] THEN {Blank, Empty} ELSE {}]
Command == [s \in Sessions |-> IF script[s] \in Live THEN "live"
                               ELSE IF script[s] \in Ended THEN "ended" ELSE "idle"]

Record == INSTANCE GuardedRecord WITH
  record <- file, durable <- NoFile, granted <- Granted, command <- Command,
  Others <- {State}, Staging <- FALSE

WorkaroundIsGuarded == Record!Spec
=============================================================================
