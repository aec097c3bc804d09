----------------------------- MODULE FieldScripts -----------------------------
(***************************************************************************)
(* The fields of a diagnosis (diagnostics.go): diagnoseTarget runs one     *)
(* command after the other by runRemoteField, each under a time limit.     *)
(* Four of them are scripts that run several commands on the device, which *)
(* have limits of their own, caught or not, and may need the environment   *)
(* of the setup process.  The time limit drops what was printed until then *)
(* and the loss of the connection, at any moment, cuts it short.  Time is  *)
(* counted in half seconds; of an answer only the kinds of entries count.  *)
(***************************************************************************)
EXTENDS Naturals, Sequences

Part(limit, caught, setup, pause) ==
  [limit |-> limit, caught |-> caught, setup |-> setup, pause |-> pause]
Times(n, part) == [k \in 1..n |-> part]

\* Commands of a shell have no limit but that of the field.
Unlimited == 100
Commands(n, limit) == [limit |-> limit, parts |-> Times(n, Part(Unlimited, TRUE, FALSE, 0))]
Command(limit) == Commands(1, limit)

\* Twelve HEAD requests, a second apart; subprocess.run with a timeout of 4 s
\* that nothing catches.
Stability == [limit |-> 44, parts |-> Times(12, Part(8, FALSE, TRUE, 2))]

\* Six commands, then eight samples by one command in the environment of setup.
NetworkState ==
  [limit |-> 36, parts |-> Times(5, Part(6, TRUE, FALSE, 0))
                           \o <<Part(10, TRUE, FALSE, 0), Part(24, TRUE, TRUE, 0)>>]

PythonEnvironment ==
  [limit |-> 12, parts |-> Times(2, Part(4, TRUE, FALSE, 0)) \o <<Part(8, TRUE, FALSE, 0)>>]

SetupRuntime == [limit |-> 10, parts |-> Times(3, Part(3, TRUE, FALSE, 0))]
SetupBinary == Commands(5, 12)
RecentSetupLogs == Command(10)

\* Hostname, version, model, time; then as named; addresses, route, DNS.
Fields ==
  Times(4, Command(4))
  \o <<SetupRuntime, Command(4), PythonEnvironment, Stability, NetworkState,
       Command(4), SetupBinary, RecentSetupLogs, Command(6), Command(4), Command(4)>>

Entries == {"ok", "fail", "shell", "timed_out", "no_setup"}

\* What the commands of a script that end by themselves may take in all, for one
\* that hangs to be harmless.
Prompt == 3

VARIABLES
  at,       \* the field that is asked for, or one more
  env,      \* what find_setup_process and environ give: "setup", "shell", "none"
  part,     \* the number of parts that are over
  elapsed,  \* since the command was sent
  said,     \* what the script has printed: how many entries of each kind
  pc,       \* the script: "runs", "ended", "died"
  field,    \* what runRemoteField returns: "waiting", "nothing", or the output
  lost,     \* the connection is lost, for the fields that follow as well
  spent     \* history: the time of the commands that ended, up to Prompt + 1

fieldVars == <<at, env, part, elapsed, said, pc, field, lost, spent>>

Nothing == [e \in Entries |-> 0]
Script == Fields[at]
Asking == at \in DOMAIN Fields /\ field = <<"waiting">>

FieldTypeOK ==
  /\ at \in 1..(Len(Fields) + 1)
  /\ env \in {"setup", "shell", "none"}
  /\ part \in 0..12
  /\ elapsed \in Nat
  /\ said \in [Entries -> 0..part]
  /\ pc \in {"runs", "ended", "died"}
  /\ field \in {<<"waiting">>, <<"nothing">>, <<"output", said>>}
  /\ lost \in BOOLEAN
  /\ spent \in 0..(Prompt + 1)

FieldInit ==
  /\ at = 1 /\ env = "none"
  /\ part = 0 /\ elapsed = 0 /\ said = Nothing
  /\ pc = "runs" /\ field = <<"waiting">>
  /\ lost = FALSE /\ spent = 0
-----------------------------------------------------------------------------
(* The script.                                                             *)

Current == Script.parts[part + 1]
IsLast == part + 1 = Len(Script.parts)

\* Time stops to matter once the limit of the field has passed.
Later(time) == IF elapsed + time > Script.limit THEN Script.limit + 1 ELSE elapsed + time

\* What the script does once the connection is lost does not matter.
Running == pc = "runs" /\ Asking /\ ~lost

\* The script is at a part that it can run.
AtPart == Running /\ (Current.setup => env # "none")

Says(entry, time) ==
  /\ said' = [said EXCEPT ![entry] = @ + 1]
  /\ part' = part + 1
  /\ elapsed' = Later(time)
  /\ UNCHANGED <<at, env, field, lost, spent>>

\* What a part may find out.  The setup process may have been taken for the
\* login shell, whose executable then runs the Python text of the sample.
Finds == IF Current.setup /\ env = "shell" THEN {"shell"} ELSE {"ok", "fail"}

\* Durations within the limit of a command, and one that is too long for the field.
Durations == {time \in 0..(Script.limit + 1) : time <= Current.limit}

\* A command ends within its limit.
RunPart ==
  /\ AtPart
  /\ \E time \in Durations, found \in Finds :
       /\ said' = [said EXCEPT ![found] = @ + 1]
       /\ elapsed' = Later(time + (IF IsLast THEN 0 ELSE Current.pause))
       /\ spent' = IF spent + time > Prompt THEN Prompt + 1 ELSE spent + time
  /\ part' = part + 1
  /\ pc' = IF IsLast THEN "ended" ELSE "runs"
  /\ UNCHANGED <<at, env, field, lost>>

PartTimesOutMutant ==   \* nothing catches it
  /\ AtPart /\ Current.limit # Unlimited
  /\ Says("timed_out", Current.limit)
  /\ pc' = "died"

\* TimeoutExpired is printed as an error of this part, or ends the script with
\* its traceback; what was printed before comes out in both cases.
PartTimesOut ==
  /\ AtPart /\ Current.limit # Unlimited
  /\ Says("timed_out", Current.limit)
  /\ pc' = CASE ~Current.caught -> "died" [] Current.caught /\ IsLast -> "ended"
             [] OTHER -> "runs"

\* No setup process, or its environment cannot be read: SystemExit.
NoSetup ==
  /\ Running /\ Current.setup /\ env = "none"
  /\ Says("no_setup", 0)
  /\ pc' = "ended"
-----------------------------------------------------------------------------
(* runRemoteField.                                                         *)

Field(value) ==
  field' = value /\ UNCHANGED <<at, env, part, elapsed, said, pc, lost, spent>>

\* The output is trimmed; what is then empty is a field with nothing in it.
Text(arrived) == IF arrived = Nothing THEN <<"nothing">> ELSE <<"output", arrived>>

ReturnsMutant ==   \* the output of a command that failed is dropped
  /\ Asking /\ ~lost /\ pc # "runs" /\ elapsed <= Script.limit
  /\ Field(IF pc = "died" THEN <<"nothing">> ELSE <<"output", said>>)

\* The error of executeCommand is not looked at, its output is kept.
Returns ==
  /\ Asking /\ ~lost /\ pc # "runs" /\ elapsed <= Script.limit
  /\ Field(<<"output", said>>)

\* The connection is lost while a command runs, or between two of them.
LoseConnection ==
  /\ at \in DOMAIN Fields /\ ~lost
  /\ lost' = TRUE
  /\ UNCHANGED <<at, env, part, elapsed, said, pc, field, spent>>

\* executeCommand returns its error with the output that has come in by then, and
\* that is shown; Python may still have held it back.  On a connection that was
\* lost before nothing comes in.
BrokenReturns ==
  /\ Asking /\ lost
  /\ \E arrived \in {Nothing, said} : Field(Text(arrived))

\* The time limit; the script may have ended at that very moment.
GivesUp ==
  /\ Asking /\ elapsed >= Script.limit
  /\ Field(<<"nothing">>)

NeedsSetup(f) == \E k \in DOMAIN f.parts : f.parts[k].setup

\* The next line of diagnoseTarget: what the field has is in the report, and the
\* next command starts in a session and a process of its own.
NextField ==
  /\ at \in DOMAIN Fields /\ ~Asking
  /\ at' = at + 1
  /\ env' \in IF at' \in DOMAIN Fields /\ NeedsSetup(Fields[at'])
              THEN {"setup", "shell", "none"} ELSE {"none"}
  /\ part' = 0 /\ elapsed' = 0 /\ said' = Nothing /\ spent' = 0
  /\ pc' = "runs" /\ field' = <<"waiting">>
  /\ UNCHANGED lost

FieldNext ==
  \/ NextField \/ RunPart \/ PartTimesOut \/ NoSetup
  \/ Returns \/ GivesUp \/ LoseConnection \/ BrokenReturns
-----------------------------------------------------------------------------
(* Properties.                                                             *)

Shown == at \in DOMAIN Fields /\ field[1] = "output"
OwnLimits(f) == \A k \in DOMAIN f.parts : f.parts[k].limit # Unlimited
AllCaught == \A k \in DOMAIN Script.parts : Script.parts[k].caught

\* With the connection up a command that hangs costs its own answer and no other.
\* A script that catches its timeouts and is shown has an entry for every part, up
\* to the one that asks for a setup process that is not there.
WholeWhenShown ==
  Shown /\ ~lost /\ AllCaught /\ said["no_setup"] = 0 => part = Len(Script.parts)

\* And it is shown: the limits of the commands leave room for one of them to hang
\* within the limit of the field, which drops everything.
OneHangIsShown ==
  at \in DOMAIN Fields /\ field = <<"nothing">> /\ ~lost /\ OwnLimits(Script) =>
    said["timed_out"] > 1 \/ spent > Prompt

HangCostsItself == WholeWhenShown /\ OneHangIsShown

\* A sample that hangs ends the stability test, but those before it are in the
\* report: a script that died in time, on a connection that lasted, has its output
\* shown.
DeathKeepsSamples ==
  /\ pc = "died" /\ at \in DOMAIN Fields /\ ~Asking
  /\ elapsed < Script.limit /\ ~lost
  => Shown
=============================================================================
