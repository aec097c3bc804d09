------------------------------ MODULE HttpChecks ------------------------------
(***************************************************************************)
(* The internet checks of a diagnosis (diagnostics.go): a Python script on *)
(* the device tries the URL by itself and then with the environment of the *)
(* setup process; diagnoseTarget waits 6 seconds for all of its output,    *)
(* parses it and tells the operator what the setup screen is likely to     *)
(* show.  A check is a line with five fields here, its detail left out;    *)
(* time is counted in steps of 2 seconds.                                  *)
(***************************************************************************)
EXTENDS Naturals, Sequences

CONSTANTS
  Causes,       \* what classify_error calls the causes of a failure
  Candidates,   \* Python interpreters tried in the setup environment
  Limit,        \* the time limit of executeCommand
  SubLimit,     \* the time limit of one interpreter
  MaxTry        \* bound on the time one interpreter, or one request, takes

OwnCauses == {"NO_SETUP_PROCESS", "ENV_READ_ERROR", "SETUP_ENV_EXEC_ERROR", "UNKNOWN"}

ASSUME HttpAssumption ==
  /\ "OK" \notin Causes /\ OwnCauses \cap Causes = {}
  /\ Candidates \in Nat \ {0}
  /\ Limit \in Nat /\ SubLimit \in Nat /\ MaxTry \in Nat

Outcomes == {"OK"} \cup Causes
Heads == [context : {"plain", "setup-env"}, outcome : Outcomes]

VARIABLES
  next,       \* the next step of the script
  py,         \* the interpreter it is at
  clock,      \* time since the command was sent
  out,        \* what it has printed; Python keeps that until the script ends
  pid,        \* the process it takes for setup: "setup", "shell" or "none"
  setupRuns,  \* the setup process is running
  tried,      \* the HEAD requests made so far, and how they ended
  reported,   \* outcomes of those that a setup-env interpreter reported
  client,     \* "waiting", then "answered" in full and in time, "late" or "broken"
  checks      \* diag.HTTPChecks, each at the number of its line

script == <<next, py, clock, out, pid, tried, reported>>
httpVars == <<script, setupRuns, client, checks>>

Check(context, method, ok, category) ==
  [Context |-> context, Method |-> method, OK |-> ok, Category |-> category]

HttpTypeOK ==
  /\ next \in {"HEAD", "GET", "find", "environ", "candidate", "end"}
  /\ py \in 1..Candidates
  /\ clock \in 0..(Limit + 1)
  /\ out \in Seq(Seq({"HTTPCHECK", "plain", "setup-env", "HEAD", "GET", "FAIL"}
                     \cup Outcomes \cup OwnCauses))
  /\ pid \in {"setup", "shell", "none"}
  /\ setupRuns \in BOOLEAN
  /\ tried \subseteq Heads
  /\ reported \in Seq(Outcomes)
  /\ client \in {"waiting", "answered", "late", "broken"}
  /\ DOMAIN checks \subseteq 1..(Len(out) + 1)
  /\ \A i \in DOMAIN checks :
       checks[i] \in [Context : {"plain", "setup-env"}, Method : {"HEAD", "GET"},
                     OK : BOOLEAN, Category : Outcomes \cup OwnCauses]

HttpInit ==
  /\ next = "HEAD" /\ py = 1 /\ clock = 0 /\ out = <<>>
  /\ pid = "none" /\ setupRuns \in BOOLEAN
  /\ tried = {} /\ reported = <<>>
  /\ client = "waiting" /\ checks = <<>>
-----------------------------------------------------------------------------
(* remoteHTTPScript.                                                       *)

\* Time stops to matter once the limit has passed.
Spend(d) == clock' = IF clock + d > Limit THEN Limit + 1 ELSE clock + d

\* emit_check.
Line(context, method, outcome) ==
  <<"HTTPCHECK", context, method, IF outcome = "OK" THEN "OK" ELSE "FAIL", outcome>>

\* run_plain: one request, which may take long to fail or to succeed.
RunPlain ==
  /\ client = "waiting" /\ next \in {"HEAD", "GET"}
  /\ \E outcome \in Outcomes, d \in 0..MaxTry :
       /\ out' = Append(out, Line("plain", next, outcome))
       /\ tried' = IF next = "HEAD"
                   THEN tried \cup {[context |-> "plain", outcome |-> outcome]} ELSE tried
       /\ Spend(d)
  /\ next' = IF next = "HEAD" THEN "GET" ELSE "find"
  /\ UNCHANGED <<py, pid, setupRuns, reported, client, checks>>

\* The script ends with a setup-env HEAD check that failed for a reason of its own.
EndWith(cause) == out' = Append(out, Line("setup-env", "HEAD", cause)) /\ next' = "end"

\* Every process with one of the three names on its command line matches.  The
\* login shell that sshd has started for this script has all of its text there.
Matching == {"shell"} \cup IF setupRuns THEN {"setup"} ELSE {}

\* A shell that replaces itself with the Python it starts does not match, and
\* the order of /proc decides between two matches.
FindSetupProcess ==
  /\ client = "waiting" /\ next = "find"
  /\ \/ /\ pid' \in Matching /\ next' = "environ" /\ UNCHANGED out
     \/ /\ ~setupRuns /\ UNCHANGED pid /\ EndWith("NO_SETUP_PROCESS")
  /\ UNCHANGED <<py, clock, setupRuns, tried, reported, client, checks>>

\* The process may have ended, or belong to another user.
ReadEnviron ==
  /\ client = "waiting" /\ next = "environ"
  /\ \/ /\ pid = "shell" \/ setupRuns
        /\ next' = "candidate" /\ UNCHANGED out
     \/ EndWith("ENV_READ_ERROR")
  /\ UNCHANGED <<py, clock, pid, setupRuns, tried, reported, client, checks>>

\* What one interpreter prints: nothing when it is no Python or cannot start,
\* a HEAD result, or both results.
Prints == {<<>>} \cup {<<h>> : h \in Outcomes} \cup (Outcomes \X Outcomes)

ResultLines(results) ==
  [i \in DOMAIN results |->
     Line("setup-env", IF i = 1 THEN "HEAD" ELSE "GET", results[i])]

\* An interpreter that ended well and reported is the last one.
Accepts(results, exited0) == exited0 /\ results # <<>>

\* One interpreter.  When it takes too long its output is lost; when it fails
\* later than its first line, the next one repeats the requests.
RunCandidate ==
  /\ client = "waiting" /\ next = "candidate"
  /\ \E results \in Prints, exited0 \in BOOLEAN, d \in 0..MaxTry :
       LET shown == IF d >= SubLimit THEN <<>> ELSE results
           lines == out \o ResultLines(shown)
       IN
       /\ exited0 => Len(results) # 1
       /\ Spend(d)
       /\ tried' = IF results = <<>> THEN tried
                   ELSE tried \cup {[context |-> "setup-env", outcome |-> results[1]]}
       /\ reported' = IF shown = <<>> THEN reported ELSE Append(reported, shown[1])
       /\ IF Accepts(shown, exited0) THEN out' = lines /\ next' = "end" /\ UNCHANGED py
          ELSE IF py < Candidates THEN out' = lines /\ py' = py + 1 /\ UNCHANGED next
          ELSE /\ out' = Append(lines, Line("setup-env", "HEAD", "SETUP_ENV_EXEC_ERROR"))
               /\ next' = "end" /\ UNCHANGED py
  /\ UNCHANGED <<pid, setupRuns, client, checks>>

SetupEnds ==
  /\ setupRuns /\ client = "waiting"
  /\ setupRuns' = FALSE
  /\ UNCHANGED <<script, client, checks>>

SetupStarts ==
  /\ ~setupRuns /\ client = "waiting" /\ pid # "setup"
  /\ setupRuns' = TRUE
  /\ UNCHANGED <<script, client, checks>>
-----------------------------------------------------------------------------
(* diagnoseTarget from line 205 on.                                        *)

\* A line of the present script; a line without a context comes from an older one.
CheckOf(line) ==
  IF Len(line) = 5 THEN Check(line[2], line[3], line[4] = "OK", line[5])
                   ELSE Check("plain", line[2], line[3] = "OK", line[4])

ParseHTTPChecks(lines) ==
  [i \in {i \in DOMAIN lines : Len(lines[i]) >= 4 /\ lines[i][1] = "HTTPCHECK"}
     |-> CheckOf(lines[i])]

NoCheck == Check("plain", "HEAD", FALSE, "UNKNOWN")

\* What executeCommand returned, with or without an error, is parsed; when
\* there is nothing to parse a failed check is made up.
ConcludeMutant(httpOut, how) ==   \* a check that passed is made up
  /\ checks' = LET parsed == ParseHTTPChecks(httpOut)
               IN IF DOMAIN parsed = {} THEN <<Check("plain", "HEAD", TRUE, "OK")>> ELSE parsed
  /\ client' = how
  /\ UNCHANGED <<script, setupRuns>>

Conclude(httpOut, how) ==
  /\ checks' = LET parsed == ParseHTTPChecks(httpOut)
               IN IF DOMAIN parsed = {} THEN <<NoCheck>> ELSE parsed
  /\ client' = how
  /\ UNCHANGED <<script, setupRuns>>

AnswerInTime ==
  /\ client = "waiting" /\ next = "end" /\ clock <= Limit
  /\ Conclude(out, "answered")

GiveUp ==
  /\ client = "waiting" /\ clock >= Limit
  /\ Conclude(<<>>, "late")

\* Nothing comes back, and there is an error.
NoAnswer == client = "waiting" /\ Conclude(<<>>, "broken")

\* The connection breaks or the script dies: its output is lost, unless it was
\* at its end.  A device without Python prints an error of its shell.
Broken ==
  \/ NoAnswer
  \/ client = "waiting" /\ next = "end" /\ Conclude(out, "broken")
  \/ client = "waiting" /\ next = "HEAD" /\ Conclude(<< <<"python3: not found">> >>, "broken")
-----------------------------------------------------------------------------
HttpNext ==
  \/ RunPlain \/ FindSetupProcess \/ ReadEnviron \/ RunCandidate
  \/ SetupEnds \/ SetupStarts
  \/ AnswerInTime \/ GiveUp \/ Broken

-----------------------------------------------------------------------------
(* classifyDiagnostics.                                                    *)

\* The checks in that context with that method, of which the first one is meant.
FindHTTPCheck(context, method) ==
  {i \in DOMAIN checks : checks[i].Context = context /\ checks[i].Method = method}

DecidingMutant ==   \* the plain one goes first
  LET plain == FindHTTPCheck("plain", "HEAD")
  IN  IF plain # {} THEN plain ELSE FindHTTPCheck("setup-env", "HEAD")

\* The HEAD check that decides is the first in the setup environment, otherwise
\* the first plain one.
Deciding ==
  LET setup == FindHTTPCheck("setup-env", "HEAD")
  IN  IF setup # {} THEN setup ELSE FindHTTPCheck("plain", "HEAD")

DecidingHead == checks[CHOOSE i \in Deciding : \A j \in Deciding : i <= j]

Status == IF Deciding = {} THEN "UNKNOWN" ELSE IF DecidingHead.OK THEN "PASS" ELSE "FAIL"
-----------------------------------------------------------------------------
(* Properties.                                                             *)

Done == client # "waiting"

\* The verdict, and the cause that its hint names, are those of a HEAD request
\* that was made in the context it speaks of, whatever was lost, cut short,
\* tried twice or printed in between.
VerdictIsWitnessed ==
  Done /\ Deciding # {} /\ DecidingHead.Category \in Outcomes =>
    [context |-> DecidingHead.Context, outcome |-> DecidingHead.Category] \in tried

\* When the script answers in time, the verdict is that of the first HEAD
\* request that the setup environment reported; a request that succeeded
\* elsewhere, or later, never covers for it.
SetupEnvDecides ==
  client = "answered" =>
    Status = IF reported # <<>> /\ reported[1] = "OK" THEN "PASS" ELSE "FAIL"

\* "passed from the setup process environment" (diagnostics.go:756-758): the
\* environment is that of the setup process.
SetupEnvIsSetups ==
  Done /\ Status = "PASS" /\ DecidingHead.Context = "setup-env" => pid = "setup"
=============================================================================
