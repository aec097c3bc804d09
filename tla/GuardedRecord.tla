--------------------------- MODULE GuardedRecord ---------------------------
(***************************************************************************)
(* What every guarded action of the debugger promises about the record it  *)
(* writes on the device (the dongle id, the modem state file, the          *)
(* checkout): the record changes only while the remote command of a        *)
(* session is running, a command runs only after that session's operator   *)
(* has confirmed it, at most once per confirmation, and it leaves only     *)
(* contents the operator agreed to (one of the operators, if the commands  *)
(* make the new record in a place they share).  Apart from that the record *)
(* only goes back to its durable copy, when the device restarts, or is     *)
(* written by the program it belongs to.                                   *)
(***************************************************************************)
CONSTANTS
  Sessions,   \* runs of the debugger against the device
  Contents,   \* what the record may hold
  Others,     \* what other programs on the device write to it
  Staging     \* the commands make the new record in a place they share

VARIABLES
  record,     \* the record as programs on the device see it
  durable,    \* the copy that survives a loss of power
  granted,    \* per session, the contents its operator has agreed to
  command     \* per session, its remote command: "idle", "live", "ended"

vars == <<record, durable, granted, command>>

Init ==
  /\ record \in Contents
  /\ durable \in Contents
  /\ granted = [s \in Sessions |-> {}]
  /\ command = [s \in Sessions |-> "idle"]

\* The operator confirms: from now on s may leave the contents in g.
Grant(s) ==
  /\ granted[s] = {}
  /\ \E g \in SUBSET Contents : granted' = [granted EXCEPT ![s] = g]
  /\ UNCHANGED <<record, durable, command>>

Start(s) ==
  /\ granted[s] # {}
  /\ command[s] = "idle"
  /\ command' = [command EXCEPT ![s] = "live"]
  /\ UNCHANGED <<record, durable, granted>>

\* What s may leave: with a shared place, also what another one has made there.
Leaves(s) == IF Staging THEN UNION {granted[t] : t \in Sessions} ELSE granted[s]

\* A step of the running command; it may be its last one, and it may end
\* the commands of other sessions.
Work(s) ==
  /\ command[s] = "live"
  /\ \E killed \in SUBSET {t \in Sessions : command[t] = "live"} :
       command' = [t \in Sessions |-> IF t \in killed THEN "ended" ELSE command[t]]
  /\ record' \in {record} \cup Leaves(s)
  /\ durable' \in {durable, record'}
  /\ UNCHANGED granted

\* The kernel writes the record back on its own.
Flush ==
  /\ durable' = record
  /\ UNCHANGED <<record, granted, command>>

\* A reboot (the record is flushed) or a loss of power (it is lost).
Restart ==
  /\ record' \in {record, durable}
  /\ durable' = record'
  /\ command' = [s \in Sessions |->
                   IF command[s] = "live" THEN "ended" ELSE command[s]]
  /\ UNCHANGED granted

\* The program the record belongs to writes it.
OtherWrite ==
  /\ record' \in Others
  /\ UNCHANGED <<durable, granted, command>>

Next ==
  \/ \E s \in Sessions : Grant(s) \/ Start(s) \/ Work(s)
  \/ Flush
  \/ Restart
  \/ OtherWrite

Spec == Init /\ [][Next]_vars
=============================================================================
