---------------------------- MODULE RemoteCommand ----------------------------
(***************************************************************************)
(* Commands over one SSH connection (ssh_client.go), as diagnoseTarget     *)
(* uses it: connect, run N commands one after the other, each with a time  *)
(* limit, close.  Every command has a goroutine of its own that waits for  *)
(* its output and hands it over in a channel.  A command that is given up  *)
(* leaves its goroutine, and perhaps its process on the device, behind     *)
(* while the next ones are running.                                        *)
(***************************************************************************)
EXTENDS Naturals, Sequences

CONSTANTS
  N,          \* number of commands
  MaxLosses   \* 1 if the network may lose the connection, 0 if not

ASSUME RemoteAssumption == N \in Nat \ {0} /\ MaxLosses \in {0, 1}

Commands == 1..N

VARIABLES
  pc,         \* where the caller is, or that it has returned
  cur,        \* the command it is at
  link,       \* the TCP connection: "none", "up", "down"
  deadline,   \* the connection has a deadline
  process,    \* each command on the device: "none", "running", "ended"
  goroutine,  \* each command's goroutine: "none", "output", "send", "gone"
  cut,        \* commands whose output ended with the connection
  closed,     \* commands whose SSH session the client has closed
  ch,         \* each command's channel
  got,        \* what executeCommand has returned for each command
  losses

vars == <<pc, cur, link, deadline, process, goroutine, cut, closed, ch, got, losses>>
remote == <<process, goroutine, cut, closed, ch>>

\* An output of command k: all of it, what came before the connection broke,
\* or nothing.
Answer(k, how) == [of |-> k, how |-> how]
Outputs == [of : Commands, how : {"whole", "part"}]
Pending == Answer(0, "pending")
Answers == Outputs \cup [of : Commands, how : {"nothing"}]

TypeOK ==
  /\ pc \in {"dial", "handshake", "handover", "open", "wait", "unreachable", "done"}
  /\ cur \in Commands
  /\ link \in {"none", "up", "down"}
  /\ deadline \in BOOLEAN
  /\ process \in [Commands -> {"none", "running", "ended"}]
  /\ goroutine \in [Commands -> {"none", "output", "send", "gone"}]
  /\ cut \subseteq Commands
  /\ closed \subseteq Commands
  /\ ch \in [Commands -> Seq(Outputs)]
  /\ got \in [Commands -> Answers \cup {Pending}]
  /\ losses \in 0..MaxLosses

Init ==
  /\ pc = "dial"
  /\ cur = 1
  /\ link = "none"
  /\ deadline = FALSE
  /\ process = [k \in Commands |-> "none"]
  /\ goroutine = [k \in Commands |-> "none"]
  /\ cut = {}
  /\ closed = {}
  /\ ch = [k \in Commands |-> <<>>]
  /\ got = [k \in Commands |-> Pending]
  /\ losses = 0
-----------------------------------------------------------------------------
(* connectSSH.                                                             *)

\* The handshake has no deadline.
DialMutant ==
  /\ pc = "dial"
  /\ \/ pc' = "handshake" /\ link' = "up" /\ UNCHANGED deadline
     \/ pc' = "unreachable" /\ UNCHANGED <<link, deadline>>
  /\ UNCHANGED <<cur, remote, got, losses>>

Dial ==
  /\ pc = "dial"
  /\ \/ pc' = "handshake" /\ link' = "up" /\ deadline' = TRUE
     \/ pc' = "unreachable" /\ UNCHANGED <<link, deadline>>
  /\ UNCHANGED <<cur, remote, got, losses>>

\* The device accepts the key, or refuses it; it may also stay silent.
Handshake ==
  /\ pc = "handshake" /\ link = "up"
  /\ \/ pc' = "handover" /\ UNCHANGED link
     \/ pc' = "unreachable" /\ link' = "down"
  /\ UNCHANGED <<cur, deadline, remote, got, losses>>

HandshakeFails ==
  /\ pc = "handshake" /\ link = "down"
  /\ pc' = "unreachable"
  /\ UNCHANGED <<cur, link, deadline, remote, got, losses>>

\* The deadline stays.
HandOverMutant ==
  /\ pc = "handover"
  /\ pc' = "open"
  /\ UNCHANGED <<cur, link, deadline, remote, got, losses>>

\* The deadline is taken back and the connection handed over; it may have fired
\* since the handshake, and the connection is broken then.
HandOver ==
  /\ pc = "handover"
  /\ pc' = "open" /\ deadline' = FALSE
  /\ UNCHANGED <<cur, link, remote, got, losses>>

\* The transport reads from the connection all the time.
DeadlineFires ==
  /\ deadline /\ link = "up"
  /\ link' = "down"
  /\ UNCHANGED <<pc, cur, deadline, remote, got, losses>>
-----------------------------------------------------------------------------
(* executeCommand.                                                         *)

\* After the last command the deferred client.Close() runs.
Proceed ==
  IF cur < N THEN pc' = "open" /\ cur' = cur + 1 /\ UNCHANGED link
             ELSE pc' = "done" /\ link' = "down" /\ UNCHANGED cur

\* executeCommand returns what; an error leaves the caller going.
Returns(what) == got' = [got EXCEPT ![cur] = what] /\ Proceed

\* The session is open: start the goroutine, which sends the command.
OpenSession ==
  /\ pc = "open" /\ link = "up"
  /\ pc' = "wait"
  /\ goroutine' = [goroutine EXCEPT ![cur] = "output"]
  /\ process' = [process EXCEPT ![cur] = "running"]
  /\ UNCHANGED <<cur, link, deadline, cut, closed, ch, got, losses>>

\* NewSession fails: the device refuses another session, or is gone.
OpenFails ==
  /\ pc = "open"
  /\ Returns(Answer(cur, "nothing"))
  /\ UNCHANGED <<deadline, remote, losses>>

ChannelMutant(k) == 1   \* one channel for all commands
Channel(k) == k

RoomMutant(k) == pc = "wait" /\ cur = k   \* an unbuffered channel
Room(k) == Len(ch[Channel(k)]) < 1

\* CombinedOutput returns: the process has ended, or the connection or the
\* session has.
Collect(k) ==
  /\ goroutine[k] = "output"
  /\ \/ process[k] = "ended" /\ link = "up" /\ UNCHANGED cut
     \/ (link = "down" \/ k \in closed) /\ cut' = cut \cup {k}
  /\ goroutine' = [goroutine EXCEPT ![k] = "send"]
  /\ UNCHANGED <<pc, cur, link, deadline, process, closed, ch, got, losses>>

Send(k) ==
  /\ goroutine[k] = "send" /\ Room(k)
  /\ ch' = [ch EXCEPT ![Channel(k)] =
              Append(@, Answer(k, IF k \in cut THEN "part" ELSE "whole"))]
  /\ goroutine' = [goroutine EXCEPT ![k] = "gone"]
  /\ UNCHANGED <<pc, cur, link, deadline, process, cut, closed, got, losses>>

TakeResult ==
  /\ pc = "wait" /\ ch[Channel(cur)] # <<>>
  /\ ch' = [ch EXCEPT ![Channel(cur)] = Tail(@)]
  /\ closed' = closed \cup {cur}
  /\ Returns(Head(ch[Channel(cur)]))
  /\ UNCHANGED <<deadline, process, goroutine, cut, losses>>

\* The time limit passes, perhaps with the result ready: what came so far is
\* dropped.  The device may obey the signal or not.
TimeOut ==
  /\ pc = "wait"
  /\ closed' = closed \cup {cur}
  /\ process' \in {process, [process EXCEPT ![cur] = "ended"]}
  /\ Returns(Answer(cur, "nothing"))
  /\ UNCHANGED <<deadline, goroutine, cut, ch, losses>>
-----------------------------------------------------------------------------
(* The device and the network.                                             *)

ProcessEnds(k) ==
  /\ process[k] = "running"
  /\ process' = [process EXCEPT ![k] = "ended"]
  /\ UNCHANGED <<pc, cur, link, deadline, goroutine, cut, closed, ch, got, losses>>

LoseLink ==
  /\ losses < MaxLosses /\ link = "up"
  /\ losses' = losses + 1
  /\ link' = "down"
  /\ UNCHANGED <<pc, cur, deadline, remote, got>>
-----------------------------------------------------------------------------
Open == OpenSession \/ OpenFails
Wait == TakeResult \/ TimeOut

Next ==
  \/ Dial \/ Handshake \/ HandshakeFails \/ HandOver \/ DeadlineFires
  \/ Open \/ Wait
  \/ \E k \in Commands : Collect(k) \/ Send(k) \/ ProcessEnds(k)
  \/ LoseLink

Spec == Init /\ [][Next]_vars

\* Dialling and waiting have time limits, a deadline fires, goroutines run.  A
\* broken or closed session wakes its goroutine only once the connection is
\* down for certain.  Nothing is assumed of the device: the handshake may hang,
\* and so may every command, and NewSession as long as the connection is up.
FairSpec ==
  /\ Spec
  /\ WF_vars(Dial) /\ WF_vars(HandshakeFails) /\ WF_vars(HandOver)
  /\ WF_vars(DeadlineFires) /\ WF_vars(link = "down" /\ OpenFails) /\ WF_vars(Wait)
  /\ \A k \in Commands : WF_vars(link = "down" /\ Collect(k)) /\ WF_vars(Send(k))
-----------------------------------------------------------------------------
(* Properties.                                                             *)

\* The late output of a command that was given up is never taken for the
\* answer to a later one.
AnswersAreOwn == \A k \in Commands : got[k] = Pending \/ got[k].of = k

\* The deadline of the handshake may break the connection after the handshake and
\* before it is taken back, and a broken connection is handed over.  It breaks no
\* connection later: one that is up while commands run goes down only when the
\* network loses it or the caller closes it.
OnlyTheNetworkBreaks ==
  [][link = "up" /\ link' = "down" /\ pc \in {"open", "wait"}
     => losses' # losses \/ pc' = "done"]_vars

\* Whatever the device does in the handshake and with the commands, the caller
\* returns, or it waits for NewSession, which has no time limit (ssh_client.go:44),
\* on a connection that stays up.
Returned == pc \in {"unreachable", "done"}
CallerReturns == <>Returned \/ <>[](pc = "open" /\ link = "up")

\* Once the caller has returned, every goroutine it has left behind comes to its end.
GoroutinesEnd == <>Returned => <>[](\A k \in Commands : goroutine[k] \in {"none", "gone"})
=============================================================================
