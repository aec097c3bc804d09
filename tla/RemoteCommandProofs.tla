------------------------- MODULE RemoteCommandProofs -------------------------
(***************************************************************************)
(* Proofs about RemoteCommand, for any number of commands: types, whose    *)
(* output becomes whose answer, what breaks a connection, and that no      *)
(* goroutine waits for room in its channel.                                *)
(***************************************************************************)
EXTENDS RemoteCommand, SequenceTheorems, TLAPS

(* Every channel holds outputs of its own command only.                    *)
Own == \A k \in Commands : \A i \in 1..Len(ch[k]) : ch[k][i].of = k

(* Until its goroutine has sent, a channel is empty.                       *)
Unsent == \A k \in Commands : goroutine[k] # "gone" => ch[k] = <<>>

(* Commands that the caller has not come to have no goroutine.             *)
Ahead == \A k \in Commands :
  k > cur \/ (k = cur /\ pc \in {"dial", "handshake", "handover", "open"}) => goroutine[k] = "none"

(* Once the handshake is over the connection has no deadline.              *)
NoDeadline == pc \in {"open", "wait"} => ~deadline

(* There is a connection from the handshake on.                            *)
Handed == pc \in {"handshake", "handover", "open", "wait"} => link # "none"

IInv == TypeOK /\ Own /\ Unsent /\ Ahead /\ NoDeadline /\ AnswersAreOwn /\ Handed
-----------------------------------------------------------------------------
LEMMA Initially == Init => IInv
<1> SUFFICES ASSUME Init PROVE IInv
  OBVIOUS
<1>1. TypeOK
  <2>1. ch \in [Commands -> Seq(Outputs)]
    <3>1. <<>> \in Seq(Outputs)
      OBVIOUS
    <3>. QED BY <3>1 DEF Init
  <2>2. 1 \in Commands /\ 0 \in 0..MaxLosses
    BY RemoteAssumption DEF Commands
  <2>. QED BY <2>1, <2>2 DEF Init, TypeOK
<1>2. Own /\ Unsent /\ Ahead
  BY DEF Init, Own, Unsent, Ahead, Commands
<1>3. NoDeadline /\ AnswersAreOwn /\ Handed
  BY DEF Init, NoDeadline, AnswersAreOwn, Handed
<1>. QED BY <1>1, <1>2, <1>3 DEF IInv

\* executeCommand returns an answer of its own command and the caller goes on.
LEMMA ReturnPreserves ==
  ASSUME IInv, NEW what \in Answers, what.of = cur, Returns(what),
         pc \in {"open", "wait"}, UNCHANGED <<goroutine, deadline, losses>>
  PROVE  /\ pc' \in {"open", "done"} /\ cur' \in Commands /\ link' \in {"none", "up", "down"}
         /\ got' \in [Commands -> Answers \cup {Pending}]
         /\ Ahead' /\ NoDeadline' /\ AnswersAreOwn' /\ Handed'
<1> USE RemoteAssumption DEF IInv, TypeOK, Commands
<1>1. pc' \in {"open", "done"} /\ cur' \in Commands /\ cur' >= cur /\ link' \in {"none", "up", "down"}
  BY DEF Returns, Proceed, Handed
<1>2. got' \in [Commands -> Answers \cup {Pending}] /\ AnswersAreOwn'
  BY DEF Returns, AnswersAreOwn
<1>3. Ahead'
  BY DEF Returns, Proceed, Ahead
<1>4. NoDeadline'
  BY <1>1 DEF NoDeadline
<1>5. Handed'
  BY DEF Returns, Proceed, Handed
<1>. QED BY <1>1, <1>2, <1>3, <1>4, <1>5

\* connectSSH: there is no command yet.
LEMMA ConnectPreserves ==
  ASSUME IInv, Dial \/ Handshake \/ HandshakeFails \/ HandOver \/ DeadlineFires \/ LoseLink
  PROVE  IInv'
<1> USE RemoteAssumption DEF IInv, TypeOK, remote
<1>1. UNCHANGED <<cur, process, goroutine, cut, closed, ch, got>>
  BY DEF Dial, Handshake, HandshakeFails, HandOver, DeadlineFires, LoseLink
<1>2. TypeOK'
  <2>1. pc' \in {"dial", "handshake", "handover", "open", "wait", "unreachable", "done"}
    BY DEF Dial, Handshake, HandshakeFails, HandOver, DeadlineFires, LoseLink
  <2>2. link' \in {"none", "up", "down"} /\ deadline' \in BOOLEAN
    BY DEF Dial, Handshake, HandshakeFails, HandOver, DeadlineFires, LoseLink
  <2>3. losses' \in 0..MaxLosses
    BY DEF Dial, Handshake, HandshakeFails, HandOver, DeadlineFires, LoseLink
  <2>. QED BY <1>1, <2>1, <2>2, <2>3
<1>3. Own' /\ Unsent'
  BY <1>1 DEF Own, Unsent
<1>4. Ahead'
  BY <1>1 DEF Ahead, Dial, Handshake, HandshakeFails, HandOver, DeadlineFires, LoseLink
<1>5. NoDeadline'
  BY DEF NoDeadline, Dial, Handshake, HandshakeFails, HandOver, DeadlineFires, LoseLink
<1>6. AnswersAreOwn'
  BY <1>1 DEF AnswersAreOwn
<1>7. Handed'
  BY DEF Handed, NoDeadline, Dial, Handshake, HandshakeFails, HandOver,
         DeadlineFires, LoseLink
<1>. QED BY <1>2, <1>3, <1>4, <1>5, <1>6, <1>7

LEMMA OpenPreserves == ASSUME IInv, Open PROVE IInv'
<1> USE RemoteAssumption DEF IInv, TypeOK
<1>1. CASE OpenSession
  <2>1. TypeOK'
    BY <1>1 DEF OpenSession
  <2>2. Own'
    BY <1>1 DEF OpenSession, Own
  <2>3. goroutine[cur] = "none"
    BY <1>1 DEF OpenSession, Ahead
  <2>4. Unsent'
    BY <1>1, <2>3 DEF OpenSession, Unsent
  <2>5. Ahead'
    BY <1>1 DEF OpenSession, Ahead, Commands
  <2>6. NoDeadline' /\ AnswersAreOwn' /\ Handed'
    BY <1>1 DEF OpenSession, NoDeadline, AnswersAreOwn, Handed
  <2>. QED BY <2>1, <2>2, <2>4, <2>5, <2>6
<1>2. CASE OpenFails
  <2>1. Answer(cur, "nothing") \in Answers /\ Answer(cur, "nothing").of = cur
    BY DEF Answer, Answers
  <2>2. /\ pc' \in {"open", "done"} /\ cur' \in Commands /\ link' \in {"none", "up", "down"}
        /\ got' \in [Commands -> Answers \cup {Pending}]
        /\ Ahead' /\ NoDeadline' /\ AnswersAreOwn' /\ Handed'
    BY <1>2, <2>1, ReturnPreserves DEF OpenFails, remote
  <2>3. UNCHANGED <<remote, deadline, losses>>
    BY <1>2 DEF OpenFails
  <2>4. TypeOK' /\ Own' /\ Unsent'
    BY <2>2, <2>3 DEF remote, Own, Unsent
  <2>. QED BY <2>2, <2>4
<1>. QED BY <1>1, <1>2 DEF Open

LEMMA WaitPreserves == ASSUME IInv, Wait PROVE IInv'
<1> USE RemoteAssumption DEF IInv, TypeOK
<1>1. CASE TakeResult
  <2>1. /\ pc = "wait" /\ ch[cur] # <<>>
        /\ ch' = [ch EXCEPT ![cur] = Tail(ch[cur])]
        /\ Returns(Head(ch[cur])) /\ UNCHANGED <<deadline, process, goroutine, cut, losses>>
    BY <1>1 DEF TakeResult, Channel
  <2>2. ch[cur] \in Seq(Outputs) /\ Len(ch[cur]) \in Nat /\ Len(ch[cur]) > 0
    BY <2>1
  <2>3. Head(ch[cur]) \in Outputs /\ Head(ch[cur]) = ch[cur][1] /\ Tail(ch[cur]) \in Seq(Outputs)
    BY <2>1, <2>2
  <2>4. Head(ch[cur]) \in Answers /\ Head(ch[cur]).of = cur
    BY <2>2, <2>3 DEF Own, Answers
  <2>5. /\ pc' \in {"open", "done"} /\ cur' \in Commands /\ link' \in {"none", "up", "down"}
        /\ got' \in [Commands -> Answers \cup {Pending}]
        /\ Ahead' /\ NoDeadline' /\ AnswersAreOwn' /\ Handed'
    BY <2>1, <2>4, ReturnPreserves
  <2>6. TypeOK'
    <3>1. ch' \in [Commands -> Seq(Outputs)]
      BY <2>1, <2>3
    <3>2. closed' \subseteq Commands
      BY <1>1 DEF TakeResult
    <3>. QED BY <2>1, <2>5, <3>1, <3>2
  <2>7. Own'
    <3>1. \A i \in 1..Len(Tail(ch[cur])) : Tail(ch[cur])[i].of = cur
      BY <2>1, <2>2 DEF Own
    <3>. QED BY <2>1, <3>1 DEF Own
  <2>8. Unsent'
    BY <2>1 DEF Unsent
  <2>. QED BY <2>5, <2>6, <2>7, <2>8
<1>2. CASE TimeOut
  <2>1. Answer(cur, "nothing") \in Answers /\ Answer(cur, "nothing").of = cur
    BY DEF Answer, Answers
  <2>2. /\ pc' \in {"open", "done"} /\ cur' \in Commands /\ link' \in {"none", "up", "down"}
        /\ got' \in [Commands -> Answers \cup {Pending}]
        /\ Ahead' /\ NoDeadline' /\ AnswersAreOwn' /\ Handed'
    BY <1>2, <2>1, ReturnPreserves DEF TimeOut
  <2>3. TypeOK' /\ Own' /\ Unsent'
    BY <1>2, <2>2 DEF TimeOut, Own, Unsent
  <2>. QED BY <2>2, <2>3
<1>. QED BY <1>1, <1>2 DEF Wait

LEMMA GoroutinePreserves ==
  ASSUME IInv, NEW k \in Commands, Collect(k) \/ Send(k) \/ ProcessEnds(k)
  PROVE  IInv'
<1> USE RemoteAssumption DEF IInv, TypeOK
<1>1. CASE Collect(k)
  BY <1>1 DEF Collect, Own, Unsent, Ahead, NoDeadline, AnswersAreOwn, Handed
<1>2. CASE Send(k)
  <2> DEFINE m == Answer(k, IF k \in cut THEN "part" ELSE "whole")
  <2>1. /\ ch[k] = <<>> /\ ch' = [ch EXCEPT ![k] = Append(ch[k], m)]
        /\ goroutine[k] = "send" /\ goroutine' = [goroutine EXCEPT ![k] = "gone"]
        /\ UNCHANGED <<pc, cur, link, deadline, process, cut, closed, got, losses>>
    BY <1>2 DEF Send, Unsent, Channel
  <2>2. m \in Outputs /\ m.of = k
    BY DEF Answer, Outputs
  <2> HIDE DEF m
  <2>3. Append(ch[k], m) = <<m>> /\ <<m>> \in Seq(Outputs)
    BY <2>1, <2>2
  <2>4. TypeOK'
    BY <2>1, <2>3
  <2>5. Own'
    BY <2>1, <2>2, <2>3 DEF Own
  <2>6. Unsent' /\ Ahead'
    BY <2>1 DEF Unsent, Ahead
  <2>7. NoDeadline' /\ AnswersAreOwn' /\ Handed'
    BY <2>1 DEF NoDeadline, AnswersAreOwn, Handed
  <2>. QED BY <2>4, <2>5, <2>6, <2>7
<1>3. CASE ProcessEnds(k)
  BY <1>3 DEF ProcessEnds, Own, Unsent, Ahead, NoDeadline, AnswersAreOwn, Handed
<1>. QED BY <1>1, <1>2, <1>3

LEMMA StutterPreserves == ASSUME IInv, UNCHANGED vars PROVE IInv'
BY DEF vars, IInv, TypeOK, Own, Unsent, Ahead, NoDeadline, AnswersAreOwn, Handed

LEMMA StepPreserves == IInv /\ [Next]_vars => IInv'
<1> SUFFICES ASSUME IInv, [Next]_vars PROVE IInv'
  OBVIOUS
<1>1. CASE Dial \/ Handshake \/ HandshakeFails \/ HandOver \/ DeadlineFires \/ LoseLink
  BY <1>1, ConnectPreserves
<1>2. CASE Open
  BY <1>2, OpenPreserves
<1>3. CASE Wait
  BY <1>3, WaitPreserves
<1>4. ASSUME NEW k \in Commands, Collect(k) \/ Send(k) \/ ProcessEnds(k) PROVE IInv'
  BY <1>4, GoroutinePreserves
<1>5. CASE UNCHANGED vars
  BY <1>5, StutterPreserves
<1>. QED BY <1>1, <1>2, <1>3, <1>4, <1>5 DEF Next

LEMMA Invariance == Spec => []IInv
BY Initially, StepPreserves, PTL DEF Spec
-----------------------------------------------------------------------------
\* The variables of the client, the device and every goroutine keep their types.
THEOREM TypeCorrect == Spec => []TypeOK
BY Invariance, PTL DEF IInv

\* However many commands are given up and end late, no answer is another
\* command's: a goroutine writes to the channel of its own command, and the
\* caller reads from that of the command it waits for.
THEOREM AnswersOwn == Spec => []AnswersAreOwn
BY Invariance, PTL DEF IInv

\* The deadline of the handshake is taken back before the first command: when it
\* fires the connection has not been handed over yet, so that a connection on which
\* commands run is broken by the network or closed by the caller, never by it.
THEOREM DeadlineHarmless == Spec => OnlyTheNetworkBreaks
<1>1. IInv /\ [Next]_vars =>
        [link = "up" /\ link' = "down" /\ pc \in {"open", "wait"}
         => losses' # losses \/ pc' = "done"]_vars
  <2> SUFFICES ASSUME IInv, Next, pc \in {"open", "wait"}, link = "up", link' = "down"
               PROVE  losses' # losses \/ pc' = "done"
    OBVIOUS
  <2>1. ~Dial /\ ~Handshake /\ ~HandshakeFails /\ ~HandOver
    BY DEF Dial, Handshake, HandshakeFails, HandOver
  <2>2. ~DeadlineFires
    BY DEF DeadlineFires, IInv, NoDeadline
  <2>3. CASE Open \/ Wait
    BY <2>3 DEF Open, Wait, OpenSession, OpenFails, TakeResult, TimeOut, Returns, Proceed
  <2>4. \A k \in Commands : ~Collect(k) /\ ~Send(k) /\ ~ProcessEnds(k)
    BY DEF Collect, Send, ProcessEnds
  <2>5. CASE LoseLink
    BY <2>5, RemoteAssumption DEF LoseLink, IInv, TypeOK
  <2>. QED BY <2>1, <2>2, <2>3, <2>4, <2>5 DEF Next
<1>. QED BY <1>1, Invariance, PTL DEF Spec, OnlyTheNetworkBreaks

\* A goroutine that has collected an output finds room for it, although nobody
\* may ever read it: none is left waiting (ssh_client.go:54, make(chan result, 1)).
SendsAtOnce == \A k \in Commands : goroutine[k] = "send" => Room(k)

THEOREM NoGoroutineWaits == Spec => []SendsAtOnce
<1>1. IInv => SendsAtOnce
  BY DEF IInv, TypeOK, Unsent, SendsAtOnce, Room, Channel
<1>. QED BY <1>1, Invariance, PTL
-----------------------------------------------------------------------------
(* What CallerReturns and GoroutinesEnd need besides fairness.             *)

(* The connection is there, or its end is in sight, at every stage.        *)
InSight ==
  /\ pc = "dial" => link = "none"
  /\ pc \in {"handshake", "handover"} => link = "down" \/ (link = "up" /\ deadline)
  /\ pc \in {"open", "wait"} => link # "none"
  /\ pc = "done" => link = "down"
  /\ pc = "unreachable" => link # "up"
  /\ pc \in {"dial", "handshake", "handover", "unreachable"} =>
       \A k \in Commands : goroutine[k] = "none"

\* The steps the caller has still before it.
CallerAhead ==
  CASE pc = "dial" -> 2 * N + 3
    [] pc = "handshake" -> 2 * N + 2
    [] pc = "handover" -> 2 * N + 1
    [] pc = "open" -> 2 * (N - cur) + 2
    [] pc = "wait" -> 2 * (N - cur) + 1
    [] OTHER -> 0

CallerSteps == Dial \/ Handshake \/ HandshakeFails \/ HandOver \/ Open \/ Wait

LEMMA InSightHolds == Spec => []InSight
<1>1. Init => InSight
  BY DEF Init, InSight
<1>2. IInv /\ InSight /\ [Next]_vars => InSight'
  <2> SUFFICES ASSUME IInv, InSight, [Next]_vars PROVE InSight'
    OBVIOUS
  <2> USE DEF InSight, remote
  <2>1. CASE Dial
    BY <2>1 DEF Dial, IInv, Ahead, Commands, TypeOK
  <2>2. CASE Handshake \/ HandshakeFails \/ HandOver
    <3>1. pc \in {"handshake", "handover"} /\ goroutine' = goroutine
      BY <2>2 DEF Handshake, HandshakeFails, HandOver
    <3>. QED BY <2>2, <3>1 DEF Handshake, HandshakeFails, HandOver
  <2>3. CASE DeadlineFires \/ LoseLink
    BY <2>3 DEF DeadlineFires, LoseLink
  <2>4. CASE Open \/ Wait
    BY <2>4 DEF Open, Wait, OpenSession, OpenFails, TakeResult, TimeOut, Returns, Proceed
  <2>5. ASSUME NEW k \in Commands, Collect(k) \/ Send(k) \/ ProcessEnds(k)
        PROVE  InSight'
    BY <2>5 DEF Collect, Send, ProcessEnds, IInv, TypeOK
  <2>6. CASE UNCHANGED vars
    BY <2>6 DEF vars
  <2>. QED BY <2>1, <2>2, <2>3, <2>4, <2>5, <2>6 DEF Next
<1>. QED BY <1>1, <1>2, Invariance, PTL DEF Spec

\* Where the caller waits for the device on a connection that is up.  (The dial and
\* the wait for a command's output have time limits of their own.)
Waits == pc \in {"handshake", "open"} /\ link = "up"

\* The only such wait without a limit is that for NewSession (ssh_client.go:44): the
\* handshake has a deadline until it is over.  A caller that has returned, in whatever
\* way, leaves no goroutine on a connection that is up, nor one without room for its
\* output.
HangsOnlyInNewSession ==
  /\ Waits /\ ~deadline => pc = "open"
  /\ Returned => \A k \in Commands : /\ goroutine[k] = "output" => link = "down"
                                     /\ goroutine[k] = "send" => Room(k)

THEOREM HangsOnlyThere == Spec => []HangsOnlyInNewSession
<1>1. IInv /\ InSight => HangsOnlyInNewSession
  BY DEF IInv, TypeOK, Unsent, InSight, HangsOnlyInNewSession, Waits, Returned, Room, Channel
<1>. QED BY <1>1, InSightHolds, Invariance, PTL

\* The caller never goes back: with each of its steps it has fewer before it,
\* 2N + 3 for N commands, and no step of a goroutine, the device or the network
\* gives it more to do.
CallerGoesOn ==
  [][/\ CallerSteps => CallerAhead' < CallerAhead
     /\ ~CallerSteps => CallerAhead' = CallerAhead]_vars

THEOREM CallerRunsDown == Spec => [](CallerAhead \in 0..2 * N + 3) /\ CallerGoesOn
<1>1. IInv => CallerAhead \in 0..2 * N + 3
  <2> SUFFICES ASSUME IInv PROVE CallerAhead \in 0..2 * N + 3
    OBVIOUS
  <2>1. cur \in 1..N /\ N \in Nat
    BY RemoteAssumption DEF IInv, TypeOK, Commands
  <2>. QED BY <2>1 DEF CallerAhead
<1>2. IInv /\ [Next]_vars =>
        [/\ CallerSteps => CallerAhead' < CallerAhead
         /\ ~CallerSteps => CallerAhead' = CallerAhead]_vars
  <2> SUFFICES ASSUME IInv, Next
               PROVE  /\ CallerSteps => CallerAhead' < CallerAhead
                      /\ ~CallerSteps => CallerAhead' = CallerAhead
    OBVIOUS
  <2>1. cur \in 1..N /\ N \in Nat
    BY RemoteAssumption DEF IInv, TypeOK, Commands
  <2>2. Dial \/ Handshake \/ HandshakeFails \/ HandOver => CallerAhead' < CallerAhead
    BY <2>1 DEF Dial, Handshake, HandshakeFails, HandOver, CallerAhead
  <2>3. OpenSession => CallerAhead' < CallerAhead
    BY <2>1 DEF OpenSession, CallerAhead
  <2>4. ASSUME pc \in {"open", "wait"}, Proceed
        PROVE  CallerAhead' < CallerAhead
    BY <2>1, <2>4 DEF Proceed, CallerAhead
  <2>5. OpenFails \/ Wait => CallerAhead' < CallerAhead
    BY <2>4 DEF OpenFails, Wait, TakeResult, TimeOut, Returns
  <2>6. ~CallerSteps => UNCHANGED <<pc, cur>>
    BY DEF CallerSteps, Next, DeadlineFires, LoseLink, Collect, Send, ProcessEnds
  <2>7. ~CallerSteps => CallerAhead' = CallerAhead
    BY <2>6 DEF CallerAhead
  <2>. QED BY <2>2, <2>3, <2>5, <2>7 DEF CallerSteps, Open
<1>. QED BY <1>1, <1>2, Invariance, PTL DEF Spec, CallerGoesOn
=============================================================================
