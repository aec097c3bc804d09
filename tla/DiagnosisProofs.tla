--------------------------- MODULE DiagnosisProofs ---------------------------
(***************************************************************************)
(* Proofs about a Diagnosis: what a command that hangs or dies costs in the *)
(* fields, and what the verdict of the internet checks rests on.  The two   *)
(* parts share no variable, so that IInv is an invariant of each of them.   *)
(***************************************************************************)
EXTENDS Diagnosis, FiniteSetTheorems, TLAPS

(* The scripts that are sent have between one and twelve parts.             *)
Parts == [limit : Nat, caught : BOOLEAN, setup : BOOLEAN, pause : Nat]
Scripts == [limit : Nat, parts : {p \in Seq(Parts) : Len(p) \in 1..12}]

(* A script that limits its commands to some bound, with pauses of two half *)
(* seconds or none, has room for one that hangs.                            *)
Fits(f, bound, paused) ==
  \A k \in DOMAIN f.parts :
    f.parts[k].limit <= bound /\ f.parts[k].pause <= (IF paused THEN 2 ELSE 0)
Room(f, bound, paused) == bound + (IF paused THEN 24 ELSE 0) + Prompt < f.limit
Affordable(f) ==
  OwnLimits(f) => \E bound \in Nat, paused \in BOOLEAN :
                    Fits(f, bound, paused) /\ Room(f, bound, paused)

\* Lengths are in these ranges.
LEMMA Lengths ==
  ASSUME NEW k \in 1..12
  PROVE  /\ k \in Nat \ {0} /\ k > 0
         /\ \A p \in Nat : p < k => p + 1 \in 0..12
OBVIOUS

LEMMA SumOfLengths == ASSUME NEW k \in 1..10, NEW m \in 1..2 PROVE k + m \in 1..12
OBVIOUS

LEMMA PartIsPart ==
  ASSUME NEW limit \in Nat, NEW caught \in BOOLEAN, NEW setup \in BOOLEAN, NEW pause \in Nat
  PROVE  Part(limit, caught, setup, pause) \in Parts
BY DEF Part, Parts

LEMMA TimesIsSequence ==
  ASSUME NEW T, NEW x \in T, NEW n \in Nat
  PROVE  Times(n, x) \in Seq(T) /\ Len(Times(n, x)) = n
BY DEF Times

LEMMA RecordIsScript ==
  ASSUME NEW limit \in Nat, NEW parts \in Seq(Parts), Len(parts) \in 1..12
  PROVE  [limit |-> limit, parts |-> parts] \in Scripts
BY DEF Scripts

LEMMA TimesAreParts ==
  ASSUME NEW n \in 1..12, NEW p \in Parts
  PROVE  Times(n, p) \in Seq(Parts) /\ Len(Times(n, p)) = n
<1>1. n \in Nat
  OBVIOUS
<1>. QED BY <1>1, TimesIsSequence, Zenon

LEMMA CommandsAreScripts ==
  ASSUME NEW n \in 1..12, NEW limit \in Nat
  PROVE  Commands(n, limit) \in Scripts
<1>1. Part(Unlimited, TRUE, FALSE, 0) \in Parts
  BY PartIsPart DEF Unlimited
<1>2. /\ Times(n, Part(Unlimited, TRUE, FALSE, 0)) \in Seq(Parts)
      /\ Len(Times(n, Part(Unlimited, TRUE, FALSE, 0))) = n
  BY <1>1, TimesAreParts, Zenon
<1>. QED BY <1>2, RecordIsScript DEF Commands

LEMMA Appended ==
  ASSUME NEW T, NEW s \in Seq(T), NEW t \in Seq(T)
  PROVE  s \o t \in Seq(T) /\ Len(s \o t) = Len(s) + Len(t)
OBVIOUS

LEMMA One == ASSUME NEW T, NEW x \in T PROVE <<x>> \in Seq(T) /\ Len(<<x>>) = 1
OBVIOUS

LEMMA Two ==
  ASSUME NEW T, NEW x \in T, NEW y \in T
  PROVE  <<x, y>> \in Seq(T) /\ Len(<<x, y>>) = 2
OBVIOUS

LEMMA NamedAreScripts ==
  /\ Stability \in Scripts /\ NetworkState \in Scripts /\ PythonEnvironment \in Scripts
  /\ SetupRuntime \in Scripts /\ SetupBinary \in Scripts /\ RecentSetupLogs \in Scripts
  /\ \A limit \in Nat : Command(limit) \in Scripts
<1>1. /\ Part(8, FALSE, TRUE, 2) \in Parts /\ Part(6, TRUE, FALSE, 0) \in Parts
      /\ Part(10, TRUE, FALSE, 0) \in Parts /\ Part(24, TRUE, TRUE, 0) \in Parts
      /\ Part(4, TRUE, FALSE, 0) \in Parts /\ Part(8, TRUE, FALSE, 0) \in Parts
      /\ Part(3, TRUE, FALSE, 0) \in Parts
  BY PartIsPart
<1>2. ASSUME NEW n \in 1..12, NEW p \in Parts, NEW limit \in Nat
      PROVE  [limit |-> limit, parts |-> Times(n, p)] \in Scripts
  <2>1. Times(n, p) \in Seq(Parts) /\ Len(Times(n, p)) \in 1..12
    BY TimesAreParts
  <2>. QED BY <2>1, RecordIsScript
<1>3. ASSUME NEW n \in 1..10, NEW p \in Parts, NEW limit \in Nat,
             NEW t \in Seq(Parts), Len(t) \in 1..2
      PROVE  [limit |-> limit, parts |-> Times(n, p) \o t] \in Scripts
  <2>1. Times(n, p) \in Seq(Parts) /\ Len(Times(n, p)) = n
    <3>1. n \in 1..12
      OBVIOUS
    <3>. QED BY <3>1, TimesAreParts
  <2> DEFINE s == Times(n, p)
  <2>. HIDE DEF s
  <2>2. s \o t \in Seq(Parts) /\ Len(s \o t) \in 1..12
    <3>1. s \in Seq(Parts) /\ Len(s) = n
      BY <2>1 DEF s
    <3>2. s \o t \in Seq(Parts) /\ Len(s \o t) = Len(s) + Len(t)
      BY <3>1, Appended
    <3>3. n + Len(t) \in 1..12
      BY <1>3, SumOfLengths, Zenon
    <3>. QED BY <3>1, <3>2, <3>3, Zenon
  <2>. QED BY <2>2, RecordIsScript DEF s
<1>4. Stability \in Scripts /\ SetupRuntime \in Scripts
  <2>1. 12 \in 1..12 /\ 3 \in 1..12 /\ 44 \in Nat /\ 10 \in Nat
    OBVIOUS
  <2>. QED BY <1>1, <1>2, <2>1, Zenon DEF Stability, SetupRuntime
<1>5. NetworkState \in Scripts
  <2> DEFINE t == <<Part(10, TRUE, FALSE, 0), Part(24, TRUE, TRUE, 0)>>
  <2>1. t \in Seq(Parts) /\ Len(t) = 2
    BY <1>1, Two
  <2>2. 5 \in 1..10 /\ 36 \in Nat /\ 2 \in 1..2
    OBVIOUS
  <2>. QED BY <1>1, <1>3, <2>1, <2>2, Zenon DEF NetworkState
<1>6. PythonEnvironment \in Scripts
  <2> DEFINE t == <<Part(8, TRUE, FALSE, 0)>>
  <2>1. t \in Seq(Parts) /\ Len(t) = 1
    BY <1>1, One
  <2>2. 2 \in 1..10 /\ 12 \in Nat /\ 1 \in 1..2
    OBVIOUS
  <2>. QED BY <1>1, <1>3, <2>1, <2>2, Zenon DEF PythonEnvironment
<1>7. /\ SetupBinary \in Scripts /\ RecentSetupLogs \in Scripts
      /\ \A limit \in Nat : Command(limit) \in Scripts
  BY CommandsAreScripts DEF SetupBinary, RecentSetupLogs, Command
<1>. QED BY <1>4, <1>5, <1>6, <1>7

LEMMA FieldsAreScripts == Fields \in Seq(Scripts)
<1>1. Command(4) \in Scripts /\ Command(6) \in Scripts
  BY NamedAreScripts
<1>2. Times(4, Command(4)) \in Seq(Scripts)
  BY <1>1, TimesIsSequence
<1>3. <<SetupRuntime, Command(4), PythonEnvironment, Stability, NetworkState,
        Command(4), SetupBinary, RecentSetupLogs, Command(6), Command(4), Command(4)>>
        \in Seq(Scripts)
  BY <1>1, NamedAreScripts
<1>. QED BY <1>2, <1>3, Appended DEF Fields

LEMMA NamedAreAffordable ==
  /\ Affordable(Stability) /\ Affordable(NetworkState) /\ Affordable(PythonEnvironment)
  /\ Affordable(SetupRuntime) /\ Affordable(SetupBinary) /\ Affordable(RecentSetupLogs)
  /\ \A limit \in Nat : Affordable(Command(limit))
<1>1. ASSUME NEW n \in 1..12, NEW limit \in Nat PROVE ~OwnLimits(Commands(n, limit))
  <2>1. 1 \in DOMAIN Times(n, Part(Unlimited, TRUE, FALSE, 0))
    BY DEF Times
  <2>2. Times(n, Part(Unlimited, TRUE, FALSE, 0))[1].limit = Unlimited
    BY <2>1 DEF Times, Part
  <2>. QED BY <2>1, <2>2 DEF OwnLimits, Commands
<1>2. /\ Affordable(SetupBinary) /\ Affordable(RecentSetupLogs)
      /\ \A limit \in Nat : Affordable(Command(limit))
  BY <1>1 DEF Affordable, SetupBinary, RecentSetupLogs, Command
<1>3. Affordable(Stability)
  <2>1. Fits(Stability, 8, TRUE)
    BY DEF Fits, Stability, Times, Part
  <2>2. Room(Stability, 8, TRUE)
    BY DEF Room, Stability, Prompt
  <2>. QED BY <2>1, <2>2 DEF Affordable
<1>4. Affordable(SetupRuntime)
  <2>1. Fits(SetupRuntime, 3, FALSE)
    BY DEF Fits, SetupRuntime, Times, Part
  <2>2. Room(SetupRuntime, 3, FALSE)
    BY DEF Room, SetupRuntime, Prompt
  <2>. QED BY <2>1, <2>2 DEF Affordable
<1>5. Affordable(NetworkState)
  <2>1. Fits(NetworkState, 24, FALSE)
    BY DEF Fits, NetworkState, Times, Part
  <2>2. Room(NetworkState, 24, FALSE)
    BY DEF Room, NetworkState, Prompt
  <2>. QED BY <2>1, <2>2 DEF Affordable
<1>6. Affordable(PythonEnvironment)
  <2>1. Fits(PythonEnvironment, 8, FALSE)
    BY DEF Fits, PythonEnvironment, Times, Part
  <2>2. Room(PythonEnvironment, 8, FALSE)
    BY DEF Room, PythonEnvironment, Prompt
  <2>. QED BY <2>1, <2>2 DEF Affordable
<1>. QED BY <1>2, <1>3, <1>4, <1>5, <1>6

LEMMA FieldsAreAffordable ==
  ASSUME NEW k \in DOMAIN Fields
  PROVE  Affordable(Fields[k])
<1> DEFINE Good == {f \in Scripts : Affordable(f)}
<1>1. Command(4) \in Good /\ Command(6) \in Good
  BY NamedAreScripts, NamedAreAffordable
<1>2. Times(4, Command(4)) \in Seq(Good)
  BY <1>1, TimesIsSequence
<1>3. <<SetupRuntime, Command(4), PythonEnvironment, Stability, NetworkState,
        Command(4), SetupBinary, RecentSetupLogs, Command(6), Command(4), Command(4)>>
        \in Seq(Good)
  BY <1>1, NamedAreScripts, NamedAreAffordable
<1>4. Fields \in Seq(Good)
  BY <1>2, <1>3, Appended DEF Fields
<1>5. Fields[k] \in Good
  BY <1>4
<1>. QED BY <1>5
-----------------------------------------------------------------------------
(* How far a script has come, and what its field says of that.              *)
Come ==
  at \in DOMAIN Fields =>
    /\ pc = "runs" => part < Len(Script.parts)
    /\ pc = "ended" => part = Len(Script.parts) \/ said["no_setup"] > 0
    /\ pc = "died" => ~AllCaught
    /\ field[1] = "output" => pc # "runs" \/ lost
    /\ field = <<"nothing">> => elapsed >= Script.limit \/ lost

FieldShape == FieldTypeOK /\ Come

(* A script with one hang at most, whose other commands were quick.         *)
Quick == spent <= Prompt /\ said["timed_out"] <= 1

(* What it has used of its time.                                            *)
Timed ==
  at \in DOMAIN Fields /\ Quick =>
    \A bound \in Nat, paused \in BOOLEAN : Fits(Script, bound, paused) =>
      elapsed <= spent + (IF paused THEN 2 * part ELSE 0)
                       + (IF said["timed_out"] = 0 THEN 0 ELSE bound)

(* Of the fields, without and with the internet checks.                     *)
FieldInv == FieldShape /\ Timed
(* The script at hand.                                                      *)
LEMMA ScriptParts ==
  ASSUME at \in DOMAIN Fields
  PROVE  Script.parts \in Seq(Parts) /\ Len(Script.parts) \in 1..12
<1>1. Script \in Scripts
  BY FieldsAreScripts DEF Script
<1>. QED BY <1>1 DEF Scripts

LEMMA ScriptLimit ==
  ASSUME at \in DOMAIN Fields
  PROVE  Script.limit \in Nat
<1>1. Script \in Scripts
  BY FieldsAreScripts DEF Script
<1>. QED BY <1>1 DEF Scripts

LEMMA LaterIsNat ==
  ASSUME at \in DOMAIN Fields, elapsed \in Nat, NEW time \in Nat
  PROVE  Later(time) \in Nat
BY ScriptLimit DEF Later

(* The part at hand.                                                        *)
LEMMA CurrentPart ==
  ASSUME at \in DOMAIN Fields, part \in Nat, part < Len(Script.parts)
  PROVE  /\ part + 1 \in DOMAIN Script.parts
         /\ Current.limit \in Nat /\ Current.pause \in Nat /\ Current.caught \in BOOLEAN
<1>1. part + 1 \in DOMAIN Script.parts
  BY ScriptParts
<1>2. Current \in Parts
  BY <1>1, ScriptParts DEF Current
<1>. QED BY <1>1, <1>2 DEF Parts

LEMMA MoreSaid ==
  ASSUME part \in Nat, said \in [Entries -> 0..part], NEW e \in Entries,
         said' = [said EXCEPT ![e] = @ + 1]
  PROVE  said' \in [Entries -> 0..part + 1] /\ said'[e] > 0
OBVIOUS

LEMMA NothingSaid == Nothing \in [Entries -> 0..0]
BY DEF Nothing

LEMMA ShapeInitially == FieldInit => FieldShape
<1> SUFFICES ASSUME FieldInit PROVE FieldShape
  OBVIOUS
<1>1. at = 1 /\ env = "none" /\ part = 0 /\ elapsed = 0 /\ pc = "runs"
      /\ field = <<"waiting">> /\ said = Nothing /\ lost = FALSE /\ spent = 0
  BY DEF FieldInit
<1>2. Len(Fields) \in Nat
  BY FieldsAreScripts
<1>3. FieldTypeOK
  <2>1. at \in 1..(Len(Fields) + 1)
    BY <1>1, <1>2
  <2>2. part \in 0..12 /\ elapsed \in Nat /\ spent \in 0..(Prompt + 1)
    BY <1>1 DEF Prompt
  <2>3. said \in [Entries -> 0..part]
    BY <1>1, NothingSaid, Zenon
  <2>. QED BY <1>1, <2>1, <2>2, <2>3 DEF FieldTypeOK
<1>4. Come
  <2>1. at \in DOMAIN Fields => Len(Script.parts) > 0
    <3>1. at \in DOMAIN Fields => Len(Script.parts) \in 1..12
      BY ScriptParts
    <3>. QED BY <3>1, Lengths, Zenon
  <2>. QED BY <1>1, <2>1 DEF Come
<1>. QED BY <1>3, <1>4 DEF FieldShape

LEMMA ShapePreserves == FieldShape /\ [FieldNext]_fieldVars => FieldShape'
<1> SUFFICES ASSUME FieldShape, [FieldNext]_fieldVars PROVE FieldShape'
  OBVIOUS
<1>0. /\ FieldTypeOK /\ Come
      /\ at \in 1..(Len(Fields) + 1) /\ part \in Nat /\ elapsed \in Nat
      /\ said \in [Entries -> 0..part] /\ env \in {"setup", "shell", "none"}
      /\ lost \in BOOLEAN /\ spent \in 0..4
  BY DEF FieldShape, FieldTypeOK, Prompt
<1>7. ASSUME at \in DOMAIN Fields, part < Len(Script.parts) PROVE part + 1 \in 0..12
  <2>1. Len(Script.parts) \in 1..12
    BY <1>7, ScriptParts
  <2>. QED BY <1>0, <1>7, <2>1, Lengths, Zenon
<1>1. CASE RunPart
  <2>1. at \in DOMAIN Fields /\ field = <<"waiting">> /\ UNCHANGED <<at, env, field, lost>> /\ pc = "runs"
        /\ part' = part + 1
    BY <1>1 DEF RunPart, AtPart, Running, Asking
  <2>2. part < Len(Script.parts)
    BY <1>0, <2>1 DEF Come
  <2>3. PICK time \in Durations, found \in Finds :
          /\ said' = [said EXCEPT ![found] = @ + 1]
          /\ elapsed' = Later(time + (IF IsLast THEN 0 ELSE Current.pause))
          /\ spent' = IF spent + time > Prompt THEN Prompt + 1 ELSE spent + time
    BY <1>1 DEF RunPart
  <2>4. elapsed' \in Nat
    <3>1. time \in Nat
      BY <2>1, ScriptLimit DEF Durations
    <3>2. time + (IF IsLast THEN 0 ELSE Current.pause) \in Nat
      BY <1>0, <2>1, <2>2, <3>1, CurrentPart
    <3>. QED BY <1>0, <2>1, <2>3, <3>2, LaterIsNat
  <2>5. said' \in [Entries -> 0..part + 1]
    <3>1. found \in Entries
      BY DEF Finds, Entries
    <3>. QED BY <1>0, <2>3, <3>1, MoreSaid
  <2>6. pc' = IF part + 1 = Len(Script.parts) THEN "ended" ELSE "runs"
    BY <1>1 DEF RunPart, IsLast
  <2>9. spent' \in 0..4
    <3>1. time \in Nat
      BY <2>1, ScriptLimit DEF Durations
    <3>. QED BY <1>0, <2>3, <3>1 DEF Prompt
  <2>7. FieldTypeOK'
    BY <1>0, <1>7, <2>1, <2>2, <2>4, <2>5, <2>6, <2>9 DEF FieldTypeOK, Prompt
  <2>8. Come'
    <3>1. Script' = Script /\ Len(Script.parts) \in Nat
      BY <2>1, ScriptParts DEF Script
    <3>. QED BY <1>0, <2>1, <2>2, <2>6, <3>1 DEF Come
  <2>. QED BY <2>7, <2>8 DEF FieldShape
<1>2. CASE PartTimesOut
  <2>1. at \in DOMAIN Fields /\ field = <<"waiting">> /\ UNCHANGED <<at, env, field, lost>> /\ pc = "runs"
        /\ part' = part + 1 /\ said' = [said EXCEPT !["timed_out"] = @ + 1]
        /\ elapsed' = Later(Current.limit) /\ spent' = spent
    BY <1>2 DEF PartTimesOut, Says, AtPart, Running, Asking
  <2>2. part < Len(Script.parts)
    BY <1>0, <2>1 DEF Come
  <2>3. elapsed' \in Nat
    BY <1>0, <2>1, <2>2, CurrentPart, LaterIsNat
  <2>4. said' \in [Entries -> 0..part + 1]
    <3>1. "timed_out" \in Entries
      BY DEF Entries
    <3>. QED BY <1>0, <2>1, <3>1, MoreSaid
  <2>5. pc' = CASE ~Current.caught -> "died"
                [] Current.caught /\ part + 1 = Len(Script.parts) -> "ended"
                [] OTHER -> "runs"
    BY <1>2 DEF PartTimesOut, IsLast
  <2>6. FieldTypeOK'
    BY <1>0, <1>7, <2>1, <2>2, <2>3, <2>4, <2>5 DEF FieldTypeOK, Prompt
  <2>7. ~Current.caught => ~AllCaught
    BY <1>0, <2>1, <2>2, CurrentPart DEF Current, AllCaught
  <2>8. Come'
    <3>1. Script' = Script /\ AllCaught' = AllCaught /\ Len(Script.parts) \in Nat
      BY <2>1, ScriptParts DEF Script, AllCaught
    <3>2. pc' = "runs" => part' < Len(Script.parts)
      BY <1>0, <2>1, <2>2, <2>5, <3>1
    <3>3. pc' = "ended" => part' = Len(Script.parts)
      BY <2>1, <2>5
    <3>4. pc' = "died" => ~AllCaught
      BY <2>5, <2>7
    <3>. QED BY <2>1, <3>1, <3>2, <3>3, <3>4 DEF Come
  <2>. QED BY <2>6, <2>8 DEF FieldShape
<1>3. CASE NoSetup
  <2>1. at \in DOMAIN Fields /\ field = <<"waiting">> /\ UNCHANGED <<at, env, field, lost, spent>>
        /\ pc = "runs" /\ pc' = "ended"
        /\ part' = part + 1 /\ elapsed' = Later(0)
        /\ said' = [said EXCEPT !["no_setup"] = @ + 1]
    BY <1>3 DEF NoSetup, Says, Running, Asking
  <2>2. said' \in [Entries -> 0..part + 1] /\ said'["no_setup"] > 0
    <3>1. "no_setup" \in Entries
      BY DEF Entries
    <3>. QED BY <1>0, <2>1, <3>1, MoreSaid
  <2>3. elapsed' \in Nat
    BY <1>0, <2>1, LaterIsNat
  <2>4. FieldTypeOK'
    <3>1. part < Len(Script.parts)
      BY <1>0, <2>1 DEF Come
    <3>. QED BY <1>0, <1>7, <2>1, <2>2, <2>3, <3>1 DEF FieldTypeOK, Prompt
  <2>. QED BY <2>1, <2>2, <2>4 DEF FieldShape, Come
<1>4. CASE Returns \/ GivesUp \/ BrokenReturns
  <2>1. UNCHANGED <<at, env, part, elapsed, said, pc, lost, spent>>
        /\ field' \in {<<"nothing">>, <<"output", said>>}
        /\ (field' = <<"nothing">> => elapsed >= Script.limit \/ lost)
        /\ (field'[1] = "output" => pc # "runs" \/ lost)
    <3>1. CASE Returns
      BY <3>1 DEF Returns, Field
    <3>2. CASE GivesUp
      BY <3>2 DEF GivesUp, Field
    <3>3. CASE BrokenReturns
      BY <3>3 DEF BrokenReturns, Field, Text
    <3>. QED BY <1>4, <3>1, <3>2, <3>3
  <2>. QED BY <1>0, <2>1 DEF FieldShape, FieldTypeOK, Come, Script, AllCaught, Prompt
<1>8. CASE LoseConnection
  <2>1. UNCHANGED <<at, env, part, elapsed, said, pc, field, spent>> /\ lost' = TRUE
    BY <1>8 DEF LoseConnection
  <2>. QED BY <1>0, <2>1 DEF FieldShape, FieldTypeOK, Come, Script, AllCaught, Prompt
<1>5. CASE NextField
  <2>1. /\ at \in DOMAIN Fields /\ at' = at + 1
        /\ part' = 0 /\ elapsed' = 0 /\ said' = Nothing
        /\ pc' = "runs" /\ field' = <<"waiting">>
        /\ env' \in {"setup", "shell", "none"} /\ lost' = lost /\ spent' = 0
    BY <1>5 DEF NextField
  <2>2. Len(Fields) \in Nat /\ DOMAIN Fields = 1..Len(Fields)
    BY FieldsAreScripts
  <2>3. FieldTypeOK'
    BY <1>0, <2>1, <2>2, NothingSaid DEF FieldTypeOK, Prompt
  <2>4. at' \in DOMAIN Fields => Len(Script'.parts) \in Nat \ {0}
    <3> SUFFICES ASSUME at' \in DOMAIN Fields PROVE Len(Script'.parts) \in Nat \ {0}
      OBVIOUS
    <3>1. Script' \in Scripts
      BY FieldsAreScripts DEF Script
    <3>2. Len(Script'.parts) \in 1..12
      BY <3>1 DEF Scripts
    <3>. QED BY <3>2, Lengths, Zenon
  <2>5. Come'
    BY <2>1, <2>4 DEF Come
  <2>. QED BY <2>3, <2>5 DEF FieldShape
<1>6. CASE UNCHANGED fieldVars
  BY <1>0, <1>6 DEF FieldShape, FieldTypeOK, Come, Script, AllCaught, fieldVars, Prompt
<1>. QED BY <1>1, <1>2, <1>3, <1>4, <1>5, <1>6, <1>8 DEF FieldNext

-----------------------------------------------------------------------------
(* The time of a script.                                                    *)

LEMMA LaterAtMost ==
  ASSUME at \in DOMAIN Fields, elapsed \in Nat, NEW time \in Nat
  PROVE  Later(time) <= elapsed + time
BY ScriptLimit DEF Later

LEMMA TimedPreserves == FieldInv /\ FieldNext => Timed'
<1> SUFFICES ASSUME FieldInv, FieldNext PROVE Timed'
  OBVIOUS
<1>0. /\ FieldTypeOK /\ Come /\ Timed
      /\ part \in Nat /\ elapsed \in Nat /\ said \in [Entries -> 0..part]
      /\ spent \in 0..4 /\ "timed_out" \in Entries /\ said["timed_out"] \in Nat
  BY DEF FieldInv, FieldShape, FieldTypeOK, Prompt, Entries
<1>1. CASE UNCHANGED <<at, part, elapsed, said, spent>>
  BY <1>0, <1>1 DEF Timed, Quick, Script
<1>2. CASE NextField
  <2>1. elapsed' = 0 /\ part' = 0 /\ spent' = 0 /\ said' = Nothing
    BY <1>2 DEF NextField
  <2>2. said'["timed_out"] = 0
    BY <1>0, <2>1 DEF Nothing
  <2>. QED BY <2>1, <2>2 DEF Timed
<1>3. CASE RunPart \/ PartTimesOut \/ NoSetup
  <2>1. at \in DOMAIN Fields /\ at' = at /\ pc = "runs" /\ part' = part + 1
        /\ Script' = Script
    BY <1>3 DEF RunPart, PartTimesOut, NoSetup, Says, AtPart, Running, Asking, Script
  <2>2. part < Len(Script.parts)
    BY <1>0, <2>1 DEF Come
  <2>3. /\ part + 1 \in DOMAIN Script.parts
        /\ Current.limit \in Nat /\ Current.pause \in Nat
    BY <1>0, <2>1, <2>2, CurrentPart
  <2> SUFFICES ASSUME Quick', NEW bound \in Nat, NEW paused \in BOOLEAN,
                      Fits(Script, bound, paused)
               PROVE  elapsed' <= spent' + (IF paused THEN 2 * part' ELSE 0)
                                 + (IF said'["timed_out"] = 0 THEN 0 ELSE bound)
    BY <2>1 DEF Timed, Fits
  <2>4. Current.limit <= bound /\ Current.pause <= (IF paused THEN 2 ELSE 0)
    BY <2>3 DEF Fits, Current
  <2>5. Quick => elapsed <= spent + (IF paused THEN 2 * part ELSE 0)
                                  + (IF said["timed_out"] = 0 THEN 0 ELSE bound)
    BY <1>0, <2>1 DEF Timed
  <2>6. CASE RunPart
    <3>1. PICK time \in Durations, found \in Finds :
            /\ said' = [said EXCEPT ![found] = @ + 1]
            /\ elapsed' = Later(time + (IF IsLast THEN 0 ELSE Current.pause))
            /\ spent' = IF spent + time > Prompt THEN Prompt + 1 ELSE spent + time
      BY <2>6 DEF RunPart
    <3>2. time \in Nat
      BY <2>1, ScriptLimit DEF Durations
    <3>3. said'["timed_out"] = said["timed_out"]
      <4>1. found # "timed_out"
        BY DEF Finds
      <4>. QED BY <1>0, <3>1, <4>1
    <3>4. spent' = spent + time /\ Quick
      BY <1>0, <3>1, <3>2, <3>3 DEF Quick, Prompt
    <3> DEFINE pause == IF IsLast THEN 0 ELSE Current.pause
    <3>5. pause \in Nat /\ pause <= (IF paused THEN 2 ELSE 0)
      BY <2>3, <2>4
    <3>6. elapsed' <= elapsed + (time + pause)
      BY <1>0, <2>1, <3>1, <3>2, <3>5, LaterAtMost
    <3>7. elapsed' \in Nat
      BY <1>0, <2>1, <3>1, <3>2, <3>5, LaterIsNat
    <3>. HIDE DEF pause
    <3>. QED BY <1>0, <2>1, <2>5, <3>2, <3>3, <3>4, <3>5, <3>6, <3>7
  <2>7. CASE PartTimesOut
    <3>1. /\ said' = [said EXCEPT !["timed_out"] = @ + 1]
          /\ elapsed' = Later(Current.limit) /\ spent' = spent
      BY <2>7 DEF PartTimesOut, Says
    <3>2. said'["timed_out"] = said["timed_out"] + 1
      BY <1>0, <3>1
    <3>3. said["timed_out"] = 0 /\ Quick
      BY <1>0, <3>1, <3>2 DEF Quick
    <3>4. elapsed' <= elapsed + Current.limit /\ elapsed' \in Nat
      BY <1>0, <2>1, <2>3, <3>1, LaterAtMost, LaterIsNat
    <3>. QED BY <1>0, <2>1, <2>3, <2>4, <2>5, <3>1, <3>2, <3>3, <3>4
  <2>8. CASE NoSetup
    <3>1. /\ said' = [said EXCEPT !["no_setup"] = @ + 1]
          /\ elapsed' = Later(0) /\ spent' = spent
      BY <2>8 DEF NoSetup, Says
    <3>2. said'["timed_out"] = said["timed_out"]
      BY <1>0, <3>1
    <3>3. Quick
      BY <3>1, <3>2 DEF Quick
    <3>4. elapsed' <= elapsed + 0 /\ elapsed' \in Nat
      BY <1>0, <2>1, <3>1, LaterAtMost, LaterIsNat
    <3>. QED BY <1>0, <2>1, <2>5, <3>1, <3>2, <3>3, <3>4
  <2>. QED BY <1>3, <2>6, <2>7, <2>8
<1>4. CASE Returns \/ GivesUp \/ LoseConnection \/ BrokenReturns
  BY <1>1, <1>4 DEF Returns, GivesUp, LoseConnection, BrokenReturns, Field
<1>. QED BY <1>2, <1>3, <1>4 DEF FieldNext

LEMMA FieldsInitially == FieldInit => FieldInv
<1> SUFFICES ASSUME FieldInit PROVE FieldInv
  OBVIOUS
<1>1. elapsed = 0 /\ part = 0 /\ spent = 0 /\ said["timed_out"] = 0
  BY DEF FieldInit, Nothing, Entries
<1>. QED BY <1>1, ShapeInitially DEF FieldInv, Timed

LEMMA FieldsPreserve == FieldInv /\ [FieldNext]_fieldVars => FieldInv'
<1> SUFFICES ASSUME FieldInv, [FieldNext]_fieldVars PROVE FieldInv'
  OBVIOUS
<1>1. FieldShape'
  BY ShapePreserves DEF FieldInv
<1>2. Timed'
  <2>1. CASE FieldNext
    BY <2>1, TimedPreserves
  <2>2. CASE UNCHANGED fieldVars
    BY <2>2 DEF fieldVars, FieldInv, Timed, Quick, Script
  <2>. QED BY <2>1, <2>2
<1>. QED BY <1>1, <1>2 DEF FieldInv

\* With room left, a quick script ends before the limit of its field.
LEMMA QuickIsInTime ==
  ASSUME FieldInv, at \in DOMAIN Fields, Affordable(Script), OwnLimits(Script), Quick
  PROVE  elapsed < Script.limit
<1>1. PICK bound \in Nat, paused \in BOOLEAN :
        Fits(Script, bound, paused) /\ Room(Script, bound, paused)
  BY DEF Affordable
<1>2. elapsed <= spent + (IF paused THEN 2 * part ELSE 0)
                       + (IF said["timed_out"] = 0 THEN 0 ELSE bound)
  BY <1>1 DEF FieldInv, Timed
<1>3. part \in 0..12 /\ elapsed \in Nat /\ spent \in Nat /\ spent <= 3
  BY DEF FieldInv, FieldShape, FieldTypeOK, Quick, Prompt
<1>4. Script.limit \in Nat /\ bound + (IF paused THEN 24 ELSE 0) + 3 < Script.limit
  BY <1>1, ScriptLimit DEF Room, Prompt
<1>. QED BY <1>2, <1>3, <1>4
-----------------------------------------------------------------------------
(* The internet checks.                                                     *)

\* A set of numbers that is not empty has a least one.
LEMMA LeastExists ==
  ASSUME NEW S \in SUBSET Nat, S # {}
  PROVE  \E m \in S : \A n \in S : m <= n
<1> DEFINE T == {0..n : n \in S}
<1>1. T \subseteq FiniteSubsetsOf(Nat) /\ T # {}
  <2>1. \A n \in S : 0..n \in SUBSET Nat /\ IsFiniteSet(0..n)
    BY FS_Interval
  <2>. QED BY <2>1 DEF FiniteSubsetsOf
<1>2. PICK x \in T : \A y \in T : <<y, x>> \notin StrictSubsetOrdering(Nat)
  BY <1>1, FS_StrictSubsetOrderingWellFounded, WFMin
<1>3. PICK m \in S : x = 0..m
  BY <1>2
<1>4. ASSUME NEW n \in S, n < m PROVE FALSE
  <2>1. 0..n \in T /\ 0..n \subseteq 0..m /\ m \in 0..m /\ m \notin 0..n
    BY <1>4
  <2>2. <<0..n, 0..m>> \in StrictSubsetOrdering(Nat)
    BY <2>1 DEF StrictSubsetOrdering
  <2>. QED BY <1>2, <1>3, <2>1, <2>2
<1>. QED BY <1>4

Contexts == {"plain", "setup-env"}
Methods == {"HEAD", "GET"}
Categories == Outcomes \cup OwnCauses
Words == {"HTTPCHECK", "plain", "setup-env", "HEAD", "GET", "FAIL"} \cup Outcomes \cup OwnCauses

\* Every line is that of a check, and every HEAD line that names an outcome is
\* that of a request that was made.
IsLine(line, made) ==
  \E c \in Contexts, m \in Methods, o \in Categories :
    /\ line = Line(c, m, o)
    /\ m = "HEAD" /\ o \in Outcomes => [context |-> c, outcome |-> o] \in made

AllLines(lines, made) == \A i \in DOMAIN lines : IsLine(lines[i], made)

\* The first HEAD line of the setup environment is what was reported first; until
\* then there is none, but for the one that the script ends with.
SetupHeads(lines) == {i \in DOMAIN lines : lines[i][2] = "setup-env" /\ lines[i][3] = "HEAD"}

Reports(lines, answers, ended) ==
  /\ ended => SetupHeads(lines) # {}
  /\ answers = <<>> => /\ ~ended => SetupHeads(lines) = {}
                       /\ \A i \in SetupHeads(lines) : lines[i][5] \in OwnCauses
  /\ answers # <<>> => \E i \in SetupHeads(lines) : /\ \A j \in SetupHeads(lines) : i <= j
                                                    /\ lines[i][5] = answers[1]

\* What the script has printed.
Printed == AllLines(out, tried) /\ Reports(out, reported, next = "end")

\* The checks are those of all the lines, or the one that is made up.
Parsed ==
  /\ client = "waiting" => checks = <<>>
  /\ client # "waiting" => checks \in {<<NoCheck>>, ParseHTTPChecks(out)}
  /\ client = "answered" => next = "end" /\ checks = ParseHTTPChecks(out)

HttpInv == HttpTypeOK /\ Printed /\ Parsed

LEMMA Disjoint ==
  /\ OwnCauses \cap Outcomes = {} /\ "OK" \in Outcomes
  /\ "UNKNOWN" \in OwnCauses /\ "OK" \notin OwnCauses
  /\ {"NO_SETUP_PROCESS", "ENV_READ_ERROR", "SETUP_ENV_EXEC_ERROR"} \subseteq OwnCauses
BY HttpAssumption DEF OwnCauses, Outcomes

\* The fields of a line, and the check that is read from it.
LEMMA LineFields ==
  ASSUME NEW c \in Contexts, NEW m \in Methods, NEW o \in Categories
  PROVE  /\ Line(c, m, o) \in Seq(Words) /\ Len(Line(c, m, o)) = 5
         /\ Line(c, m, o)[1] = "HTTPCHECK" /\ Line(c, m, o)[2] = c
         /\ Line(c, m, o)[3] = m /\ Line(c, m, o)[5] = o
         /\ CheckOf(Line(c, m, o)) = Check(c, m, o = "OK", o)
<1> DEFINE flag == IF o = "OK" THEN "OK" ELSE "FAIL"
<1>1. Line(c, m, o) = <<"HTTPCHECK", c, m, flag, o>>
  BY DEF Line
<1>2. "HTTPCHECK" \in Words /\ c \in Words /\ m \in Words /\ o \in Words /\ flag \in Words
  BY Disjoint DEF Words, Contexts, Methods, Categories
<1>3. flag = "OK" <=> o = "OK"
  OBVIOUS
<1>. HIDE DEF flag
<1>4. Line(c, m, o) \in Seq(Words)
  BY <1>1, <1>2
<1>. QED BY <1>1, <1>3, <1>4 DEF CheckOf

LEMMA CheckFields ==
  ASSUME NEW c, NEW m, NEW ok, NEW o
  PROVE  /\ Check(c, m, ok, o).Context = c /\ Check(c, m, ok, o).Method = m
         /\ Check(c, m, ok, o).OK = ok /\ Check(c, m, ok, o).Category = o
         /\ c \in Contexts /\ m \in Methods /\ ok \in BOOLEAN /\ o \in Categories =>
              Check(c, m, ok, o) \in [Context : Contexts, Method : Methods, OK : BOOLEAN,
                                      Category : Categories]
BY DEF Check

\* All lines are parsed.
LEMMA ParsedFields ==
  ASSUME AllLines(out, tried)
  PROVE  /\ DOMAIN ParseHTTPChecks(out) = DOMAIN out
         /\ \A i \in DOMAIN out :
              /\ ParseHTTPChecks(out)[i] = Check(out[i][2], out[i][3], out[i][5] = "OK", out[i][5])
              /\ out[i][2] \in Contexts /\ out[i][3] \in Methods /\ out[i][5] \in Categories
              /\ out[i][3] = "HEAD" /\ out[i][5] \in Outcomes =>
                   [context |-> out[i][2], outcome |-> out[i][5]] \in tried
<1>1. ASSUME NEW i \in DOMAIN out
      PROVE  /\ Len(out[i]) >= 4 /\ out[i][1] = "HTTPCHECK"
             /\ CheckOf(out[i]) = Check(out[i][2], out[i][3], out[i][5] = "OK", out[i][5])
             /\ out[i][2] \in Contexts /\ out[i][3] \in Methods /\ out[i][5] \in Categories
             /\ out[i][3] = "HEAD" /\ out[i][5] \in Outcomes =>
                  [context |-> out[i][2], outcome |-> out[i][5]] \in tried
  <2>1. PICK c \in Contexts, m \in Methods, o \in Categories :
          /\ out[i] = Line(c, m, o)
          /\ m = "HEAD" /\ o \in Outcomes => [context |-> c, outcome |-> o] \in tried
    BY DEF AllLines, IsLine
  <2>. QED BY <2>1, LineFields
<1>. QED BY <1>1 DEF ParseHTTPChecks

LEMMA NoLineParsed ==
  /\ DOMAIN ParseHTTPChecks(<<>>) = {}
  /\ DOMAIN ParseHTTPChecks(<< <<"python3: not found">> >>) = {}
<1>1. DOMAIN ParseHTTPChecks(<<>>) = {}
  BY DEF ParseHTTPChecks
<1> DEFINE line == <<"python3: not found">>
           lines == <<line>>
<1>2. Len(line) = 1
  OBVIOUS
<1>3. DOMAIN lines = 1..1 /\ lines[1] = line
  <2>. HIDE DEF line
  <2>. QED OBVIOUS
<1>4. DOMAIN ParseHTTPChecks(lines) =
        {i \in DOMAIN lines : Len(lines[i]) >= 4 /\ lines[i][1] = "HTTPCHECK"}
  BY DEF ParseHTTPChecks
<1>. HIDE DEF line, lines
<1>5. DOMAIN ParseHTTPChecks(lines) = {}
  BY <1>2, <1>3, <1>4
<1>. QED BY <1>1, <1>5 DEF lines, line

\* The requests that were made when that line was printed.
MadeFor(made, more, c, m, o) ==
  /\ made \subseteq more
  /\ m = "HEAD" /\ o \in Outcomes => [context |-> c, outcome |-> o] \in more

\* What is known of the lines with one more.
Grown(lines, made, c, m, o, longer) ==
  /\ longer \in Seq(Seq(Words)) /\ AllLines(longer, made)
  /\ Len(lines) \in Nat /\ DOMAIN lines = 1..Len(lines)
  /\ \A i \in 1..Len(lines) : longer[i] = lines[i]
  /\ SetupHeads(longer) = SetupHeads(lines) \cup IF c = "setup-env" /\ m = "HEAD"
                                                 THEN {Len(lines) + 1} ELSE {}
  /\ longer[Len(lines) + 1][5] = o

LEMMA NewLine ==
  ASSUME NEW lines \in Seq(Seq(Words)), NEW made, AllLines(lines, made),
         NEW c \in Contexts, NEW m \in Methods, NEW o \in Categories,
         NEW more, MadeFor(made, more, c, m, o), NEW line, line = Line(c, m, o)
  PROVE  Grown(lines, more, c, m, o, Append(lines, line))
<1> DEFINE n == Len(lines)
           longer == Append(lines, line)
<1>1. line \in Seq(Words) /\ line[2] = c /\ line[3] = m /\ line[5] = o
  BY LineFields
<1>2. longer = Append(lines, line) /\ n = Len(lines)
  OBVIOUS
<1>3. IsLine(line, more)
  BY DEF IsLine, MadeFor
<1>. HIDE DEF n, longer
<1>4. /\ longer \in Seq(Seq(Words))
      /\ n \in Nat /\ DOMAIN lines = 1..n /\ DOMAIN longer = 1..n + 1
      /\ \A i \in 1..n : longer[i] = lines[i]
      /\ longer[n + 1] = line
  BY <1>1, <1>2
<1>5. \A i \in 1..n : IsLine(lines[i], more)
  BY <1>4 DEF AllLines, IsLine, MadeFor
<1>6. AllLines(longer, more)
  BY <1>3, <1>4, <1>5 DEF AllLines
<1>7. SetupHeads(longer) = SetupHeads(lines) \cup IF c = "setup-env" /\ m = "HEAD"
                                                  THEN {n + 1} ELSE {}
  BY <1>1, <1>4 DEF SetupHeads
<1>. QED BY <1>1, <1>4, <1>6, <1>7 DEF n, longer, Grown

\* The line that the script ends with.
LEMMA EndLine ==
  ASSUME NEW lines \in Seq(Seq(Words)), NEW made, AllLines(lines, made),
         NEW answers, Reports(lines, answers, FALSE), NEW cause \in OwnCauses,
         NEW longer, longer = Append(lines, Line("setup-env", "HEAD", cause))
  PROVE  longer \in Seq(Seq(Words)) /\ AllLines(longer, made) /\ Reports(longer, answers, TRUE)
<1> DEFINE n == Len(lines)
           line == Line("setup-env", "HEAD", cause)
<1>1. /\ cause \in Categories /\ cause \notin Outcomes
      /\ "setup-env" \in Contexts /\ "HEAD" \in Methods
  BY Disjoint DEF Categories, Contexts, Methods
<1>2. /\ longer \in Seq(Seq(Words)) /\ AllLines(longer, made)
      /\ n \in Nat /\ DOMAIN lines = 1..n
      /\ \A i \in 1..n : longer[i] = lines[i]
      /\ SetupHeads(longer) = SetupHeads(lines) \cup {n + 1}
      /\ longer[n + 1][5] = cause
  <2>1. longer = Append(lines, line) /\ line = Line("setup-env", "HEAD", cause) /\ n = Len(lines)
    BY DEF line
  <2>2. MadeFor(made, made, "setup-env", "HEAD", cause)
    BY <1>1 DEF MadeFor
  <2>. HIDE DEF line, n
  <2>3. Grown(lines, made, "setup-env", "HEAD", cause, Append(lines, line))
    BY <1>1, <2>1, <2>2, NewLine
  <2>. QED BY <2>1, <2>3 DEF Grown
<1>3. SetupHeads(lines) \subseteq 1..n
  BY <1>2 DEF SetupHeads
<1>. HIDE DEF n
<1>4. CASE answers = <<>>
  <2>1. SetupHeads(longer) = {n + 1}
    BY <1>2, <1>4 DEF Reports
  <2>. QED BY <1>2, <1>4, <2>1 DEF Reports
<1>5. CASE answers # <<>>
  <2>1. PICK i \in SetupHeads(lines) : /\ \A j \in SetupHeads(lines) : i <= j
                                       /\ lines[i][5] = answers[1]
    BY <1>5 DEF Reports
  <2>2. i \in SetupHeads(longer) /\ (\A j \in SetupHeads(longer) : i <= j)
        /\ longer[i][5] = answers[1]
    BY <1>2, <1>3, <2>1
  <2>. QED BY <1>2, <1>5, <2>2 DEF Reports
<1>. QED BY <1>4, <1>5

\* The types but for what the script prints and what is read from it.
ScriptTypes ==
  /\ next \in {"HEAD", "GET", "find", "environ", "candidate", "end"}
  /\ py \in 1..Candidates
  /\ clock \in 0..(Limit + 1)
  /\ pid \in {"setup", "shell", "none"}
  /\ setupRuns \in BOOLEAN
  /\ tried \subseteq Heads
  /\ reported \in Seq(Outcomes)
  /\ client \in {"waiting", "answered", "late", "broken"}

CheckTypes ==
  /\ DOMAIN checks \subseteq 1..(Len(out) + 1)
  /\ \A i \in DOMAIN checks :
       checks[i] \in [Context : Contexts, Method : Methods, OK : BOOLEAN, Category : Categories]

LEMMA HttpTypes ==
  /\ HttpTypeOK <=> ScriptTypes /\ out \in Seq(Seq(Words)) /\ CheckTypes
  /\ HttpTypeOK' <=> ScriptTypes' /\ out' \in Seq(Seq(Words)) /\ CheckTypes'
BY DEF HttpTypeOK, ScriptTypes, CheckTypes, Words, Contexts, Methods, Categories

LEMMA SpendType ==
  ASSUME ScriptTypes, NEW d \in 0..MaxTry, Spend(d)
  PROVE  clock' \in 0..(Limit + 1)
BY HttpAssumption DEF Spend, ScriptTypes

\* As long as the client waits there are no checks.
LEMMA StillWaiting ==
  ASSUME Parsed, client = "waiting", UNCHANGED <<client, checks>>
  PROVE  Parsed' /\ CheckTypes'
BY DEF Parsed, CheckTypes

LEMMA HttpInitially == HttpInit => HttpInv
<1>. SUFFICES ASSUME HttpInit PROVE HttpInv
  OBVIOUS
<1>1. next = "HEAD" /\ out = <<>> /\ reported = <<>> /\ client = "waiting" /\ checks = <<>>
  BY DEF HttpInit
<1>2. ScriptTypes
  BY HttpAssumption DEF HttpInit, ScriptTypes
<1>3. CheckTypes /\ out \in Seq(Seq(Words))
  BY <1>1 DEF CheckTypes
<1>4. Printed /\ Parsed
  BY <1>1 DEF Printed, AllLines, Reports, Parsed, SetupHeads
<1>. QED BY <1>2, <1>3, <1>4, HttpTypes DEF HttpInv

LEMMA PlainStep ==
  ASSUME HttpInv, RunPlain
  PROVE  HttpInv'
<1>1. PICK outcome \in Outcomes, d \in 0..MaxTry :
        /\ out' = Append(out, Line("plain", next, outcome))
        /\ tried' = IF next = "HEAD"
                    THEN tried \cup {[context |-> "plain", outcome |-> outcome]} ELSE tried
        /\ Spend(d)
  BY DEF RunPlain
<1>2. /\ client = "waiting" /\ next \in Methods /\ next' \in {"GET", "find"}
      /\ UNCHANGED <<py, pid, setupRuns, reported, client, checks>>
  BY DEF RunPlain, Methods
<1>3. HttpTypeOK /\ Printed /\ Parsed
  BY DEF HttpInv
<1>4. ScriptTypes /\ out \in Seq(Seq(Words)) /\ CheckTypes
  BY <1>3, HttpTypes
<1>5. outcome \in Categories /\ "plain" \in Contexts
  BY DEF Categories, Contexts
<1>6. tried \subseteq tried' /\ tried' \subseteq Heads
      /\ (next = "HEAD" => [context |-> "plain", outcome |-> outcome] \in tried')
  BY <1>1, <1>4 DEF ScriptTypes, Heads
<1>7. AllLines(out, tried) /\ Reports(out, reported, FALSE)
  BY <1>2, <1>3 DEF Printed, Methods
<1> DEFINE n == Len(out)
<1>8. /\ out' \in Seq(Seq(Words)) /\ AllLines(out', tried') /\ DOMAIN out = 1..n
      /\ \A i \in 1..n : out'[i] = out[i]
      /\ SetupHeads(out') = SetupHeads(out)
  <2> DEFINE line == Line("plain", next, outcome)
  <2>1. out' = Append(out, line) /\ line = Line("plain", next, outcome) /\ n = Len(out)
    BY <1>1
  <2>2. MadeFor(tried, tried', "plain", next, outcome)
    BY <1>6 DEF MadeFor
  <2>. HIDE DEF line, n
  <2>3. Grown(out, tried', "plain", next, outcome, Append(out, line))
    <3>1. out \in Seq(Seq(Words)) /\ AllLines(out, tried) /\ next \in Methods
          /\ line = Line("plain", next, outcome)
      BY <1>2, <1>4, <1>7, <2>1
    <3>. QED BY <1>5, <2>2, <3>1, NewLine
  <2>. QED BY <2>1, <2>3 DEF Grown
<1>9. ScriptTypes'
  <2>1. clock' \in 0..(Limit + 1)
    BY <1>1, <1>4, SpendType
  <2>. QED BY <1>2, <1>4, <1>6, <2>1 DEF ScriptTypes
<1>10. Parsed' /\ CheckTypes'
  BY <1>2, <1>3, StillWaiting
<1>11. Reports(out', reported', FALSE)
  <2>1. SetupHeads(out) \subseteq 1..n /\ reported' = reported
    BY <1>2, <1>8 DEF SetupHeads
  <2>. HIDE DEF n
  <2>. QED BY <1>7, <1>8, <2>1 DEF Reports
<1>12. Printed'
  BY <1>2, <1>8, <1>11 DEF Printed
<1>. QED BY <1>8, <1>9, <1>10, <1>12, HttpTypes DEF HttpInv

LEMMA FindStep ==
  ASSUME HttpInv, FindSetupProcess \/ ReadEnviron
  PROVE  HttpInv'
<1>1. /\ client = "waiting" /\ next \in {"find", "environ"}
      /\ UNCHANGED <<py, clock, setupRuns, tried, reported, client, checks>>
      /\ pid' \in {pid, "setup", "shell"}
      /\ \/ next' \in {"environ", "candidate"} /\ out' = out
         \/ EndWith("NO_SETUP_PROCESS") \/ EndWith("ENV_READ_ERROR")
  BY DEF FindSetupProcess, ReadEnviron, Matching
<1>2. HttpTypeOK /\ Printed /\ Parsed
  BY DEF HttpInv
<1>3. ScriptTypes /\ out \in Seq(Seq(Words)) /\ CheckTypes
  BY <1>2, HttpTypes
<1>4. ScriptTypes'
  BY <1>1, <1>3 DEF ScriptTypes, EndWith
<1>5. Parsed' /\ CheckTypes'
  BY <1>1, <1>2, StillWaiting
<1>6. AllLines(out, tried) /\ Reports(out, reported, FALSE)
  BY <1>1, <1>2 DEF Printed
<1>7. CASE next' \in {"environ", "candidate"} /\ out' = out
  <2>1. Printed'
    BY <1>1, <1>6, <1>7 DEF Printed
  <2>. QED BY <1>3, <1>4, <1>5, <1>7, <2>1, HttpTypes DEF HttpInv
<1>8. CASE EndWith("NO_SETUP_PROCESS") \/ EndWith("ENV_READ_ERROR")
  <2>1. PICK cause \in OwnCauses :
          out' = Append(out, Line("setup-env", "HEAD", cause)) /\ next' = "end"
    BY <1>8, Disjoint DEF EndWith
  <2>2. out' \in Seq(Seq(Words)) /\ AllLines(out', tried) /\ Reports(out', reported, TRUE)
    BY <1>3, <1>6, <2>1, EndLine
  <2>3. Printed'
    BY <1>1, <2>1, <2>2 DEF Printed
  <2>. QED BY <1>4, <1>5, <2>2, <2>3, HttpTypes DEF HttpInv
<1>. QED BY <1>1, <1>7, <1>8

\* The lines that an interpreter prints.
LEMMA Prefixes ==
  ASSUME NEW results \in Prints
  PROVE  /\ results \in Seq(Outcomes) /\ Len(results) \in 0..2
         /\ DOMAIN results = 1..Len(results)
         /\ \A i \in DOMAIN results : results[i] \in Outcomes
<1>1. CASE results = <<>>
  BY <1>1
<1>2. CASE \E h \in Outcomes : results = <<h>>
  BY <1>2
<1>3. CASE results \in Outcomes \X Outcomes
  <2>1. PICK h \in Outcomes, g \in Outcomes : results = <<h, g>>
    BY <1>3
  <2>. QED BY <2>1
<1>. QED BY <1>1, <1>2, <1>3 DEF Prints

Backed(made, more, results) ==
  /\ made \subseteq more
  /\ results # <<>> => [context |-> "setup-env", outcome |-> results[1]] \in more

\* The lines with those results after them.
Shows(lines, results, made, longer) ==
  /\ longer \in Seq(Seq(Words))
  /\ Len(lines) \in Nat /\ Len(results) \in 0..2
  /\ DOMAIN lines = 1..Len(lines) /\ DOMAIN longer = 1..Len(lines) + Len(results)
  /\ \A i \in 1..Len(lines) + Len(results) : IsLine(longer[i], made)
  /\ \A i \in 1..Len(lines) : longer[i] = lines[i]
  /\ \A i \in 1..Len(results) : /\ longer[Len(lines) + i][2] = "setup-env"
                                /\ longer[Len(lines) + i][3] = IF i = 1 THEN "HEAD" ELSE "GET"
                                /\ longer[Len(lines) + i][5] = results[i]

LEMMA ResultsPrinted ==
  ASSUME NEW lines \in Seq(Seq(Words)), NEW made, AllLines(lines, made),
         NEW results \in Prints, NEW more, Backed(made, more, results),
         NEW longer, longer = lines \o ResultLines(results)
  PROVE  Shows(lines, results, more, longer)
<1> DEFINE n == Len(lines)
           k == Len(results)
           printed == ResultLines(results)
<1>0. n = Len(lines) /\ k = Len(results)
  OBVIOUS
<1>. HIDE DEF n, k
<1>1. k \in 0..2 /\ DOMAIN results = 1..k /\ \A i \in 1..k : results[i] \in Outcomes
  BY Prefixes DEF k
<1>2. ASSUME NEW i \in 1..k
      PROVE  /\ printed[i] \in Seq(Words) /\ printed[i][2] = "setup-env"
             /\ printed[i][3] = (IF i = 1 THEN "HEAD" ELSE "GET")
             /\ printed[i][5] = results[i]
             /\ IsLine(printed[i], more)
  <2> DEFINE m == IF i = 1 THEN "HEAD" ELSE "GET"
  <2>1. m \in Methods /\ "setup-env" \in Contexts /\ results[i] \in Categories
    BY <1>1 DEF Methods, Contexts, Categories
  <2>2. printed[i] = Line("setup-env", m, results[i])
    BY <1>1 DEF ResultLines
  <2>3. m = "HEAD" => i = 1
    OBVIOUS
  <2>4. results # <<>>
    BY <1>1
  <2>. HIDE DEF printed, m
  <2>5. IsLine(printed[i], more)
    BY <2>1, <2>2, <2>3, <2>4 DEF IsLine, Backed
  <2>6. /\ printed[i] \in Seq(Words) /\ printed[i][2] = "setup-env"
        /\ printed[i][3] = m /\ printed[i][5] = results[i]
    BY <2>1, <2>2, LineFields
  <2>. QED BY <2>5, <2>6 DEF m
<1>3. printed \in Seq(Seq(Words)) /\ Len(printed) = k
  <2>1. printed = [i \in 1..k |-> printed[i]]
    BY <1>1 DEF ResultLines
  <2>. HIDE DEF printed
  <2>2. \A i \in 1..k : printed[i] \in Seq(Words)
    BY <1>2
  <2> DEFINE W == Seq(Words)
  <2>3. printed \in [1..k -> W]
    BY <2>1, <2>2
  <2>. HIDE DEF W
  <2>4. k \in Nat
    BY <1>1
  <2>5. printed \in Seq(W) /\ Len(printed) = k
    BY <2>3, <2>4
  <2>. QED BY <2>5 DEF W
<1>4. longer = lines \o printed
  OBVIOUS
<1>. HIDE DEF printed
<1>5. /\ longer \in Seq(Seq(Words))
      /\ n \in Nat /\ Len(longer) = n + k
      /\ DOMAIN lines = 1..n /\ DOMAIN longer = 1..n + k
      /\ \A i \in 1..n : longer[i] = lines[i]
      /\ \A i \in 1..k : longer[n + i] = printed[i]
  <2> DEFINE W == Seq(Words)
  <2>1. lines \in Seq(W) /\ printed \in Seq(W)
    BY <1>3
  <2>. HIDE DEF W
  <2>2. longer \in Seq(W)
    BY <1>4, <2>1
  <2>3. n \in Nat /\ DOMAIN lines = 1..n
    BY <2>1 DEF n
  <2>7. Len(longer) = n + k
    <3>1. Len(lines \o printed) = Len(lines) + Len(printed)
      BY <2>1
    <3>2. Len(longer) = Len(lines) + Len(printed)
      BY <1>4, <3>1
    <3>. QED BY <1>0, <1>3, <3>2
  <2>4. DOMAIN longer = 1..n + k
    BY <2>2, <2>3, <2>7
  <2>5. \A i \in 1..n : longer[i] = lines[i]
    BY <1>4, <2>1 DEF n
  <2>6. \A i \in 1..k : longer[n + i] = printed[i]
    <3>1. \A i \in 1..Len(printed) : (lines \o printed)[Len(lines) + i] = printed[i]
      BY <2>1
    <3>. QED BY <1>0, <1>3, <1>4, <3>1
  <2>. QED BY <2>2, <2>3, <2>4, <2>5, <2>6, <2>7 DEF W
<1>6. ASSUME NEW i \in 1..n + k PROVE IsLine(longer[i], more)
  <2>1. CASE i \in 1..n
    <3>1. IsLine(lines[i], made)
      BY <1>5, <2>1 DEF AllLines
    <3>. QED BY <1>5, <2>1, <3>1 DEF IsLine, Backed
  <2>2. CASE i \notin 1..n
    <3>1. i - n \in 1..k /\ i = n + (i - n)
      BY <1>1, <1>5, <2>2
    <3>2. longer[i] = printed[i - n] /\ IsLine(printed[i - n], more)
      BY <1>2, <1>5, <3>1
    <3>. QED BY <3>2
  <2>. QED BY <2>1, <2>2
<1>7. ASSUME NEW i \in 1..k
      PROVE  /\ longer[n + i][2] = "setup-env"
             /\ longer[n + i][3] = IF i = 1 THEN "HEAD" ELSE "GET"
             /\ longer[n + i][5] = results[i]
  <2>1. longer[n + i] = printed[i]
    BY <1>5
  <2>. QED BY <1>2, <2>1
<1>. QED BY <1>0, <1>1, <1>5, <1>6, <1>7 DEF Shows

Answers(answers, results) ==
  IF results = <<>> THEN answers ELSE Append(answers, results[1])

LEMMA ResultsReported ==
  ASSUME NEW lines \in Seq(Seq(Words)), NEW made, AllLines(lines, made),
         NEW results \in Prints, NEW more, Backed(made, more, results),
         NEW answers \in Seq(Outcomes), Reports(lines, answers, FALSE)
  PROVE  LET longer == lines \o ResultLines(results)
         IN  /\ longer \in Seq(Seq(Words)) /\ AllLines(longer, more)
             /\ Reports(longer, Answers(answers, results), results # <<>>)
             /\ Reports(longer, Answers(answers, results), FALSE)
             /\ Answers(answers, results) \in Seq(Outcomes)
<1> DEFINE n == Len(lines)
           k == Len(results)
           longer == lines \o ResultLines(results)
           all == Answers(answers, results)
<1>0. n = Len(lines) /\ k = Len(results) /\ longer = lines \o ResultLines(results)
  OBVIOUS
<1>. HIDE DEF n, k, longer, all
<1>1. /\ longer \in Seq(Seq(Words))
      /\ n \in Nat /\ k \in 0..2
      /\ DOMAIN lines = 1..n /\ DOMAIN longer = 1..n + k
      /\ \A i \in 1..n + k : IsLine(longer[i], more)
      /\ \A i \in 1..n : longer[i] = lines[i]
      /\ \A i \in 1..k : /\ longer[n + i][2] = "setup-env"
                         /\ longer[n + i][3] = IF i = 1 THEN "HEAD" ELSE "GET"
                         /\ longer[n + i][5] = results[i]
  <2>1. Shows(lines, results, more, longer)
    BY <1>0, ResultsPrinted
  <2>. QED BY <1>0, <2>1 DEF Shows
<1>2. AllLines(longer, more)
  BY <1>1 DEF AllLines
<1>3. SetupHeads(lines) \subseteq 1..n
  BY <1>1 DEF SetupHeads
<1>4. CASE results = <<>>
  <2>1. k = 0 /\ all = answers
    BY <1>0, <1>4 DEF all, Answers
  <2>2. SetupHeads(longer) = SetupHeads(lines)
    BY <1>1, <2>1 DEF SetupHeads
  <2>3. \A i \in SetupHeads(longer) : longer[i] = lines[i]
    BY <1>1, <1>3, <2>2
  <2>4. Reports(longer, all, FALSE)
    BY <2>1, <2>2, <2>3 DEF Reports
  <2>5. all \in Seq(Outcomes)
    BY <2>1
  <2>. QED BY <1>1, <1>2, <1>4, <2>4, <2>5 DEF longer, all
<1>5. CASE results # <<>>
  <2>1. k \in 1..2 /\ results[1] \in Outcomes
    <3>1. results \in Seq(Outcomes) /\ k \in 0..2 /\ DOMAIN results = 1..k
          /\ \A i \in DOMAIN results : results[i] \in Outcomes
      BY <1>0, Prefixes
    <3>2. k # 0
      BY <1>0, <1>5, <3>1
    <3>. QED BY <3>1, <3>2
  <2>2. longer[n + 1][2] = "setup-env" /\ longer[n + 1][3] = "HEAD"
        /\ longer[n + 1][5] = results[1]
    BY <1>1, <2>1
  <2>3. ASSUME NEW i \in 1..n + k, i \notin 1..n + 1 PROVE longer[i][3] = "GET"
    <3>1. i - n \in 1..k /\ i - n # 1 /\ i = n + (i - n)
      BY <1>1, <2>1, <2>3
    <3>. QED BY <1>1, <3>1
  <2>4. SetupHeads(longer) = SetupHeads(lines) \cup {n + 1}
    <3>1. ASSUME NEW i \in SetupHeads(longer) PROVE i \in SetupHeads(lines) \cup {n + 1}
      <4>1. i \in 1..n + k /\ longer[i][2] = "setup-env" /\ longer[i][3] = "HEAD"
        BY <1>1 DEF SetupHeads
      <4>2. i \in 1..n \/ i = n + 1
        BY <1>1, <2>3, <4>1
      <4>. QED BY <1>1, <4>1, <4>2 DEF SetupHeads
    <3>2. ASSUME NEW i \in SetupHeads(lines) \cup {n + 1} PROVE i \in SetupHeads(longer)
      <4>1. CASE i = n + 1
        BY <1>1, <2>1, <2>2, <4>1 DEF SetupHeads
      <4>2. CASE i \in SetupHeads(lines)
        <5>1. i \in 1..n /\ longer[i] = lines[i]
          BY <1>1, <1>3, <4>2
        <5>2. i \in DOMAIN longer
          BY <1>1, <2>1, <5>1
        <5>. QED BY <4>2, <5>1, <5>2 DEF SetupHeads
      <4>. QED BY <4>1, <4>2
    <3>. QED BY <3>1, <3>2
  <2>5. all # <<>> /\ all \in Seq(Outcomes)
        /\ all[1] = IF answers = <<>> THEN results[1] ELSE answers[1]
    <3> DEFINE x == results[1]
    <3>1. x \in Outcomes /\ all = Append(answers, x)
      BY <1>5, <2>1 DEF all, Answers
    <3>. HIDE DEF x
    <3>2. all # <<>> /\ all \in Seq(Outcomes)
      BY <3>1
    <3>3. all[1] = IF answers = <<>> THEN x ELSE answers[1]
      BY <3>1
    <3>. QED BY <3>2, <3>3 DEF x
  <2>6. \E i \in SetupHeads(longer) : /\ \A j \in SetupHeads(longer) : i <= j
                                      /\ longer[i][5] = all[1]
    <3>1. CASE answers = <<>>
      <4>1. SetupHeads(longer) = {n + 1}
        BY <2>4, <3>1 DEF Reports
      <4>. QED BY <1>1, <2>2, <2>5, <3>1, <4>1
    <3>2. CASE answers # <<>>
      <4>1. PICK i \in SetupHeads(lines) : /\ \A j \in SetupHeads(lines) : i <= j
                                           /\ lines[i][5] = answers[1]
        BY <3>2 DEF Reports
      <4>2. i \in SetupHeads(longer) /\ (\A j \in SetupHeads(longer) : i <= j)
            /\ longer[i][5] = answers[1]
        BY <1>1, <1>3, <2>4, <4>1
      <4>. QED BY <2>5, <3>2, <4>2
    <3>. QED BY <3>1, <3>2
  <2>7. Reports(longer, all, TRUE) /\ Reports(longer, all, FALSE)
    BY <2>5, <2>6 DEF Reports
  <2>. QED BY <1>1, <1>2, <1>5, <2>5, <2>7 DEF longer, all
<1>. QED BY <1>4, <1>5

LEMMA CandidateStep ==
  ASSUME HttpInv, RunCandidate
  PROVE  HttpInv'
<1>1. /\ client = "waiting" /\ next = "candidate"
      /\ UNCHANGED <<pid, setupRuns, client, checks>>
  BY DEF RunCandidate
<1>2. PICK results \in Prints, exited0 \in BOOLEAN, d \in 0..MaxTry :
        LET shown == IF d >= SubLimit THEN <<>> ELSE results
            lines == out \o ResultLines(shown)
        IN
        /\ Spend(d)
        /\ tried' = IF results = <<>> THEN tried
                    ELSE tried \cup {[context |-> "setup-env", outcome |-> results[1]]}
        /\ reported' = IF shown = <<>> THEN reported ELSE Append(reported, shown[1])
        /\ IF Accepts(shown, exited0) THEN out' = lines /\ next' = "end" /\ UNCHANGED py
           ELSE IF py < Candidates THEN out' = lines /\ py' = py + 1 /\ UNCHANGED next
           ELSE /\ out' = Append(lines, Line("setup-env", "HEAD", "SETUP_ENV_EXEC_ERROR"))
                /\ next' = "end" /\ UNCHANGED py
  BY DEF RunCandidate
<1> DEFINE shown == IF d >= SubLimit THEN <<>> ELSE results
           lines == out \o ResultLines(shown)
<1>0. shown \in {<<>>, results} /\ lines = out \o ResultLines(shown)
  OBVIOUS
<1>. HIDE DEF shown, lines
<1>3. HttpTypeOK /\ Printed /\ Parsed
  BY DEF HttpInv
<1>4. ScriptTypes /\ out \in Seq(Seq(Words)) /\ CheckTypes
  BY <1>3, HttpTypes
<1>5. AllLines(out, tried) /\ Reports(out, reported, FALSE) /\ reported \in Seq(Outcomes)
  BY <1>1, <1>3, <1>4 DEF Printed, ScriptTypes
<1>6. shown \in Prints
  BY <1>0 DEF Prints
<1>7. Backed(tried, tried', shown) /\ tried' \subseteq Heads
  <2>1. results # <<>> => results[1] \in Outcomes
    BY Prefixes
  <2>. QED BY <1>2, <1>4, <1>0, <2>1 DEF Backed, Heads, ScriptTypes
<1>8. /\ lines \in Seq(Seq(Words)) /\ AllLines(lines, tried')
      /\ Reports(lines, reported', shown # <<>>) /\ Reports(lines, reported', FALSE)
      /\ reported' \in Seq(Outcomes)
  <2>1. reported' = Answers(reported, shown)
    BY <1>2 DEF Answers, shown
  <2>. QED BY <1>4, <1>5, <1>6, <1>7, <1>0, <2>1, ResultsReported
<1>9. /\ next' \in {"candidate", "end"} /\ py' \in 1..Candidates
      /\ \/ /\ out' = lines /\ (next' = "end" => shown # <<>>)
         \/ /\ out' = Append(lines, Line("setup-env", "HEAD", "SETUP_ENV_EXEC_ERROR"))
            /\ next' = "end"
  <2>1. py \in 1..Candidates
    BY <1>4 DEF ScriptTypes
  <2>. QED BY <1>1, <1>2, <2>1, HttpAssumption DEF Accepts, lines, shown
<1>10. ScriptTypes'
  <2>1. clock' \in 0..(Limit + 1)
    BY <1>2, <1>4, SpendType
  <2>. QED BY <1>1, <1>4, <1>7, <1>8, <1>9, <2>1 DEF ScriptTypes
<1>11. Parsed' /\ CheckTypes'
  BY <1>1, <1>3, StillWaiting
<1>12. CASE out' = lines /\ (next' = "end" => shown # <<>>)
  <2>1. AllLines(out', tried') /\ Reports(out', reported', next' = "end")
    BY <1>8, <1>12 DEF Reports
  <2>. QED BY <1>8, <1>10, <1>11, <1>12, <2>1, HttpTypes DEF HttpInv, Printed
<1>13. CASE /\ out' = Append(lines, Line("setup-env", "HEAD", "SETUP_ENV_EXEC_ERROR"))
            /\ next' = "end"
  <2>1. out' \in Seq(Seq(Words)) /\ AllLines(out', tried') /\ Reports(out', reported', TRUE)
    BY <1>8, <1>13, EndLine, Disjoint
  <2>. QED BY <1>10, <1>11, <1>13, <2>1, HttpTypes DEF HttpInv, Printed
<1>. QED BY <1>9, <1>12, <1>13

LEMMA SetupStep ==
  ASSUME HttpInv, SetupEnds \/ SetupStarts
  PROVE  HttpInv'
<1>1. client = "waiting" /\ setupRuns' \in BOOLEAN
      /\ UNCHANGED <<next, py, clock, out, pid, tried, reported, client, checks>>
  BY DEF SetupEnds, SetupStarts, script
<1>2. HttpTypeOK /\ Printed /\ Parsed
  BY DEF HttpInv
<1>3. ScriptTypes /\ out \in Seq(Seq(Words)) /\ CheckTypes
  BY <1>2, HttpTypes
<1>4. ScriptTypes'
  BY <1>1, <1>3 DEF ScriptTypes
<1>5. Parsed' /\ CheckTypes'
  BY <1>1, <1>2, StillWaiting
<1>6. Printed'
  BY <1>1, <1>2 DEF Printed
<1>. QED BY <1>1, <1>3, <1>4, <1>5, <1>6, HttpTypes DEF HttpInv

LEMMA Concluded ==
  ASSUME HttpInv, AnswerInTime \/ GiveUp \/ Broken
  PROVE  /\ UNCHANGED <<next, py, clock, out, pid, tried, reported, setupRuns>>
         /\ client' \in {"answered", "late", "broken"}
         /\ checks' \in {<<NoCheck>>, ParseHTTPChecks(out)}
         /\ client' = "answered" => next = "end" /\ checks' = ParseHTTPChecks(out)
<1>1. UNCHANGED <<next, py, clock, out, pid, tried, reported, setupRuns>>
  BY DEF AnswerInTime, GiveUp, Broken, NoAnswer, Conclude, script
<1>2. ASSUME NEW how, Conclude(<<>>, how)
      PROVE  checks' = <<NoCheck>> /\ client' = how
  BY <1>2, NoLineParsed DEF Conclude
<1>3. ASSUME Conclude(<< <<"python3: not found">> >>, "broken")
      PROVE  checks' = <<NoCheck>> /\ client' = "broken"
  BY <1>3, NoLineParsed DEF Conclude
<1>4. ASSUME NEW how, Conclude(out, how), next = "end"
      PROVE  checks' = ParseHTTPChecks(out) /\ client' = how
  <2>1. AllLines(out, tried) /\ SetupHeads(out) # {}
    BY <1>4 DEF HttpInv, Printed, Reports
  <2>2. DOMAIN ParseHTTPChecks(out) # {}
    BY <2>1, ParsedFields DEF SetupHeads
  <2>. QED BY <1>4, <2>2 DEF Conclude
<1>5. CASE AnswerInTime
  BY <1>1, <1>4, <1>5 DEF AnswerInTime
<1>6. CASE GiveUp
  BY <1>1, <1>2, <1>6 DEF GiveUp
<1>7. CASE Broken
  <2>1. CASE Conclude(<<>>, "broken")
    BY <1>1, <1>2, <2>1
  <2>2. CASE next = "end" /\ Conclude(out, "broken")
    BY <1>1, <1>4, <2>2
  <2>3. CASE Conclude(<< <<"python3: not found">> >>, "broken")
    <3>1. checks' = <<NoCheck>> /\ client' = "broken"
      BY <1>3, <2>3
    <3>. QED BY <1>1, <3>1
  <2>. QED BY <1>7, <2>1, <2>2, <2>3 DEF Broken, NoAnswer
<1>. QED BY <1>5, <1>6, <1>7

\* The checks of the lines are checks, and so is the one that is made up.
LEMMA ChecksTyped ==
  ASSUME out \in Seq(Seq(Words)), AllLines(out, tried),
         NEW found \in {<<NoCheck>>, ParseHTTPChecks(out)}
  PROVE  /\ DOMAIN found \subseteq 1..(Len(out) + 1)
         /\ \A i \in DOMAIN found :
              found[i] \in [Context : Contexts, Method : Methods, OK : BOOLEAN,
                            Category : Categories]
<1> DEFINE n == Len(out)
<1>1. n \in Nat /\ DOMAIN out = 1..n
  OBVIOUS
<1>2. CASE found = <<NoCheck>>
  <2>1. NoCheck \in [Context : Contexts, Method : Methods, OK : BOOLEAN, Category : Categories]
    <3>1. "plain" \in Contexts /\ "HEAD" \in Methods /\ "UNKNOWN" \in Categories
      BY Disjoint DEF Contexts, Methods, Categories
    <3>. QED BY <3>1 DEF NoCheck, Check
  <2> DEFINE none == NoCheck
  <2>2. DOMAIN found = 1..1 /\ found[1] = none
    <3>. HIDE DEF none
    <3>1. found = <<none>>
      BY <1>2 DEF none
    <3>. QED BY <3>1
  <2>. QED BY <1>1, <2>1, <2>2
<1>3. CASE found = ParseHTTPChecks(out)
  <2>1. DOMAIN found = DOMAIN out
    BY <1>3, ParsedFields
  <2> DEFINE R == [Context : Contexts, Method : Methods, OK : BOOLEAN, Category : Categories]
  <2>2. ASSUME NEW i \in DOMAIN out PROVE found[i] \in R
    <3>1. /\ found[i] = Check(out[i][2], out[i][3], out[i][5] = "OK", out[i][5])
          /\ out[i][2] \in Contexts /\ out[i][3] \in Methods /\ out[i][5] \in Categories
      BY <1>3, ParsedFields
    <3>. QED BY <3>1 DEF Check
  <2>. HIDE DEF R, n
  <2>3. \A i \in DOMAIN found : found[i] \in R
    BY <2>1, <2>2
  <2>4. DOMAIN found \subseteq 1..(n + 1)
    BY <1>1, <2>1
  <2>. QED BY <2>3, <2>4 DEF R, n
<1>. QED BY <1>2, <1>3

LEMMA ConcludeStep ==
  ASSUME HttpInv, AnswerInTime \/ GiveUp \/ Broken
  PROVE  HttpInv'
<1>1. HttpTypeOK /\ Printed /\ Parsed
  BY DEF HttpInv
<1>2. ScriptTypes /\ out \in Seq(Seq(Words)) /\ AllLines(out, tried)
  BY <1>1, HttpTypes DEF Printed
<1>3. /\ UNCHANGED <<next, py, clock, out, pid, tried, reported, setupRuns>>
      /\ client' \in {"answered", "late", "broken"}
      /\ checks' \in {<<NoCheck>>, ParseHTTPChecks(out)}
      /\ client' = "answered" => next = "end" /\ checks' = ParseHTTPChecks(out)
  BY Concluded
<1>4. ScriptTypes'
  BY <1>2, <1>3 DEF ScriptTypes
<1>5. CheckTypes'
  BY <1>2, <1>3, ChecksTyped DEF CheckTypes
<1>6. Parsed'
  BY <1>3 DEF Parsed
<1>7. Printed'
  BY <1>1, <1>3 DEF Printed
<1>. QED BY <1>2, <1>3, <1>4, <1>5, <1>6, <1>7, HttpTypes DEF HttpInv

LEMMA HttpStill ==
  ASSUME HttpInv, UNCHANGED httpVars
  PROVE  HttpInv'
<1>1. UNCHANGED <<next, py, clock, out, pid, tried, reported, setupRuns, client, checks>>
  BY DEF httpVars, script
<1>2. HttpTypeOK'
  BY <1>1 DEF HttpInv, HttpTypeOK
<1>3. Printed' /\ Parsed'
  BY <1>1 DEF HttpInv, Printed, Parsed
<1>. QED BY <1>2, <1>3 DEF HttpInv

LEMMA HttpPreserves ==
  ASSUME HttpInv, HttpNext
  PROVE  HttpInv'
BY PlainStep, FindStep, CandidateStep, SetupStep, ConcludeStep DEF HttpNext

\* The deciding check is the first one of them.
LEMMA HeadIsFirst ==
  ASSUME HttpInv, Deciding # {}
  PROVE  \E d \in Deciding : /\ \A j \in Deciding : d <= j
                             /\ d \in DOMAIN checks /\ checks[d].Method = "HEAD"
                             /\ DecidingHead = checks[d]
<1>1. DOMAIN checks \subseteq Nat
  BY HttpTypes DEF HttpInv, CheckTypes
<1>2. /\ Deciding \subseteq DOMAIN checks
      /\ \A d \in Deciding : checks[d].Method = "HEAD"
  BY DEF Deciding, FindHTTPCheck
<1>3. \E d \in Deciding : \A j \in Deciding : d <= j
  BY <1>1, <1>2, LeastExists
<1> DEFINE first == CHOOSE d \in Deciding : \A j \in Deciding : d <= j
<1>4. first \in Deciding /\ \A j \in Deciding : first <= j
  BY <1>3
<1>5. DecidingHead = checks[first]
  BY DEF DecidingHead
<1>. QED BY <1>2, <1>4, <1>5

LEMMA Witnessed == HttpInv => VerdictIsWitnessed
<1>. SUFFICES ASSUME HttpInv, Done, Deciding # {}, DecidingHead.Category \in Outcomes
              PROVE  [context |-> DecidingHead.Context, outcome |-> DecidingHead.Category] \in tried
  BY DEF VerdictIsWitnessed
<1>1. PICK d \in DOMAIN checks : checks[d].Method = "HEAD" /\ DecidingHead = checks[d]
  BY HeadIsFirst
<1>2. checks \in {<<NoCheck>>, ParseHTTPChecks(out)} /\ AllLines(out, tried)
  BY DEF HttpInv, Parsed, Printed, Done
<1>3. CASE checks = <<NoCheck>>
  <2> DEFINE none == NoCheck
  <2>2. none.Category = "UNKNOWN"
    BY DEF NoCheck, Check
  <2>1. DOMAIN checks = 1..1 /\ checks[1] = none
    <3>. HIDE DEF none
    <3>1. checks = <<none>>
      BY <1>3 DEF none
    <3>. QED BY <3>1
  <2>. HIDE DEF none
  <2>. QED BY <1>1, <2>1, <2>2, Disjoint
<1>4. CASE checks = ParseHTTPChecks(out)
  <2>1. /\ d \in DOMAIN out
        /\ checks[d] = Check(out[d][2], out[d][3], out[d][5] = "OK", out[d][5])
        /\ out[d][3] = "HEAD" /\ out[d][5] \in Outcomes =>
             [context |-> out[d][2], outcome |-> out[d][5]] \in tried
    BY <1>1, <1>2, <1>4, ParsedFields
  <2>2. /\ checks[d].Context = out[d][2] /\ checks[d].Method = out[d][3]
        /\ checks[d].Category = out[d][5]
    BY <2>1, CheckFields
  <2>. QED BY <1>1, <2>1, <2>2
<1>. QED BY <1>2, <1>3, <1>4

LEMMA Decided == HttpInv => SetupEnvDecides
<1>. SUFFICES ASSUME HttpInv, client = "answered"
              PROVE  Status = IF reported # <<>> /\ reported[1] = "OK" THEN "PASS" ELSE "FAIL"
  BY DEF SetupEnvDecides
<1>1. checks = ParseHTTPChecks(out) /\ AllLines(out, tried) /\ Reports(out, reported, TRUE)
  BY DEF HttpInv, Parsed, Printed
<1>2. ASSUME NEW i \in DOMAIN out
      PROVE  /\ i \in DOMAIN checks
             /\ checks[i].Context = out[i][2] /\ checks[i].Method = out[i][3]
             /\ checks[i].OK = (out[i][5] = "OK")
  <2>1. /\ i \in DOMAIN checks
        /\ checks[i] = Check(out[i][2], out[i][3], out[i][5] = "OK", out[i][5])
    BY <1>1, ParsedFields
  <2>. QED BY <2>1, CheckFields
<1>3. DOMAIN checks = DOMAIN out
  BY <1>1, ParsedFields
<1>4. FindHTTPCheck("setup-env", "HEAD") = SetupHeads(out)
  BY <1>2, <1>3 DEF FindHTTPCheck, SetupHeads
<1>5. Deciding = SetupHeads(out) /\ SetupHeads(out) # {}
  BY <1>1, <1>4 DEF Deciding, Reports
<1>6. PICK d \in SetupHeads(out) : /\ \A j \in SetupHeads(out) : d <= j
                                   /\ DecidingHead = checks[d]
  BY <1>5, HeadIsFirst
<1>7. Status = IF out[d][5] = "OK" THEN "PASS" ELSE "FAIL"
  <2>1. d \in DOMAIN out
    BY <1>6 DEF SetupHeads
  <2>2. DecidingHead.OK <=> out[d][5] = "OK"
    BY <1>2, <1>6, <2>1
  <2>. QED BY <1>5, <2>2 DEF Status
<1>8. CASE reported = <<>>
  <2>1. out[d][5] \in OwnCauses
    BY <1>1, <1>6, <1>8 DEF Reports
  <2>. QED BY <1>7, <1>8, <2>1, Disjoint
<1>9. CASE reported # <<>>
  <2>1. PICK i \in SetupHeads(out) : /\ \A j \in SetupHeads(out) : i <= j
                                     /\ out[i][5] = reported[1]
    BY <1>1, <1>9 DEF Reports
  <2>2. i <= d /\ d <= i /\ i \in Nat /\ d \in Nat
    <3>1. SetupHeads(out) \subseteq Nat
      BY HttpTypes DEF SetupHeads, HttpInv
    <3>. QED BY <1>6, <2>1, <3>1
  <2>3. i = d
    BY <2>2
  <2>. QED BY <1>7, <1>9, <2>1, <2>3
<1>. QED BY <1>8, <1>9
-----------------------------------------------------------------------------
IInv == FieldInv /\ HttpInv

LEMMA Initially == Init => IInv
BY FieldsInitially, HttpInitially DEF Init, IInv

LEMMA StepPreserves == IInv /\ [Next]_vars => IInv'
<1>. SUFFICES ASSUME IInv, [Next]_vars PROVE IInv'
  OBVIOUS
<1>0. FieldInv /\ HttpInv
  BY DEF IInv
<1>1. CASE AskField
  <2>1. FieldNext /\ UNCHANGED httpVars
    BY <1>1 DEF AskField
  <2>. QED BY <1>0, <2>1, FieldsPreserve, HttpStill DEF IInv
<1>2. CASE CheckInternet
  <2>1. HttpNext /\ UNCHANGED fieldVars
    BY <1>2 DEF CheckInternet, HttpNext, Broken
  <2>. QED BY <1>0, <2>1, FieldsPreserve, HttpPreserves DEF IInv
<1>3. CASE UNCHANGED vars
  <2>1. UNCHANGED fieldVars /\ UNCHANGED httpVars
    BY <1>3 DEF vars
  <2>. QED BY <1>0, <2>1, FieldsPreserve, HttpStill DEF IInv
<1>. QED BY <1>1, <1>2, <1>3 DEF Next

LEMMA Invariance == Spec => []IInv
BY Initially, StepPreserves, PTL DEF Spec
-----------------------------------------------------------------------------
\* The types of the fields' and of the checks' variables.
THEOREM TypeCorrect == Spec => []TypeOK
<1>1. IInv => TypeOK
  BY DEF IInv, FieldInv, FieldShape, HttpInv, TypeOK
<1>. QED BY <1>1, Invariance, PTL

\* While the connection lasts, a command that hangs costs its own entry of the
\* report and no other, in every one of the fifteen fields: a script that is shown
\* is shown whole, and one hang alone does not keep it from being shown.
THEOREM HangIsLocal == Spec => []HangCostsItself
<1>1. IInv => WholeWhenShown
  <2> SUFFICES ASSUME IInv, at \in DOMAIN Fields, field[1] = "output", ~lost, AllCaught,
                      said["no_setup"] = 0
               PROVE  part = Len(Script.parts)
    BY DEF WholeWhenShown, Shown
  <2>1. pc \in {"runs", "ended", "died"}
    BY DEF IInv, FieldInv, FieldShape, FieldTypeOK
  <2>2. pc = "ended"
    BY <2>1 DEF IInv, FieldInv, FieldShape, Come
  <2>. QED BY <2>2 DEF IInv, FieldInv, FieldShape, Come
<1>2. IInv => OneHangIsShown
  <2> SUFFICES ASSUME IInv, at \in DOMAIN Fields, field = <<"nothing">>, ~lost,
                      OwnLimits(Script), Quick
               PROVE  FALSE
    <3>1. IInv => said["timed_out"] \in Nat /\ spent \in Nat
      BY DEF IInv, FieldInv, FieldShape, FieldTypeOK, Entries, Prompt
    <3>. QED BY <3>1 DEF OneHangIsShown, Quick, Prompt
  <2>1. Affordable(Script)
    BY FieldsAreAffordable DEF Script
  <2>2. elapsed < Script.limit
    BY <2>1, QuickIsInTime DEF IInv
  <2>3. elapsed >= Script.limit /\ elapsed \in Nat
    BY DEF IInv, FieldInv, FieldShape, FieldTypeOK, Come
  <2>. QED BY <2>2, <2>3, ScriptLimit
<1>. QED BY <1>1, <1>2, Invariance, PTL DEF HangCostsItself

\* What a script printed before it died in time is shown.
THEOREM DeathIsShown == Spec => []DeathKeepsSamples
<1>1. IInv => DeathKeepsSamples
  <2> SUFFICES ASSUME IInv, pc = "died", at \in DOMAIN Fields, field # <<"waiting">>,
                      elapsed < Script.limit, ~lost
               PROVE  field[1] = "output"
    BY DEF DeathKeepsSamples, Asking, Shown
  <2>1. elapsed \in Nat /\ Script.limit \in Nat
    BY ScriptLimit DEF IInv, FieldInv, FieldShape, FieldTypeOK
  <2>2. field # <<"nothing">>
    BY <2>1 DEF IInv, FieldInv, FieldShape, Come
  <2>3. field = <<"output", said>>
    BY <2>2 DEF IInv, FieldInv, FieldShape, FieldTypeOK
  <2>. QED BY <2>3
<1>. QED BY <1>1, Invariance, PTL

\* What the operator is told about a HEAD request is what became of one that the
\* device made, whatever was cut short, lost or repeated before.
THEOREM WitnessedVerdict == Spec => []VerdictIsWitnessed
<1>1. IInv => VerdictIsWitnessed
  BY Witnessed DEF IInv
<1>. QED BY <1>1, Invariance, PTL

\* With an answer in time the setup environment alone decides, for any number of
\* interpreters, causes and limits.
THEOREM SetupDecides == Spec => []SetupEnvDecides
<1>1. IInv => SetupEnvDecides
  BY Decided DEF IInv
<1>. QED BY <1>1, Invariance, PTL
=============================================================================
