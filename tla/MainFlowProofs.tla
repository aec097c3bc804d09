--------------------------- MODULE MainFlowProofs ---------------------------
(***************************************************************************)
(* Proofs about MainFlow, for any lines, any number of them and any command *)
(* lines: nothing is written that was not asked for, what follows what in  *)
(* the input, and what a file can do after the startup menu.               *)
(***************************************************************************)
EXTENDS MainFlow, FiniteSetTheorems, TLAPS

(* Where main is on its way through a guarded action.                      *)
BeforeWhich == {"flags", "menu", "ip", "cidr", "header", "discover", "probe", "json", "which"}
Asked == {"confirm", "execute", "reboot"}
Located == {"given", "text", "connect", "replace"} \cup Asked
Acting == {"target", "choose"} \cup Located
AfterWhich == {"action"} \cup Acting
Closing == {"report", "over", "exit", "gone"}

ActionSaid ==
  cfg.actions = {action} \/ (answers["action"] \in DOMAIN Menu
                             /\ Menu[answers["action"]] = action)
DeviceSaid == found > 1 => answers["choose"] \in {"1", "2"}
ReplaceSaid == exists => answers["replace"] = "yes" \/ (action = "repair" /\ cfg.overwrite)

(* What has been said by the time main gets somewhere.                     *)
Guarded ==
  /\ pc \in BeforeWhich => action = "diagnosis" /\ chosen = 0
  /\ pc \in (BeforeWhich \cup AfterWhich) \ {"flags"} => Cardinality(cfg.actions) <= 1
  /\ pc \in Acting => ActionSaid
  /\ pc \in Located => DeviceSaid
  /\ pc \in Asked => ReplaceSaid
  /\ pc \in {"execute", "reboot"} => wrote
  /\ wrote => /\ pc \in {"execute", "reboot", "over", "exit", "gone"}
              /\ answers["confirm"] = "phrase"
              /\ ActionSaid /\ DeviceSaid /\ ReplaceSaid

(* A sequence, its first element and the rest.                             *)
LEMMA HeadAndTail ==
  ASSUME NEW T, NEW s \in Seq(T), s # <<>>
  PROVE  /\ Head(s) \in T /\ Head(s) = s[1] /\ Tail(s) \in Seq(T)
         /\ Len(s) \in Nat \ {0} /\ Len(Tail(s)) = Len(s) - 1
         /\ \A k \in 1..Len(Tail(s)) : Tail(s)[k] = s[k + 1] /\ k + 1 \in 1..Len(s)
OBVIOUS

LEMMA LineParts ==
  ASSUME NEW n \in 0..Bound, NEW text \in Lines
  PROVE  Line(n, text) \in LinesRead /\ Line(n, text).n = n /\ Line(n, text).text = text
BY DEF Line, LinesRead

LEMMA Reads ==
  ASSUME NEW l \in LinesRead
  PROVE  l.n \in 0..Bound /\ l.text \in Lines
BY DEF LinesRead

LEMMA BoundIsNat == Bound \in Nat
BY FlowAssumption DEF Bound

LEMMA Initially == Init => TypeOK /\ Guarded
<1> SUFFICES ASSUME Init PROVE TypeOK /\ Guarded
  OBVIOUS
<1>1. cfg \in Flags /\ cfg.target \in {"none", "ip", "range", "bad"}
  BY FlowAssumption DEF Init
<1>2. <<>> \in Seq(LinesRead) /\ 0 \in 0..Bound
  BY BoundIsNat
<1>3. TypeOK
  <2>1. buf \in Seq(LinesRead) /\ arrived \in 0..Bound /\ last \in 0..Bound
    BY <1>2 DEF Init
  <2>2. answers \in [Questions -> Lines \cup {Unasked}]
    BY DEF Init
  <2>3. found \in 0..2 /\ chosen \in 0..found
    BY DEF Init
  <2>. QED BY <1>1, <2>1, <2>2, <2>3 DEF Init, TypeOK, Steps
<1>4. Guarded
  BY DEF Init, Guarded, BeforeWhich, AfterWhich, Acting, Located, Asked
<1>. QED BY <1>3, <1>4

(* One question.                                                           *)
LEMMA AskEffect ==
  ASSUME TypeOK, NEW q \in Questions, Ask(q)
  PROVE  /\ pc = q /\ UNCHANGED <<setting, arrived, ended>>
         /\ Said \in Lines
         /\ answers' = [answers EXCEPT ![q] = Said]
         /\ answers' \in [Questions -> Lines \cup {Unasked}]
         /\ buf' \in Seq(LinesRead)
         /\ last' \in 0..Bound
         /\ fresh' = FALSE
<1>1. buf \in Seq(LinesRead) /\ buf # <<>>
  BY DEF TypeOK, Ask
<1>2. Head(buf) \in LinesRead /\ Tail(buf) \in Seq(LinesRead)
  BY <1>1, HeadAndTail
<1>3. Head(buf).n \in 0..Bound /\ Head(buf).text \in Lines
  BY <1>2, Reads
<1>4. Bound' = Bound /\ LinesRead' = LinesRead
  BY DEF Ask, setting, Bound, LinesRead
<1>. QED BY <1>2, <1>3, <1>4 DEF TypeOK, Ask, Said

LEMMA FillEffect ==
  ASSUME TypeOK, Fill
  PROVE  /\ UNCHANGED <<setting, pc, target, device, action, fresh, answers, last>>
         /\ buf = <<>> /\ pc \in Questions
         /\ ended' \in BOOLEAN /\ (ended => ended')
         /\ arrived' \in 0..Bound
         /\ buf' \in Seq(LinesRead)
         /\ \/ /\ buf' = <<Line(0, "blank")>> /\ arrived' = arrived
               /\ kind # "terminal" => ended'
            \/ /\ ~ended /\ kind # "null" /\ buf' # <<>>
               /\ arrived' = arrived + Len(buf')
               /\ \A k \in DOMAIN buf' : buf'[k].n = arrived + k
               /\ kind = "terminal" => Len(buf') = 1
         /\ kind = "file" => ended'
<1>1. PICK texts \in Arrivals :
        /\ buf' = IF texts = <<>> THEN <<Line(0, "blank")>>
                  ELSE [k \in DOMAIN texts |-> Line(arrived + k, texts[k])]
        /\ arrived' = arrived + Len(texts)
        /\ ended' = (ended \/ kind = "file" \/ (texts = <<>> /\ kind # "terminal"))
  BY DEF Fill
<1>2. "blank" \in Lines /\ MaxLines \in Nat /\ MaxPiped \in Nat /\ arrived \in 0..Bound
  BY FlowAssumption DEF TypeOK
<1>3. /\ texts \in Seq(Lines) /\ arrived + Len(texts) <= Bound
      /\ texts # <<>> => ~ended /\ kind # "null" /\ (kind = "terminal" => Len(texts) = 1)
  <2>0. <<>> \in Seq(Lines) /\ Len(<<>>) = 0 /\ arrived + 0 <= Bound
    BY <1>2, BoundIsNat
  <2>1. CASE texts = <<>>
    BY <2>0, <2>1
  <2>2. CASE texts # <<>> /\ kind = "terminal"
    <3>1. ~ended
      BY <2>2 DEF Arrivals
    <3>2. arrived < MaxLines /\ \E l \in Lines : texts = <<l>>
      <4>1. texts \in IF arrived < MaxLines THEN {<<l>> : l \in Lines} ELSE {}
        BY <2>2, <3>1 DEF Arrivals
      <4>. QED BY <4>1
    <3>3. texts \in Seq(Lines) /\ Len(texts) = 1
      BY <3>2
    <3>. QED BY <1>2, <2>2, <3>1, <3>2, <3>3 DEF Bound
  <2>3. CASE texts # <<>> /\ kind # "terminal"
    <3>1. ~ended /\ kind # "null" /\ texts \in BoundedSeq(Lines, MaxPiped - arrived)
      BY <2>3 DEF Arrivals
    <3>2. PICK m \in 0..(MaxPiped - arrived) : texts \in [1..m -> Lines]
      BY <3>1 DEF BoundedSeq, SeqOf
    <3>3. m \in Nat /\ arrived + m <= MaxPiped
      BY <1>2, <2>3 DEF Bound
    <3>4. texts \in Seq(Lines) /\ Len(texts) = m
      BY <3>2, <3>3
    <3>. QED BY <1>2, <2>3, <3>1, <3>3, <3>4 DEF Bound
  <2>. QED BY <2>1, <2>2, <2>3
<1>4. Bound' = Bound /\ LinesRead' = LinesRead
  BY DEF Fill, setting, Bound, LinesRead
<1>5. UNCHANGED <<setting, pc, target, device, action, fresh, answers, last>>
      /\ buf = <<>> /\ pc \in Questions
  BY DEF Fill
<1>6. ended' \in BOOLEAN /\ (ended => ended') /\ (kind = "file" => ended')
  BY <1>1 DEF TypeOK
<1>7. CASE texts = <<>>
  <2>1. arrived' = arrived
    BY <1>1, <1>2, <1>7
  <2>2. Line(0, "blank") \in LinesRead
    BY <1>2, BoundIsNat, LineParts
  <2>3. <<Line(0, "blank")>> \in Seq(LinesRead)
    BY <2>2
  <2>4. buf' = <<Line(0, "blank")>> /\ (kind # "terminal" => ended')
    BY <1>1, <1>7
  <2>. QED BY <1>2, <1>4, <1>5, <1>6, <2>1, <2>3, <2>4
<1>8. CASE texts # <<>>
  <2>1. Len(texts) \in Nat /\ DOMAIN texts = 1..Len(texts)
    BY <1>3
  <2>2. \A k \in 1..Len(texts) : texts[k] \in Lines /\ arrived + k \in 0..Bound
    BY <1>2, <1>3, <2>1, BoundIsNat
  <2>3. buf' = [k \in 1..Len(texts) |-> Line(arrived + k, texts[k])]
    BY <1>1, <1>8, <2>1
  <2>4. \A k \in 1..Len(texts) : Line(arrived + k, texts[k]) \in LinesRead
                                 /\ Line(arrived + k, texts[k]).n = arrived + k
    BY <2>2, LineParts
  <2>5. buf' \in Seq(LinesRead) /\ Len(buf') = Len(texts)
    BY <2>1, <2>3, <2>4
  <2>6. \A k \in DOMAIN buf' : buf'[k].n = arrived + k
    BY <2>3, <2>4
  <2>7. Len(texts) # 0
    BY <1>3, <1>8
  <2>8. buf' # <<>>
    BY <2>5, <2>7
  <2>9. arrived' \in 0..Bound
    BY <1>1, <1>2, <1>3, <2>1, BoundIsNat
  <2>. QED BY <1>1, <1>3, <1>4, <1>5, <1>6, <1>8, <2>5, <2>6, <2>8, <2>9
<1>. QED BY <1>7, <1>8

(* A step that asks nothing and reads nothing, but may take a new reader.   *)
Silent == \/ CheckFlags \/ Header \/ DiscoverTargets \/ Probe \/ ReportJSON \/ Report \/ Which
          \/ TakeTarget \/ TakeText \/ Connect \/ Execute \/ Returns
Answer == \/ PromptStartup \/ PromptAddress \/ PromptAction \/ Choose \/ PromptText
          \/ PromptReplace \/ PromptConfirm \/ PromptReboot \/ PromptExit

LEMMA StepKinds == Next => Fill \/ Silent \/ Answer
BY DEF Next, Silent, Answer

LEMMA SilentInput ==
  ASSUME TypeOK, Silent
  PROVE  /\ UNCHANGED <<setting, arrived, ended, answers, last, LinesRead, Bound>>
         /\ \/ UNCHANGED <<buf, fresh>>
            \/ buf' = <<>> /\ fresh' = TRUE /\ (Which \/ Returns)
         /\ buf' \in Seq(LinesRead) /\ fresh' \in BOOLEAN
         /\ pc \notin Questions
<1>1. /\ UNCHANGED <<setting, arrived, ended, answers, last>>
      /\ \/ UNCHANGED <<buf, fresh>>
         \/ buf' = <<>> /\ fresh' = TRUE /\ (Which \/ Returns)
      /\ pc \notin Questions
  BY DEF Silent, CheckFlags, Header, DiscoverTargets, Probe, ReportJSON, Report, Which, TakeTarget,
         TakeText, Connect, Execute, Returns, NewReader, input, Questions
<1>2. UNCHANGED <<LinesRead, Bound>>
  BY <1>1 DEF setting, LinesRead, Bound
<1>3. <<>> \in Seq(LinesRead)
  OBVIOUS
<1>. QED BY <1>1, <1>2, <1>3 DEF TypeOK

LEMMA AnswerInput ==
  ASSUME TypeOK, Answer
  PROVE  /\ pc \in Questions /\ Ask(pc)
         /\ UNCHANGED <<setting, arrived, ended, LinesRead, Bound>>
         /\ answers' \in [Questions -> Lines \cup {Unasked}]
         /\ buf' \in Seq(LinesRead) /\ last' \in 0..Bound /\ fresh' = FALSE
<1>1. PICK q \in Questions : Ask(q)
  BY DEF Answer, PromptStartup, PromptAddress, PromptAction, Choose, PromptText, PromptReplace,
         PromptConfirm, PromptReboot, PromptExit, Questions
<1>2. UNCHANGED setting
  BY <1>1 DEF Ask
<1>3. UNCHANGED <<LinesRead, Bound>>
  BY <1>2 DEF setting, LinesRead, Bound
<1>4. pc = q
  BY <1>1 DEF Ask
<1>. QED BY <1>1, <1>2, <1>3, <1>4, AskEffect

LEMMA TypesPreserved == TypeOK /\ Guarded /\ [Next]_vars => TypeOK'
<1> SUFFICES ASSUME TypeOK, Guarded, [Next]_vars PROVE TypeOK'
  OBVIOUS
<1>1. CASE Fill
  <2>1. UNCHANGED <<LinesRead, Bound>>
    BY <1>1, FillEffect DEF setting, LinesRead, Bound
  <2>. QED BY <2>1, <1>1, FillEffect DEF TypeOK, setting, device
<1>2. CASE Silent
  <2>1. /\ pc' \in Steps \cup Questions
        /\ target' = target
        /\ found' \in 0..2 /\ chosen' \in 0..found'
        /\ action' \in GuardedActions \cup {"diagnosis"}
        /\ exists' \in BOOLEAN /\ wrote' \in BOOLEAN
    <3> USE DEF TypeOK, Exits, Steps, Questions, device
    <3>1. CASE CheckFlags \/ Header \/ DiscoverTargets \/ ReportJSON \/ Report \/ Returns
      BY <3>1 DEF CheckFlags, Header, DiscoverTargets, ReportJSON, Report, Returns
    <3>2. CASE Probe
      <4>1. chosen = 0
        BY <3>2 DEF Probe, Guarded, BeforeWhich
      <4>. QED BY <3>2, <4>1 DEF Probe
    <3>3. CASE Which
      <4>1. action' \in GuardedActions \cup {"diagnosis"}
        BY <3>3, FlowAssumption DEF Which
      <4>. QED BY <3>3, <4>1 DEF Which
    <3>4. CASE TakeTarget \/ TakeText
      BY <3>4 DEF TakeTarget, TakeText
    <3>5. CASE Connect \/ Execute
      BY <3>5 DEF Connect, Execute
    <3>. QED BY <1>2, <3>1, <3>2, <3>3, <3>4, <3>5 DEF Silent
  <2>2. cfg' = cfg /\ kind' = kind /\ system' = system
    BY <1>2, SilentInput DEF setting
  <2>. QED BY <1>2, <2>1, <2>2, SilentInput DEF TypeOK
<1>3. CASE Answer
  <2>1. /\ pc' \in Steps \cup Questions
        /\ target' \in {"none", "ip", "range", "bad"}
        /\ found' = found /\ chosen' \in 0..found
        /\ action' \in GuardedActions \cup {"diagnosis"}
        /\ exists' = exists /\ wrote' \in BOOLEAN
    <3> USE DEF TypeOK, Steps, Questions, device
    <3>1. CASE PromptStartup \/ PromptAddress
      BY <3>1 DEF PromptStartup, PromptAddress
    <3>2. CASE PromptAction
      BY <3>2 DEF PromptAction, Menu, GuardedActions
    <3>3. CASE Choose
      BY <3>3 DEF Choose, Positions
    <3>4. CASE PromptText \/ PromptReplace \/ PromptConfirm
      BY <3>4 DEF PromptText, PromptReplace, PromptConfirm
    <3>5. CASE PromptReboot \/ PromptExit
      BY <3>5 DEF PromptReboot, PromptExit
    <3>. QED BY <1>3, <3>1, <3>2, <3>3, <3>4, <3>5 DEF Answer
  <2>2. cfg' = cfg /\ kind' = kind /\ system' = system
    BY <1>3, AnswerInput DEF setting
  <2>. QED BY <1>3, <2>1, <2>2, AnswerInput DEF TypeOK
<1>4. CASE UNCHANGED vars
  BY <1>4 DEF vars, TypeOK, LinesRead, Bound
<1>. QED BY <1>1, <1>2, <1>3, <1>4, StepKinds

LEMMA ActionsAreFinite ==
  ASSUME TypeOK
  PROVE  IsFiniteSet(cfg.actions) /\ Cardinality(cfg.actions) \in Nat
<1>1. cfg.actions \subseteq GuardedActions
  BY FlowAssumption DEF TypeOK
<1>2. IsFiniteSet(GuardedActions)
  <2>1. IsFiniteSet({"repair"} \cup {"modem-workaround"}) /\ IsFiniteSet({"custom-install"})
    BY FS_Singleton, FS_Union
  <2>2. GuardedActions = ({"repair"} \cup {"modem-workaround"}) \cup {"custom-install"}
    BY DEF GuardedActions
  <2>. QED BY <2>1, <2>2, FS_Union
<1>. QED BY <1>1, <1>2, FS_Subset, FS_CardinalityType

(* If at most one action is named, the one that is named is the only one.  *)
LEMMA OneAction ==
  ASSUME TypeOK, Cardinality(cfg.actions) <= 1, NEW a \in cfg.actions
  PROVE  cfg.actions = {a}
<1>1. IsFiniteSet(cfg.actions) /\ Cardinality(cfg.actions) \in Nat
  BY ActionsAreFinite
<1>2. IsFiniteSet(cfg.actions \ {a}) /\ Cardinality(cfg.actions \ {a}) = Cardinality(cfg.actions) - 1
  BY <1>1, FS_RemoveElement
<1>3. Cardinality(cfg.actions \ {a}) \in Nat
  BY <1>2, FS_CardinalityType
<1>4. cfg.actions \ {a} = {}
  BY <1>1, <1>2, <1>3, FS_EmptySet
<1>. QED BY <1>4

LEMMA GuardedPreserved == TypeOK /\ Guarded /\ [Next]_vars => Guarded'
<1> SUFFICES ASSUME TypeOK, Guarded, [Next]_vars PROVE Guarded'
  OBVIOUS
<1> USE DEF Guarded, BeforeWhich, AfterWhich, Acting, Located, Asked, setting, device, input
<1>1. CASE Fill
  BY <1>1, FillEffect DEF ActionSaid, DeviceSaid, ReplaceSaid
<1>2. CASE Silent
  <2>0. UNCHANGED <<cfg, answers>>
    BY <1>2, SilentInput
  <2> USE <2>0 DEF ActionSaid, DeviceSaid, ReplaceSaid, Exits
  <2>1. CASE CheckFlags
    BY <2>1, ActionsAreFinite DEF CheckFlags
  <2>2. CASE Header \/ DiscoverTargets \/ ReportJSON \/ Report \/ Returns
    BY <2>2 DEF Header, DiscoverTargets, ReportJSON, Report, Returns
  <2>3. CASE Probe
    BY <2>3 DEF Probe
  <2>4. CASE Which
    <3>1. cfg.actions # {} => cfg.actions = {action'}
      BY <2>4, OneAction DEF Which
    <3>. QED BY <2>4, <3>1 DEF Which
  <2>5. CASE TakeTarget
    BY <2>5 DEF TakeTarget
  <2>6. CASE TakeText
    BY <2>6 DEF TakeText
  <2>7. CASE Connect
    BY <2>7 DEF Connect
  <2>8. CASE Execute
    BY <2>8 DEF Execute
  <2>. QED BY <1>2, <2>1, <2>2, <2>3, <2>4, <2>5, <2>6, <2>7, <2>8 DEF Silent
<1>3. CASE Answer
  <2>0. cfg' = cfg /\ pc \in Questions /\ answers' = [answers EXCEPT ![pc] = Said] /\ Said \in Lines
    BY <1>3, AnswerInput, AskEffect
  <2>1. /\ pc # "action" => answers'["action"] = answers["action"]
        /\ pc # "choose" => answers'["choose"] = answers["choose"]
        /\ pc # "replace" => answers'["replace"] = answers["replace"]
        /\ pc # "confirm" => answers'["confirm"] = answers["confirm"]
        /\ answers'[pc] = Said
    BY <2>0 DEF TypeOK, Questions
  <2>2. CASE PromptStartup
    BY <2>0, <2>1, <2>2 DEF PromptStartup, Ask
  <2>3. CASE PromptAddress
    BY <2>0, <2>1, <2>3 DEF PromptAddress, Ask
  <2>4. CASE PromptAction
    <3>1. pc = "action" /\ UNCHANGED device
      BY <2>4 DEF PromptAction, Ask
    <3>2. pc' \in {"target", "report", "action"} /\ (pc' = "target" => ActionSaid')
      BY <2>1, <2>4, <3>1 DEF PromptAction, ActionSaid
    <3>. QED BY <2>0, <2>1, <3>1, <3>2
  <2>5. CASE Choose
    <3>1. pc = "choose" /\ UNCHANGED <<target, found, exists, wrote, action>>
      BY <2>5 DEF Choose, Ask
    <3>2. pc' \in {"choose", "given"} /\ (pc' = "given" => answers'["choose"] \in {"1", "2"})
      BY <2>1, <2>5, <3>1 DEF Choose, Positions, TypeOK
    <3>. QED BY <2>0, <2>1, <3>1, <3>2 DEF ActionSaid, DeviceSaid
  <2>6. CASE PromptText
    BY <2>0, <2>1, <2>6 DEF PromptText, Ask, ActionSaid, DeviceSaid
  <2>7. CASE PromptReplace
    <3>1. pc = "replace" /\ UNCHANGED <<device, action>>
      BY <2>7 DEF PromptReplace, Ask
    <3>2. pc' \in {"replace", "confirm", "over"} /\ (pc' = "confirm" => answers'["replace"] = "yes")
      BY <2>1, <2>7, <3>1 DEF PromptReplace, YesNo
    <3>. QED BY <2>0, <2>1, <3>1, <3>2 DEF ActionSaid, DeviceSaid, ReplaceSaid
  <2>8. CASE PromptConfirm
    BY <2>0, <2>1, <2>8 DEF PromptConfirm, Ask, ActionSaid, DeviceSaid, ReplaceSaid
  <2>9. CASE PromptReboot \/ PromptExit
    BY <2>0, <2>1, <2>9 DEF PromptReboot, PromptExit, Ask, ActionSaid, DeviceSaid, ReplaceSaid
  <2>. QED BY <1>3, <2>2, <2>3, <2>4, <2>5, <2>6, <2>7, <2>8, <2>9 DEF Answer
<1>4. CASE UNCHANGED vars
  BY <1>4 DEF vars, ActionSaid, DeviceSaid, ReplaceSaid
<1>. QED BY <1>1, <1>2, <1>3, <1>4, StepKinds
-----------------------------------------------------------------------------
(* What is read ahead.  The lines of the input have consecutive numbers; the *)
(* blank of the end of the input has the number 0.                          *)
Blanks == \A k \in DOMAIN buf : buf[k].n = 0

Numbered ==
  /\ \A k \in DOMAIN buf : buf[k].n # 0 => buf[k].n = arrived - Len(buf) + k
  /\ \A k \in DOMAIN buf : buf[k].n = 0 => Len(buf) = 1 /\ (kind # "terminal" => ended)
  /\ kind # "terminal" /\ ~fresh => last = arrived - Len(buf) \/ (ended /\ Blanks)
  /\ kind = "terminal" => /\ Len(buf) <= 1 /\ (buf # <<>> => pc \in Questions)
                          /\ IF Blanks THEN last = arrived ELSE last = arrived - Len(buf)

LEMMA NumberedPreserved == TypeOK /\ Numbered /\ [Next]_vars => Numbered'
<1> SUFFICES ASSUME TypeOK, Numbered, [Next]_vars PROVE Numbered'
  OBVIOUS
<1>0. buf \in Seq(LinesRead) /\ arrived \in Nat /\ last \in Nat
  BY BoundIsNat DEF TypeOK
<1>1. CASE Fill
  <2>1. /\ UNCHANGED <<kind, pc, fresh, last>> /\ buf = <<>> /\ pc \in Questions
        /\ (ended => ended') /\ buf' \in Seq(LinesRead')
    <3>1. LinesRead' = LinesRead
      BY <1>1, FillEffect DEF setting, LinesRead, Bound
    <3>. QED BY <1>1, <3>1, FillEffect DEF setting
  <2>2. kind = "terminal" => last = arrived
    BY <2>1 DEF Numbered, Blanks
  <2>3. kind # "terminal" /\ ~fresh => last = arrived \/ ended
    BY <1>0, <2>1 DEF Numbered, Blanks
  <2>4. CASE buf' = <<Line(0, "blank")>> /\ arrived' = arrived /\ (kind # "terminal" => ended')
    <3>1. Len(buf') = 1 /\ DOMAIN buf' = {1} /\ buf'[1].n = 0
      BY <2>4 DEF Line
    <3>. QED BY <1>0, <2>1, <2>2, <2>3, <2>4, <3>1 DEF Numbered, Blanks
  <2>5. CASE /\ ~ended /\ kind # "null" /\ buf' # <<>>
             /\ arrived' = arrived + Len(buf')
             /\ \A k \in DOMAIN buf' : buf'[k].n = arrived + k
             /\ kind = "terminal" => Len(buf') = 1
    <3>1. Len(buf') \in Nat \ {0} /\ DOMAIN buf' = 1..Len(buf')
      BY <2>1, <2>5
    <3>2. \A k \in DOMAIN buf' : buf'[k].n # 0 /\ buf'[k].n = arrived' - Len(buf') + k
      BY <1>0, <2>5, <3>1
    <3>3. ~Blanks'
      BY <3>1, <3>2 DEF Blanks
    <3>4. arrived' - Len(buf') = arrived
      BY <1>0, <2>5, <3>1
    <3>. QED BY <1>0, <2>1, <2>2, <2>3, <2>5, <3>1, <3>2, <3>3, <3>4 DEF Numbered
  <2>. QED BY <1>1, <2>4, <2>5, FillEffect
<1>2. CASE Silent
  <2>1. UNCHANGED <<kind, arrived, ended, last>>
    BY <1>2, SilentInput DEF setting
  <2>2. kind = "terminal" => buf = <<>> /\ last = arrived
    BY <1>2, SilentInput DEF Numbered, Blanks
  <2>3. CASE UNCHANGED <<buf, fresh>>
    BY <2>1, <2>2, <2>3 DEF Numbered, Blanks
  <2>4. CASE buf' = <<>> /\ fresh' = TRUE
    BY <2>1, <2>2, <2>4 DEF Numbered, Blanks
  <2>. QED BY <1>2, <2>3, <2>4, SilentInput
<1>3. CASE Answer
  <2>1. /\ UNCHANGED <<kind, arrived, ended>> /\ buf # <<>> /\ buf' = Tail(buf) /\ fresh' = FALSE
        /\ last' = IF Head(buf).n = 0 THEN last ELSE Head(buf).n
    BY <1>3, AnswerInput DEF Ask, setting
  <2>2. /\ Head(buf) = buf[1] /\ Len(buf) \in Nat \ {0} /\ Len(buf') = Len(buf) - 1
        /\ DOMAIN buf = 1..Len(buf) /\ DOMAIN buf' = 1..Len(buf')
        /\ \A k \in DOMAIN buf' : buf'[k] = buf[k + 1] /\ k + 1 \in DOMAIN buf
    BY <1>0, <2>1, HeadAndTail
  <2>3. CASE buf[1].n = 0
    <3>1. Len(buf) = 1 /\ DOMAIN buf' = {} /\ last' = last /\ (kind # "terminal" => ended)
      BY <2>1, <2>2, <2>3 DEF Numbered
    <3>2. Blanks
      BY <2>2, <2>3, <3>1 DEF Blanks
    <3>. QED BY <1>0, <2>1, <2>2, <3>1, <3>2 DEF Numbered, Blanks
  <2>4. CASE buf[1].n # 0
    <3>1. last' = arrived' - Len(buf')
      BY <1>0, <2>1, <2>2, <2>4 DEF Numbered
    <3>2. kind = "terminal" => Len(buf') = 0 /\ buf' = <<>>
      BY <1>0, <2>1, <2>2, HeadAndTail DEF Numbered
    <3>3. \A k \in DOMAIN buf' : buf'[k].n # 0 => buf'[k].n = arrived' - Len(buf') + k
      BY <1>0, <2>1, <2>2 DEF Numbered
    <3>4. \A k \in DOMAIN buf' : buf'[k].n # 0
      BY <1>0, <2>2, <2>4 DEF Numbered
    <3>. QED BY <1>0, <2>1, <2>2, <3>1, <3>2, <3>3, <3>4 DEF Numbered, Blanks
  <2>. QED BY <2>3, <2>4
<1>4. CASE UNCHANGED vars
  BY <1>4 DEF vars, Numbered, Blanks
<1>. QED BY <1>1, <1>2, <1>3, <1>4, StepKinds
-----------------------------------------------------------------------------
(* What a file leaves to the reader after the one of the startup menu.      *)
MenuAnswered == answers["menu"] # Unasked

FileRead ==
  kind = "file" =>
    /\ buf # <<>> \/ MenuAnswered => ended
    /\ MenuAnswered /\ pc \in AfterWhich => \A k \in DOMAIN buf : buf[k].text = "blank"
    /\ MenuAnswered => ~wrote /\ (action = "diagnosis" \/ cfg.actions = {action})

LEMMA FileReadPreserved == TypeOK /\ Guarded /\ FileRead /\ [Next]_vars => FileRead'
<1> SUFFICES ASSUME TypeOK, Guarded, FileRead, [Next]_vars, kind' = "file"
             PROVE  FileRead'
  BY DEF FileRead
<1> USE DEF FileRead, MenuAnswered
<1>0. kind = "file"
  <2>1. UNCHANGED setting
    BY FillEffect, SilentInput, AnswerInput, StepKinds DEF vars, setting
  <2>. QED BY <2>1 DEF setting
<1>1. CASE Fill
  <2>1. UNCHANGED <<cfg, pc, wrote, action, answers>> /\ ended'
    BY <1>0, <1>1, FillEffect DEF setting, device
  <2>2. MenuAnswered => buf' = <<Line(0, "blank")>>
    BY <1>0, <1>1, FillEffect
  <2>3. MenuAnswered => \A k \in DOMAIN buf' : buf'[k].text = "blank"
    BY <2>2 DEF Line
  <2>. QED BY <1>0, <2>1, <2>3
<1>2. CASE Silent
  <2>1. UNCHANGED <<cfg, ended, answers>> /\ (buf' = buf \/ buf' = <<>>)
    BY <1>2, SilentInput DEF setting
  <2>2. wrote' = wrote
    BY <1>2 DEF Silent, CheckFlags, Header, DiscoverTargets, Probe, ReportJSON, Report, Which,
                TakeTarget, TakeText, Connect, Execute, Returns, device
  <2>3. CASE Which
    <3>1. buf' = <<>>
      BY <2>3 DEF Which, NewReader
    <3>2. action' = "diagnosis" \/ cfg.actions = {action'}
      BY <2>3, OneAction DEF Which, Guarded, BeforeWhich
    <3>. QED BY <1>0, <2>1, <2>2, <3>1, <3>2
  <2>4. CASE ~Which
    <3>1. action' = action /\ (pc' \in AfterWhich => pc \in AfterWhich)
      BY <1>2, <2>4 DEF Silent, CheckFlags, Header, DiscoverTargets, Probe, ReportJSON, Report,
         TakeTarget, TakeText, Connect, Execute, Returns, Exits, device, AfterWhich, Acting,
         Located, Asked
    <3>. QED BY <1>0, <2>1, <2>2, <3>1
  <2>. QED BY <2>3, <2>4
<1>3. CASE Answer
  <2>1. /\ UNCHANGED <<cfg, ended>> /\ buf # <<>> /\ ended
        /\ buf' = Tail(buf) /\ pc \in Questions
        /\ answers' = [answers EXCEPT ![pc] = Said]
    BY <1>0, <1>3, AnswerInput DEF Ask, setting, Said
  <2>2. buf \in Seq(LinesRead)
    BY DEF TypeOK
  <2>3. /\ Said = buf[1].text /\ 1 \in DOMAIN buf
        /\ \A k \in DOMAIN buf' : buf'[k] = buf[k + 1] /\ k + 1 \in DOMAIN buf
    <3>1. /\ Head(buf) = buf[1] /\ Tail(buf) \in Seq(LinesRead) /\ Len(buf) \in Nat \ {0}
          /\ \A k \in 1..Len(Tail(buf)) : Tail(buf)[k] = buf[k + 1] /\ k + 1 \in 1..Len(buf)
      BY <2>1, <2>2, HeadAndTail
    <3>2. DOMAIN buf = 1..Len(buf) /\ DOMAIN Tail(buf) = 1..Len(Tail(buf))
      BY <2>2, <3>1
    <3>. QED BY <2>1, <3>1, <3>2 DEF Said
  <2>4. CASE PromptStartup \/ PromptAddress
    <3>1. pc' \notin AfterWhich /\ pc \in BeforeWhich /\ wrote' = wrote /\ action' = action
      BY <2>4 DEF PromptStartup, PromptAddress, Ask, AfterWhich, Acting, Located, Asked, device,
                  BeforeWhich
    <3>2. ~wrote /\ action = "diagnosis"
      BY <3>1 DEF Guarded, BeforeWhich
    <3>. QED BY <1>0, <2>1, <3>1, <3>2
  <2>5. CASE ~(PromptStartup \/ PromptAddress)
    <3>1. pc # "menu"
      BY <1>3, <2>5 DEF Answer, PromptAction, Choose, PromptText, PromptReplace, PromptConfirm,
                        PromptReboot, PromptExit, Ask
    <3>2. answers'["menu"] = answers["menu"]
      BY <2>1, <3>1
    <3>3. pc \in AfterWhich \/ (PromptExit /\ pc' \notin AfterWhich)
      BY <1>3, <2>5 DEF Answer, PromptAction, Choose, PromptText, PromptReplace, PromptConfirm,
                        PromptReboot, PromptExit, Ask, AfterWhich, Acting, Located, Asked
    <3>4. MenuAnswered /\ pc \in AfterWhich => Said = "blank"
      BY <1>0, <2>3
    <3>5. MenuAnswered => wrote' = wrote /\ action' = action
      BY <1>3, <2>5, <3>3, <3>4 DEF Answer, PromptAction, Choose, PromptText, PromptReplace,
         PromptConfirm, PromptReboot, PromptExit, Menu, device
    <3>. QED BY <1>0, <2>1, <2>3, <3>2, <3>3, <3>5
  <2>. QED BY <2>4, <2>5
<1>4. CASE UNCHANGED vars
  BY <1>4 DEF vars
<1>. QED BY <1>1, <1>2, <1>3, <1>4, StepKinds
-----------------------------------------------------------------------------
IInv == TypeOK /\ Guarded /\ Numbered /\ FileRead

LEMMA Invariance == Spec => []IInv
<1>1. Init => IInv
  BY Initially DEF IInv, Init, Numbered, Blanks, FileRead, MenuAnswered, Questions
<1>2. IInv /\ [Next]_vars => IInv'
  BY TypesPreserved, GuardedPreserved, NumberedPreserved, FileReadPreserved DEF IInv
<1>. QED BY <1>1, <1>2, PTL DEF Spec

\* The variables keep their types.
THEOREM TypeCorrect == Spec => []TypeOK
BY Invariance, PTL DEF IInv

\* Whatever the input says and wherever it ends, a script is sent only after the
\* action, the device, the replacement and the phrase have been said.
THEOREM WriteAfterWords == Spec => []WriteWasSaid
<1>1. IInv => WriteWasSaid
  BY DEF IInv, Guarded, WriteWasSaid, ActionSaid, DeviceSaid, ReplaceSaid
<1>. QED BY <1>1, Invariance, PTL

\* A file that has answered the startup menu cannot say anything more that leads
\* to a script, however long it is.
THEOREM FileNeverActs == Spec => []FileAfterMenuNeverActs
<1>1. IInv => FileAfterMenuNeverActs
  BY DEF IInv, FileRead, MenuAnswered, FileAfterMenuNeverActs
<1>. QED BY <1>1, Invariance, PTL

\* One reader answers with one line after the other, for any number of lines and
\* any way they arrive in.
THEOREM LinesFollow == Spec => AnswersFollowOn
<1>1. IInv /\ [Next]_vars => [~fresh /\ last' # last => last' = last + 1]_vars
  <2> SUFFICES ASSUME TypeOK, Numbered, Next, ~fresh, last' # last
               PROVE  last' = last + 1
    BY DEF IInv
  <2>1. Answer
    BY FillEffect, SilentInput, StepKinds
  <2>2. Head(buf).n # 0 /\ last' = Head(buf).n /\ buf # <<>>
    BY <2>1, AnswerInput DEF Ask
  <2>3. buf \in Seq(LinesRead) /\ arrived \in Nat /\ last \in Nat
    BY BoundIsNat DEF TypeOK
  <2>4. Head(buf) = buf[1] /\ Len(buf) \in Nat \ {0} /\ 1 \in DOMAIN buf
    BY <2>2, <2>3, HeadAndTail
  <2>5. ~Blanks /\ last' = arrived - Len(buf) + 1
    BY <2>2, <2>4 DEF Blanks, Numbered
  <2>6. last = arrived - Len(buf)
    BY <2>5 DEF Numbered
  <2>. QED BY <2>3, <2>4, <2>5, <2>6
<1>. QED BY <1>1, Invariance, PTL DEF Spec, AnswersFollowOn
=============================================================================
