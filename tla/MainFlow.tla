------------------------------- MODULE MainFlow -------------------------------
(***************************************************************************)
(* main (main.go): flags, menus, questions and ways out, with the standard *)
(* input they share.  promptStartupMenu, main and waitForExit each make a  *)
(* buffered reader of their own over it; what one of them has read ahead   *)
(* is lost to the next.  A guarded action is here the questions it asks;   *)
(* what it does to the device is in DongleRepair, ModemWorkaround and      *)
(* CustomInstall.                                                          *)
(***************************************************************************)
EXTENDS Integers, Sequences, FiniteSets, SequencesExt

CONSTANTS
  Flags,     \* the command lines
  Kinds,     \* the kinds of standard input
  Systems,   \* a subset of {"windows", "other"}
  Lines,     \* what a line of input may say; "blank" is an empty one
  MaxLines,  \* bound on lines typed at a terminal
  MaxPiped   \* bound on lines in a file or a pipe

GuardedActions == {"repair", "modem-workaround", "custom-install"}
Questions == {"menu", "ip", "cidr", "action", "choose", "text", "replace", "confirm",
              "reboot", "exit"}
Steps == {"flags", "header", "discover", "probe", "json", "which", "target", "given",
          "connect", "execute", "report", "over", "gone"}

ASSUME FlowAssumption ==
  /\ \A f \in Flags : /\ f.target \in {"none", "ip", "range", "bad"}
                      /\ f.actions \subseteq GuardedActions
                      /\ f.value \in {"good", "bad"}
                      /\ {f.json, f.overwrite, f.noReboot} \subseteq BOOLEAN
  /\ Kinds \subseteq {"terminal", "pipe", "file", "null"}
  /\ Systems \subseteq {"windows", "other"}
  /\ "blank" \in Lines /\ MaxLines \in Nat /\ MaxPiped \in Nat

VARIABLES
  cfg,      \* the flags
  kind,     \* what standard input is
  system,
  pc,
  target,   \* how the devices are looked for
  found,    \* devices that answered
  action,   \* what main does with them
  chosen,   \* the position of the device acted on, 0 before
  exists,   \* the device has what the action would replace
  wrote,    \* the script was sent
  buf,      \* what the current reader has read ahead
  fresh,    \* the current reader has answered nothing yet
  arrived,  \* lines that have left standard input
  ended,    \* the input is at its end
  answers,  \* the last line that answered each question
  last      \* its number; the blank of the end of the input has none

vars == <<cfg, kind, system, pc, target, found, action, chosen, exists, wrote,
          buf, fresh, arrived, ended, answers, last>>
input == <<buf, fresh, arrived, ended, answers, last>>
setting == <<cfg, kind, system>>
device == <<found, chosen, exists, wrote>>

Unasked == "not asked"
Line(n, text) == [n |-> n, text |-> text]
Bound == IF kind = "terminal" THEN MaxLines ELSE MaxPiped
LinesRead == [n : 0..Bound, text : Lines]

TypeOK ==
  /\ cfg \in Flags /\ kind \in Kinds /\ system \in Systems
  /\ pc \in Steps \cup Questions
  /\ target \in {"none", "ip", "range", "bad"}
  /\ found \in 0..2 /\ chosen \in 0..found
  /\ action \in GuardedActions \cup {"diagnosis"}
  /\ exists \in BOOLEAN /\ wrote \in BOOLEAN /\ fresh \in BOOLEAN /\ ended \in BOOLEAN
  /\ buf \in Seq(LinesRead)
  /\ arrived \in 0..Bound /\ last \in 0..Bound
  /\ answers \in [Questions -> Lines \cup {Unasked}]

Init ==
  /\ cfg \in Flags /\ kind \in Kinds /\ system \in Systems
  /\ pc = "flags" /\ target = cfg.target
  /\ found = 0 /\ chosen = 0 /\ action = "diagnosis"
  /\ exists = FALSE /\ wrote = FALSE
  /\ buf = <<>> /\ fresh = TRUE /\ arrived = 0 /\ ended = FALSE
  /\ answers = [q \in Questions |-> Unasked] /\ last = 0
-----------------------------------------------------------------------------
(* Standard input.                                                         *)

\* What one read of the underlying input may return.  A terminal hands over a
\* line, and nothing for an end-of-file key; a pipe what was written so far; a
\* file, which is shorter than the buffer, everything.
Arrivals ==
  CASE ended \/ kind = "null" -> {<<>>}
    [] kind = "terminal" /\ ~ended ->
         {<<>>} \cup IF arrived < MaxLines THEN {<<l>> : l \in Lines} ELSE {}
    [] OTHER -> BoundedSeq(Lines, MaxPiped - arrived)

\* ReadString with an empty buffer.  At the end of the input it returns the
\* empty string; the error is not looked at.
Fill ==
  /\ pc \in Questions /\ buf = <<>>
  /\ \E texts \in Arrivals :
       /\ buf' = IF texts = <<>> THEN <<Line(0, "blank")>>
                 ELSE [k \in DOMAIN texts |-> Line(arrived + k, texts[k])]
       /\ arrived' = arrived + Len(texts)
       /\ ended' = (ended \/ kind = "file" \/ (texts = <<>> /\ kind # "terminal"))
  /\ UNCHANGED <<setting, pc, target, device, action, fresh, answers, last>>

\* The next line of the reader answers question q.
Ask(q) ==
  /\ pc = q /\ buf # <<>>
  /\ answers' = [answers EXCEPT ![q] = Head(buf).text]
  /\ last' = IF Head(buf).n = 0 THEN last ELSE Head(buf).n
  /\ buf' = Tail(buf) /\ fresh' = FALSE
  /\ UNCHANGED <<setting, arrived, ended>>

Said == Head(buf).text

NewReader == buf' = <<>> /\ fresh' = TRUE /\ UNCHANGED <<arrived, ended, answers, last>>
-----------------------------------------------------------------------------
(* The way to the devices.                                                 *)

\* os.Exit(1): deferred calls are not made.
Exits == pc' = "gone"

CheckFlags ==
  /\ pc = "flags"
  /\ IF (cfg.json /\ cfg.actions # {}) \/ Cardinality(cfg.actions) > 1
     THEN Exits ELSE pc' = "header"
  /\ UNCHANGED <<setting, target, device, action, input>>

Header ==
  /\ pc = "header"
  /\ pc' = IF target = "none" /\ ~cfg.json THEN "menu" ELSE "discover"
  /\ UNCHANGED <<setting, target, device, action, input>>

PromptStartup ==
  /\ Ask("menu")
  /\ pc' = CASE Said = "1" -> "ip" [] Said = "3" -> "cidr"
             [] Said \in {"2", "blank"} -> "discover" [] OTHER -> "menu"
  /\ UNCHANGED <<target, device, action>>

PromptAddress ==
  \E q \in {"ip", "cidr"} :
    /\ Ask(q)
    /\ IF Said = "address"
       THEN pc' = "discover" /\ target' = IF q = "ip" THEN "ip" ELSE "range"
       ELSE UNCHANGED <<pc, target>>
    /\ UNCHANGED <<device, action>>

\* discoverTargets: the active network may not be found, a range may have no
\* hosts or be none of IPv4.
DiscoverTargets ==
  /\ pc = "discover"
  /\ \/ target \in {"bad", "none", "range"} /\ Exits
     \/ target # "bad" /\ pc' = "probe"
  /\ UNCHANGED <<setting, target, device, action, input>>

Probe ==
  /\ pc = "probe"
  /\ found' \in 0..(IF target = "ip" THEN 1 ELSE 2)
  /\ pc' = CASE cfg.json -> "json" [] ~cfg.json /\ found' = 0 -> "report" [] OTHER -> "which"
  /\ UNCHANGED <<setting, target, chosen, exists, wrote, action, input>>

\* The diagnosis, and the report in JSON; printing it may fail.
ReportJSON ==
  /\ pc = "json"
  /\ Exits \/ pc' = "over"
  /\ UNCHANGED <<setting, target, device, action, input>>

Report ==
  /\ pc = "report" /\ pc' = "over"
  /\ UNCHANGED <<setting, target, device, action, input>>
-----------------------------------------------------------------------------
(* The choice of an action.                                                *)

\* The reader of the menu serves the action as well.
WhichMutant ==   \* the reader of the startup menu is kept
  /\ pc = "which"
  /\ IF cfg.actions = {} THEN pc' = "action" /\ UNCHANGED action
     ELSE pc' = "target" /\ action' \in cfg.actions
  /\ UNCHANGED <<setting, target, device, input>>

Which ==
  /\ pc = "which"
  /\ IF cfg.actions = {} THEN pc' = "action" /\ UNCHANGED action
     ELSE pc' = "target" /\ action' \in cfg.actions
  /\ NewReader
  /\ UNCHANGED <<setting, target, device>>

Menu == [n \in {"2", "3", "4"} |->
           CASE n = "2" -> "repair" [] n = "3" -> "modem-workaround" [] n = "4" -> "custom-install"]

PromptActionMutant ==   \* the action makes a reader of its own
  /\ pc = "action" /\ buf # <<>>
  /\ answers' = [answers EXCEPT !["action"] = Said]
  /\ last' = IF Head(buf).n = 0 THEN last ELSE Head(buf).n
  /\ buf' = <<>> /\ fresh' = FALSE
  /\ pc' = CASE Said \in DOMAIN Menu -> "target" [] Said \in {"1", "blank"} -> "report"
             [] OTHER -> "action"
  /\ action' = IF Said \in DOMAIN Menu THEN Menu[Said] ELSE action
  /\ UNCHANGED <<setting, arrived, ended, target, device>>

PromptAction ==
  /\ Ask("action")
  /\ pc' = CASE Said \in DOMAIN Menu -> "target" [] Said \in {"1", "blank"} -> "report"
             [] OTHER -> "action"
  /\ action' = IF Said \in DOMAIN Menu THEN Menu[Said] ELSE action
  /\ UNCHANGED <<target, device>>
-----------------------------------------------------------------------------
(* The questions of a guarded action.                                      *)

\* chooseSingleTarget, whose allowPrompt is false when a flag names the action.
TakeTarget ==
  /\ pc = "target"
  /\ CASE found = 1 -> chosen' = 1 /\ pc' = "given"
       [] found # 1 /\ cfg.actions # {} -> Exits /\ UNCHANGED chosen
       [] OTHER -> pc' = "choose" /\ UNCHANGED chosen
  /\ UNCHANGED <<setting, target, found, exists, wrote, action, input>>

Positions == [n \in {"1", "2", "3", "4"} |->
                CASE n = "1" -> 1 [] n = "2" -> 2 [] n = "3" -> 3 [] n = "4" -> 4]

Choose ==
  /\ Ask("choose")
  /\ IF Said \in DOMAIN Positions /\ Positions[Said] <= found
     THEN chosen' = Positions[Said] /\ pc' = "given" ELSE UNCHANGED <<chosen, pc>>
  /\ UNCHANGED <<target, found, exists, wrote, action>>

\* The id or the URL of the flag; the workaround needs none.
TakeText ==
  /\ pc = "given"
  /\ CASE action = "modem-workaround" -> pc' = "connect"
       [] action # "modem-workaround" /\ cfg.actions = {} -> pc' = "text"
       [] OTHER -> IF cfg.value = "good" THEN pc' = "connect" ELSE Exits
  /\ UNCHANGED <<setting, target, device, action, input>>

\* Almost any text is a URL once "https://" is put before it.
Valid(text) == IF action = "repair" THEN text = "id" ELSE text \notin {"blank", "phrase"}

PromptText ==
  /\ Ask("text")
  /\ pc' = IF Valid(Said) THEN "connect" ELSE "text"
  /\ UNCHANGED <<target, device, action>>

\* connectSSH and the preflight.
Connect ==
  /\ pc = "connect"
  /\ \/ Exits /\ UNCHANGED exists
     \/ /\ exists' \in BOOLEAN
        /\ pc' = IF exists' /\ ~(action = "repair" /\ cfg.overwrite) THEN "replace" ELSE "confirm"
  /\ UNCHANGED <<setting, target, found, chosen, wrote, action, input>>

\* promptYesNo: a blank is the default.
YesNo(default) ==
  CASE Said = "yes" -> "yes" [] Said = "no" -> "no" [] Said = "blank" -> default [] OTHER -> "again"

PromptReplaceMutant ==   \* a blank is asked again
  /\ Ask("replace")
  /\ pc' = CASE Said = "yes" -> "confirm" [] Said = "no" -> "over" [] OTHER -> "replace"
  /\ UNCHANGED <<target, device, action>>

PromptReplace ==
  /\ Ask("replace")
  /\ pc' = CASE YesNo("no") = "yes" -> "confirm" [] YesNo("no") = "no" -> "over"
             [] OTHER -> "replace"
  /\ UNCHANGED <<target, device, action>>

PromptConfirmMutant ==   \* a yes is enough
  /\ Ask("confirm")
  /\ IF Said \in {"phrase", "yes"} THEN wrote' = TRUE /\ pc' = "execute"
     ELSE pc' = "over" /\ UNCHANGED wrote
  /\ UNCHANGED <<target, found, chosen, exists, action>>

PromptConfirm ==
  /\ Ask("confirm")
  /\ IF Said = "phrase" THEN wrote' = TRUE /\ pc' = "execute"
     ELSE pc' = "over" /\ UNCHANGED wrote
  /\ UNCHANGED <<target, found, chosen, exists, action>>

\* The script and the look at its result.
Execute ==
  /\ pc = "execute"
  /\ \/ Exits
     \/ pc' = IF action = "repair" /\ ~cfg.noReboot THEN "reboot" ELSE "over"
  /\ UNCHANGED <<setting, target, device, action, input>>

PromptReboot ==
  /\ Ask("reboot")
  /\ pc' = IF YesNo("yes") = "again" THEN "reboot" ELSE "over"
  /\ UNCHANGED <<target, device, action>>
-----------------------------------------------------------------------------
(* The end.                                                                *)

\* main returns: the log is closed, waitForExit asks for a line on Windows.
Returns ==
  /\ pc = "over"
  /\ pc' = IF system = "windows" THEN "exit" ELSE "gone"
  /\ NewReader
  /\ UNCHANGED <<setting, target, device, action>>

PromptExit == Ask("exit") /\ pc' = "gone" /\ UNCHANGED <<target, device, action>>

Next ==
  \/ Fill \/ CheckFlags \/ Header \/ PromptStartup \/ PromptAddress \/ DiscoverTargets
  \/ Probe \/ ReportJSON \/ Report \/ Which \/ PromptAction \/ TakeTarget \/ Choose
  \/ TakeText \/ PromptText \/ Connect \/ PromptReplace \/ PromptConfirm \/ Execute
  \/ PromptReboot \/ Returns \/ PromptExit

Spec == Init /\ [][Next]_vars

\* The program takes its steps, and input that does not come from a person
\* comes or ends.  Not assumed for a terminal.
FairSpec == Spec /\ WF_vars(kind # "terminal" /\ Next)
-----------------------------------------------------------------------------
(* Properties.                                                             *)

\* A script is sent only after all that guards it was said: the action by a flag
\* or by its number, the device by its number if there is a choice, the
\* replacement by a flag or a yes, and the phrase.  Blank lines and the end of
\* the input never lead there.
WriteWasSaid ==
  wrote =>
    /\ answers["confirm"] = "phrase"
    /\ exists => answers["replace"] = "yes" \/ (action = "repair" /\ cfg.overwrite)
    /\ found > 1 => answers["choose"] \in {"1", "2"}
    /\ cfg.actions = {action} \/ (answers["action"] \in DOMAIN Menu
                                  /\ Menu[answers["action"]] = action)

\* From its first answer on, a reader gives every question the line after the
\* one before: what was read ahead is not lost between the action menu, the
\* questions of the action, and the phrase, also when all of it was piped in.
AnswersFollowOn == [][~fresh /\ last' # last => last' = last + 1]_vars

\* The startup menu takes the whole of a file for itself: after it, whatever the
\* file says, only an action named by a flag begins, and none gets its phrase.
FileAfterMenuNeverActs ==
  kind = "file" /\ answers["menu"] # Unasked =>
    ~wrote /\ (action = "diagnosis" \/ cfg.actions = {action})

\* Without a person a run ends: with no input under every combination of flags,
\* with a file or a pipe unless the input ends in one of the four questions that
\* have no default, which then ask for ever.
UnattendedRunEnds ==
  /\ kind = "null" ~> pc = "gone"
  /\ kind \in {"file", "pipe"} ~> pc = "gone" \/ [](pc \in {"ip", "cidr", "choose", "text"})

\* exit_windows.go:12-13: waitForExit is "included in Windows builds to prevent
\* the console window from closing immediately when the executable is
\* double-clicked", that is, started without flags.
WindowWaits ==
  LET clicked == cfg.target = "none" /\ ~cfg.json /\ cfg.actions = {}
  IN  pc = "gone" /\ system = "windows" /\ clicked => answers["exit"] # Unasked
=============================================================================
