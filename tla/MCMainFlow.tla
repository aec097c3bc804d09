------------------------------ MODULE MCMainFlow ------------------------------
(* Instances of MainFlow for TLC. *)
EXTENDS MainFlow

Command(t, json, actions, value, overwrite, noReboot) ==
  [target |-> t, json |-> json, actions |-> actions, value |-> value,
   overwrite |-> overwrite, noReboot |-> noReboot]

\* No flags, one device, a bad address; --json; each action; two at once; a bad
\* id; the two flags of the repair.
MCFlags ==
  {Command(t, j, {}, "good", FALSE, FALSE) : t \in {"none", "ip", "range", "bad"}, j \in BOOLEAN}
  \cup {Command(t, FALSE, {a}, v, FALSE, FALSE) :
          t \in {"ip", "range"}, a \in GuardedActions, v \in {"good", "bad"}}
  \cup {Command("none", FALSE, {"repair"}, "good", TRUE, TRUE),
        Command("ip", TRUE, {"repair"}, "good", FALSE, FALSE),
        Command("ip", FALSE, {"repair", "custom-install"}, "good", FALSE, FALSE)}
=============================================================================
