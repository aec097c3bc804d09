--------------------------- MODULE MCDongleRepair ---------------------------
(* Instances of DongleRepair for TLC. *)
EXTENDS DongleRepair, TLC

\* Two ids; the second text is an upper-case spelling, the last is malformed.
MCIds == {"9d09", "1f2e"}
MCTexts == {"9d09", "9D09", "1f2e", "zz"}
MCNormalForm == ("9d09" :> "9d09") @@ ("9D09" :> "9d09") @@ ("1f2e" :> "1f2e")
                @@ ("zz" :> Rejected)

Line(text, overwrite, noReboot) ==
  [RepairDongleID |-> text, OverwriteDongleID |-> overwrite, NoReboot |-> noReboot]

\* The menu without flags, and a command line that overwrites and skips the
\* reboot prompt.
TwoFlags == {Line(NoText, FALSE, FALSE), Line("9D09", TRUE, TRUE)}

\* Every combination of the three flags.
AllFlags == {Line(t, o, r) : t \in MCTexts \cup {NoText}, o \in BOOLEAN, r \in BOOLEAN}

\* Sessions are interchangeable.
Swaps == Permutations(Sessions)
=============================================================================
