--------------------------- MODULE MCCustomInstall ---------------------------
(* Instances of CustomInstall for TLC. *)
EXTENDS CustomInstall, TLC

CONSTANTS u1, u2, a, b, ftp

\* Two URLs with a branch each, and a text that is no URL.
MCURLs == {u1, u2}
MCTexts == MCURLs \cup {ftp}
MCNormalURL == (u1 :> u1) @@ (u2 :> u2) @@ (ftp :> Rejected)
MCOffers == (u1 :> {a}) @@ (u2 :> {b})

\* The menu, and a malformed flag.
TwoFlags == {NoText, ftp}

\* Sessions are interchangeable, and so are the URLs, each with its branch.
Swaps ==
  Permutations(Sessions) \cup {(u1 :> u2) @@ (u2 :> u1) @@ (a :> b) @@ (b :> a)}

(* Bounds.                                                                 *)

\* The sessions install different branches, so that the checkout of one is
\* never taken for that of another.
DifferentURLs ==
  \A s, t \in Sessions : s # t /\ customURL[s] = customURL[t] => customURL[s] = NoURL

\* Nothing is written back between two commands once no outage can follow.
NoIdleWriteBack == outages = MaxOutages /\ disk' # disk => script' # script
=============================================================================
