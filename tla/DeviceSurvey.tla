---------------------------- MODULE DeviceSurvey ----------------------------
(***************************************************************************)
(* What a scan of the network promises, whatever the number of workers:    *)
(* every target is probed exactly once; if a diagnosis follows, exactly    *)
(* the devices found reachable are visited once more, and each of them is  *)
(* diagnosed or found unreachable after all.  The rest keep their verdict. *)
(***************************************************************************)
EXTENDS Naturals

CONSTANT Count            \* number of targets

VARIABLES
  pass,                   \* "probe", "diagnose" or "over"
  left,                   \* targets this pass has still to visit
  verdict                 \* per target, what is known of it

vars == <<pass, left, verdict>>

Init ==
  /\ pass = "probe"
  /\ left = 1..Count
  /\ verdict = [i \in 1..Count |-> "unknown"]

Visit(i) ==
  /\ i \in left
  /\ left' = left \ {i}
  /\ \E v \in CASE pass = "probe"    -> {"reachable", "unreachable"}
                [] pass = "diagnose" -> {"diagnosed", "unreachable"}
                [] OTHER             -> {} :
       verdict' = [verdict EXCEPT ![i] = v]
  /\ UNCHANGED pass

Again ==
  /\ pass = "probe" /\ left = {}
  /\ pass' = "diagnose"
  /\ left' = {i \in 1..Count : verdict[i] = "reachable"}
  /\ UNCHANGED verdict

Stop ==
  /\ left = {}
  /\ pass' = "over"
  /\ UNCHANGED <<left, verdict>>

Next == (\E i \in 1..Count : Visit(i)) \/ Again \/ Stop

Spec == Init /\ [][Next]_vars
=============================================================================
