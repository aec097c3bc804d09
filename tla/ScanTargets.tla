----------------------------- MODULE ScanTargets -----------------------------
(***************************************************************************)
(* Which addresses a run probes (targetsFromCIDR in lan.go, its callers in *)
(* discoverTargets).  Addresses are machine integers of Width bits, 32 in  *)
(* the code, and arithmetic on them wraps around: the block /0 has a size  *)
(* of 0, and after the last address of all comes the first one.            *)
(***************************************************************************)
EXTENDS Naturals, Sequences, FiniteSets, Functions

CONSTANTS Width, NoIP

Addresses == 0..2 ^ Width - 1

ASSUME WidthAssumption == Width \in Nat /\ NoIP \notin Addresses

VARIABLES
  ones,         \* the length of the prefix
  network,      \* the first address of the block
  self,         \* this computer, if the block was found as its network
  gateway,      \* the default route, if it is known
  current,      \* the loop's variable
  targets,      \* addresses to probe
  skipped,      \* addresses left out, with the reason
  pc            \* "idle", "loop", then "scan" or "error"

given == <<ones, network, self, gateway>>
loopVars == <<given, current, targets, skipped, pc>>

Wrap(n) == n % 2 ^ Width

\* uint32(1) << (32 - ones), network + size - 1.
Size == Wrap(2 ^ (Width - ones))
Broadcast == Wrap(network + Size + 2 ^ Width - 1)

Mask(ip, n) == ip - (ip % 2 ^ (Width - n))

LoopTypeOK ==
  /\ ones \in 0..Width
  /\ network \in Addresses
  /\ self \in Addresses \cup {NoIP}
  /\ gateway \in Addresses \cup {NoIP}
  /\ current \in Addresses
  /\ targets \in Seq(Addresses)
  /\ skipped \in Seq([ip : Addresses, reason : {"network", "broadcast", "self", "gateway"}])
  /\ pc \in {"idle", "loop", "scan", "error"}

LoopInit ==
  /\ ones = 0 /\ network = 0 /\ self = NoIP /\ gateway = NoIP
  /\ current = 0 /\ targets = <<>> /\ skipped = <<>>
  /\ pc = "idle"

\* A block, by an address in it, and the addresses of skipIPs if there are any.
Begin(ip, n, own, via) ==
  /\ pc = "idle"
  /\ ones' = n /\ network' = Mask(ip, n) /\ self' = own /\ gateway' = via
  /\ current' = Mask(ip, n)
  /\ pc' = "loop"
  /\ UNCHANGED <<targets, skipped>>

\* The broadcast address is not special.
ReasonMutant(ip) ==
  CASE ip = gateway -> "gateway"
    [] ip = self /\ ip # gateway -> "self"
    [] ip = network /\ ip \notin {self, gateway} -> "network"
    [] OTHER -> "none"

\* The skip map: later entries replace earlier ones.
Reason(ip) ==
  CASE ip = gateway -> "gateway"
    [] ip = self /\ ip # gateway -> "self"
    [] ip = Broadcast /\ ip \notin {self, gateway} -> "broadcast"
    [] ip = network /\ ip \notin {Broadcast, self, gateway} -> "network"
    [] OTHER -> "none"

Record ==
  IF Reason(current) = "none"
  THEN targets' = Append(targets, current) /\ UNCHANGED skipped
  ELSE /\ skipped' = Append(skipped, [ip |-> current, reason |-> Reason(current)])
       /\ UNCHANGED targets

\* No targets at all is an error.
Done == pc' = IF targets' = <<>> THEN "error" ELSE "scan"

\* The loop's condition is left to end it.
AdvanceMutant ==
  /\ current' = Wrap(current + 1)
  /\ IF current' > Broadcast THEN Done ELSE UNCHANGED pc

\* The loop ends before the increment that might wrap around.
Advance ==
  IF current = Broadcast THEN Done /\ UNCHANGED current
  ELSE current' = Wrap(current + 1) /\ UNCHANGED pc

Step ==
  /\ pc = "loop" /\ current <= Broadcast
  /\ Record
  /\ Advance
  /\ UNCHANGED given
-----------------------------------------------------------------------------
(* Properties.                                                             *)

Block == {ip \in Addresses : Mask(ip, ones) = network}

\* The targets are the hosts of the block, this computer and the gateway left
\* out, in ascending order; that holds for the block /0, where the size wraps
\* to 0, and for the blocks of one and two addresses, which have no hosts.
Hosts == {ip \in Block : /\ \E lower \in Block : lower < ip
                         /\ \E upper \in Block : upper > ip} \ {self, gateway}

TargetsExact ==
  pc \in {"scan", "error"} =>
    /\ Range(targets) = Hosts
    /\ \A i, j \in DOMAIN targets : i < j => targets[i] < targets[j]
    /\ pc = "error" <=> Hosts = {}

\* Every address of the block is probed or reported as skipped, and none of
\* them twice: the loop does not start over at the end of the address space.
Seen == Range(targets) \cup {skipped[i].ip : i \in DOMAIN skipped}

AllAccounted ==
  /\ Len(targets) + Len(skipped) = Cardinality(Seen)
  /\ pc \in {"scan", "error"} => Seen = Block
=============================================================================
