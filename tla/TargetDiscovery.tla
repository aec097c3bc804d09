--------------------------- MODULE TargetDiscovery ---------------------------
(***************************************************************************)
(* discoverTargets (main.go): which addresses a run probes, from the flag  *)
(* --cidr or the interfaces of the computer to the list of targets.  It    *)
(* composes LanDiscovery, which finds a network, with ScanTargets, which   *)
(* lists its hosts; a network is a block, an address and a prefix length.  *)
(***************************************************************************)
EXTENDS LanDiscovery, ScanTargets

ASSUME BlockAssumption ==
  /\ NoIP = None
  /\ V4 \subseteq Addresses
  /\ \A a \in V4 : Net[a].ip \in Addresses /\ Net[a].ones \in 0..Width
                   /\ Net[a].ip = Mask(a, Net[a].ones)

vars == <<lanVars, loopVars>>

TypeOK == LanTypeOK /\ LoopTypeOK

Init == LanInit /\ LoopInit

\* --cidr: any block, or an address in one; the interfaces are not looked at.
GivenCIDR ==
  /\ stage = "route" /\ changes = 0
  /\ \E ip \in Addresses, n \in 0..Width : Begin(ip, n, NoIP, NoIP)
  /\ UNCHANGED lanVars

Discover == pc = "idle" /\ LanNext /\ UNCHANGED loopVars

\* The block of the LAN that was found, without this computer and the gateway.
FoundLAN ==
  /\ stage = "lan"
  /\ Begin(lan.CIDR.ip, lan.CIDR.ones, lan.IP, lan.Gateway)
  /\ UNCHANGED lanVars

Loop == Step /\ UNCHANGED lanVars

Next == GivenCIDR \/ Discover \/ FoundLAN \/ Loop

Spec == Init /\ [][Next]_vars
-----------------------------------------------------------------------------
(* Properties.                                                             *)

\* Of a LAN that was found the scan leaves out, as this computer and as its router,
\* the address by which it was found and, if the route led to it, the gateway that
\* the route command printed, as far as they are in the block, and nothing else: a
\* LAN that was found without the route has no router.  The gateway is that of the
\* route also when the interface has gone to another network since: there the host
\* with that address is not probed, and the router is.
SparesOwnAndRouter ==
  pc \in {"scan", "error"} /\ stage = "lan" =>
    LET via == IF lan.Source = "fallback-interface" THEN None ELSE route.via
        spared == {skipped[i].ip : i \in {k \in DOMAIN skipped :
                                           skipped[k].reason \in {"self", "gateway"}}}
    IN  /\ spared = Block \cap {lan.IP, via}
        /\ Range(targets) \cap {lan.IP, via} = {}
=============================================================================
