----------------------------- MODULE LanDiscovery -----------------------------
(***************************************************************************)
(* discoverActiveLAN (lan.go): which network to scan when the operator     *)
(* names none.  It asks the operating system for the default route, looks  *)
(* for the interface of that route, first by its source address, then by   *)
(* its name, and falls back on the first interface with a private address. *)
(* Each of these lists the interfaces anew and then asks one after the     *)
(* other for its addresses, and each of these calls may find the           *)
(* interfaces changed, or fail.                                            *)
(***************************************************************************)
EXTENDS Naturals, Sequences

CONSTANTS
  Interfaces,   \* numbered in the order in which net.Interfaces lists them
  Settings,     \* what an interface may be set to
  Outputs,      \* per operating system, what its route command may print
  Net,          \* the block of an IPv4 address, by its mask
  Private,      \* IPv4 addresses for which isPrivateIPv4 holds
  Loopback,     \* IPv4 addresses that begin with 127
  None,         \* a field that is missing or that does not parse
  MaxMetric,    \* larger than every metric
  MaxChanges    \* bound on changes of the interfaces and calls that fail

V4 == DOMAIN Net
Row == [via : V4 \cup {None}, dev : Interfaces \cup {None}, src : V4 \cup {None},
        metric : 0..MaxMetric]

ASSUME LanAssumption ==
  /\ Interfaces \subseteq Nat
  /\ Private \subseteq V4 /\ Loopback \subseteq V4
  /\ None \notin V4 /\ None \notin Interfaces
  /\ "fallback-interface" \notin DOMAIN Outputs
  /\ \A o \in DOMAIN Outputs :
       Outputs[o] \subseteq Seq({r \in Row : r.metric < MaxMetric})
  /\ \A s \in Settings : /\ s.up \in BOOLEAN /\ s.loopback \in BOOLEAN
                          /\ Len(s.addrs) \in Nat /\ DOMAIN s.addrs = 1..Len(s.addrs)
  /\ MaxMetric \in Nat /\ MaxChanges \in Nat

VARIABLES
  os,       \* runtime.GOOS
  printed,  \* what the route command has printed
  read,     \* the number of its rows that have been read
  route,    \* the route read from it
  ifaces,   \* the interfaces, each with its addresses in order
  stage,    \* the next call of discoverActiveLAN, then "lan" or "error"
  todo,     \* the interfaces that the loop of a lookup has still to ask
  lan,      \* what discoverActiveLAN returns
  had,      \* history: as what each interface may have been read so far
  changes

routeVars == <<os, printed, read, route>>
lanVars == <<routeVars, ifaces, stage, todo, lan, had, changes>>

NoRoute == [via |-> None, dev |-> None, src |-> None, metric |-> MaxMetric]
\* An interface whose addresses cannot be read counts as one without any.
Unread == [up |-> FALSE, loopback |-> FALSE, addrs |-> <<>>]

\* The lookups: each lists interfaces, then asks them in a loop of its own; where
\* the loop goes when none of them will do.
Lookups == {"source", "name", "fallback"}
Loops == {"bySource", "byName", "byFallback"}
After(loop) == CASE loop = "bySource" -> "name"
                 [] loop = "byName" -> "fallback"
                 [] loop = "byFallback" -> "error"

NoLAN == [Interface |-> None, IP |-> None, CIDR |-> None, Gateway |-> None, Source |-> "none"]

LanTypeOK ==
  /\ os \in DOMAIN Outputs
  /\ printed \in Seq(Row)
  /\ read \in 0..Len(printed)
  /\ route \in Row
  /\ ifaces \in [Interfaces -> Settings]
  /\ stage \in Lookups \cup Loops \cup {"route", "rows", "lan", "error"}
  /\ todo \subseteq Interfaces
  /\ lan \in {NoLAN} \cup [Interface : Interfaces, IP : V4 \ Loopback,
                           CIDR : {Net[a] : a \in V4}, Gateway : V4 \cup {None},
                           Source : DOMAIN Outputs \cup {"fallback-interface"}]
  /\ had \in [Interfaces -> SUBSET (Settings \cup {Unread})]
  /\ changes \in 0..MaxChanges

LanInit ==
  /\ os \in DOMAIN Outputs
  /\ printed = <<>> /\ read = 0 /\ route = NoRoute
  /\ ifaces \in [Interfaces -> Settings]
  /\ stage = "route" /\ todo = {} /\ lan = NoLAN
  /\ had = [i \in Interfaces |-> {ifaces[i]}]
  /\ changes = 0
-----------------------------------------------------------------------------
(* The route.                                                              *)

\* Of two rows that parse the first of those with the lower metric.
BetterMutant(best, row) ==   \* the metric is not looked at
  IF row.via = None \/ row.src = None THEN best ELSE row

Better(best, row) ==
  IF row.via = None \/ row.src = None \/ row.metric >= best.metric THEN best ELSE row

\* macOS prints one route, Linux the best one first; the metric is not read.
ParseFirstRoute(rows) == IF rows = <<>> \/ rows[1].dev = None THEN NoRoute ELSE rows[1]

AfterRoute(found) == IF found = NoRoute THEN "fallback" ELSE "source"

\* The command may be missing, fail, or take more than 3 seconds.
DiscoverRoute ==
  /\ stage = "route"
  /\ printed' \in Outputs[os] \cup {<<>>}
  /\ IF os = "windows" THEN stage' = "rows" /\ UNCHANGED route
     ELSE route' = ParseFirstRoute(printed') /\ stage' = AfterRoute(route')
  /\ UNCHANGED <<os, read, ifaces, todo, lan, had, changes>>

\* parseWindowsRoute, one row after the other.
ParseWindowsRow ==
  /\ stage = "rows" /\ read < Len(printed)
  /\ read' = read + 1
  /\ route' = Better(route, printed[read'])
  /\ UNCHANGED <<os, printed, ifaces, stage, todo, lan, had, changes>>

WindowsRouteRead ==
  /\ stage = "rows" /\ read = Len(printed)
  /\ stage' = AfterRoute(route)
  /\ UNCHANGED <<routeVars, ifaces, todo, lan, had, changes>>
-----------------------------------------------------------------------------
(* The interface.                                                          *)

\* lanForInterface: the first of its IPv4 addresses that is no loopback address.
Usable(set) == {k \in DOMAIN set.addrs : set.addrs[k] \in V4 \ Loopback}
First(S) == CHOOSE i \in S : \A j \in S : i <= j
Address(set) == IF Usable(set) = {} THEN None ELSE set.addrs[First(Usable(set))]

\* A call of the system for the interfaces of S fails.
CallFails(S) ==
  /\ changes < MaxChanges /\ changes' = changes + 1
  /\ had' = [i \in Interfaces |-> had[i] \cup IF i \in S THEN {Unread} ELSE {}]
  /\ UNCHANGED <<routeVars, ifaces>>

CallReturns == UNCHANGED <<routeVars, ifaces, had, changes>>

GoOn(loop, S) ==
  /\ todo' = S
  /\ stage' = IF S = {} THEN After(loop) ELSE loop
  /\ UNCHANGED lan

\* lanFromRoute, the first half: lanForIP, if the route has a source.
FromSource ==
  /\ stage = "source"
  /\ \/ route.src # None /\ GoOn("bySource", Interfaces) /\ CallReturns
     \/ route.src = None /\ GoOn("bySource", {}) /\ CallReturns
     \/ route.src # None /\ GoOn("bySource", {}) /\ CallFails(Interfaces)

\* The second half: the interface by its name, if the route has one.
FromName ==
  /\ stage = "name"
  /\ \/ GoOn("byName", {route.dev} \ {None}) /\ CallReturns
     \/ route.dev # None /\ GoOn("byName", {}) /\ CallFails({route.dev})

\* The flags of the interfaces are not looked at.
FallbackMutant ==
  /\ stage = "fallback"
  /\ \/ GoOn("byFallback", Interfaces) /\ CallReturns
     \/ GoOn("byFallback", {}) /\ CallFails(Interfaces)

\* firstPrivateIPv4LAN: the flags are those of the list.
Fallback ==
  /\ stage = "fallback"
  /\ \/ /\ GoOn("byFallback", {i \in Interfaces : ifaces[i].up /\ ~ifaces[i].loopback})
        /\ CallReturns
     \/ GoOn("byFallback", {}) /\ CallFails(Interfaces)

Accepts(a) == CASE stage = "bySource" -> a = route.src
                [] stage = "byName" -> a # None
                [] stage = "byFallback" -> a \in Private

\* The gateway of the route is kept by a LAN that was found without it.
FoundMutant(i, a) ==
  [Interface |-> i, IP |-> a, CIDR |-> Net[a], Gateway |-> route.via,
   Source |-> IF stage = "byFallback" THEN "fallback-interface" ELSE os]

Found(i, a) ==
  [Interface |-> i, IP |-> a, CIDR |-> Net[a],
   Gateway |-> IF stage = "byFallback" THEN None ELSE route.via,
   Source |-> IF stage = "byFallback" THEN "fallback-interface" ELSE os]

\* The loops: the next interface is asked for its addresses; the first that will
\* do is returned.
AskNext ==
  /\ stage \in Loops
  /\ LET i == First(todo)
         a == Address(ifaces[i])
     IN  \/ Accepts(a) /\ CallReturns
            /\ lan' = Found(i, a) /\ stage' = "lan" /\ todo' = {}
         \/ ~Accepts(a) /\ CallReturns /\ GoOn(stage, todo \ {i})
         \/ CallFails({i}) /\ GoOn(stage, todo \ {i})
-----------------------------------------------------------------------------
(* The machine: a cable is pulled, a network joined, a tunnel brought up,   *)
(* also when the LAN has been found and is about to be returned.            *)

InterfaceChanges ==
  /\ changes < MaxChanges /\ stage # "error"
  /\ changes' = changes + 1
  /\ \E i \in Interfaces, s \in Settings :
       /\ ifaces' = [ifaces EXCEPT ![i] = s]
       /\ had' = [had EXCEPT ![i] = @ \cup {s}]
  /\ UNCHANGED <<routeVars, stage, todo, lan>>

LanNext ==
  \/ DiscoverRoute \/ ParseWindowsRow \/ WindowsRouteRead
  \/ FromSource \/ FromName \/ Fallback \/ AskNext
  \/ InterfaceChanges
-----------------------------------------------------------------------------
(* Properties.                                                             *)

\* On Windows the route is the first of those with the least metric among the
\* rows that name a gateway and a source, wherever they stand in the table.
Candidates(n) == {k \in 1..n : printed[k].via # None /\ printed[k].src # None}
Least(rows) == {k \in rows : \A j \in rows : printed[k].metric <= printed[j].metric}

LeastMetric ==
  os = "windows" /\ stage \notin {"route", "rows"} =>
    LET rows == Candidates(Len(printed))
    IN  route = IF rows = {} THEN NoRoute ELSE printed[First(Least(rows))]

\* The interfaces change while they are read, one call after the other, so that
\* the LAN returned may be one that no moment has seen as a whole.  Each interface
\* still counts as something it has been: the LAN is that of the first interface
\* that has had the source of the route as its address; or that of the interface
\* which the route names, when every interface has been without that source; or
\* that of the first with a private address, when the route's own was without an
\* address as well.  There is none only when every interface has been without one.
\* If nothing changes and no call fails, this is the one right answer.
BeenWithout(i, A) == \E s \in had[i] : Address(s) \notin A
NoSource(S) == route.src # None => \A i \in S : BeenWithout(i, {route.src})
NoName == route.dev # None => BeenWithout(route.dev, V4)
NoFallback(S) ==
  \A i \in S : BeenWithout(i, Private) \/ \E s \in had[i] : ~s.up \/ s.loopback
Below(n) == {i \in Interfaces : i < n}

FromRoute(i, a) ==
  /\ lan.Source = os
  /\ \/ a = route.src /\ NoSource(Below(i))
     \/ i = route.dev /\ NoSource(Interfaces)

FromFallback(i, a) ==
  /\ lan.Source = "fallback-interface"
  /\ NoSource(Interfaces) /\ NoName /\ NoFallback(Below(i))
  /\ a \in Private /\ \E s \in had[i] : s.up /\ ~s.loopback

RightLAN ==
  /\ stage = "lan" =>
       /\ FromRoute(lan.Interface, lan.IP) \/ FromFallback(lan.Interface, lan.IP)
       /\ lan.IP \in {Address(s) : s \in had[lan.Interface]} \ Loopback
       /\ lan.CIDR = Net[lan.IP]
  /\ stage = "error" => NoSource(Interfaces) /\ NoName /\ NoFallback(Interfaces)
=============================================================================
