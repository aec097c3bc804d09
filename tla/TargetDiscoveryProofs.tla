----------------------- MODULE TargetDiscoveryProofs ------------------------
(***************************************************************************)
(* Proofs about TargetDiscovery.  The arithmetic of blocks comes first:    *)
(* the powers of two are the sizes of the sets of subsets, and a statement *)
(* about all numbers is proved by looking at the least that refutes it.    *)
(* The inductive invariant says how far the rows of the route table and    *)
(* the addresses of the block have been dealt with.                        *)
(***************************************************************************)
EXTENDS TargetDiscovery, FiniteSetTheorems, TLAPS

-----------------------------------------------------------------------------
(* Arithmetic.                                                             *)

\* A set of numbers that is not empty has a least one.
LEMMA LeastExists ==
  ASSUME NEW S \in SUBSET Nat, S # {}
  PROVE  \E m \in S : \A n \in S : m <= n
<1> DEFINE T == {0..n : n \in S}
<1>1. T \subseteq FiniteSubsetsOf(Nat) /\ T # {}
  <2>1. \A n \in S : 0..n \in SUBSET Nat /\ IsFiniteSet(0..n)
    BY FS_Interval
  <2>. QED BY <2>1 DEF FiniteSubsetsOf
<1>2. PICK x \in T : \A y \in T : <<y, x>> \notin StrictSubsetOrdering(Nat)
  BY <1>1, FS_StrictSubsetOrderingWellFounded, WFMin
<1>3. PICK m \in S : x = 0..m
  BY <1>2
<1>4. ASSUME NEW n \in S, n < m PROVE FALSE
  <2>1. 0..n \in T /\ 0..n \subseteq 0..m /\ m \in 0..m /\ m \notin 0..n
    BY <1>4
  <2>2. <<0..n, 0..m>> \in StrictSubsetOrdering(Nat)
    BY <2>1 DEF StrictSubsetOrdering
  <2>. QED BY <1>2, <1>3, <2>1, <2>2
<1>. QED BY <1>4

\* The powers of two, as the sizes of the sets of subsets.
LEMMA PowerOfTwo ==
  ASSUME NEW n \in Nat
  PROVE  2^n \in Nat /\ 2^n > 0 /\ 2^n = Cardinality(SUBSET (1..n))
<1>1. IsFiniteSet(1..n) /\ Cardinality(1..n) = n
  BY FS_Interval
<1>2. IsFiniteSet(SUBSET (1..n)) /\ Cardinality(SUBSET (1..n)) = 2^n
  BY <1>1, FS_SUBSET
<1>3. SUBSET (1..n) # {}
  OBVIOUS
<1>. QED BY <1>2, <1>3, FS_CardinalityType, FS_EmptySet

LEMMA PowerDoubles ==
  ASSUME NEW n \in Nat
  PROVE  2^(n + 1) = 2 * 2^n
<1> DEFINE Old == SUBSET (1..n)
           New == {T \cup {n + 1} : T \in Old}
           f == [T \in Old |-> T \cup {n + 1}]
<1>1. SUBSET (1..n + 1) = Old \cup New
  <2>1. ASSUME NEW T \in SUBSET (1..n + 1), n + 1 \in T PROVE T \in New
    <3>1. T \ {n + 1} \in Old /\ T = (T \ {n + 1}) \cup {n + 1}
      BY <2>1
    <3>. QED BY <3>1
  <2>2. ASSUME NEW T \in SUBSET (1..n + 1), n + 1 \notin T PROVE T \in Old
    BY <2>2
  <2>3. Old \subseteq SUBSET (1..n + 1)
    OBVIOUS
  <2>4. New \subseteq SUBSET (1..n + 1)
    <3>1. n + 1 \in 1..n + 1 /\ 1..n \subseteq 1..n + 1
      OBVIOUS
    <3>. QED BY <3>1
  <2>. QED BY <2>1, <2>2, <2>3, <2>4
<1>2. Old \cap New = {}
  OBVIOUS
<1>3. f \in Bijection(Old, New)
  <2>1. f \in Injection(Old, New)
    <3>1. ASSUME NEW S \in Old, NEW T \in Old, S \cup {n + 1} = T \cup {n + 1} PROVE S = T
      <4>1. n + 1 \notin S /\ n + 1 \notin T
        OBVIOUS
      <4>. QED BY <3>1, <4>1
    <3>2. f \in [Old -> New]
      OBVIOUS
    <3>. QED BY <3>1, <3>2 DEF Injection, IsInjective
  <2>. QED BY <2>1 DEF Bijection, Surjection
<1>4. IsFiniteSet(Old) /\ Cardinality(Old) = 2^n /\ 2^n \in Nat
  <2>1. IsFiniteSet(1..n)
    BY FS_Interval
  <2>. QED BY <2>1, FS_SUBSET, PowerOfTwo
<1>5. IsFiniteSet(New) /\ Cardinality(New) = 2^n
  <2>. HIDE DEF Old, New, f
  <2>1. ExistsBijection(Old, New)
    BY <1>3 DEF ExistsBijection
  <2>. QED BY <2>1, <1>4, FS_Bijection
<1>6. Cardinality(SUBSET (1..n + 1)) = 2^n + 2^n
  <2>. HIDE DEF Old, New
  <2>1. Cardinality(Old \cup New) = 2^n + 2^n
     BY <1>2, <1>4, <1>5, FS_Union, FS_EmptySet, SMTT(10)
  <2>. QED BY <1>1, <2>1
<1>. QED
  <2>1. 2^(n + 1) = 2^n + 2^n
    BY <1>6, PowerOfTwo, n + 1 \in Nat
  <2>. QED BY <2>1, <1>4

\* The size of a block divides the number of all addresses.
LEMMA PowerDivides ==
  ASSUME NEW w \in Nat, NEW n \in 0..w
  PROVE  \E q \in Nat : q > 0 /\ 2^w = q * 2^n
<1> DEFINE Bad == {k \in Nat : ~ \E q \in Nat : q > 0 /\ 2^(n + k) = q * 2^n}
<1>1. Bad = {}
  <2>. SUFFICES ASSUME Bad # {} PROVE FALSE
    OBVIOUS
  <2>1. PICK k \in Bad : \A j \in Bad : k <= j
    <3>. Bad \in SUBSET Nat
      OBVIOUS
    <3>. HIDE DEF Bad
    <3>. QED BY LeastExists
  <2>2. k # 0
    <3>1. 2^(n + 0) = 1 * 2^n
      BY PowerOfTwo
    <3>. QED BY <3>1
  <2>3. k - 1 \in Nat /\ k - 1 \notin Bad
    <3>. Bad \subseteq Nat
      OBVIOUS
    <3>. HIDE DEF Bad
    <3>. QED BY <2>1, <2>2
  <2>4. PICK q \in Nat : q > 0 /\ 2^(n + (k - 1)) = q * 2^n
    BY <2>3
  <2>5. n + k = (n + (k - 1)) + 1 /\ n + (k - 1) \in Nat
    BY <2>3
  <2>6. 2^(n + k) = 2 * 2^(n + (k - 1))
    BY <2>5, PowerDoubles
  <2>7. 2 * q \in Nat /\ 2 * q > 0 /\ 2^(n + k) = (2 * q) * 2^n
    BY <2>4, <2>6, PowerOfTwo
  <2>. QED BY <2>1, <2>7
<1>2. w - n \in Nat /\ w = n + (w - n)
  OBVIOUS
<1>. QED BY <1>1, <1>2
LEMMA Remainder ==
  ASSUME NEW a \in Nat, NEW b \in Nat, b > 0
  PROVE  a % b \in 0..b - 1 /\ \E k \in Nat : a = (k * b) + (a % b)
OBVIOUS

LEMMA RemainderUnique ==
  ASSUME NEW a \in Nat, NEW b \in Nat, b > 0, NEW k \in Nat, NEW r \in 0..b - 1,
         a = (k * b) + r
  PROVE  a % b = r
OBVIOUS
\* After a multiple of b that is less than another one there is room for b.
LEMMA AlignedSlack ==
  ASSUME NEW b \in Nat, b > 0, NEW k \in Nat, NEW q \in Nat, k * b < q * b
  PROVE  k * b + b <= q * b
<1>1. k < q
  OBVIOUS
<1>2. k + 1 <= q
  BY <1>1
<1>3. (k + 1) * b <= q * b
  BY <1>2
<1>. QED BY <1>3

Divides(b, w) == \E q \in Nat : w = q * b

\* A block of b addresses that begins at a multiple of b, modulo W: its last
\* address, and the addresses that have its first one as their prefix.
LEMMA AlignedBlock ==
  ASSUME NEW W \in Nat, NEW b \in Nat, b > 0, Divides(b, W),
         NEW net \in Nat, net < W, net % b = 0
  PROVE  /\ net + b <= W
         /\ (net + (b % W) + W - 1) % W = net + b - 1
         /\ \A ip \in Nat : ip - (ip % b) = net <=> ip \in net..net + b - 1
<1>1. net \in Nat /\ W > 0
  OBVIOUS
<1>2. PICK k \in Nat : net = k * b
  <2>1. PICK k \in Nat : net = (k * b) + (net % b)
    BY <1>1, Remainder
  <2>2. net = k * b
    <3>1. k * b \in Nat
      OBVIOUS
    <3>. QED BY <2>1, <3>1
  <2>. QED BY <2>2
<1>3. net + b <= W
  <2>1. PICK q \in Nat : W = q * b
    BY DEF Divides
  <2>. QED BY <1>1, <1>2, <2>1, AlignedSlack
<1>4. (net + (b % W) + W - 1) % W = net + b - 1
  <2>1. CASE b < W
    <3>1. b = (0 * W) + b /\ b \in 0..W - 1
      BY <2>1
    <3>2. b % W = b
      BY <1>1, <3>1, RemainderUnique
    <3>3. net + b + W - 1 = (1 * W) + (net + b - 1) /\ net + b - 1 \in 0..W - 1 /\ net + b + W - 1 \in Nat
      BY <1>1, <1>3
    <3>4. (net + b + W - 1) % W = net + b - 1
      BY <1>1, <3>3, RemainderUnique
    <3>. QED BY <3>2, <3>4
  <2>2. CASE b = W
    <3>1. b = (1 * W) + 0 /\ 0 \in 0..W - 1
      BY <1>1, <2>2
    <3>2. b % W = 0 /\ net = 0
      BY <1>1, <1>3, <2>2, <3>1, RemainderUnique
    <3>3. W - 1 = (0 * W) + (W - 1) /\ W - 1 \in 0..W - 1 /\ W - 1 \in Nat
      BY <1>1
    <3>4. (W - 1) % W = W - 1
      BY <1>1, <3>3, RemainderUnique
    <3>5. net + (b % W) + W - 1 = W - 1 /\ net + b - 1 = W - 1
      BY <1>1, <3>2, <2>2
    <3>. QED BY <3>4, <3>5
  <2>. QED BY <1>1, <1>3, <2>1, <2>2
<1>5. ASSUME NEW ip \in Nat PROVE ip - (ip % b) = net <=> ip \in net..net + b - 1
  <2>1. ip % b \in 0..b - 1
    BY Remainder
  <2>2. ASSUME ip \in net..net + b - 1 PROVE ip % b = ip - net
    <3>1. ip - net \in 0..b - 1 /\ ip = net + (ip - net)
      BY <1>1, <2>2
    <3>2. ip = (k * b) + (ip - net)
      <4>. k * b \in Nat
        OBVIOUS
      <4>. QED BY <1>2, <3>1
    <3>. QED BY <3>1, <3>2, RemainderUnique
  <2>3. ASSUME ip - (ip % b) = net PROVE ip \in net..net + b - 1
    <3>. DEFINE r == ip % b
    <3>1. ip - r = net /\ r \in 0..b - 1
      BY <2>1, <2>3
    <3>. HIDE DEF r
    <3>. QED BY <1>1, <3>1
  <2>. QED BY <1>1, <2>2, <2>3
<1>. QED BY <1>3, <1>4, <1>5

\* The size of a block and of the address space.
LEMMA Powers ==
  ASSUME NEW n \in 0..Width
  PROVE  /\ 2 ^ (Width - n) \in Nat /\ 2 ^ (Width - n) > 0
         /\ 2 ^ Width \in Nat /\ 2 ^ Width > 0
         /\ Divides(2 ^ (Width - n), 2 ^ Width)
<1>1. Width \in Nat /\ Width - n \in Nat /\ Width - n \in 0..Width
  BY WidthAssumption
<1>2. \E q \in Nat : 2 ^ Width = q * 2 ^ (Width - n)
  BY <1>1, PowerDivides
<1>. QED BY <1>1, <1>2, PowerOfTwo DEF Divides

\* net.IP.Mask: the prefix of an address is aligned.
LEMMA MaskFacts ==
  ASSUME NEW n \in 0..Width, NEW ip \in Addresses
  PROVE  Mask(ip, n) \in Addresses /\ Mask(ip, n) % 2 ^ (Width - n) = 0
<1> DEFINE b == 2 ^ (Width - n)
<1>1. b \in Nat /\ b > 0 /\ ip \in Nat /\ 2 ^ Width \in Nat /\ ip < 2 ^ Width
  BY Powers DEF Addresses
<1>2. Mask(ip, n) = ip - (ip % b)
  BY DEF Mask
<1>. HIDE DEF b
<1>3. PICK k \in Nat : ip = (k * b) + (ip % b) /\ ip % b \in 0..b - 1
  BY <1>1, Remainder
<1>4. Mask(ip, n) = (k * b) + 0 /\ k * b \in Nat /\ k * b <= ip
  <2>1. k * b \in Nat
    BY <1>1
  <2>. QED BY <1>1, <1>2, <1>3, <2>1
<1>5. Mask(ip, n) % b = 0
  <2>1. Mask(ip, n) \in Nat
    BY <1>4
  <2>. QED BY <1>1, <1>4, <2>1, RemainderUnique
<1>6. Mask(ip, n) \in Addresses
  BY <1>1, <1>4 DEF Addresses
<1>. QED BY <1>5, <1>6 DEF b

\* What the code computes in 32 bits, network + size - 1, is the last address of
\* the block, also where size is 0.
LEMMA BlockFacts ==
  ASSUME NEW n \in 0..Width, NEW net \in Addresses, net % 2 ^ (Width - n) = 0,
         NEW b, b = 2 ^ (Width - n)
  PROVE  /\ b \in Nat /\ b > 0 /\ net + b <= 2 ^ Width
         /\ Wrap(net + Wrap(b) + 2 ^ Width - 1) = net + b - 1
         /\ {ip \in Addresses : Mask(ip, n) = net} = net..net + b - 1
<1> DEFINE W == 2 ^ Width
<1>1. b \in Nat /\ b > 0 /\ W \in Nat /\ W > 0 /\ net \in 0..W - 1 /\ Divides(b, W)
  BY Powers DEF Addresses
<1>2. net % b = 0
  OBVIOUS
<1>3. Wrap(net + Wrap(b) + 2 ^ Width - 1) = (net + (b % W) + W - 1) % W
  BY DEF Wrap
<1>4. \A ip \in Addresses : ip \in 0..W - 1 /\ (Mask(ip, n) = net <=> ip - (ip % b) = net)
  BY DEF Addresses, Mask
<1>5. Addresses = 0..W - 1
  BY DEF Addresses
<1>. HIDE DEF W
<1>6. net + b <= W /\ (net + (b % W) + W - 1) % W = net + b - 1
      /\ \A ip \in Nat : ip - (ip % b) = net <=> ip \in net..net + b - 1
  <2>1. net \in Nat /\ net < W
    BY <1>1
  <2>. QED BY <1>1, <1>2, <2>1, AlignedBlock
<1>7. {ip \in Addresses : Mask(ip, n) = net} = net..net + b - 1
  <2>1. \A ip \in Addresses : Mask(ip, n) = net <=> ip \in net..net + b - 1
    BY <1>4, <1>6
  <2>2. net..net + b - 1 \subseteq Addresses
    <3>1. net + b <= W
      BY <1>6
    <3>. QED BY <1>1, <1>5, <3>1
  <2>. QED BY <2>1, <2>2
<1>8. net + b <= 2 ^ Width
  BY <1>6 DEF W
<1>. QED BY <1>1, <1>3, <1>6, <1>7, <1>8

-----------------------------------------------------------------------------
(* The inductive invariant.                                                *)

\* Of these rows the one that parseWindowsRoute takes: the first with the least
\* metric.
IsBest(m, rows) ==
  /\ m \in rows
  /\ \A j \in rows : /\ printed[m].metric <= printed[j].metric
                     /\ j < m => printed[m].metric < printed[j].metric

BestRead ==
  LET rows == Candidates(read)
  IN  IF rows = {} THEN route = NoRoute
      ELSE \E m \in rows : IsBest(m, rows) /\ route = printed[m]

RouteInv ==
  /\ printed \in Outputs[os] \cup {<<>>}
  /\ stage = "route" => route = NoRoute /\ read = 0
  /\ stage = "rows" => os = "windows"
  /\ os = "windows" /\ stage # "route" => BestRead
  /\ os = "windows" /\ stage \notin {"route", "rows"} => read = Len(printed)

\* What a LAN says of the route that led to it.
LanInv ==
  stage = "lan" =>
    /\ lan # NoLAN
    /\ lan.Gateway = IF lan.Source = "fallback-interface" THEN None ELSE route.via

\* What the interfaces that a lookup has been through have been.
Before == Interfaces \ todo

LookInv ==
  /\ \A i \in Interfaces : ifaces[i] \in had[i]
  /\ stage \in Loops => todo # {}
  /\ stage = "bySource" => route.src # None /\ NoSource(Before)
  /\ stage \in {"name", "byName", "fallback", "byFallback"} => NoSource(Interfaces)
  /\ stage = "byName" => todo = {route.dev}
  /\ stage \in {"fallback", "byFallback"} => NoName
  /\ stage = "byFallback" =>
       /\ NoFallback(Before)
       /\ \A i \in todo : \E s \in had[i] : s.up /\ ~s.loopback

\* The last address of the block, and the addresses the loop has been at.
Last == network + 2 ^ (Width - ones) - 1
Passed == network..IF pc = "loop" THEN current - 1 ELSE current

LoopInv ==
  /\ pc = "idle" => targets = <<>> /\ skipped = <<>>
  /\ pc # "idle" =>
       /\ network % 2 ^ (Width - ones) = 0
       /\ current \in network..Last
       /\ pc # "loop" => current = Last /\ (pc = "error" <=> targets = <<>>)

Lists ==
  pc # "idle" =>
    /\ Range(targets) = {ip \in Passed : Reason(ip) = "none"}
    /\ {skipped[k].ip : k \in DOMAIN skipped} = {ip \in Passed : Reason(ip) # "none"}
    /\ \A k \in DOMAIN skipped : skipped[k].reason = Reason(skipped[k].ip)
    /\ \A i, j \in DOMAIN targets : i < j => targets[i] < targets[j]
    /\ Len(targets) + Len(skipped) = (IF pc = "loop" THEN current ELSE current + 1) - network

\* The loop runs for a block that was given, or for the LAN.
BlockInv ==
  pc # "idle" => /\ stage \in {"route", "lan"}
                 /\ stage = "lan" => self = lan.IP /\ gateway = lan.Gateway

IInv == TypeOK /\ RouteInv /\ RightLAN /\ LanInv /\ LookInv /\ LoopInv /\ Lists /\ BlockInv
-----------------------------------------------------------------------------
(* discoverActiveLAN.                                                      *)

LEMMA RowType ==
  /\ NoRoute \in Row
  /\ \A r \in Row : /\ r.via \in V4 \cup {None} /\ r.dev \in Interfaces \cup {None}
                    /\ r.src \in V4 \cup {None} /\ r.metric \in 0..MaxMetric
<1>1. NoRoute \in Row
  <2>1. MaxMetric \in 0..MaxMetric
    BY LanAssumption
  <2>. QED BY <2>1 DEF NoRoute, Row
<1>. QED BY <1>1 DEF Row

LEMMA OutputType ==
  ASSUME NEW o \in DOMAIN Outputs, NEW p \in Outputs[o] \cup {<<>>}
  PROVE  p \in Seq(Row) /\ \A k \in DOMAIN p : p[k].metric < MaxMetric
<1>1. p \in Seq({r \in Row : r.metric < MaxMetric})
  <2>1. CASE p = <<>>
    BY <2>1
  <2>2. CASE p \in Outputs[o]
    BY <2>2, LanAssumption
  <2>. QED BY <2>1, <2>2
<1>2. \A k \in DOMAIN p : p[k] \in {r \in Row : r.metric < MaxMetric}
  BY <1>1
<1>3. p \in Seq(Row)
  BY <1>1, <1>2
<1>. QED BY <1>2, <1>3

\* The least of a set of numbers is one of them.
LEMMA FirstIn ==
  ASSUME NEW S \in SUBSET Nat, S # {}
  PROVE  First(S) \in S /\ \A j \in S : First(S) <= j
BY LeastExists DEF First

LAN == [Interface : Interfaces, IP : V4 \ Loopback, CIDR : {Net[a] : a \in V4},
        Gateway : V4 \cup {None}, Source : DOMAIN Outputs \cup {"fallback-interface"}]
Looks == FromSource \/ FromName \/ Fallback \/ AskNext

LEMMA AddressType ==
  ASSUME NEW s \in Settings \cup {Unread}
  PROVE  Address(s) \in (V4 \ Loopback) \cup {None}
<1>1. CASE Usable(s) = {}
  BY <1>1 DEF Address
<1>2. CASE Usable(s) # {}
  <2>1. s \in Settings
    BY <1>2 DEF Usable, Unread
  <2>2. Usable(s) \in SUBSET Nat
    BY <2>1, LanAssumption DEF Usable
  <2>3. First(Usable(s)) \in Usable(s)
    BY <1>2, <2>2, FirstIn
  <2>. QED BY <1>2, <2>3 DEF Address, Usable
<1>. QED BY <1>1, <1>2

LEMMA UnreadAddress == Address(Unread) = None /\ ~Unread.up
BY DEF Address, Usable, Unread

\* The interface whose turn it is, as it is now.
LEMMA TurnFacts ==
  ASSUME TypeOK, LookInv, stage \in Loops
  PROVE  /\ First(todo) \in todo /\ First(todo) \in Interfaces
         /\ \A j \in todo : First(todo) <= j
         /\ ifaces[First(todo)] \in had[First(todo)] /\ ifaces[First(todo)] \in Settings
<1>1. todo # {} /\ todo \in SUBSET Interfaces /\ todo \in SUBSET Nat
  BY LanAssumption DEF LookInv, TypeOK, LanTypeOK
<1>2. First(todo) \in todo /\ \A j \in todo : First(todo) <= j
  BY <1>1, FirstIn
<1>. QED BY <1>1, <1>2 DEF LookInv, TypeOK, LanTypeOK

\* A call that returns leaves everything as it is; for one that fails, interfaces
\* may have been read as without an address.
LEMMA CallFacts ==
  ASSUME TypeOK, NEW S \in SUBSET Interfaces, CallReturns \/ CallFails(S)
  PROVE  /\ UNCHANGED <<routeVars, ifaces>>
         /\ changes' \in 0..MaxChanges
         /\ had' \in [Interfaces -> SUBSET (Settings \cup {Unread})]
         /\ \A i \in Interfaces : had[i] \subseteq had'[i]
<1>1. CASE CallReturns
  BY <1>1 DEF CallReturns, TypeOK, LanTypeOK
<1>2. CASE CallFails(S)
  <2>1. changes' \in 0..MaxChanges
    BY <1>2, LanAssumption DEF CallFails, TypeOK, LanTypeOK
  <2>. QED BY <1>2, <2>1 DEF CallFails, TypeOK, LanTypeOK
<1>. QED BY <1>1, <1>2

LEMMA FailFacts ==
  ASSUME TypeOK, NEW S \in SUBSET Interfaces, CallFails(S)
  PROVE  \A i \in S : Unread \in had'[i]
BY DEF CallFails

LEMMA LookupFacts ==
  ASSUME TypeOK, LookInv, Looks
  PROVE  /\ UNCHANGED <<routeVars, ifaces>>
         /\ stage \in Lookups \cup Loops
         /\ stage' \in Lookups \cup Loops \cup {"lan", "error"}
         /\ todo' \subseteq Interfaces
         /\ changes' \in 0..MaxChanges
         /\ had' \in [Interfaces -> SUBSET (Settings \cup {Unread})]
         /\ \A i \in Interfaces : had[i] \subseteq had'[i]
         /\ stage' # "lan" => lan' = lan
<1>1. route.dev \in Interfaces \cup {None}
  BY RowType DEF TypeOK, LanTypeOK
<1>2. CASE FromSource
  <2>1. CallReturns \/ CallFails(Interfaces)
    BY <1>2 DEF FromSource
  <2>2. /\ stage \in Lookups /\ stage' \in Lookups \cup Loops /\ todo' \subseteq Interfaces
        /\ lan' = lan
    BY <1>2 DEF FromSource, GoOn, After, Lookups, Loops
  <2>. QED BY <2>1, <2>2, CallFacts
<1>3. CASE FromName
  <2>1. CallReturns \/ (route.dev # None /\ CallFails({route.dev}))
    BY <1>3 DEF FromName
  <2>2. /\ stage \in Lookups /\ stage' \in Lookups \cup Loops /\ todo' \subseteq Interfaces
        /\ lan' = lan
    BY <1>1, <1>3 DEF FromName, GoOn, After, Lookups, Loops
  <2>. QED BY <1>1, <2>1, <2>2, CallFacts
<1>4. CASE Fallback
  <2>1. CallReturns \/ CallFails(Interfaces)
    BY <1>4 DEF Fallback
  <2>2. /\ stage \in Lookups /\ stage' \in Loops \cup {"error"} /\ todo' \subseteq Interfaces
        /\ lan' = lan
    BY <1>4 DEF Fallback, GoOn, After, Lookups, Loops
  <2>. QED BY <2>1, <2>2, CallFacts
<1>5. CASE AskNext
  <2>1. stage \in Loops /\ First(todo) \in Interfaces /\ todo \subseteq Interfaces
    BY <1>5, TurnFacts DEF AskNext, TypeOK, LanTypeOK
  <2>2. CallReturns \/ CallFails({First(todo)})
    BY <1>5 DEF AskNext
  <2>3. /\ stage' \in Lookups \cup Loops \cup {"lan", "error"} /\ todo' \subseteq Interfaces
        /\ stage' # "lan" => lan' = lan
    BY <1>5, <2>1 DEF AskNext, GoOn, After, Lookups, Loops
  <2>. QED BY <2>1, <2>2, <2>3, CallFacts
<1>. QED BY <1>2, <1>3, <1>4, <1>5 DEF Looks

\* What a LAN that is returned is.
LEMMA AskFacts ==
  ASSUME TypeOK, LookInv, Looks, stage' = "lan"
  PROVE  LET i == First(todo)
             a == Address(ifaces[i])
         IN  /\ stage \in Loops /\ CallReturns
             /\ Accepts(a) /\ a \in V4 \ Loopback
             /\ lan' = Found(i, a) /\ lan' \in LAN
<1> DEFINE i == First(todo)
           a == Address(ifaces[i])
<1>1. AskNext
  BY DEF Looks, FromSource, FromName, Fallback, GoOn, After
<1>2. stage \in Loops /\ CallReturns /\ Accepts(a) /\ lan' = Found(i, a)
  BY <1>1 DEF AskNext, GoOn, After, Loops
<1>3. i \in Interfaces /\ ifaces[i] \in Settings
  BY <1>2, TurnFacts
<1>4. route.via \in V4 \cup {None} /\ route.src \in V4 \cup {None} /\ os \in DOMAIN Outputs
  BY RowType DEF TypeOK, LanTypeOK
<1>5. a \in (V4 \ Loopback) \cup {None}
  BY <1>3, AddressType
<1>6. a # None
  <2>1. CASE stage = "bySource"
    BY <1>2, <2>1 DEF Accepts, LookInv
  <2>2. CASE stage = "byName"
    BY <1>2, <2>2 DEF Accepts
  <2>3. CASE stage = "byFallback"
    BY <1>2, <2>3, LanAssumption DEF Accepts
  <2>. QED BY <1>2, <2>1, <2>2, <2>3 DEF Loops
<1>7. lan' \in LAN
  BY <1>2, <1>3, <1>4, <1>5, <1>6 DEF Found, LAN
<1>. QED BY <1>2, <1>5, <1>6, <1>7

LEMMA BetterType ==
  ASSUME NEW b \in Row, NEW r \in Row
  PROVE  Better(b, r) \in {b, r}
BY DEF Better

LEMMA TypeInit ==
  ASSUME Init
  PROVE  TypeOK
<1>1. LanTypeOK
  BY LanAssumption, RowType DEF Init, LanInit, LanTypeOK
<1>2. LoopTypeOK
  <2>1. Width \in Nat /\ 0 \in Addresses
    <3>1. Width \in Nat /\ 2 ^ Width \in Nat /\ 2 ^ Width > 0
      BY WidthAssumption, PowerOfTwo
    <3>. QED BY <3>1 DEF Addresses
  <2>. QED BY <2>1 DEF Init, LoopInit, LoopTypeOK
<1>. QED BY <1>1, <1>2 DEF TypeOK

LEMMA LanTypeStep ==
  ASSUME TypeOK, RouteInv, LookInv, LanNext
  PROVE  LanTypeOK'
<1>. USE DEF TypeOK
<1>1. CASE DiscoverRoute
  <2>1. printed' \in Seq(Row)
    BY <1>1, OutputType DEF DiscoverRoute, LanTypeOK
  <2>2. read' \in 0..Len(printed')
    BY <1>1, <2>1 DEF DiscoverRoute, RouteInv
  <2>3. route' \in Row
    BY <1>1, <2>1, RowType DEF DiscoverRoute, LanTypeOK, ParseFirstRoute
  <2>4. stage' \in {"rows", "source", "fallback"}
    BY <1>1 DEF DiscoverRoute, AfterRoute
  <2>. QED BY <1>1, <2>1, <2>2, <2>3, <2>4 DEF DiscoverRoute, LanTypeOK, Lookups
<1>2. CASE ParseWindowsRow
  <2>1. read' \in 1..Len(printed) /\ printed' = printed
    BY <1>2 DEF ParseWindowsRow, LanTypeOK
  <2>2. route' \in Row
    BY <1>2, <2>1, BetterType DEF ParseWindowsRow, LanTypeOK
  <2>. QED BY <1>2, <2>1, <2>2 DEF ParseWindowsRow, LanTypeOK
<1>3. CASE WindowsRouteRead
  BY <1>3 DEF WindowsRouteRead, AfterRoute, LanTypeOK, Lookups, routeVars
<1>4. CASE Looks
  <2>1. UNCHANGED routeVars /\ stage' \in Lookups \cup Loops \cup {"lan", "error"}
    BY <1>4, LookupFacts
  <2>2. ifaces' = ifaces /\ todo' \subseteq Interfaces /\ changes' \in 0..MaxChanges
        /\ had' \in [Interfaces -> SUBSET (Settings \cup {Unread})]
    BY <1>4, LookupFacts
  <2>3. lan' = lan \/ lan' \in LAN
    BY <1>4, LookupFacts, AskFacts
  <2>. QED BY <2>1, <2>2, <2>3 DEF LanTypeOK, routeVars, LAN
<1>5. CASE InterfaceChanges
  <2>1. changes' \in 0..MaxChanges
    BY <1>5, LanAssumption DEF InterfaceChanges, LanTypeOK
  <2>2. ifaces' \in [Interfaces -> Settings]
        /\ had' \in [Interfaces -> SUBSET (Settings \cup {Unread})]
    BY <1>5 DEF InterfaceChanges, LanTypeOK
  <2>. QED BY <1>5, <2>1, <2>2 DEF InterfaceChanges, LanTypeOK, routeVars
<1>. QED BY <1>1, <1>2, <1>3, <1>4, <1>5 DEF LanNext, Looks

\* One more row of the table: the best row so far stays or is replaced.
LEMMA RouteStep ==
  ASSUME TypeOK, RouteInv, LookInv, LanNext
  PROVE  RouteInv'
<1>. USE DEF TypeOK
<1>1. CASE DiscoverRoute
  <2>1. os' = os /\ read' = 0 /\ printed' \in Outputs[os] \cup {<<>>}
        /\ stage' \in {"rows", "source", "fallback"}
    BY <1>1 DEF DiscoverRoute, RouteInv, AfterRoute
  <2>2. ASSUME os = "windows" PROVE stage' = "rows" /\ BestRead'
    <3>1. stage' = "rows" /\ route' = NoRoute
      BY <1>1, <2>2 DEF DiscoverRoute, RouteInv
    <3>2. Candidates(read)' = {}
      BY <2>1 DEF Candidates
    <3>. QED BY <2>1, <3>1, <3>2 DEF BestRead
  <2>3. ASSUME os # "windows" PROVE stage' # "rows"
    BY <1>1, <2>3 DEF DiscoverRoute, AfterRoute
  <2>. QED BY <2>1, <2>2, <2>3 DEF RouteInv
<1>2. CASE ParseWindowsRow
  <2>1. /\ os = "windows" /\ stage = "rows" /\ BestRead
        /\ UNCHANGED <<os, printed, stage>>
        /\ read' = read + 1 /\ read \in 0..Len(printed) /\ read < Len(printed)
        /\ route' = Better(route, printed[read + 1])
        /\ printed \in Outputs[os] \cup {<<>>}
    BY <1>2 DEF ParseWindowsRow, RouteInv, LanTypeOK
  <2>2. printed \in Seq(Row) /\ read + 1 \in DOMAIN printed /\ os \in DOMAIN Outputs
    BY <2>1 DEF LanTypeOK
  <2>. DEFINE old == Candidates(read)
              new == Candidates(read)'
              row == printed[read + 1]
  <2>3. /\ old \subseteq 1..read
        /\ new = old \cup IF row.via # None /\ row.src # None THEN {read + 1} ELSE {}
    BY <2>1, <2>2 DEF Candidates
  <2>4. /\ row \in Row /\ row.metric < MaxMetric /\ row.metric \in Nat
        /\ \A k \in old : printed[k].metric \in Nat
    <3>1. \A k \in DOMAIN printed : printed[k] \in Row /\ printed[k].metric < MaxMetric
      BY <2>1, <2>2, OutputType
    <3>2. old \subseteq DOMAIN printed
      BY <2>1, <2>2, <2>3
    <3>3. \A k \in DOMAIN printed : printed[k].metric \in Nat
      BY <3>1, RowType
    <3>. QED BY <2>2, <3>1, <3>2, <3>3
  <2>5. CASE row.via = None \/ row.src = None
    <3>1. new = old /\ route' = route
      BY <2>1, <2>3, <2>5 DEF Better
    <3>2. BestRead'
      BY <2>1, <3>1 DEF BestRead, IsBest
    <3>. QED BY <2>1, <3>2 DEF RouteInv
  <2>6. CASE row.via # None /\ row.src # None
    <3>1. new = old \cup {read + 1} /\ read \in Nat
      BY <2>1, <2>3, <2>6
    <3>2. route' = IF row.metric >= route.metric THEN route ELSE row
      BY <2>1, <2>6 DEF Better
    <3>3. CASE old = {}
      <4>1. route = NoRoute /\ route.metric = MaxMetric
        BY <2>1, <3>3 DEF BestRead, NoRoute
      <4>2. route' = row
        BY <2>4, <3>2, <4>1, LanAssumption
      <4>3. new = {read + 1}
        BY <3>1, <3>3
      <4>4. IsBest(read + 1, new)
        BY <2>1, <2>4, <3>1, <4>3 DEF IsBest
      <4>. QED BY <2>1, <4>2, <4>3, <4>4 DEF BestRead, IsBest, RouteInv
    <3>4. CASE old # {}
      <4>1. PICK m \in old : IsBest(m, old) /\ route = printed[m]
        BY <2>1, <3>4 DEF BestRead
      <4>2. new # {} /\ m \in new /\ read + 1 \in new
        BY <3>1
      <4>3. CASE row.metric >= route.metric
        <5>1. route' = printed[m]
          BY <3>2, <4>1, <4>3
        <5>2. IsBest(m, new)
          BY <2>1, <2>3, <2>4, <3>1, <4>1, <4>3 DEF IsBest
        <5>. QED BY <2>1, <4>2, <5>1, <5>2 DEF BestRead, IsBest, RouteInv
      <4>4. CASE ~ (row.metric >= route.metric)
        <5>1. route' = printed[read + 1] /\ row.metric < printed[m].metric
          BY <2>4, <3>2, <4>1, <4>4
        <5>2. IsBest(read + 1, new)
          BY <2>1, <2>3, <2>4, <3>1, <4>1, <5>1 DEF IsBest
        <5>. QED BY <2>1, <4>2, <5>1, <5>2 DEF BestRead, IsBest, RouteInv
      <4>. QED BY <4>3, <4>4
    <3>. QED BY <3>3, <3>4
  <2>. QED BY <2>5, <2>6
<1>3. CASE WindowsRouteRead
  <2>1. UNCHANGED <<os, printed, read, route>> /\ stage = "rows" /\ read = Len(printed)
        /\ stage' \in {"source", "fallback"}
    BY <1>3 DEF WindowsRouteRead, AfterRoute, routeVars
  <2>2. BestRead' = BestRead
    BY <2>1 DEF BestRead, IsBest, Candidates
  <2>. QED BY <2>1, <2>2 DEF RouteInv
<1>4. CASE Looks
  <2>1. UNCHANGED <<os, printed, read, route>> /\ stage \in Lookups \cup Loops
        /\ stage' \notin {"route", "rows"}
    BY <1>4, LookupFacts DEF routeVars, Lookups, Loops
  <2>2. BestRead' = BestRead
    BY <2>1 DEF BestRead, IsBest, Candidates
  <2>. QED BY <2>1, <2>2 DEF RouteInv, Lookups, Loops
<1>5. CASE InterfaceChanges
  <2>1. UNCHANGED <<os, printed, read, route, stage>>
    BY <1>5 DEF InterfaceChanges, routeVars
  <2>2. BestRead' = BestRead
    BY <2>1 DEF BestRead, IsBest, Candidates
  <2>. QED BY <2>1, <2>2 DEF RouteInv
<1>. QED BY <1>1, <1>2, <1>3, <1>4, <1>5 DEF LanNext, Looks

\* What an interface has been it will have been: with the route, what is known of
\* the lookups stays true.
LEMMA Monotone ==
  ASSUME TypeOK, route' = route, NEW S \in SUBSET Interfaces,
         \A i \in Interfaces : had[i] \subseteq had'[i]
  PROVE  /\ NoSource(S) => NoSource(S)'
         /\ NoName => NoName'
         /\ NoFallback(S) => NoFallback(S)'
<1>1. route.dev \in Interfaces \cup {None}
  BY RowType DEF TypeOK, LanTypeOK
<1>2. NoSource(S) => NoSource(S)'
  BY DEF NoSource, BeenWithout
<1>3. NoName => NoName'
  BY <1>1 DEF NoName, BeenWithout
<1>4. NoFallback(S) => NoFallback(S)'
  BY DEF NoFallback, BeenWithout
<1>. QED BY <1>2, <1>3, <1>4

\* A LAN that has been found stays one that is right.
LEMMA RightStays ==
  ASSUME TypeOK, RightLAN, UNCHANGED <<routeVars, stage, lan>>, LanInv,
         \A i \in Interfaces : had[i] \subseteq had'[i]
  PROVE  RightLAN'
<1>1. UNCHANGED <<os, route>>
  BY DEF routeVars
<1>2. CASE stage = "lan"
  <2>1. lan.Interface \in Interfaces
    BY <1>2 DEF LanInv, TypeOK, LanTypeOK
  <2> DEFINE i == lan.Interface
  <2>2. Below(i) \in SUBSET Interfaces /\ Below(i)' = Below(i)
    BY DEF Below
  <2>3. FromRoute(i, lan.IP) => FromRoute(i, lan.IP)'
    BY <1>1, <2>2, Monotone DEF FromRoute
  <2>4. FromFallback(i, lan.IP) => FromFallback(i, lan.IP)'
    BY <1>1, <2>1, <2>2, Monotone DEF FromFallback
  <2>5. lan.IP \in {Address(s) : s \in had'[i]} \ Loopback
    BY <1>2, <2>1 DEF RightLAN
  <2>6. (FromRoute(i, lan.IP) \/ FromFallback(i, lan.IP)) /\ lan.CIDR = Net[lan.IP]
    BY <1>2 DEF RightLAN
  <2>7. lan' = lan /\ stage' = "lan"
    BY <1>2
  <2>8. FromRoute(lan.Interface, lan.IP)' \/ FromFallback(lan.Interface, lan.IP)'
    BY <2>3, <2>4, <2>6, <2>7
  <2>. QED BY <2>5, <2>6, <2>7, <2>8 DEF RightLAN
<1>3. CASE stage = "error"
  BY <1>1, <1>3, Monotone DEF RightLAN
<1>4. CASE stage \notin {"lan", "error"}
  BY <1>4 DEF RightLAN
<1>. QED BY <1>2, <1>3, <1>4

LEMMA LookStays ==
  ASSUME TypeOK, LookInv, UNCHANGED <<routeVars, stage, todo>>,
         \A i \in Interfaces : had[i] \subseteq had'[i] /\ ifaces'[i] \in had'[i]
  PROVE  LookInv'
<1>1. UNCHANGED <<os, route>>
  BY DEF routeVars
<1>2. Before \in SUBSET Interfaces /\ Before' = Before /\ todo \subseteq Interfaces
  BY DEF Before, TypeOK, LanTypeOK
<1>3. /\ NoSource(Before) => NoSource(Before)'
      /\ NoFallback(Before) => NoFallback(Before)'
  BY <1>1, <1>2, Monotone
<1>4. NoSource(Interfaces) => NoSource(Interfaces)'
  BY <1>1, Monotone
<1>5. NoName => NoName'
  BY <1>1, Monotone
<1>. QED BY <1>1, <1>2, <1>3, <1>4, <1>5 DEF LookInv

\* Those below the one whose turn it is have been asked.
LEMMA BelowBefore ==
  ASSUME TypeOK, NEW i \in Interfaces, \A j \in todo : i <= j
  PROVE  Below(i) \subseteq Before /\ Before \in SUBSET Interfaces
<1>1. ASSUME NEW j \in Interfaces, j < i PROVE j \notin todo
  BY <1>1, LanAssumption DEF TypeOK, LanTypeOK
<1>. QED BY <1>1 DEF Below, Before

\* The interface whose turn it is will do.
LEMMA LookFound ==
  ASSUME TypeOK, LookInv, Looks, stage' = "lan",
         NEW i, i = First(todo), NEW a, a = Address(ifaces[i])
  PROVE  RightLAN' /\ LanInv' /\ LookInv'
<1>. USE DEF TypeOK
<1>1. /\ stage \in Loops /\ CallReturns /\ Accepts(a) /\ a \in V4 \ Loopback
      /\ lan' = Found(i, a) /\ lan' \in LAN
  BY AskFacts
<1>2. UNCHANGED <<os, route, ifaces, had>>
  BY <1>1 DEF CallReturns, routeVars
<1>3. /\ i \in todo /\ i \in Interfaces /\ \A j \in todo : i <= j
      /\ ifaces[i] \in had'[i]
  BY <1>1, <1>2, TurnFacts
<1>4. Below(i) \subseteq Before /\ todo \subseteq Interfaces
  BY <1>3, BelowBefore DEF LanTypeOK
<1>5. /\ \A S : NoSource(S)' = NoSource(S)
      /\ \A S : NoFallback(S)' = NoFallback(S)
      /\ NoName' = NoName
  BY <1>2 DEF NoSource, NoFallback, NoName, BeenWithout
<1>6. /\ lan'.Interface = i /\ lan'.IP = a /\ lan'.CIDR = Net[a]
      /\ stage = "byFallback" => lan'.Source = "fallback-interface" /\ lan'.Gateway = None
      /\ stage # "byFallback" => lan'.Source = os /\ lan'.Gateway = route.via
  BY <1>1 DEF Found
<1>7. os \in DOMAIN Outputs /\ os # "fallback-interface"
  BY LanAssumption DEF LanTypeOK
<1>8. FromRoute(lan.Interface, lan.IP)' \/ FromFallback(lan.Interface, lan.IP)'
  <2>1. CASE stage = "bySource"
    <3>1. a = route.src /\ NoSource(Below(i))
      BY <1>1, <1>4, <2>1 DEF Accepts, LookInv, NoSource
    <3>2. NoSource(Below(lan.Interface))'
      BY <1>5, <1>6, <3>1 DEF Below, NoSource
    <3>. QED BY <1>2, <1>6, <2>1, <3>1, <3>2 DEF FromRoute
  <2>2. CASE stage = "byName"
    <3>1. i = route.dev /\ NoSource(Interfaces)'
      BY <1>3, <1>5, <2>2 DEF LookInv
    <3>. QED BY <1>2, <1>6, <2>2, <3>1 DEF FromRoute
  <2>3. CASE stage = "byFallback"
    <3>1. /\ NoSource(Interfaces)' /\ NoName' /\ NoFallback(Below(i))
          /\ \E s \in had'[i] : s.up /\ ~s.loopback
      BY <1>2, <1>3, <1>4, <1>5, <2>3 DEF LookInv, NoFallback
    <3>2. a \in Private
      BY <1>1, <2>3 DEF Accepts
    <3>3. NoFallback(Below(lan.Interface))'
      BY <1>5, <1>6, <3>1 DEF Below, NoFallback
    <3>. QED BY <1>2, <1>6, <2>3, <3>1, <3>2, <3>3 DEF FromFallback
  <2>. QED BY <1>1, <2>1, <2>2, <2>3 DEF Loops
<1>9. RightLAN'
  <2>1. lan'.IP \in {Address(s) : s \in had'[lan'.Interface]} \ Loopback
    BY <1>1, <1>3, <1>6
  <2>. QED BY <1>6, <1>8, <2>1 DEF RightLAN
<1>10. lan' # NoLAN
  BY <1>3, <1>6, LanAssumption DEF NoLAN
<1>11. LanInv'
  BY <1>1, <1>2, <1>6, <1>7, <1>10 DEF LanInv, Loops
<1>12. LookInv'
  BY <1>2 DEF LookInv, Loops
<1>. QED BY <1>9, <1>11, <1>12

\* It will not, or cannot be asked.
LEMMA LookMissed ==
  ASSUME TypeOK, LookInv, Looks, stage \in Loops, RightLAN, LanInv,
         NEW i, i = First(todo), NEW a, a = Address(ifaces[i]),
         GoOn(stage, todo \ {i}), ~Accepts(a) \/ CallFails({i})
  PROVE  RightLAN' /\ LanInv' /\ LookInv'
<1>. USE DEF TypeOK
<1>1. /\ UNCHANGED <<ifaces, os, route>>
      /\ \A j \in Interfaces : had[j] \subseteq had'[j]
      /\ \A j \in Interfaces : ifaces'[j] \in had'[j]
  BY LookupFacts DEF routeVars, LookInv
<1>2. /\ i \in todo /\ i \in Interfaces /\ todo \subseteq Interfaces
      /\ ifaces[i] \in had'[i] /\ ifaces[i] \in Settings
  BY <1>1, TurnFacts DEF LanTypeOK
<1>3. /\ route.src \in V4 \cup {None} /\ route.dev \in Interfaces \cup {None}
      /\ a \in V4 \cup {None}
  BY <1>2, RowType, AddressType DEF LanTypeOK
<1>4. \E s \in had'[i] : s = Unread \/ (Address(s) = a /\ ~Accepts(a))
  <2>1. CASE CallFails({i})
    <3>1. {i} \in SUBSET Interfaces
      BY <1>2
    <3>2. Unread \in had'[i]
      BY <2>1, <3>1, FailFacts
    <3>. QED BY <3>2
  <2>2. CASE ~CallFails({i})
    <3>1. Address(ifaces[i]) = a /\ ~Accepts(a)
      BY <2>2
    <3>. QED BY <1>2, <3>1
  <2>. QED BY <2>1, <2>2
<1>5. Before' = Before \cup {i} /\ Before \in SUBSET Interfaces /\ todo' = todo \ {i}
  BY <1>2 DEF Before, GoOn
<1>6. lan' = lan /\ stage' = IF todo' = {} THEN After(stage) ELSE stage
  BY <1>5 DEF GoOn
<1>7. todo' = {} => Before' = Interfaces
  BY DEF Before
<1>8. /\ NoSource(Interfaces) => NoSource(Interfaces)'
      /\ NoName => NoName'
      /\ NoSource(Before) => \A j \in Before : route.src # None => BeenWithout(j, {route.src})'
      /\ NoFallback(Before) =>
           \A j \in Before : BeenWithout(j, Private)' \/ \E s \in had'[j] : ~s.up \/ s.loopback
  <2>1. Interfaces \in SUBSET Interfaces
    OBVIOUS
  <2>2. ASSUME NoSource(Before), route.src # None, NEW j \in Before
        PROVE  BeenWithout(j, {route.src})'
    BY <1>1, <1>5, <2>2 DEF NoSource, BeenWithout
  <2>4. ASSUME NoFallback(Before), NEW j \in Before
        PROVE  BeenWithout(j, Private)' \/ \E s \in had'[j] : ~s.up \/ s.loopback
    BY <1>1, <1>5, <2>4 DEF NoFallback, BeenWithout
  <2>3. /\ NoSource(Interfaces) => NoSource(Interfaces)'
        /\ NoName => NoName'
    BY <1>1, <2>1, Monotone
  <2>. QED BY <2>2, <2>3, <2>4
<1>9. CASE stage = "bySource"
  <2>1. route.src # None /\ NoSource(Before) /\ route.src \in V4
    BY <1>3, <1>9 DEF LookInv
  <2>2. BeenWithout(i, {route.src})'
    BY <1>1, <1>4, <1>9, <2>1, UnreadAddress, LanAssumption DEF BeenWithout, Accepts
  <2>3. NoSource(Before)'
    BY <1>1, <1>5, <1>8, <2>1, <2>2 DEF NoSource
  <2>4. CASE todo' = {}
    <3>1. NoSource(Interfaces)' /\ stage' = "name"
      BY <1>6, <1>7, <1>9, <2>3, <2>4 DEF After, NoSource
    <3>. QED BY <1>1, <3>1 DEF LookInv, RightLAN, LanInv, Loops
  <2>5. CASE todo' # {}
    <3>1. stage' = "bySource"
      BY <1>6, <1>9, <2>5
    <3>. QED BY <1>1, <2>1, <2>3, <2>5, <3>1 DEF LookInv, RightLAN, LanInv, Loops
  <2>. QED BY <2>4, <2>5
<1>10. CASE stage = "byName"
  <2>1. todo = {route.dev} /\ NoSource(Interfaces) /\ i = route.dev
    BY <1>2, <1>10 DEF LookInv
  <2>2. BeenWithout(i, V4)'
    BY <1>3, <1>4, <1>10, UnreadAddress, LanAssumption DEF BeenWithout, Accepts
  <2>3. NoName'
    BY <1>1, <2>1, <2>2 DEF NoName
  <2>4. stage' = "fallback"
    BY <1>5, <1>6, <1>10, <2>1 DEF After
  <2>. QED BY <1>1, <1>8, <2>1, <2>3, <2>4 DEF LookInv, RightLAN, LanInv, Loops
<1>11. CASE stage = "byFallback"
  <2>1. NoSource(Interfaces)' /\ NoName' /\ NoFallback(Before)
    BY <1>8, <1>11 DEF LookInv
  <2>2. BeenWithout(i, Private)'
    BY <1>1, <1>4, <1>11, UnreadAddress, LanAssumption DEF BeenWithout, Accepts
  <2>3. NoFallback(Before)'
    BY <1>5, <1>8, <2>1, <2>2 DEF NoFallback
  <2>4. \A j \in todo' : \E s \in had'[j] : s.up /\ ~s.loopback
    BY <1>1, <1>2, <1>5, <1>11 DEF LookInv
  <2>5. CASE todo' = {}
    <3>1. NoFallback(Interfaces)' /\ stage' = "error"
      BY <1>6, <1>7, <1>11, <2>3, <2>5 DEF After, NoFallback
    <3>. QED BY <1>1, <2>1, <3>1 DEF LookInv, RightLAN, LanInv, Loops
  <2>6. CASE todo' # {}
    <3>1. stage' = "byFallback"
      BY <1>6, <1>11, <2>6
    <3>. QED BY <1>1, <2>1, <2>3, <2>4, <2>6, <3>1 DEF LookInv, RightLAN, LanInv, Loops
  <2>. QED BY <2>5, <2>6
<1>. QED BY <1>9, <1>10, <1>11 DEF Loops

\* A lookup lists interfaces, finds none that will do, or one that will.
LEMMA LookStep ==
  ASSUME TypeOK, RouteInv, RightLAN, LanInv, LookInv, Looks
  PROVE  RightLAN' /\ LanInv' /\ LookInv'
<1>. USE DEF TypeOK
<1>1. /\ UNCHANGED <<routeVars, ifaces, os, route>> /\ stage \in Lookups \cup Loops
      /\ \A i \in Interfaces : had[i] \subseteq had'[i]
      /\ \A i \in Interfaces : ifaces'[i] \in had'[i]
  BY LookupFacts DEF routeVars, LookInv
<1>2. /\ \A S \in SUBSET Interfaces : NoSource(S) => NoSource(S)'
      /\ \A S \in SUBSET Interfaces : NoFallback(S) => NoFallback(S)'
      /\ NoName => NoName'
  BY <1>1, Monotone
<1>3. /\ todo \subseteq Interfaces /\ Interfaces \in SUBSET Interfaces
      /\ route.src \in V4 \cup {None} /\ route.dev \in Interfaces \cup {None}
  BY RowType DEF LanTypeOK
<1>4. \A S : (\A i \in S : Unread \in had'[i]) =>
               /\ NoSource(S)' /\ NoFallback(S)'
               /\ (route.dev \in S => NoName')
  BY <1>1, <1>3, UnreadAddress, LanAssumption DEF NoSource, NoFallback, NoName, BeenWithout
<1>5. CASE FromSource
  <2>1. CASE route.src # None /\ GoOn("bySource", Interfaces)
    <3>1. NoSource({})'
      BY DEF NoSource
    <3>2. CASE Interfaces = {}
      BY <1>1, <2>1, <3>1, <3>2
         DEF GoOn, After, LookInv, RightLAN, LanInv, Loops
    <3>3. CASE Interfaces # {}
      <4>1. stage' = "bySource" /\ todo' = Interfaces /\ Before' = {}
        BY <2>1, <3>3 DEF GoOn, Before
      <4>. QED BY <1>1, <2>1, <3>1, <3>3, <4>1 DEF LookInv, RightLAN, LanInv, Loops
    <3>. QED BY <3>2, <3>3
  <2>2. CASE GoOn("bySource", {}) /\ NoSource(Interfaces)'
    BY <1>1, <2>2 DEF GoOn, After, LookInv, RightLAN, LanInv, Loops
  <2>3. route.src = None => NoSource(Interfaces)'
    BY <1>1 DEF NoSource
  <2>4. CallFails(Interfaces) => NoSource(Interfaces)'
    BY <1>3, <1>4, FailFacts
  <2>. QED BY <1>5, <2>1, <2>2, <2>3, <2>4 DEF FromSource
<1>6. CASE FromName
  <2>1. NoSource(Interfaces)'
    BY <1>2, <1>3, <1>6 DEF FromName, LookInv
  <2>2. CASE GoOn("byName", {route.dev}) /\ route.dev # None
    <3>1. stage' = "byName" /\ todo' = {route.dev}
      BY <2>2 DEF GoOn
    <3>. QED BY <1>1, <2>1, <3>1 DEF LookInv, RightLAN, LanInv, Loops
  <2>3. CASE GoOn("byName", {}) /\ NoName'
    BY <1>1, <2>1, <2>3 DEF GoOn, After, LookInv, RightLAN, LanInv, Loops
  <2>4. route.dev = None => NoName' /\ {route.dev} \ {None} = {}
    BY <1>1 DEF NoName
  <2>5. route.dev # None => {route.dev} \ {None} = {route.dev}
    OBVIOUS
  <2>6. ASSUME route.dev # None, CallFails({route.dev}) PROVE NoName'
    <3>1. {route.dev} \in SUBSET Interfaces
      BY <1>3, <2>6
    <3>2. \A i \in {route.dev} : Unread \in had'[i]
      BY <2>6, <3>1, FailFacts
    <3>. QED BY <1>4, <3>2
  <2>. QED BY <1>6, <2>2, <2>3, <2>4, <2>5, <2>6 DEF FromName
<1>7. CASE Fallback
  <2>1. NoSource(Interfaces)' /\ NoName'
    BY <1>2, <1>3, <1>7 DEF Fallback, LookInv
  <2>2. CASE GoOn("byFallback", {}) /\ NoFallback(Interfaces)'
    BY <1>1, <2>1, <2>2 DEF GoOn, After, LookInv, RightLAN, LanInv, Loops
  <2>3. CallFails(Interfaces) => NoFallback(Interfaces)'
    BY <1>3, <1>4, FailFacts
  <2>4. ASSUME NEW U, U = {i \in Interfaces : ifaces[i].up /\ ~ifaces[i].loopback},
               GoOn("byFallback", U)
        PROVE  RightLAN' /\ LanInv' /\ LookInv'
    <3>1. NoFallback(Interfaces \ U)'
      BY <1>1, <2>4 DEF NoFallback
    <3>2. CASE U = {}
      BY <2>2, <2>4, <3>1, <3>2 DEF NoFallback
    <3>3. CASE U # {}
      <4>1. stage' = "byFallback" /\ todo' = U /\ Before' = Interfaces \ U
        BY <2>4, <3>3 DEF GoOn, Before
      <4>2. \A i \in U : \E s \in had'[i] : s.up /\ ~s.loopback
        BY <1>1, <2>4
      <4>. QED BY <1>1, <2>1, <3>1, <3>3, <4>1, <4>2 DEF LookInv, RightLAN, LanInv, Loops
    <3>. QED BY <3>2, <3>3
  <2>. QED BY <1>7, <2>2, <2>3, <2>4 DEF Fallback
<1>8. CASE AskNext
  <2> DEFINE i == First(todo)
             a == Address(ifaces[i])
  <2>1. stage \in Loops
    BY <1>8 DEF AskNext
  <2>2. CASE stage' = "lan"
    BY <1>8, <2>2, LookFound DEF Looks
  <2>3. CASE GoOn(stage, todo \ {i}) /\ (~Accepts(a) \/ CallFails({i}))
    BY <1>8, <2>1, <2>3, LookMissed DEF Looks
  <2>. QED BY <1>8, <2>2, <2>3 DEF AskNext
<1>. QED BY <1>5, <1>6, <1>7, <1>8 DEF Looks

\* The other steps leave what a lookup knows, or come before the first.
LEMMA LanStep ==
  ASSUME TypeOK, RouteInv, RightLAN, LanInv, LookInv, LanNext
  PROVE  RightLAN' /\ LanInv' /\ LookInv'
<1>. USE DEF TypeOK
<1>1. CASE DiscoverRoute \/ ParseWindowsRow \/ WindowsRouteRead
  <2>1. /\ stage' \in {"rows", "source", "fallback"}
        /\ stage' = "fallback" => route' = NoRoute
        /\ UNCHANGED <<ifaces, had>>
    BY <1>1 DEF DiscoverRoute, ParseWindowsRow, WindowsRouteRead, AfterRoute, routeVars
  <2>2. route' = NoRoute => \A S : NoSource(S)' /\ NoName'
    BY DEF NoRoute, NoSource, NoName
  <2>. QED BY <2>1, <2>2 DEF RightLAN, LanInv, LookInv, Loops
<1>2. CASE Looks
  BY <1>2, LookStep
<1>3. CASE InterfaceChanges
  <2>1. UNCHANGED <<routeVars, stage, todo, lan, route>>
    BY <1>3 DEF InterfaceChanges, routeVars
  <2>2. \A i \in Interfaces : had[i] \subseteq had'[i] /\ ifaces'[i] \in had'[i]
    BY <1>3 DEF InterfaceChanges, LanTypeOK, LookInv
  <2>3. LanInv'
    BY <2>1 DEF LanInv
  <2>. QED BY <2>1, <2>2, <2>3, RightStays, LookStays
<1>. QED BY <1>1, <1>2, <1>3 DEF LanNext, Looks

\* There is at most one best row, and it is the first of those with the least metric.
LEMMA LeastMetricHolds ==
  ASSUME TypeOK, RouteInv
  PROVE  LeastMetric
<1>. SUFFICES ASSUME os = "windows", stage \notin {"route", "rows"}
     PROVE  LET rows == Candidates(Len(printed))
            IN  route = IF rows = {} THEN NoRoute ELSE printed[First(Least(rows))]
  BY DEF LeastMetric
<1> DEFINE rows == Candidates(Len(printed))
<1>1. BestRead /\ read = Len(printed) /\ read \in Nat
  BY DEF RouteInv, TypeOK, LanTypeOK
<1>2. CASE rows = {}
  BY <1>1, <1>2 DEF BestRead
<1>3. CASE rows # {}
  <2>1. PICK m \in rows : IsBest(m, rows) /\ route = printed[m]
    BY <1>1, <1>3 DEF BestRead
  <2>2. rows \subseteq 1..Len(printed) /\ \A k \in rows : printed[k].metric \in Nat
    <3>1. \A k \in 1..Len(printed) : printed[k] \in Row
      BY DEF TypeOK, LanTypeOK
    <3>2. \A k \in 1..Len(printed) : printed[k].metric \in Nat
      BY <3>1, RowType
    <3>. QED BY <3>2 DEF Candidates
  <2>3. m \in Least(rows) /\ \A j \in Least(rows) : m <= j
    BY <1>1, <2>1, <2>2 DEF IsBest, Least
  <2>4. First(Least(rows)) = m
    <3>1. Least(rows) \in SUBSET Nat
      BY <1>1, <2>2 DEF Least
    <3>2. First(Least(rows)) \in Least(rows) /\ First(Least(rows)) <= m
      BY <2>3, <3>1, FirstIn
    <3>. QED BY <2>3, <3>1, <3>2
  <2>. QED BY <1>3, <2>1, <2>4
<1>. QED BY <1>2, <1>3

-----------------------------------------------------------------------------
(* The loop.                                                               *)

LEMMA Reasons ==
  ASSUME NEW ip
  PROVE  /\ Reason(ip) = "none" <=> ip \notin {self, gateway, network, Broadcast}
         /\ Reason(ip) = "self" => ip = self
         /\ Reason(ip) = "gateway" => ip = gateway
         /\ ip \in {self, gateway} => Reason(ip) \in {"self", "gateway"}
         /\ Reason(ip) \in {"none", "network", "broadcast", "self", "gateway"}
BY DEF Reason

\* The block that the loop runs through.
LEMMA TheBlock ==
  ASSUME LoopTypeOK, network % 2 ^ (Width - ones) = 0
  PROVE  /\ network \in Nat /\ Last \in Nat /\ network <= Last /\ Last < 2 ^ Width
         /\ 2 ^ Width \in Nat
         /\ Broadcast = Last
         /\ Block = network..Last
<1> DEFINE b == 2 ^ (Width - ones)
<1>1. ones \in 0..Width /\ network \in Addresses /\ network \in Nat
  BY Powers DEF LoopTypeOK, Addresses
<1>2. /\ b \in Nat /\ b > 0 /\ network + b <= 2 ^ Width
      /\ Wrap(network + Wrap(b) + 2 ^ Width - 1) = network + b - 1
      /\ {ip \in Addresses : Mask(ip, ones) = network} = network..network + b - 1
  BY <1>1, BlockFacts
<1>3. 2 ^ Width \in Nat
  BY <1>1, Powers
<1>4. Broadcast = network + b - 1 /\ Block = network..network + b - 1
  BY <1>2 DEF Broadcast, Size, Block
<1>5. Last = network + b - 1
  BY DEF Last
<1>. HIDE DEF b
<1>. QED BY <1>1, <1>2, <1>3, <1>4, <1>5

\* The loop begins at the first address of an aligned block, with empty lists.
LEMMA BeginStep ==
  ASSUME LoopTypeOK, LoopInv, NEW ip \in Addresses, NEW n \in 0..Width,
         NEW own \in Addresses \cup {NoIP}, NEW via \in Addresses \cup {NoIP},
         Begin(ip, n, own, via)
  PROVE  LoopTypeOK' /\ LoopInv' /\ Lists'
<1>1. /\ pc = "idle" /\ targets = <<>> /\ skipped = <<>>
      /\ ones' = n /\ network' = Mask(ip, n) /\ self' = own /\ gateway' = via
      /\ current' = Mask(ip, n) /\ pc' = "loop" /\ targets' = <<>> /\ skipped' = <<>>
  BY DEF Begin, LoopInv
<1>2. Mask(ip, n) \in Addresses /\ Mask(ip, n) % 2 ^ (Width - n) = 0
  BY MaskFacts
<1>3. LoopTypeOK'
  BY <1>1, <1>2 DEF LoopTypeOK
<1>4. network' \in Nat /\ current' \in network'..Last'
  <2>1. 2 ^ (Width - n) \in Nat /\ 2 ^ (Width - n) > 0 /\ Mask(ip, n) \in Nat
    BY <1>2, Powers DEF Addresses
  <2>2. Last' = Mask(ip, n) + 2 ^ (Width - n) - 1
    BY <1>1 DEF Last
  <2>. QED BY <1>1, <2>1, <2>2
<1>5. LoopInv'
  BY <1>1, <1>2, <1>4 DEF LoopInv
<1>6. Passed' = {}
  BY <1>1, <1>4 DEF Passed
<1>7. Lists'
  BY <1>1, <1>4, <1>6 DEF Lists, Range
<1>. QED BY <1>3, <1>5, <1>7

\* A step of the loop takes the next address of the block.
LEMMA AdvanceStep ==
  ASSUME LoopTypeOK, LoopInv, Step
  PROVE  /\ LoopTypeOK' /\ LoopInv'
         /\ UNCHANGED given /\ Broadcast' = Broadcast
         /\ pc = "loop" /\ pc' # "idle" /\ Record
         /\ network \in Nat /\ current \in Nat /\ network <= current
         /\ Passed' = Passed \cup {current}
         /\ (IF pc' = "loop" THEN current' ELSE current' + 1) = current + 1
<1>1. /\ pc = "loop" /\ current <= Broadcast /\ Record /\ Advance /\ UNCHANGED given
      /\ network % 2 ^ (Width - ones) = 0 /\ current \in network..Last
  BY DEF Step, LoopInv
<1>2. UNCHANGED <<ones, network, self, gateway>>
  BY <1>1 DEF given
<1>3. /\ network \in Nat /\ Last \in Nat /\ Last < 2 ^ Width /\ 2 ^ Width \in Nat
      /\ Broadcast = Last /\ current \in Nat /\ network <= current
  BY <1>1, TheBlock
<1>4. Broadcast' = Broadcast /\ Last' = Last
  BY <1>2 DEF Broadcast, Last, Size
<1>5. /\ targets' \in Seq(Addresses)
      /\ skipped' \in Seq([ip : Addresses, reason : {"network", "broadcast", "self", "gateway"}])
  <2>1. CASE Reason(current) = "none"
    BY <1>1, <2>1 DEF Record, LoopTypeOK
  <2>2. CASE Reason(current) # "none"
    <3> DEFINE entry == [ip |-> current, reason |-> Reason(current)]
               Entries == [ip : Addresses, reason : {"network", "broadcast", "self", "gateway"}]
    <3>1. entry \in Entries
      BY <2>2, Reasons DEF LoopTypeOK
    <3>2. skipped' = Append(skipped, entry) /\ targets' = targets
      BY <1>1, <2>2 DEF Record
    <3>3. skipped \in Seq(Entries) /\ targets \in Seq(Addresses)
      BY DEF LoopTypeOK
    <3>. HIDE DEF entry, Entries
    <3>4. skipped' \in Seq(Entries)
      BY <3>1, <3>2, <3>3
    <3>. QED BY <3>2, <3>3, <3>4 DEF Entries
  <2>. QED BY <2>1, <2>2
<1>6. CASE current = Broadcast
  <2>1. current' = current /\ pc' = IF targets' = <<>> THEN "error" ELSE "scan"
    BY <1>1, <1>6 DEF Advance, Done
  <2>2. LoopTypeOK'
    BY <1>2, <1>5, <2>1 DEF LoopTypeOK
  <2>3. Passed = network..current - 1 /\ Passed' = network..current
    BY <1>1, <1>2, <2>1 DEF Passed
  <2>4. Passed' = Passed \cup {current}
    BY <1>3, <2>3
  <2>5. LoopInv'
    BY <1>1, <1>2, <1>3, <1>4, <1>6, <2>1 DEF LoopInv
  <2>. QED BY <1>1, <1>3, <1>4, <2>1, <2>2, <2>4, <2>5
<1>7. CASE current # Broadcast
  <2>1. current' = Wrap(current + 1) /\ pc' = "loop"
    BY <1>1, <1>7 DEF Advance
  <2>2. current + 1 \in 0..2 ^ Width - 1 /\ current + 1 \in network..Last
    BY <1>1, <1>3, <1>7
  <2>3. Wrap(current + 1) = current + 1
    <3>1. current + 1 = (0 * 2 ^ Width) + (current + 1) /\ current + 1 \in Nat /\ 2 ^ Width > 0
      BY <1>3, <2>2
    <3>2. (current + 1) % 2 ^ Width = current + 1
      BY <1>3, <2>2, <3>1, RemainderUnique
    <3>. QED BY <3>2 DEF Wrap
  <2>4. current' = current + 1
    BY <2>1, <2>3
  <2>5. LoopTypeOK'
    BY <1>2, <1>5, <2>1, <2>2, <2>4 DEF LoopTypeOK, Addresses
  <2>6. Passed = network..current - 1 /\ Passed' = network..current + 1 - 1
    BY <1>1, <1>2, <2>1, <2>4 DEF Passed
  <2>7. Passed' = Passed \cup {current}
    BY <1>3, <2>6
  <2>8. LoopInv'
    BY <1>1, <1>2, <1>4, <2>1, <2>2, <2>4 DEF LoopInv
  <2>. QED BY <1>1, <1>3, <1>4, <2>1, <2>4, <2>5, <2>7, <2>8
<1>. QED BY <1>6, <1>7

LEMMA RangeAppend ==
  ASSUME NEW S, NEW s \in Seq(S), NEW e
  PROVE  /\ DOMAIN Append(s, e) = 1..Len(s) + 1 /\ DOMAIN s = 1..Len(s) /\ Len(s) \in Nat
         /\ Len(Append(s, e)) = Len(s) + 1
         /\ \A k \in 1..Len(s) : Append(s, e)[k] = s[k]
         /\ Append(s, e)[Len(s) + 1] = e
OBVIOUS

\* That address goes into one of the two lists, by its reason.
LEMMA ListsStep ==
  ASSUME LoopTypeOK, LoopInv, Lists, Step
  PROVE  Lists'
<1>1. /\ LoopTypeOK' /\ UNCHANGED <<ones, network, self, gateway>> /\ Broadcast' = Broadcast
      /\ pc = "loop" /\ pc' # "idle" /\ Record
      /\ network \in Nat /\ current \in Nat /\ network <= current
      /\ Passed' = Passed \cup {current}
      /\ (IF pc' = "loop" THEN current' ELSE current' + 1) = current + 1
  BY AdvanceStep DEF given
<1>2. \A ip : Reason(ip)' = Reason(ip)
  BY <1>1 DEF Reason
<1>3. Passed = network..current - 1
  BY <1>1 DEF Passed
<1>4. /\ targets \in Seq(Addresses) /\ Addresses \subseteq Nat
      /\ skipped \in Seq([ip : Addresses, reason : {"network", "broadcast", "self", "gateway"}])
  BY Powers DEF LoopTypeOK, Addresses
<1>5. /\ Range(targets) = {ip \in Passed : Reason(ip) = "none"}
      /\ {skipped[k].ip : k \in DOMAIN skipped} = {ip \in Passed : Reason(ip) # "none"}
      /\ \A k \in DOMAIN skipped : skipped[k].reason = Reason(skipped[k].ip)
      /\ \A i, j \in DOMAIN targets : i < j => targets[i] < targets[j]
      /\ Len(targets) + Len(skipped) = current - network
  BY <1>1 DEF Lists
<1>6. CASE Reason(current) = "none"
  <2>1. targets' = Append(targets, current) /\ skipped' = skipped
    BY <1>1, <1>6 DEF Record
  <2>2. /\ DOMAIN targets' = 1..Len(targets) + 1 /\ DOMAIN targets = 1..Len(targets)
        /\ Len(targets) \in Nat /\ Len(targets') = Len(targets) + 1
        /\ \A k \in 1..Len(targets) : targets'[k] = targets[k]
        /\ targets'[Len(targets) + 1] = current
    BY <1>4, <2>1, RangeAppend
  <2>3. Range(targets') = Range(targets) \cup {current}
    BY <2>2 DEF Range
  <2>4. \A k \in DOMAIN targets : targets[k] < current
    <3>1. \A k \in DOMAIN targets : targets[k] \in Passed
      BY <1>5 DEF Range
    <3>. QED BY <1>1, <1>3, <3>1
  <2>5. \A i, j \in DOMAIN targets' : i < j => targets'[i] < targets'[j]
    BY <1>5, <2>2, <2>4
  <2>6. Len(targets') + Len(skipped') = (current + 1) - network
    BY <1>1, <1>4, <1>5, <2>1, <2>2
  <2>7. Range(targets') = {ip \in Passed' : Reason(ip) = "none"}
    BY <1>1, <1>5, <1>6, <2>3
  <2>8. {skipped[k].ip : k \in DOMAIN skipped} = {ip \in Passed' : Reason(ip) # "none"}
    BY <1>1, <1>5, <1>6
  <2>. QED BY <1>1, <1>2, <1>5, <2>1, <2>5, <2>6, <2>7, <2>8 DEF Lists
<1>7. CASE Reason(current) # "none"
  <2> DEFINE entry == [ip |-> current, reason |-> Reason(current)]
  <2>1. targets' = targets /\ skipped' = Append(skipped, entry)
    BY <1>1, <1>7 DEF Record
  <2>2. /\ DOMAIN skipped' = 1..Len(skipped) + 1 /\ DOMAIN skipped = 1..Len(skipped)
        /\ Len(skipped) \in Nat /\ Len(skipped') = Len(skipped) + 1
        /\ \A k \in 1..Len(skipped) : skipped'[k] = skipped[k]
        /\ skipped'[Len(skipped) + 1] = entry
    BY <1>4, <2>1, RangeAppend
  <2>3. entry.ip = current /\ entry.reason = Reason(current)
    OBVIOUS
  <2>. HIDE DEF entry
  <2>4. {skipped'[k].ip : k \in DOMAIN skipped'} = {skipped[k].ip : k \in DOMAIN skipped} \cup {current}
    BY <2>2, <2>3
  <2>5. \A k \in DOMAIN skipped' : skipped'[k].reason = Reason(skipped'[k].ip)
    BY <1>5, <2>2, <2>3
  <2>6. Len(targets') + Len(skipped') = (current + 1) - network
    BY <1>1, <1>4, <1>5, <2>1, <2>2
  <2>7. {skipped'[k].ip : k \in DOMAIN skipped'} = {ip \in Passed' : Reason(ip) # "none"}
    BY <1>1, <1>5, <1>7, <2>4
  <2>8. Range(targets) = {ip \in Passed' : Reason(ip) = "none"}
    BY <1>1, <1>5, <1>7
  <2>. QED BY <1>1, <1>2, <1>5, <2>1, <2>5, <2>6, <2>7, <2>8 DEF Lists
<1>. QED BY <1>6, <1>7

\* At the end of the loop the passed addresses are the block.
LEMMA TargetsExactHolds ==
  ASSUME LoopTypeOK, LoopInv, Lists
  PROVE  TargetsExact
<1>. SUFFICES ASSUME pc \in {"scan", "error"} PROVE TargetsExact
  BY DEF TargetsExact
<1>1. /\ network % 2 ^ (Width - ones) = 0 /\ current = Last /\ (pc = "error" <=> targets = <<>>)
      /\ Range(targets) = {ip \in Passed : Reason(ip) = "none"}
      /\ \A i, j \in DOMAIN targets : i < j => targets[i] < targets[j]
  BY DEF LoopInv, Lists
<1>2. /\ network \in Nat /\ Last \in Nat /\ network <= Last
      /\ Broadcast = Last /\ Block = network..Last
  BY <1>1, TheBlock
<1>3. Passed = Block
  BY <1>1, <1>2 DEF Passed
<1>4. Hosts = {ip \in Block : ip \notin {network, Last, self, gateway}}
  BY <1>2 DEF Hosts
<1>5. Range(targets) = Hosts
  BY <1>1, <1>2, <1>3, <1>4, Reasons
<1>6. targets = <<>> <=> Range(targets) = {}
  BY DEF LoopTypeOK, Range
<1>. QED BY <1>1, <1>5, <1>6 DEF TargetsExact

\* The lists are as long as the interval of the passed addresses has members.
LEMMA AllAccountedHolds ==
  ASSUME LoopTypeOK, LoopInv, Lists
  PROVE  AllAccounted
<1>1. CASE pc = "idle"
  <2>1. targets = <<>> /\ skipped = <<>>
    BY <1>1 DEF LoopInv
  <2>2. Seen = {}
    BY <2>1 DEF Seen, Range
  <2>. QED BY <1>1, <2>1, <2>2, FS_EmptySet DEF AllAccounted
<1>2. CASE pc # "idle"
  <2>1. /\ network % 2 ^ (Width - ones) = 0 /\ current \in network..Last
        /\ pc # "loop" => current = Last
        /\ Range(targets) = {ip \in Passed : Reason(ip) = "none"}
        /\ {skipped[k].ip : k \in DOMAIN skipped} = {ip \in Passed : Reason(ip) # "none"}
    BY <1>2 DEF LoopInv, Lists
  <2> DEFINE next == IF pc = "loop" THEN current ELSE current + 1
  <2>2. Len(targets) + Len(skipped) = next - network
    BY <1>2 DEF Lists
  <2>3. network \in Nat /\ Last \in Nat /\ network <= Last /\ Block = network..Last
    BY <2>1, TheBlock
  <2>4. Seen = Passed
    BY <2>1 DEF Seen
  <2>5. current \in Nat /\ network <= current
    BY <2>1, <2>3
  <2>6. Cardinality(Passed) = Len(targets) + Len(skipped)
    <3>1. ASSUME NEW i \in Nat, NEW j \in Int, i <= j + 1
          PROVE  Cardinality(i..j) = j + 1 - i
      <4>1. i \in Int
        OBVIOUS
      <4>2. Cardinality(i..j) = IF i > j THEN 0 ELSE j - i + 1
        BY <4>1, FS_Interval
      <4>. QED BY <3>1, <4>2
    <3>2. Passed = network..next - 1
      <4>1. Passed = network..(IF pc = "loop" THEN current - 1 ELSE current)
        BY DEF Passed
      <4>2. next - 1 = IF pc = "loop" THEN current - 1 ELSE current
        BY <2>5
      <4>. HIDE DEF next
      <4>. QED BY <4>1, <4>2
    <3>3. next \in Nat /\ network <= next
      BY <2>3, <2>5
    <3>. HIDE DEF next
    <3>4. Cardinality(network..next - 1) = next - network
      BY <2>3, <3>1, <3>3
    <3>. QED BY <2>2, <3>2, <3>4
  <2>7. pc \in {"scan", "error"} => Seen = Block
    BY <2>1, <2>3, <2>4 DEF Passed
  <2>. QED BY <2>4, <2>6, <2>7 DEF AllAccounted
<1>. QED BY <1>1, <1>2

LEMMA SparesHolds ==
  ASSUME IInv
  PROVE  SparesOwnAndRouter
<1>. SUFFICES ASSUME pc \in {"scan", "error"}, stage = "lan" PROVE SparesOwnAndRouter
  BY DEF SparesOwnAndRouter
<1> DEFINE via == IF lan.Source = "fallback-interface" THEN None ELSE route.via
           left == {k \in DOMAIN skipped : skipped[k].reason \in {"self", "gateway"}}
           spared == {skipped[k].ip : k \in left}
<1>1. self = lan.IP /\ gateway = via
  BY DEF IInv, BlockInv, LanInv
<1>2. /\ Range(targets) = {ip \in Passed : Reason(ip) = "none"}
      /\ {skipped[k].ip : k \in DOMAIN skipped} = {ip \in Passed : Reason(ip) # "none"}
      /\ \A k \in DOMAIN skipped : skipped[k].reason = Reason(skipped[k].ip)
  BY DEF IInv, Lists
<1>3. Passed = Block
  BY TheBlock DEF IInv, LoopInv, Passed, TypeOK
<1>4. Range(targets) \cap {lan.IP, via} = {}
  BY <1>1, <1>2, Reasons
<1>5. spared \subseteq Block \cap {lan.IP, via}
  <2>1. ASSUME NEW k \in left PROVE skipped[k].ip \in {self, gateway} \cap Passed
    BY <2>1, <1>2, Reasons
  <2>. QED BY <1>1, <1>3, <2>1
<1>6. Block \cap {lan.IP, via} \subseteq spared
  <2>1. ASSUME NEW ip \in Passed, ip \in {self, gateway} PROVE ip \in spared
    <3>1. Reason(ip) \in {"self", "gateway"}
      BY <2>1, Reasons
    <3>2. PICK k \in DOMAIN skipped : skipped[k].ip = ip
      BY <1>2, <2>1, <3>1
    <3>. QED BY <1>2, <3>1, <3>2
  <2>. QED BY <1>1, <1>3, <2>1
<1>7. spared = Block \cap {lan.IP, via}
  BY <1>5, <1>6
<1>. QED BY <1>4, <1>7 DEF SparesOwnAndRouter


-----------------------------------------------------------------------------
(* The composition.                                                        *)

LEMMA Initially == Init => IInv
<1>. SUFFICES ASSUME Init PROVE IInv
  OBVIOUS
<1>1. TypeOK
  BY TypeInit
<1>2. stage = "route" /\ pc = "idle" /\ printed = <<>> /\ read = 0 /\ route = NoRoute
      /\ targets = <<>> /\ skipped = <<>>
  BY DEF Init, LanInit, LoopInit
<1>3. LookInv
  BY <1>2 DEF Init, LanInit, LookInv, Loops
<1>. QED BY <1>1, <1>2, <1>3 DEF IInv, RouteInv, RightLAN, LanInv, LoopInv, Lists, BlockInv

LEMMA Inductive == IInv /\ [Next]_vars => IInv'
<1>. SUFFICES ASSUME IInv, [Next]_vars PROVE IInv'
  OBVIOUS
<1>. USE DEF IInv
<1>1. ASSUME UNCHANGED lanVars, RouteInv, RightLAN, LanInv, LookInv
      PROVE  LanTypeOK' /\ RouteInv' /\ RightLAN' /\ LanInv' /\ LookInv'
  <2>1. LanTypeOK'
    BY <1>1 DEF lanVars, routeVars, TypeOK, LanTypeOK
  <2>2. RouteInv'
    BY <1>1 DEF lanVars, routeVars, RouteInv, BestRead, IsBest, Candidates
  <2>3. RightLAN' /\ LanInv' /\ LookInv'
    BY <1>1 DEF lanVars, routeVars, RightLAN, LanInv, LookInv, Before, FromRoute, FromFallback,
                NoSource, NoName, NoFallback, BeenWithout
  <2>. QED BY <2>1, <2>2, <2>3
<1>2. ASSUME UNCHANGED loopVars
      PROVE  LoopTypeOK' /\ LoopInv' /\ Lists'
  <2>1. UNCHANGED <<ones, network, self, gateway, current, targets, skipped, pc>>
    BY <1>2 DEF loopVars, given
  <2>2. LoopTypeOK' /\ LoopInv'
    BY <2>1 DEF TypeOK, LoopTypeOK, LoopInv, Last
  <2>3. Lists'
    <3>1. \A ip : Reason(ip)' = Reason(ip)
      BY <2>1 DEF Reason, Broadcast, Size
    <3>2. Passed' = Passed /\ Lists
      BY <2>1 DEF Passed
    <3>. QED BY <2>1, <3>1, <3>2 DEF Lists, Range
  <2>. QED BY <2>2, <2>3
<1>3. CASE GivenCIDR
  <2>1. stage = "route" /\ UNCHANGED lanVars
    BY <1>3 DEF GivenCIDR
  <2>2. PICK ip \in Addresses, n \in 0..Width : Begin(ip, n, NoIP, NoIP)
    BY <1>3 DEF GivenCIDR
  <2>3. LoopTypeOK' /\ LoopInv' /\ Lists'
    BY <2>2, BeginStep DEF TypeOK
  <2>4. BlockInv'
    BY <2>1 DEF BlockInv, lanVars
  <2>. QED BY <1>1, <2>1, <2>3, <2>4 DEF TypeOK
<1>4. CASE Discover
  <2>1. pc = "idle" /\ LanNext /\ UNCHANGED loopVars
    BY <1>4 DEF Discover
  <2>2. LanTypeOK' /\ RouteInv' /\ RightLAN' /\ LanInv' /\ LookInv'
    BY <2>1, LanTypeStep, RouteStep, LanStep
  <2>3. BlockInv'
    BY <2>1 DEF BlockInv, loopVars
  <2>. QED BY <1>2, <2>1, <2>2, <2>3 DEF TypeOK
<1>5. CASE FoundLAN
  <2>1. /\ stage = "lan" /\ UNCHANGED lanVars
        /\ Begin(lan.CIDR.ip, lan.CIDR.ones, lan.IP, lan.Gateway)
    BY <1>5 DEF FoundLAN
  <2>2. lan \in [Interface : Interfaces, IP : V4 \ Loopback, CIDR : {Net[a] : a \in V4},
                 Gateway : V4 \cup {None}, Source : DOMAIN Outputs \cup {"fallback-interface"}]
    BY <2>1 DEF LanInv, TypeOK, LanTypeOK
  <2>3. /\ lan.CIDR.ip \in Addresses /\ lan.CIDR.ones \in 0..Width
        /\ lan.IP \in Addresses /\ lan.Gateway \in Addresses \cup {NoIP}
    BY <2>2, BlockAssumption
  <2>4. LoopTypeOK' /\ LoopInv' /\ Lists'
    BY <2>1, <2>3, BeginStep DEF TypeOK
  <2>5. BlockInv'
    BY <2>1 DEF BlockInv, lanVars, Begin
  <2>. QED BY <1>1, <2>1, <2>4, <2>5 DEF TypeOK
<1>6. CASE Loop
  <2>1. Step /\ UNCHANGED lanVars
    BY <1>6 DEF Loop
  <2>2. LoopTypeOK' /\ LoopInv' /\ Lists' /\ pc = "loop" /\ UNCHANGED <<self, gateway>>
    BY <2>1, AdvanceStep, ListsStep DEF TypeOK, given
  <2>3. BlockInv'
    BY <2>1, <2>2 DEF BlockInv, lanVars
  <2>. QED BY <1>1, <2>1, <2>2, <2>3 DEF TypeOK
<1>7. CASE UNCHANGED vars
  BY <1>1, <1>2, <1>7 DEF vars, TypeOK, BlockInv, lanVars, loopVars, given
<1>. QED BY <1>3, <1>4, <1>5, <1>6, <1>7 DEF Next

LEMMA Invariance == Spec => []IInv
BY Initially, Inductive, PTL DEF Spec

\* The variables of the discovery and of the loop have their types; the loop's
\* variable stays within the width of an address.
THEOREM TypeCorrect == Spec => []TypeOK
<1>1. IInv => TypeOK
  BY DEF IInv
<1>. QED BY <1>1, Invariance, PTL

\* parseWindowsRoute, for a table of any length: the route it returns is that of
\* the first row with the least metric among those that name a gateway and a source,
\* or there is no such row and no route.
THEOREM WindowsRoute == Spec => []LeastMetric
<1>1. IInv => LeastMetric
  BY LeastMetricHolds DEF IInv
<1>. QED BY <1>1, Invariance, PTL

\* discoverActiveLAN, for any number of interfaces, of changes and of calls that
\* fail: it returns the LAN of the route, by its source before its name, and a
\* private one or none only where no interface would do, each interface taken as
\* something it has been since the discovery began.
THEOREM LanIsRight == Spec => []RightLAN
<1>1. IInv => RightLAN
  BY DEF IInv
<1>. QED BY <1>1, Invariance, PTL

\* discoverTargets leaves out, as this computer and its router, exactly the address
\* of the LAN it found and the gateway of the route that led to it, as far as they
\* are in the block; without the route there is no router.
THEOREM Spares == Spec => []SparesOwnAndRouter
BY Invariance, SparesHolds, PTL

\* targetsFromCIDR lists exactly the hosts of the block, in ascending order, for
\* every width of the addresses and every prefix length, the whole address space
\* and blocks of one and two addresses included; no host is an error.
THEOREM Exact == Spec => []TargetsExact
<1>1. IInv => TargetsExact
  BY TargetsExactHolds DEF IInv, TypeOK
<1>. QED BY <1>1, Invariance, PTL

\* The list that main hands to the scan is what DeviceScan takes for granted of it
\* (TargetsAssumption): addresses in ascending order, none of them twice; and it is
\* not empty.
THEOREM TargetsFeedScan ==
  Spec => [](pc = "scan" => /\ targets \in Seq(Nat) /\ targets # <<>>
                            /\ \A i, j \in DOMAIN targets : i < j => targets[i] < targets[j])
<1>1. IInv /\ TargetsExact =>
        (pc = "scan" => /\ targets \in Seq(Nat) /\ targets # <<>>
                        /\ \A i, j \in DOMAIN targets : i < j => targets[i] < targets[j])
  <2>. SUFFICES ASSUME IInv, TargetsExact, pc = "scan"
                PROVE  /\ targets \in Seq(Nat) /\ targets # <<>>
                       /\ \A i, j \in DOMAIN targets : i < j => targets[i] < targets[j]
    OBVIOUS
  <2>1. targets \in Seq(Addresses) /\ Addresses \subseteq Nat
    BY WidthAssumption DEF IInv, TypeOK, LoopTypeOK, Addresses
  <2>2. targets \in Seq(Nat)
    <3> DEFINE n == Len(targets)
    <3>1. n \in Nat /\ targets \in [1..n -> Addresses]
      BY <2>1
    <3>. HIDE DEF n
    <3>2. targets \in [1..n -> Nat]
      BY <2>1, <3>1
    <3>. QED BY <3>1, <3>2
  <2>3. Range(targets) # {} /\ \A i, j \in DOMAIN targets : i < j => targets[i] < targets[j]
    BY DEF TargetsExact
  <2>4. targets # <<>>
    BY <2>3 DEF Range
  <2>. QED BY <2>2, <2>3, <2>4
<1>. QED BY <1>1, Invariance, Exact, PTL

\* Every address of the block is probed or reported as skipped, once, and the loop
\* never starts over at the end of the address space.
THEOREM Accounted == Spec => []AllAccounted
<1>1. IInv => AllAccounted
  BY AllAccountedHolds DEF IInv, TypeOK
<1>. QED BY <1>1, Invariance, PTL
=============================================================================
