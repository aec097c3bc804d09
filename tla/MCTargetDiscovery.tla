-------------------------- MODULE MCTargetDiscovery --------------------------
(* Instances of TargetDiscovery for TLC. *)
EXTENDS TargetDiscovery, TLC

\* Two private networks with an address of this computer each, 5 and 12; a public
\* one whose block is all addresses; 6 and 7 are a host of the first network and
\* its broadcast address; 15 is a loopback address.
Cidr(ip, n) == [ip |-> ip, ones |-> n]

MCNet == (5 :> Cidr(4, 2)) @@ (6 :> Cidr(4, 2)) @@ (7 :> Cidr(4, 2)) @@ (12 :> Cidr(8, 1))
         @@ (1 :> Cidr(0, 0)) @@ (15 :> Cidr(15, 4))

V6 == 100   \* no IPv4 address

Set(up, loopback, addrs) == [up |-> up, loopback |-> loopback, addrs |-> addrs]

\* An interface without an address, a loopback interface, interfaces with one
\* address of each kind, down, or with two of them.
MCSettings ==
  {Set(TRUE, FALSE, <<>>), Set(TRUE, TRUE, <<15>>), Set(FALSE, FALSE, <<5>>),
   Set(TRUE, FALSE, <<V6, 5>>), Set(TRUE, FALSE, <<15, 12>>), Set(TRUE, FALSE, <<1, 5>>)}

Cell(via, dev, src, metric) == [via |-> via, dev |-> dev, src |-> src, metric |-> metric]
UpToTwo(S) == {<<>>} \cup {<<r>> : r \in S} \cup (S \X S)

MCOutputs ==
  [windows |-> UpToTwo({Cell(v, None, s, m) : v \in {6, None}, s \in {5, 12, None},
                                              m \in 1..2}),
   darwin |-> {<<Cell(v, d, None, 0)>> : v \in {6, 7, None}, d \in 1..2 \cup {None}},
   linux |-> {<<>>} \cup {<<Cell(v, d, s, 0)>> : v \in {6, 7, None}, d \in 1..2 \cup {None},
                                                 s \in {5, 12, None}}]
=============================================================================
