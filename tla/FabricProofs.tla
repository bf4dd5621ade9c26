------------------------------ MODULE FabricProofs ------------------------------
(***************************************************************************)
(* Theorems about Fabric for any topology, any tables and commands of the  *)
(* kinds its last section describes, and any losses and restarts.          *)
(*                                                                         *)
(* A packet is followed through the pipeline of one switch first, header   *)
(* by header (from "Addresses" on), then from switch to switch.            *)
(***************************************************************************)
EXTENDS Fabric, SequenceTheorems, TLAPS

(* The parsed headers, each from those before it. *)
ParsedAs(p, mac, w) ==
    LET n1 == Len(p.v6) + Len(p.srh)
        n2 == n1 + Len(p.inner6) + Len(p.v4)
        n3 == n2 + Len(p.ns) + Len(p.gtp) + Len(p.inner4)
    IN /\ p.v6 = HeaderAt(w, 1, "v6")
       /\ p.srh = IF p.v6 = <<>> THEN <<>> ELSE HeaderAt(w, 2, "srh")
       /\ p.inner6 = IF p.v6 = <<>> THEN <<>> ELSE HeaderAt(w, n1 + 1, "v6")
       /\ p.v4 = IF p.inner6 # <<>> THEN <<>> ELSE HeaderAt(w, n1 + 1, "v4")
       /\ p.ns = IF p.v6 = <<>> THEN <<>> ELSE HeaderAt(w, n2 + 1, "ns")
       /\ p.gtp = HeaderAt(w, n2 + 1, "gtp")
       /\ p.inner4 = IF p.gtp = <<>> THEN <<>> ELSE HeaderAt(w, n2 + 2, "v4")
       /\ p.payload = SubSeq(w, n3 + 1, Len(w))
       /\ p = [mac |-> mac, v6 |-> p.v6, srh |-> p.srh, inner6 |-> p.inner6,
               v4 |-> p.v4, ns |-> p.ns, gtp |-> p.gtp, inner4 |-> p.inner4,
               outer4 |-> <<>>, outerGtp |-> <<>>, payload |-> p.payload]

LEMMA ParseFields ==
    ASSUME NEW mac, NEW w
    PROVE  ParsedAs(Parse(mac, w), mac, w)
<1> DEFINE p == Parse(mac, w)
           n1 == Len(p.v6) + Len(p.srh)
           n2 == n1 + Len(p.inner6) + Len(p.v4)
           n3 == n2 + Len(p.ns) + Len(p.gtp) + Len(p.inner4)
<1>1. p.v6 = HeaderAt(w, 1, "v6")
  BY DEF Parse
<1>2. p.srh = IF p.v6 = <<>> THEN <<>> ELSE HeaderAt(w, 2, "srh")
  BY DEF Parse
<1>3. p.inner6 = IF p.v6 = <<>> THEN <<>> ELSE HeaderAt(w, n1 + 1, "v6")
  BY DEF Parse
<1>4. p.v4 = IF p.inner6 # <<>> THEN <<>> ELSE HeaderAt(w, n1 + 1, "v4")
  BY DEF Parse
<1>5. p.ns = IF p.v6 = <<>> THEN <<>> ELSE HeaderAt(w, n2 + 1, "ns")
  BY DEF Parse
<1>6. p.gtp = HeaderAt(w, n2 + 1, "gtp")
  BY DEF Parse
<1>7. p.inner4 = IF p.gtp = <<>> THEN <<>> ELSE HeaderAt(w, n2 + 2, "v4")
  BY DEF Parse
<1>8. p.payload = SubSeq(w, n3 + 1, Len(w))
  BY DEF Parse
<1>9. p = [mac |-> mac, v6 |-> p.v6, srh |-> p.srh, inner6 |-> p.inner6,
           v4 |-> p.v4, ns |-> p.ns, gtp |-> p.gtp, inner4 |-> p.inner4,
           outer4 |-> <<>>, outerGtp |-> <<>>, payload |-> p.payload]
  BY DEF Parse
<1> HIDE DEF p
<1> QED
  BY <1>1, <1>2, <1>3, <1>4, <1>5, <1>6, <1>7, <1>8, <1>9 DEF p, ParsedAs

(* A parsed packet with neither solicitation nor payload, as the values of *)
(* its headers; with an IPv6 header around what is inside; and without.    *)
Headers(mac, v6, inside, outer4, outerGtp) ==
    [mac |-> mac, v6 |-> v6, srh |-> inside.srh, inner6 |-> inside.inner6, v4 |-> inside.v4,
     ns |-> <<>>, gtp |-> inside.gtp, inner4 |-> inside.inner4, outer4 |-> outer4,
     outerGtp |-> outerGtp, payload |-> <<>>]

Inside(srh, inner6, v4, gtp, inner4) ==
    [srh |-> srh, inner6 |-> inner6, v4 |-> v4, gtp |-> gtp, inner4 |-> inner4]

Carried(m, a, hl, b) == Headers(m, <<V6(a, hl)>>, b, <<>>, <<>>)
Plain(m, b) == Headers(m, <<>>, b, <<>>, <<>>)

(* What is inside: an IPv4 packet; one in a tunnel; one the tunnel of which has *)
(* just been ended; an IPv6 packet, maybe behind an SRH; nothing.               *)
Ip4(x) == Inside(<<>>, <<>>, <<x>>, <<>>, <<>>)
Tunnel(o, g, x) == Inside(<<>>, <<>>, <<o>>, <<g>>, <<x>>)
Untunnelled(x) == Inside(<<>>, <<>>, <<>>, <<>>, <<x>>)
Ip6(srh, y) == Inside(srh, <<y>>, <<>>, <<>>, <<>>)
Nothing == Inside(<<>>, <<>>, <<>>, <<>>, <<>>)

(* The headers of w, each where the ones before it end, are v6 and those of b. *)
Consists(w, v6, b) ==
    LET n1 == Len(v6) + Len(b.srh)
        n2 == n1 + Len(b.inner6) + Len(b.v4)
        n3 == n2 + Len(<<>>) + Len(b.gtp) + Len(b.inner4)
    IN /\ v6 = HeaderAt(w, 1, "v6")
       /\ b.srh = IF v6 = <<>> THEN <<>> ELSE HeaderAt(w, 2, "srh")
       /\ b.inner6 = IF v6 = <<>> THEN <<>> ELSE HeaderAt(w, n1 + 1, "v6")
       /\ b.v4 = IF b.inner6 # <<>> THEN <<>> ELSE HeaderAt(w, n1 + 1, "v4")
       /\ HeaderAt(w, n2 + 1, "ns") = <<>>
       /\ b.gtp = HeaderAt(w, n2 + 1, "gtp")
       /\ b.inner4 = IF b.gtp = <<>> THEN <<>> ELSE HeaderAt(w, n2 + 2, "v4")
       /\ SubSeq(w, n3 + 1, Len(w)) = <<>>

LEMMA ParseIs ==
    ASSUME NEW mac, NEW w, NEW v6, NEW b, Consists(w, v6, b)
    PROVE  Parse(mac, w) = Headers(mac, v6, b, <<>>, <<>>)
<1> DEFINE p == Parse(mac, w)
<1>1. ParsedAs(p, mac, w)
  BY ParseFields
<1> HIDE DEF p
<1>2. p.v6 = v6
  BY <1>1 DEF ParsedAs, Consists
<1>3. p.srh = b.srh
  BY <1>1, <1>2 DEF ParsedAs, Consists
<1>4. p.inner6 = b.inner6
  BY <1>1, <1>2, <1>3 DEF ParsedAs, Consists
<1>5. p.v4 = b.v4
  BY <1>1, <1>2, <1>3, <1>4 DEF ParsedAs, Consists
<1>6. p.ns = <<>> /\ p.gtp = b.gtp
  BY <1>1, <1>2, <1>3, <1>4, <1>5 DEF ParsedAs, Consists
<1>7. p.inner4 = b.inner4
  BY <1>1, <1>2, <1>3, <1>4, <1>5, <1>6 DEF ParsedAs, Consists
<1>8. p.payload = <<>>
  BY <1>1, <1>2, <1>3, <1>4, <1>5, <1>6, <1>7 DEF ParsedAs, Consists
<1>9. p = Headers(mac, v6, b, <<>>, <<>>)
  BY <1>1, <1>2, <1>3, <1>4, <1>5, <1>6, <1>7, <1>8 DEF Headers, ParsedAs
<1> QED
  BY <1>9 DEF p

LEMMA Lengths ==
    ASSUME NEW x
    PROVE  Len(<<>>) = 0 /\ Len(<<x>>) = 1 /\ <<x>> # <<>>
OBVIOUS

LEMMA ParsePlain ==
    ASSUME NEW mac, NEW x, x.h = "v4"
    PROVE  Parse(mac, <<x>>) = Plain(mac, Ip4(x))
<1> DEFINE w == <<x>>
<1>1. /\ HeaderAt(w, 1, "v6") = <<>> /\ HeaderAt(w, 1, "v4") = <<x>>
      /\ HeaderAt(w, 2, "ns") = <<>> /\ HeaderAt(w, 2, "gtp") = <<>>
      /\ SubSeq(w, 2, Len(w)) = <<>>
  BY DEF HeaderAt
<1> HIDE DEF w
<1>2. Parse(mac, w) = Headers(mac, <<>>, Ip4(x), <<>>, <<>>)
  <2>1. PICK b : b = Ip4(x)
    OBVIOUS
  <2>2. b.srh = <<>> /\ b.inner6 = <<>> /\ b.v4 = <<x>> /\ b.gtp = <<>> /\ b.inner4 = <<>>
    BY <2>1 DEF Ip4, Inside
  <2>3. /\ 0 = Len(<<>>) + Len(b.srh)
        /\ 1 = 0 + Len(b.inner6) + Len(b.v4)
        /\ 1 + Len(<<>>) + Len(b.gtp) + Len(b.inner4) + 1 = 2
    BY <2>2, Lengths
  <2>4. Consists(w, <<>>, b)
    BY <1>1, <2>2, <2>3, Lengths DEF Consists
  <2> QED
    BY <2>1, <2>4, ParseIs
<1> QED
  BY <1>2 DEF w, Plain

LEMMA ParsePlain6 ==
    ASSUME NEW mac, NEW y, y.h = "v6"
    PROVE  Parse(mac, <<y>>) = Headers(mac, <<y>>, Nothing, <<>>, <<>>)
<1> DEFINE w == <<y>>
<1>1. /\ HeaderAt(w, 1, "v6") = <<y>> /\ HeaderAt(w, 2, "srh") = <<>>
      /\ HeaderAt(w, 2, "v6") = <<>> /\ HeaderAt(w, 2, "v4") = <<>>
      /\ HeaderAt(w, 2, "ns") = <<>> /\ HeaderAt(w, 2, "gtp") = <<>>
      /\ SubSeq(w, 2, Len(w)) = <<>>
  BY DEF HeaderAt
<1> HIDE DEF w
<1>2. Parse(mac, w) = Headers(mac, <<y>>, Nothing, <<>>, <<>>)
  <2>1. PICK b : b = Nothing
    OBVIOUS
  <2>2. b.srh = <<>> /\ b.inner6 = <<>> /\ b.v4 = <<>> /\ b.gtp = <<>> /\ b.inner4 = <<>>
    BY <2>1 DEF Nothing, Inside
  <2>3. /\ 1 = Len(<<y>>) + Len(b.srh)
        /\ 1 = 1 + Len(b.inner6) + Len(b.v4)
        /\ 1 + Len(<<>>) + Len(b.gtp) + Len(b.inner4) + 1 = 2
    BY <2>2, Lengths
  <2>4. Consists(w, <<y>>, b)
    BY <1>1, <2>2, <2>3, Lengths DEF Consists
  <2> QED
    BY <2>1, <2>4, ParseIs
<1> QED
  BY <1>2 DEF w

LEMMA ParseTunnel ==
    ASSUME NEW mac, NEW o, NEW g, NEW x, o.h = "v4", g.h = "gtp", x.h = "v4"
    PROVE  Parse(mac, <<o, g, x>>) = Plain(mac, Tunnel(o, g, x))
<1> DEFINE w == <<o, g, x>>
<1>1. /\ HeaderAt(w, 1, "v6") = <<>> /\ HeaderAt(w, 1, "v4") = <<o>>
      /\ HeaderAt(w, 2, "ns") = <<>> /\ HeaderAt(w, 2, "gtp") = <<g>>
      /\ HeaderAt(w, 3, "v4") = <<x>> /\ SubSeq(w, 4, Len(w)) = <<>>
  BY DEF HeaderAt
<1> HIDE DEF w
<1>2. Parse(mac, w) = Headers(mac, <<>>, Tunnel(o, g, x), <<>>, <<>>)
  <2>1. PICK b : b = Tunnel(o, g, x)
    OBVIOUS
  <2>2. b.srh = <<>> /\ b.inner6 = <<>> /\ b.v4 = <<o>> /\ b.gtp = <<g>> /\ b.inner4 = <<x>>
    BY <2>1 DEF Tunnel, Inside
  <2>3. /\ 0 = Len(<<>>) + Len(b.srh)
        /\ 1 = 0 + Len(b.inner6) + Len(b.v4)
        /\ 1 + Len(<<>>) + Len(b.gtp) + Len(b.inner4) + 1 = 4
    BY <2>2, Lengths
  <2>4. Consists(w, <<>>, b)
    BY <1>1, <2>2, <2>3, Lengths DEF Consists
  <2> QED
    BY <2>1, <2>4, ParseIs
<1> QED
  BY <1>2 DEF w, Plain

(* An IPv6 header with each of these inside. *)
LEMMA ParseCarried ==
    ASSUME NEW mac, NEW u, NEW x, u.h = "v6", x.h = "v4"
    PROVE  Parse(mac, <<u, x>>) = Headers(mac, <<u>>, Ip4(x), <<>>, <<>>)
<1> DEFINE w == <<u, x>>
<1>1. /\ HeaderAt(w, 1, "v6") = <<u>> /\ HeaderAt(w, 2, "srh") = <<>>
      /\ HeaderAt(w, 2, "v6") = <<>> /\ HeaderAt(w, 2, "v4") = <<x>>
      /\ HeaderAt(w, 3, "ns") = <<>> /\ HeaderAt(w, 3, "gtp") = <<>>
      /\ SubSeq(w, 3, Len(w)) = <<>>
  BY DEF HeaderAt
<1> HIDE DEF w
<1>2. Parse(mac, w) = Headers(mac, <<u>>, Ip4(x), <<>>, <<>>)
  <2>1. PICK b : b = Ip4(x)
    OBVIOUS
  <2>2. b.srh = <<>> /\ b.inner6 = <<>> /\ b.v4 = <<x>> /\ b.gtp = <<>> /\ b.inner4 = <<>>
    BY <2>1 DEF Ip4, Inside
  <2>3. /\ 1 = Len(<<u>>) + Len(b.srh)
        /\ 2 = 1 + Len(b.inner6) + Len(b.v4)
        /\ 2 + Len(<<>>) + Len(b.gtp) + Len(b.inner4) + 1 = 3
    BY <2>2, Lengths
  <2>4. Consists(w, <<u>>, b)
    BY <1>1, <2>2, <2>3, Lengths DEF Consists
  <2> QED
    BY <2>1, <2>4, ParseIs
<1> QED
  BY <1>2 DEF w

LEMMA ParseCarriedTunnel ==
    ASSUME NEW mac, NEW u, NEW o, NEW g, NEW x, u.h = "v6", o.h = "v4", g.h = "gtp", x.h = "v4"
    PROVE  Parse(mac, <<u, o, g, x>>) = Headers(mac, <<u>>, Tunnel(o, g, x), <<>>, <<>>)
<1> DEFINE w == <<u, o, g, x>>
<1>1. /\ HeaderAt(w, 1, "v6") = <<u>> /\ HeaderAt(w, 2, "srh") = <<>>
      /\ HeaderAt(w, 2, "v6") = <<>> /\ HeaderAt(w, 2, "v4") = <<o>>
      /\ HeaderAt(w, 3, "ns") = <<>> /\ HeaderAt(w, 3, "gtp") = <<g>>
      /\ HeaderAt(w, 4, "v4") = <<x>> /\ SubSeq(w, 5, Len(w)) = <<>>
  BY DEF HeaderAt
<1> HIDE DEF w
<1>2. Parse(mac, w) = Headers(mac, <<u>>, Tunnel(o, g, x), <<>>, <<>>)
  <2>1. PICK b : b = Tunnel(o, g, x)
    OBVIOUS
  <2>2. b.srh = <<>> /\ b.inner6 = <<>> /\ b.v4 = <<o>> /\ b.gtp = <<g>> /\ b.inner4 = <<x>>
    BY <2>1 DEF Tunnel, Inside
  <2>3. /\ 1 = Len(<<u>>) + Len(b.srh)
        /\ 2 = 1 + Len(b.inner6) + Len(b.v4)
        /\ 2 + Len(<<>>) + Len(b.gtp) + Len(b.inner4) + 1 = 5
    BY <2>2, Lengths
  <2>4. Consists(w, <<u>>, b)
    BY <1>1, <2>2, <2>3, Lengths DEF Consists
  <2> QED
    BY <2>1, <2>4, ParseIs
<1> QED
  BY <1>2 DEF w

LEMMA ParseCarried6 ==
    ASSUME NEW mac, NEW u, NEW y, u.h = "v6", y.h = "v6"
    PROVE  Parse(mac, <<u, y>>) = Headers(mac, <<u>>, Ip6(<<>>, y), <<>>, <<>>)
<1> DEFINE w == <<u, y>>
<1>1. /\ HeaderAt(w, 1, "v6") = <<u>> /\ HeaderAt(w, 2, "srh") = <<>>
      /\ HeaderAt(w, 2, "v6") = <<y>>
      /\ HeaderAt(w, 3, "ns") = <<>> /\ HeaderAt(w, 3, "gtp") = <<>>
      /\ SubSeq(w, 3, Len(w)) = <<>>
  BY DEF HeaderAt
<1> HIDE DEF w
<1>2. Parse(mac, w) = Headers(mac, <<u>>, Ip6(<<>>, y), <<>>, <<>>)
  <2>1. PICK b : b = Ip6(<<>>, y)
    OBVIOUS
  <2>2. b.srh = <<>> /\ b.inner6 = <<y>> /\ b.v4 = <<>> /\ b.gtp = <<>> /\ b.inner4 = <<>>
    BY <2>1 DEF Ip6, Inside
  <2>3. /\ 1 = Len(<<u>>) + Len(b.srh)
        /\ 2 = 1 + Len(b.inner6) + Len(b.v4)
        /\ 2 + Len(<<>>) + Len(b.gtp) + Len(b.inner4) + 1 = 3
    BY <2>2, Lengths
  <2>4. Consists(w, <<u>>, b)
    BY <1>1, <2>2, <2>3, Lengths DEF Consists
  <2> QED
    BY <2>1, <2>4, ParseIs
<1> QED
  BY <1>2 DEF w

LEMMA ParseSegments ==
    ASSUME NEW mac, NEW u, NEW s, NEW y, u.h = "v6", s.h = "srh", y.h = "v6"
    PROVE  Parse(mac, <<u, s, y>>) = Headers(mac, <<u>>, Ip6(<<s>>, y), <<>>, <<>>)
<1> DEFINE w == <<u, s, y>>
<1>1. /\ HeaderAt(w, 1, "v6") = <<u>> /\ HeaderAt(w, 2, "srh") = <<s>>
      /\ HeaderAt(w, 3, "v6") = <<y>>
      /\ HeaderAt(w, 4, "ns") = <<>> /\ HeaderAt(w, 4, "gtp") = <<>>
      /\ SubSeq(w, 4, Len(w)) = <<>>
  BY DEF HeaderAt
<1> HIDE DEF w
<1>2. Parse(mac, w) = Headers(mac, <<u>>, Ip6(<<s>>, y), <<>>, <<>>)
  <2>1. PICK b : b = Ip6(<<s>>, y)
    OBVIOUS
  <2>2. b.srh = <<s>> /\ b.inner6 = <<y>> /\ b.v4 = <<>> /\ b.gtp = <<>> /\ b.inner4 = <<>>
    BY <2>1 DEF Ip6, Inside
  <2>3. /\ 2 = Len(<<u>>) + Len(b.srh)
        /\ 3 = 2 + Len(b.inner6) + Len(b.v4)
        /\ 3 + Len(<<>>) + Len(b.gtp) + Len(b.inner4) + 1 = 4
    BY <2>2, Lengths
  <2>4. Consists(w, <<u>>, b)
    BY <1>1, <2>2, <2>3, Lengths DEF Consists
  <2> QED
    BY <2>1, <2>4, ParseIs
<1> QED
  BY <1>2 DEF w

(* What a switch looks at in a neighbour solicitation. *)
LEMMA ParseSolicitation ==
    ASSUME NEW mac, NEW u, NEW n, u.h = "v6", n.h = "ns"
    PROVE  Parse(mac, <<u, n>>).ns = <<n>>
<1> DEFINE w == <<u, n>>
           p == Parse(mac, w)
<1>1. /\ HeaderAt(w, 1, "v6") = <<u>> /\ HeaderAt(w, 2, "srh") = <<>>
      /\ HeaderAt(w, 2, "v6") = <<>> /\ HeaderAt(w, 2, "v4") = <<>>
      /\ HeaderAt(w, 2, "ns") = <<n>>
  BY DEF HeaderAt
<1>2. Len(<<>>) = 0 /\ Len(<<u>>) = 1 /\ <<u>> # <<>>
  OBVIOUS
<1>3. ParsedAs(p, mac, w)
  BY ParseFields
<1> HIDE DEF w, p
<1>4. p.v6 = <<u>> /\ p.srh = <<>>
  BY <1>1, <1>2, <1>3 DEF ParsedAs
<1>5. p.inner6 = <<>>
  <2>1. Len(p.v6) + Len(p.srh) + 1 = 2
    BY <1>2, <1>4
  <2> QED
    BY <1>1, <1>4, <2>1, <1>3 DEF ParsedAs
<1>6. p.v4 = <<>>
  <2>1. Len(p.v6) + Len(p.srh) + 1 = 2
    BY <1>2, <1>4
  <2> QED
    BY <1>1, <1>5, <2>1, <1>3 DEF ParsedAs
<1>7. p.ns = <<n>>
  <2>1. Len(p.v6) + Len(p.srh) + Len(p.inner6) + Len(p.v4) + 1 = 2
    BY <1>2, <1>4, <1>5, <1>6
  <2> QED
    BY <1>1, <1>2, <1>4, <2>1, <1>3 DEF ParsedAs
<1> QED
  BY <1>7 DEF p, w

-----------------------------------------------------------------------------
(* Tables.  Every router has every table; a rule put in one of them leaves *)
(* the others alone; and all a command puts in a table is a rule of its.   *)

Tabled(s) == DOMAIN s = Routers /\ \A r \in Routers : DOMAIN s[r] = TableNames

(* The rules of s2 come from s or from a command; no command answers a solicitation. *)
Extends(s2, s) ==
    \A r \in Routers, n \in TableNames :
        /\ s2[r][n] \subseteq s[r][n] \cup Ordered(r, n)
        /\ n = "ndp" => s2[r][n] = s[r][n]

LEMMA WantExtends ==
    ASSUME NEW d, NEW n \in TableNames, NEW e, Tabled(store), Want(d, n, e), n # "ndp",
           d \in Routers => e \in Ordered(d, n)
    PROVE  Tabled(store') /\ Extends(store', store)
<1>1. store' = [store EXCEPT ![d][n] = Insert(store[d][n], e)]
  BY DEF Want
<1>2. PICK t : t = store'
  OBVIOUS
<1>3. /\ Tabled(t)
      /\ \A r \in Routers, m \in TableNames :
            t[r][m] = IF r = d /\ m = n THEN Insert(store[d][n], e) ELSE store[r][m]
  BY <1>1, <1>2 DEF Tabled
<1>4. Insert(store[d][n], e) \subseteq store[d][n] \cup {e}
  BY DEF Insert
<1>5. Extends(t, store)
  BY <1>3, <1>4 DEF Extends
<1> QED
  BY <1>2, <1>3, <1>5

LEMMA CommandExtends ==
    ASSUME Tabled(store), Command
    PROVE  Tabled(store') /\ Extends(store', store)
<1>1. CASE RouteInsert
  <2>1. PICK c \in CommandsOf("route-insert") : Want(c.dev, "routes6", Route(c))
    BY <1>1 DEF RouteInsert
  <2>2. c.dev \in Routers => Route(c) \in Ordered(c.dev, "routes6")
    BY <2>1 DEF Ordered
  <2> QED
    BY <2>1, <2>2, WantExtends DEF TableNames
<1>2. CASE IPv4RouteInsert
  <2>1. PICK c \in CommandsOf("route-ipv4-insert") : Want(c.dev, "routes4", Route(c))
    BY <1>2 DEF IPv4RouteInsert
  <2>2. c.dev \in Routers => Route(c) \in Ordered(c.dev, "routes4")
    BY <2>1 DEF Ordered
  <2> QED
    BY <2>1, <2>2, WantExtends DEF TableNames
<1>3. CASE GTP4DRouteInsert
  <2>1. PICK c \in CommandsOf("route-gtp4d-insert") : Want(c.dev, "gtp4d", Gtp4dRule(c))
    BY <1>3 DEF GTP4DRouteInsert
  <2>2. c.dev \in Routers => Gtp4dRule(c) \in Ordered(c.dev, "gtp4d")
    BY <2>1 DEF Ordered
  <2> QED
    BY <2>1, <2>2, WantExtends DEF TableNames
<1>4. CASE GTP4ERouteInsert
  <2>1. PICK c \in CommandsOf("route-gtp4e-insert") : Want(c.dev, "localsid", Gtp4eRule(c))
    BY <1>4 DEF GTP4ERouteInsert
  <2>2. c.dev \in Routers => Gtp4eRule(c) \in Ordered(c.dev, "localsid")
    BY <2>1 DEF Ordered
  <2> QED
    BY <2>1, <2>2, WantExtends DEF TableNames
<1>5. CASE Srv6EncapInsert
  <2>1. PICK c \in CommandsOf("srv6-encap-insert") : Want(c.dev, "encap4", EncapRule(c))
    BY <1>5 DEF Srv6EncapInsert
  <2>2. c.dev \in Routers => EncapRule(c) \in Ordered(c.dev, "encap4")
    BY <2>1 DEF Ordered
  <2> QED
    BY <2>1, <2>2, WantExtends DEF TableNames
<1>6. CASE Srv6Insert
  <2>1. PICK c \in CommandsOf("srv6-insert") : Want(c.dev, "encap6", InsertRule(c))
    BY <1>6 DEF Srv6Insert
  <2>2. c.dev \in Routers => InsertRule(c) \in Ordered(c.dev, "encap6")
    BY <2>1 DEF Ordered
  <2> QED
    BY <2>1, <2>2, WantExtends DEF TableNames
<1>7. CASE Srv6Clear
  <2>1. PICK c \in CommandsOf("srv6-clear") : store' = [store EXCEPT ![c.dev]["encap6"] = {}]
    BY <1>7 DEF Srv6Clear
  <2>2. PICK t : t = store'
    OBVIOUS
  <2>3. /\ Tabled(t)
        /\ \A r \in Routers, m \in TableNames :
              t[r][m] = IF r = c.dev /\ m = "encap6" THEN {} ELSE store[r][m]
    BY <2>1, <2>2 DEF Tabled
  <2>4. Extends(t, store)
    BY <2>3 DEF Extends
  <2> QED
    BY <2>2, <2>3, <2>4
<1>8. CASE UAInsert
  <2>1. PICK c \in CommandsOf("uA-insert") :
           store' = [store EXCEPT ![c.dev]["localsid"] = Insert(store[c.dev]["localsid"], UARule(c)),
                                  ![c.dev]["xconnect"] = Insert(store[c.dev]["xconnect"], XconnectRule(c))]
    BY <1>8 DEF UAInsert
  <2>2. PICK t : t = store'
    OBVIOUS
  <2>3. /\ Tabled(t)
        /\ \A r \in Routers, m \in TableNames :
              t[r][m] = IF r = c.dev /\ m = "localsid"
                        THEN Insert(store[c.dev]["localsid"], UARule(c))
                        ELSE IF r = c.dev /\ m = "xconnect"
                        THEN Insert(store[c.dev]["xconnect"], XconnectRule(c))
                        ELSE store[r][m]
    BY <2>1, <2>2 DEF Tabled
  <2>4. c.dev \in Routers => /\ UARule(c) \in Ordered(c.dev, "localsid")
                             /\ XconnectRule(c) \in Ordered(c.dev, "xconnect")
    BY <2>1 DEF Ordered
  <2>5. /\ Insert(store[c.dev]["localsid"], UARule(c)) \subseteq store[c.dev]["localsid"] \cup {UARule(c)}
        /\ Insert(store[c.dev]["xconnect"], XconnectRule(c))
               \subseteq store[c.dev]["xconnect"] \cup {XconnectRule(c)}
    BY DEF Insert
  <2>6. Extends(t, store)
    BY <2>3, <2>4, <2>5 DEF Extends
  <2> QED
    BY <2>2, <2>3, <2>6
<1> QED
  BY <1>1, <1>2, <1>3, <1>4, <1>5, <1>6, <1>7, <1>8 DEF Command

(* What a router has comes from the start or from commands, and a router   *)
(* that does not restart keeps its answers to solicitations.               *)
Kept ==
    /\ Tabled(store) /\ Tabled(tables)
    /\ \A r \in Routers, n \in TableNames :
          store[r][n] \cup tables[r][n] \subseteq InitTables[r][n] \cup Ordered(r, n)
    /\ \A r \in Routers \ Fragile :
          store[r]["ndp"] = InitTables[r]["ndp"] /\ tables[r]["ndp"] = InitTables[r]["ndp"]

LEMMA InitKept == FabricInit => Kept
BY FabricAssumption DEF FabricInit, Kept, Tabled

LEMMA NextKeeps == Kept /\ [FabricNext]_fabricVars => Kept'
<1> SUFFICES ASSUME Kept, [FabricNext]_fabricVars PROVE Kept'
  OBVIOUS
<1>1. CASE UNCHANGED <<store, tables>>
  BY <1>1 DEF Kept, Tabled
<1>2. CASE Command
  <2>1. Tabled(store') /\ Extends(store', store)
    BY <1>2, CommandExtends DEF Kept
  <2>2. tables' = tables
    BY <1>2 DEF Command, RouteInsert, IPv4RouteInsert, GTP4DRouteInsert, GTP4ERouteInsert,
                Srv6EncapInsert, Srv6Insert, Srv6Clear, UAInsert, Want
  <2>3. PICK t : t = store'
    OBVIOUS
  <2>4. Tabled(t) /\ Extends(t, store)
    BY <2>1, <2>3
  <2>5. \A r \in Routers, n \in TableNames :
           t[r][n] \cup tables[r][n] \subseteq InitTables[r][n] \cup Ordered(r, n)
    BY <2>4 DEF Kept, Extends
  <2>6. \A r \in Routers \ Fragile : t[r]["ndp"] = InitTables[r]["ndp"]
    BY <2>4 DEF Kept, Extends, TableNames
  <2> QED
    BY <2>2, <2>3, <2>4, <2>5, <2>6 DEF Kept, Tabled
<1>3. CASE WriteTable
  <2>1. PICK d \in Routers, n \in TableNames : tables' = [tables EXCEPT ![d][n] = store[d][n]]
    BY <1>3 DEF WriteTable
  <2>2. PICK t : t = tables'
    OBVIOUS
  <2>3. /\ Tabled(t)
        /\ \A r \in Routers, m \in TableNames :
              t[r][m] = IF r = d /\ m = n THEN store[d][n] ELSE tables[r][m]
    BY <2>1, <2>2 DEF Tabled, Kept
  <2>4. store' = store
    BY <1>3 DEF WriteTable
  <2>5. \A r \in Routers, m \in TableNames :
           store[r][m] \cup t[r][m] \subseteq InitTables[r][m] \cup Ordered(r, m)
    BY <2>3 DEF Kept
  <2>6. \A r \in Routers \ Fragile : t[r]["ndp"] = InitTables[r]["ndp"]
    BY <2>3 DEF Kept, TableNames
  <2> QED
    BY <2>2, <2>3, <2>4, <2>5, <2>6 DEF Kept, Tabled
<1>4. CASE Restart
  <2>1. PICK d \in Fragile : tables' = [tables EXCEPT ![d] = NoTables]
    BY <1>4 DEF Restart
  <2>2. PICK t : t = tables'
    OBVIOUS
  <2>3. /\ Tabled(t)
        /\ \A r \in Routers : r # d => t[r] = tables[r]
        /\ \A m \in TableNames : t[d][m] = {}
    BY <2>1, <2>2, FabricAssumption DEF Tabled, Kept, NoTables
  <2>4. store' = store
    BY <1>4 DEF Restart
  <2>5. \A r \in Routers, m \in TableNames :
           store[r][m] \cup t[r][m] \subseteq InitTables[r][m] \cup Ordered(r, m)
    BY <2>3 DEF Kept
  <2>6. \A r \in Routers \ Fragile : t[r]["ndp"] = InitTables[r]["ndp"]
    BY <2>3 DEF Kept, TableNames
  <2> QED
    BY <2>2, <2>3, <2>4, <2>5, <2>6 DEF Kept, Tabled
<1>5. UNCHANGED <<store, tables>> \/ Command \/ WriteTable \/ Restart
  BY DEF FabricNext, fabricVars, Send, Forward, Loss
<1> QED
  BY <1>1, <1>2, <1>3, <1>4, <1>5

-----------------------------------------------------------------------------
(* Solicitations. *)

(* A solicitation on its way is where it was sent, an answer with the one who asked. *)
Asked ==
    /\ \A c \in air : /\ c.flow \in Flows
                      /\ c.flow.kind = "ns" => /\ c.at = c.flow.at /\ c.port = c.flow.port
                                               /\ c.wire = c.flow.wire
    /\ \A c \in arrived : c.flow \in Flows /\ (c.flow.kind = "ns" => c.at = c.flow.from)

(* The switch that gets a solicitation sends its answer back and nothing else. *)
LEMMA AnswerGoesBack ==
    ASSUME Kept, Asked, SolicitationsAnswered,
           NEW p \in air, p.flow.kind = "ns",
           NEW o \in Ingress(tables[p.at], p.port, p.mac, p.wire)
    PROVE  o.ports \subseteq {p.flow.port}
<1>1. AsksItsRouter(p.flow) /\ p.at = p.flow.at /\ p.port = p.flow.port /\ p.wire = p.flow.wire
  BY DEF Asked, SolicitationsAnswered
<1>2. PICK u, n : p.wire = <<u, n>> /\ u.h = "v6" /\ n.h = "ns" /\ p.wire[2] = n
  BY <1>1 DEF AsksItsRouter
<1>3. PICK q : q = Parse(p.mac, p.wire)
  OBVIOUS
<1>4. q.ns = <<n>>
  BY <1>2, <1>3, ParseSolicitation
<1>5. q.ns # <<>> /\ q.ns[1] = n
  BY <1>4
<1>6. tables[p.at]["ndp"] = InitTables[p.at]["ndp"]
  BY <1>1 DEF Kept, AsksItsRouter
<1>7. PICK t : t = tables[p.at]
  OBVIOUS
<1>8. Hit(Exact(t.ndp, n.target))
  BY <1>1, <1>2, <1>6, <1>7 DEF AsksItsRouter
<1>9. PICK e : e = TheOne(Exact(t.ndp, n.target))
  OBVIOUS
<1>10. o \in NdpReply(t, p.port, q, e)
  BY <1>3, <1>5, <1>7, <1>8, <1>9 DEF Ingress
<1>11. o.ports \subseteq {p.port}
  BY <1>10 DEF NdpReply, Out
<1> QED
  BY <1>1, <1>11

LEMMA InitAsked == FabricInit => Asked
BY DEF FabricInit, Asked

LEMMA NextAsked ==
    ASSUME Kept, Asked, SolicitationsAnswered, [FabricNext]_fabricVars
    PROVE  Asked'
<1>1. CASE UNCHANGED <<air, arrived>>
  BY <1>1 DEF Asked
<1>2. ASSUME NEW f \in Flows, Send(f) PROVE Asked'
  BY <1>2 DEF Send, Asked, Packet
<1>3. CASE Forward
  <2>1. PICK p \in air : \E o \in Ingress(tables[p.at], p.port, p.mac, p.wire) :
           /\ air' = (air \ {p}) \cup {c \in Copies(p, o) : c.at \in Routers}
           /\ arrived' = arrived \cup {c \in Copies(p, o) : c.at \in Hosts}
    BY <1>3 DEF Forward
  <2>2. PICK o \in Ingress(tables[p.at], p.port, p.mac, p.wire) :
           /\ air' = (air \ {p}) \cup {c \in Copies(p, o) : c.at \in Routers}
           /\ arrived' = arrived \cup {c \in Copies(p, o) : c.at \in Hosts}
    BY <2>1
  <2>3. p.flow \in Flows
    BY DEF Asked
  <2>4. \A c \in Copies(p, o) : c.flow = p.flow
    BY DEF Copies, Packet
  <2>5. ASSUME p.flow.kind = "ns", NEW c \in Copies(p, o)
        PROVE  c.at = p.flow.from /\ c.at \notin Routers
    <3>1. AsksItsRouter(p.flow) /\ p.at = p.flow.at
      BY <2>5 DEF Asked, SolicitationsAnswered
    <3>2. o.ports \subseteq {p.flow.port}
      BY <2>5, AnswerGoesBack
    <3>3. c.at = Peer[p.at][p.flow.port].node
      BY <2>5, <3>2 DEF Copies, Packet
    <3> QED
      BY <3>1, <3>3, FabricAssumption DEF AsksItsRouter
  <2> QED
    BY <2>2, <2>3, <2>4, <2>5 DEF Asked
<1>4. CASE Loss
  BY <1>4 DEF Loss, Asked
<1>5. UNCHANGED <<air, arrived>> \/ (\E f \in Flows : Send(f)) \/ Forward \/ Loss
  BY DEF FabricNext, fabricVars, WriteTable, Restart, Command, RouteInsert, IPv4RouteInsert,
         GTP4DRouteInsert, GTP4ERouteInsert, Srv6EncapInsert, Srv6Insert, Srv6Clear, UAInsert,
         Want
<1> QED
  BY <1>1, <1>2, <1>3, <1>4, <1>5

(* A neighbour solicitation for an address of a router is answered by the  *)
(* first switch it meets, which is the one the address is of, and neither  *)
(* the question nor the answer goes any further: ndp_ns_to_na sends back   *)
(* whatever the rest of the pipeline would have done.                      *)
THEOREM SolicitationsAreKept ==
    ASSUME SolicitationsAnswered
    PROVE  FabricSpec => []SolicitationsStay
<1>1. FabricInit => Kept /\ Asked
  BY InitKept, InitAsked
<1>2. Kept /\ Asked /\ [FabricNext]_fabricVars => (Kept /\ Asked)'
  BY NextKeeps, NextAsked
<1>3. Asked => SolicitationsStay
  BY DEF Asked, SolicitationsStay
<1> QED
  BY <1>1, <1>2, <1>3, PTL DEF FabricSpec

-----------------------------------------------------------------------------
(* Addresses.  A carrier keeps its block and its length however often it   *)
(* is shifted, and shifting it again is shifting it further.               *)

Slot == STRING \cup {"0"}
Addresses == {a \in Seq(Slot) : Len(a) = Slots + 1}

LEMMA ShiftedSids ==
    ASSUME NEW a \in Addresses, NEW n \in 0..Slots
    PROVE  /\ ShiftSids(a, n) \in Addresses
           /\ ShiftSids(a, n)[1] = a[1]
           /\ \A i \in 2..Slots + 1 :
                 ShiftSids(a, n)[i] = IF i + n <= Slots + 1 THEN a[i + n] ELSE "0"
<1>1. Slots \in Nat /\ a \in Seq(Slot) /\ Len(a) = Slots + 1 /\ n \in Nat
  BY PipelineAssumption DEF Addresses
<1> DEFINE head == <<a[1]>>
           middle == SubSeq(a, n + 2, Slots + 1)
           zeros == Zeros(n)
<1>2. head \in Seq(Slot) /\ Len(head) = 1 /\ head[1] = a[1]
  BY <1>1
<1>3. /\ middle \in Seq(Slot) /\ Len(middle) = Slots - n
      /\ \A i \in 1..Slots - n : middle[i] = a[n + i + 1]
  <2>1. \A i \in n + 2..Slots + 1 : a[i] \in Slot
    BY <1>1, ElementOfSeq
  <2>2. /\ middle \in Seq(Slot)
        /\ Len(middle) = IF n + 2 <= Slots + 1 THEN Slots + 1 - (n + 2) + 1 ELSE 0
        /\ \A i \in 1..(Slots + 1) - (n + 2) + 1 : middle[i] = a[(n + 2) + i - 1]
    BY <1>1, <2>1, SubSeqProperties
  <2> QED
    BY <1>1, <2>2
<1>4. zeros \in Seq(Slot) /\ Len(zeros) = n /\ \A i \in 1..n : zeros[i] = "0"
  <2>1. zeros = [i \in 1..n |-> "0"]
    BY DEF Zeros
  <2> HIDE DEF zeros
  <2>2. DOMAIN zeros = 1..n /\ \A i \in 1..n : zeros[i] = "0"
    BY <2>1
  <2>a. "0" \in Slot
    BY DEF Slot
  <2>0. [i \in 1..n |-> "0"] \in [1..n -> Slot]
    BY <2>a
  <2>3. zeros \in Seq(Slot)
    BY <1>1, <2>0, <2>1
  <2>5. Len(zeros) = n
    BY <1>1, <2>2, <2>3
  <2> QED
    BY <2>2, <2>3, <2>5
<1> HIDE DEF head, middle, zeros
<1>5. /\ head \o middle \in Seq(Slot) /\ Len(head \o middle) = 1 + (Slots - n)
      /\ \A i \in 1..1 + (Slots - n) :
            (head \o middle)[i] = IF i <= 1 THEN head[i] ELSE middle[i - 1]
  <2>1. /\ head \o middle \in Seq(Slot) /\ Len(head \o middle) = Len(head) + Len(middle)
        /\ \A i \in 1..Len(head) + Len(middle) :
              (head \o middle)[i] = IF i <= Len(head) THEN head[i] ELSE middle[i - Len(head)]
    <3>1. head \in Seq(Slot) /\ middle \in Seq(Slot)
      BY <1>2, <1>3
    <3> QED
      BY <3>1, ConcatProperties
  <2>2. Len(head) = 1 /\ Len(head) + Len(middle) = 1 + (Slots - n)
    BY <1>1, <1>2, <1>3
  <2>3. PICK f : f = head \o middle
    OBVIOUS
  <2>4. \A i \in 1..1 + (Slots - n) : f[i] = IF i <= 1 THEN head[i] ELSE middle[i - 1]
    BY <2>1, <2>2, <2>3
  <2> QED
    BY <2>1, <2>2, <2>3, <2>4
<1> DEFINE front == head \o middle
<1> HIDE DEF front
<1>6. /\ front \in Seq(Slot) /\ Len(front) = 1 + (Slots - n)
      /\ \A i \in 1..1 + (Slots - n) : front[i] = IF i <= 1 THEN head[i] ELSE middle[i - 1]
  BY <1>5 DEF front
<1>7. /\ front \o zeros \in Seq(Slot) /\ Len(front \o zeros) = Slots + 1
      /\ \A i \in 1..Slots + 1 :
            (front \o zeros)[i] = IF i <= Len(front) THEN front[i] ELSE zeros[i - Len(front)]
  <2>1. Len(front) + Len(zeros) = Slots + 1
    BY <1>1, <1>4, <1>6
  <2> QED
    BY <1>4, <1>6, <2>1, ConcatProperties
<1>8. ShiftSids(a, n) = front \o zeros
  BY DEF ShiftSids, front, head, middle, zeros
<1>9. PICK b : b = front \o zeros
  OBVIOUS
<1>10. b[1] = a[1]
  BY <1>1, <1>2, <1>6, <1>7, <1>9
<1>11. ASSUME NEW i \in 2..Slots + 1, i + n <= Slots + 1 PROVE b[i] = a[i + n]
  <2>1. b[i] = front[i] /\ i <= 1 + (Slots - n)
    BY <1>1, <1>6, <1>7, <1>9, <1>11
  <2>2. front[i] = middle[i - 1]
    BY <1>1, <1>6, <2>1
  <2>3. i - 1 \in 1..Slots - n /\ n + (i - 1) + 1 = i + n
    BY <1>1, <2>1
  <2>4. middle[i - 1] = a[n + (i - 1) + 1]
    BY <1>3, <2>3
  <2> QED
    BY <2>1, <2>2, <2>3, <2>4
<1>12. ASSUME NEW i \in 2..Slots + 1, ~(i + n <= Slots + 1) PROVE b[i] = "0"
  BY <1>1, <1>4, <1>6, <1>7, <1>9, <1>12
<1> QED
  BY <1>1, <1>7, <1>8, <1>9, <1>10, <1>11, <1>12 DEF Addresses

LEMMA ShiftedAgain ==
    ASSUME NEW a \in Addresses, NEW n \in 0..Slots, NEW k \in 0..Slots
    PROVE  ShiftSids(ShiftSids(a, n), k) = ShiftSids(a, IF n + k <= Slots THEN n + k ELSE Slots)
<1>1. Slots \in Nat /\ n \in Nat /\ k \in Nat
  BY PipelineAssumption
<1>2. PICK m : m = IF n + k <= Slots THEN n + k ELSE Slots
  OBVIOUS
<1>3. m \in 0..Slots
  BY <1>1, <1>2
<1>4. PICK b : b = ShiftSids(a, n)
  OBVIOUS
<1>5. /\ b \in Addresses /\ b[1] = a[1]
      /\ \A i \in 2..Slots + 1 : b[i] = IF i + n <= Slots + 1 THEN a[i + n] ELSE "0"
  BY <1>4, ShiftedSids
<1>6. PICK c : c = ShiftSids(b, k)
  OBVIOUS
<1>7. /\ c \in Addresses /\ c[1] = b[1]
      /\ \A i \in 2..Slots + 1 : c[i] = IF i + k <= Slots + 1 THEN b[i + k] ELSE "0"
  BY <1>5, <1>6, ShiftedSids
<1>8. PICK d : d = ShiftSids(a, m)
  OBVIOUS
<1>9. /\ d \in Addresses /\ d[1] = a[1]
      /\ \A i \in 2..Slots + 1 : d[i] = IF i + m <= Slots + 1 THEN a[i + m] ELSE "0"
  BY <1>3, <1>8, ShiftedSids
<1>10. ASSUME NEW i \in 2..Slots + 1 PROVE c[i] = d[i]
  <2>1. CASE i + k <= Slots + 1
    <3>1. i + k \in 2..Slots + 1 /\ c[i] = b[i + k]
      BY <1>1, <1>7, <2>1
    <3>2. b[i + k] = IF (i + k) + n <= Slots + 1 THEN a[(i + k) + n] ELSE "0"
      BY <1>5, <3>1
    <3>3. CASE (i + k) + n <= Slots + 1
      <4>1. m = n + k /\ i + m = (i + k) + n
        BY <1>1, <1>2, <3>3
      <4> QED
        BY <1>9, <3>1, <3>2, <3>3, <4>1
    <3>4. CASE ~((i + k) + n <= Slots + 1)
      <4>1. ~(i + m <= Slots + 1)
        BY <1>1, <1>2, <3>4
      <4> QED
        BY <1>9, <3>1, <3>2, <3>4, <4>1
    <3> QED
      BY <3>3, <3>4
  <2>2. CASE ~(i + k <= Slots + 1)
    <3>1. ~(i + m <= Slots + 1)
      BY <1>1, <1>2, <2>2
    <3> QED
      BY <1>7, <1>9, <2>2, <3>1
  <2> QED
    BY <2>1, <2>2
<1>11. c \in Seq(Slot) /\ d \in Seq(Slot) /\ Len(c) = Slots + 1 /\ Len(d) = Slots + 1
  BY <1>7, <1>9 DEF Addresses
<1>12. \A i \in 1..Slots + 1 : c[i] = d[i]
  BY <1>1, <1>5, <1>7, <1>9, <1>10
<1>13. c = d
  BY <1>11, <1>12, SeqEqual
<1> QED
  BY <1>2, <1>4, <1>6, <1>8, <1>13

(* The addresses of carriers under way: they start as a carrier, stay      *)
(* carriers, and un and uA lead from one to another.                       *)
LEMMA WayAddresses ==
    ASSUME NEW C, NEW actions, Goes(C, actions), Slots >= 2
    PROVE  /\ C \subseteq Way(C)
           /\ \A a \in Way(C) : /\ a[1] = "fcbb:bb00"
                                /\ ShiftSids(a, 1) \in Way(C)
                                /\ ShiftSids(a, 2) \in Way(C)
<1>1. Slots \in Nat /\ Slots >= 2
  BY PipelineAssumption
<1>2. \A a \in C : a \in Addresses /\ a[1] = "fcbb:bb00"
  <2>1. \A a \in Seq(STRING) : a \in Seq(Slot)
    BY SeqMonotonic DEF Slot
  <2> QED
    BY <2>1 DEF Goes, CarrierAddresses, Addresses
<1>3. ASSUME NEW a \in C PROVE a \in Way(C)
  <2>1. PICK b : b = ShiftSids(a, 0)
    OBVIOUS
  <2>2. /\ b \in Addresses /\ b[1] = a[1]
        /\ \A i \in 2..Slots + 1 : b[i] = IF i + 0 <= Slots + 1 THEN a[i + 0] ELSE "0"
    BY <1>1, <1>2, <2>1, ShiftedSids
  <2>3. \A i \in 1..Slots + 1 : b[i] = a[i]
    BY <1>1, <2>2
  <2>4. b = a
    BY <1>2, <2>2, <2>3, SeqEqual DEF Addresses
  <2> QED
    BY <1>1, <2>1, <2>4 DEF Way
<1>4. ASSUME NEW b \in Way(C)
      PROVE  b[1] = "fcbb:bb00" /\ ShiftSids(b, 1) \in Way(C) /\ ShiftSids(b, 2) \in Way(C)
  <2>1. PICK a \in C, n \in 0..Slots : b = ShiftSids(a, n)
    BY DEF Way
  <2>2. b[1] = "fcbb:bb00"
    BY <1>2, <2>1, ShiftedSids
  <2>3. ASSUME NEW k \in 1..2 PROVE ShiftSids(b, k) \in Way(C)
    <3>1. PICK m : m = IF n + k <= Slots THEN n + k ELSE Slots
      OBVIOUS
    <3>2. m \in 0..Slots /\ k \in 0..Slots
      BY <1>1, <3>1
    <3>3. ShiftSids(b, k) = ShiftSids(a, m)
      BY <1>2, <2>1, <3>1, <3>2, ShiftedAgain
    <3> QED
      BY <3>2, <3>3 DEF Way
  <2>4. 1 \in 1..2 /\ 2 \in 1..2
    OBVIOUS
  <2> QED
    BY <2>2, <2>3, <2>4
<1> QED
  BY <1>3, <1>4

-----------------------------------------------------------------------------
(* What the deparser makes of the packets above. *)

LEMMA Joined ==
    ASSUME NEW x, NEW y, NEW z, NEW v
    PROVE  /\ <<>> \o <<>> = <<>>
           /\ <<>> \o <<x>> = <<x>> /\ <<x>> \o <<>> = <<x>>
           /\ <<x>> \o <<y>> = <<x, y>> /\ <<x, y>> \o <<>> = <<x, y>>
           /\ <<x, y>> \o <<z>> = <<x, y, z>> /\ <<x, y, z>> \o <<>> = <<x, y, z>>
           /\ <<x, y, z>> \o <<v>> = <<x, y, z, v>> /\ <<x, y, z, v>> \o <<>> = <<x, y, z, v>>
<1> DEFINE S == {x, y, z, v}
<1>1. /\ <<>> \in Seq(S) /\ <<x>> \in Seq(S) /\ <<y>> \in Seq(S) /\ <<z>> \in Seq(S)
      /\ <<x, y>> \in Seq(S) /\ <<x, y, z>> \in Seq(S)
      /\ <<v>> \in Seq(S) /\ <<x, y, z, v>> \in Seq(S)
  OBVIOUS
<1> HIDE DEF S
<1>2. /\ <<>> \o <<>> = <<>>
      /\ <<>> \o <<x>> = <<x>> /\ <<x>> \o <<>> = <<x>>
      /\ <<x, y>> \o <<>> = <<x, y>> /\ <<x, y, z>> \o <<>> = <<x, y, z>>
      /\ <<x, y, z, v>> \o <<>> = <<x, y, z, v>>
  BY <1>1, ConcatEmptySeq
<1>3. <<x>> \o <<y>> = <<x, y>>
  <2>1. PICK s : s = <<x>> \o <<y>>
    OBVIOUS
  <2>2. /\ s \in Seq(S) /\ Len(s) = Len(<<x>>) + Len(<<y>>)
        /\ \A i \in 1..Len(<<x>>) + Len(<<y>>) :
              s[i] = IF i <= Len(<<x>>) THEN <<x>>[i] ELSE <<y>>[i - Len(<<x>>)]
    BY <1>1, <2>1, ConcatProperties
  <2>3. Len(s) = 2 /\ s[1] = x /\ s[2] = y
    BY <2>2
  <2>4. PICK t : t = <<x, y>>
    OBVIOUS
  <2>5. Len(t) = 2 /\ t[1] = x /\ t[2] = y /\ t \in Seq(S)
    BY <1>1, <2>4
  <2>6. \A i \in 1..Len(s) : s[i] = t[i]
    BY <2>3, <2>5
  <2> QED
    BY <2>1, <2>2, <2>3, <2>4, <2>5, <2>6, SeqEqual
<1>4. <<x, y>> \o <<z>> = <<x, y, z>>
  <2>1. PICK s : s = <<x, y>> \o <<z>>
    OBVIOUS
  <2>2. /\ s \in Seq(S) /\ Len(s) = Len(<<x, y>>) + Len(<<z>>)
        /\ \A i \in 1..Len(<<x, y>>) + Len(<<z>>) :
              s[i] = IF i <= Len(<<x, y>>) THEN <<x, y>>[i] ELSE <<z>>[i - Len(<<x, y>>)]
    BY <1>1, <2>1, ConcatProperties
  <2>3. Len(s) = 3 /\ s[1] = x /\ s[2] = y /\ s[3] = z
    BY <2>2
  <2>4. PICK t : t = <<x, y, z>>
    OBVIOUS
  <2>5. Len(t) = 3 /\ t[1] = x /\ t[2] = y /\ t[3] = z /\ t \in Seq(S)
    BY <1>1, <2>4
  <2>6. \A i \in 1..Len(s) : s[i] = t[i]
    BY <2>3, <2>5
  <2> QED
    BY <2>1, <2>2, <2>3, <2>4, <2>5, <2>6, SeqEqual
<1>5. <<x, y, z>> \o <<v>> = <<x, y, z, v>>
  <2>1. PICK s : s = <<x, y, z>> \o <<v>>
    OBVIOUS
  <2>2. /\ s \in Seq(S) /\ Len(s) = Len(<<x, y, z>>) + Len(<<v>>)
        /\ \A i \in 1..Len(<<x, y, z>>) + Len(<<v>>) :
              s[i] = IF i <= Len(<<x, y, z>>) THEN <<x, y, z>>[i] ELSE <<v>>[i - Len(<<x, y, z>>)]
    BY <1>1, <2>1, ConcatProperties
  <2>3. Len(s) = 4 /\ s[1] = x /\ s[2] = y /\ s[3] = z /\ s[4] = v
    BY <2>2
  <2>4. PICK t : t = <<x, y, z, v>>
    OBVIOUS
  <2>5. Len(t) = 4 /\ t[1] = x /\ t[2] = y /\ t[3] = z /\ t[4] = v /\ t \in Seq(S)
    BY <1>1, <2>4
  <2>6. \A i \in 1..Len(s) : s[i] = t[i]
    BY <2>3, <2>5
  <2> QED
    BY <2>1, <2>2, <2>3, <2>4, <2>5, <2>6, SeqEqual
<1> QED
  BY <1>2, <1>3, <1>4, <1>5

LEMMA Deparsed4 ==
    /\ \A m, x : Deparse(Plain(m, Ip4(x))) = <<x>>
    /\ \A m, a, hl, x : Deparse(Carried(m, a, hl, Ip4(x))) = <<V6(a, hl), x>>
    /\ \A m, a, hl, x : Deparse(Carried(m, a, hl, Untunnelled(x))) = <<V6(a, hl), x>>
    /\ \A m, o, g, x : Deparse(Headers(m, <<>>, Ip4(x), <<o>>, <<g>>)) = <<o, g, x>>
<1>1. ASSUME NEW m, NEW x PROVE Deparse(Plain(m, Ip4(x))) = <<x>>
  <2>1. <<>> \o <<>> = <<>> /\ <<>> \o <<x>> = <<x>> /\ <<x>> \o <<>> = <<x>>
    BY Joined
  <2> QED
    BY <2>1 DEF Deparse, Plain, Headers, Ip4, Inside
<1>2. ASSUME NEW m, NEW a, NEW hl, NEW x
      PROVE  /\ Deparse(Carried(m, a, hl, Ip4(x))) = <<V6(a, hl), x>>
             /\ Deparse(Carried(m, a, hl, Untunnelled(x))) = <<V6(a, hl), x>>
  <2>1. PICK u : u = V6(a, hl)
    OBVIOUS
  <2>2. /\ <<>> \o <<>> = <<>> /\ <<>> \o <<u>> = <<u>> /\ <<u>> \o <<>> = <<u>>
        /\ <<u>> \o <<x>> = <<u, x>> /\ <<u, x>> \o <<>> = <<u, x>>
    BY Joined
  <2>3. Deparse(Carried(m, a, hl, Ip4(x))) = <<u, x>>
    BY <2>1, <2>2 DEF Deparse, Carried, Headers, Ip4, Inside
  <2>4. Deparse(Carried(m, a, hl, Untunnelled(x))) = <<u, x>>
    BY <2>1, <2>2 DEF Deparse, Carried, Headers, Untunnelled, Inside
  <2> QED
    BY <2>1, <2>3, <2>4
<1>3. ASSUME NEW m, NEW o, NEW g, NEW x
      PROVE  Deparse(Headers(m, <<>>, Ip4(x), <<o>>, <<g>>)) = <<o, g, x>>
  <2>1. /\ <<>> \o <<>> = <<>> /\ <<>> \o <<o>> = <<o>> /\ <<o>> \o <<>> = <<o>>
        /\ <<o>> \o <<g>> = <<o, g>> /\ <<o, g>> \o <<>> = <<o, g>>
        /\ <<o, g>> \o <<x>> = <<o, g, x>> /\ <<o, g, x>> \o <<>> = <<o, g, x>>
    BY Joined
  <2> QED
    BY <2>1 DEF Deparse, Headers, Ip4, Inside
<1> QED
  BY <1>1, <1>2, <1>3

LEMMA DeparsedTunnel ==
    /\ \A m, o, g, x : Deparse(Plain(m, Tunnel(o, g, x))) = <<o, g, x>>
    /\ \A m, a, hl, o, g, x :
          Deparse(Carried(m, a, hl, Tunnel(o, g, x))) = <<V6(a, hl), o, g, x>>
<1>1. ASSUME NEW m, NEW o, NEW g, NEW x PROVE Deparse(Plain(m, Tunnel(o, g, x))) = <<o, g, x>>
  <2>1. /\ <<>> \o <<>> = <<>> /\ <<>> \o <<o>> = <<o>>
        /\ <<o>> \o <<g>> = <<o, g>>
        /\ <<o, g>> \o <<x>> = <<o, g, x>> /\ <<o, g, x>> \o <<>> = <<o, g, x>>
    BY Joined
  <2> QED
    BY <2>1 DEF Deparse, Plain, Headers, Tunnel, Inside
<1>2. ASSUME NEW m, NEW a, NEW hl, NEW o, NEW g, NEW x
      PROVE  Deparse(Carried(m, a, hl, Tunnel(o, g, x))) = <<V6(a, hl), o, g, x>>
  <2>1. PICK u : u = V6(a, hl)
    OBVIOUS
  <2>2. /\ <<>> \o <<>> = <<>> /\ <<>> \o <<u>> = <<u>> /\ <<u>> \o <<>> = <<u>>
        /\ <<u>> \o <<o>> = <<u, o>> /\ <<u, o>> \o <<g>> = <<u, o, g>>
        /\ <<u, o, g>> \o <<x>> = <<u, o, g, x>> /\ <<u, o, g, x>> \o <<>> = <<u, o, g, x>>
    BY Joined
  <2>3. Deparse(Carried(m, a, hl, Tunnel(o, g, x))) = <<u, o, g, x>>
    BY <2>2, <2>1 DEF Deparse, Carried, Headers, Tunnel, Inside
  <2> QED
    BY <2>1, <2>3
<1> QED
  BY <1>1, <1>2

LEMMA Deparsed6 ==
    /\ \A m, y : Deparse(Headers(m, <<y>>, Nothing, <<>>, <<>>)) = <<y>>
    /\ \A m, a, hl, y : Deparse(Carried(m, a, hl, Ip6(<<>>, y))) = <<V6(a, hl), y>>
    /\ \A m, a, hl, s, y : Deparse(Carried(m, a, hl, Ip6(<<s>>, y))) = <<V6(a, hl), s, y>>
<1>1. ASSUME NEW m, NEW y PROVE Deparse(Headers(m, <<y>>, Nothing, <<>>, <<>>)) = <<y>>
  <2>1. <<>> \o <<>> = <<>> /\ <<>> \o <<y>> = <<y>> /\ <<y>> \o <<>> = <<y>>
    BY Joined
  <2> QED
    BY <2>1 DEF Deparse, Headers, Nothing, Inside
<1>2. ASSUME NEW m, NEW a, NEW hl, NEW y
      PROVE  Deparse(Carried(m, a, hl, Ip6(<<>>, y))) = <<V6(a, hl), y>>
  <2>1. PICK u : u = V6(a, hl)
    OBVIOUS
  <2>2. /\ <<>> \o <<>> = <<>> /\ <<>> \o <<u>> = <<u>> /\ <<u>> \o <<>> = <<u>>
        /\ <<u>> \o <<y>> = <<u, y>> /\ <<u, y>> \o <<>> = <<u, y>>
    BY Joined
  <2>3. Deparse(Carried(m, a, hl, Ip6(<<>>, y))) = <<u, y>>
    BY <2>1, <2>2 DEF Deparse, Carried, Headers, Ip6, Inside
  <2> QED
    BY <2>1, <2>3
<1>3. ASSUME NEW m, NEW a, NEW hl, NEW s, NEW y
      PROVE  Deparse(Carried(m, a, hl, Ip6(<<s>>, y))) = <<V6(a, hl), s, y>>
  <2>1. PICK u : u = V6(a, hl)
    OBVIOUS
  <2>2. /\ <<>> \o <<>> = <<>> /\ <<>> \o <<u>> = <<u>> /\ <<u>> \o <<>> = <<u>>
        /\ <<u>> \o <<s>> = <<u, s>>
        /\ <<u, s>> \o <<y>> = <<u, s, y>> /\ <<u, s, y>> \o <<>> = <<u, s, y>>
    BY Joined
  <2>3. Deparse(Carried(m, a, hl, Ip6(<<s>>, y))) = <<u, s, y>>
    BY <2>1, <2>2 DEF Deparse, Carried, Headers, Ip6, Inside
  <2> QED
    BY <2>1, <2>3
<1> QED
  BY <1>1, <1>2, <1>3
-----------------------------------------------------------------------------
(* The tables of one switch, and what they do to carriers. *)

(* A longest match is an entry of the table and a prefix of the key. *)
LEMMA LongestMatch ==
    ASSUME NEW table, NEW key, Hit(Lpm(table, key))
    PROVE  TheOne(Lpm(table, key)) \in table /\ IsPrefix(TheOne(Lpm(table, key)).match, key)
<1>1. TheOne(Lpm(table, key)) \in Lpm(table, key)
  BY DEF Hit, TheOne
<1> QED
  BY <1>1 DEF Lpm

(* All in the table t of router r is a rule of the configuration, and sensible. *)
Fits(r, t) ==
    \A n \in TableNames : \A e \in t[n] : e \in Rules(n) /\ Sensible(r, n, e)

LEMMA TablesFit ==
    ASSUME Kept, SensibleTables, NEW r \in Routers
    PROVE  Fits(r, tables[r])
<1>1. ASSUME NEW n \in TableNames, NEW e \in tables[r][n]
      PROVE  e \in Rules(n) /\ Sensible(r, n, e)
  <2>1. e \in InitTables[r][n] \cup Ordered(r, n)
    BY <1>1 DEF Kept
  <2> QED
    BY <2>1 DEF SensibleTables, Rules
<1> QED
  BY <1>1 DEF Fits

(* A longest match is one of the rules that match. *)
LEMMA MatchOfRules ==
    ASSUME NEW r, NEW t, Fits(r, t), NEW n \in TableNames, NEW key, Hit(Lpm(t[n], key))
    PROVE  /\ TheOne(Lpm(t[n], key)) \in Matching(n, key)
           /\ Sensible(r, n, TheOne(Lpm(t[n], key)))
<1>1. TheOne(Lpm(t[n], key)) \in t[n] /\ IsPrefix(TheOne(Lpm(t[n], key)).match, key)
  BY LongestMatch
<1> QED
  BY <1>1 DEF Fits, Matching

(* Nothing of the routing of IPv6 applies to a packet without an IPv6 header. *)
LEMMA NoRoute ==
    ASSUME NEW r, NEW t, Fits(r, t), NEW p, p.v6 = <<>>
    PROVE  RoutingV6(t, p) = p /\ ~Hit(Lpm(t.localsid, V6Key(p)))
<1>1. V6Key(p) = ZeroAddress
  BY DEF V6Key
<1>2. ~Hit(Lpm(t.routes6, ZeroAddress))
  <2>1. \A e \in t["routes6"] : ~IsPrefix(e.match, ZeroAddress)
    BY DEF Fits, Sensible, TableNames
  <2> QED
    BY <2>1, LongestMatch
<1>3. ~Hit(Lpm(t.localsid, ZeroAddress))
  <2>1. \A e \in t["localsid"] : ~IsPrefix(e.match, ZeroAddress)
    BY DEF Fits, Sensible, TableNames
  <2> QED
    BY <2>1, LongestMatch
<1> QED
  BY <1>1, <1>2, <1>3 DEF RoutingV6

(* Routing decrements the hop limit of an IPv6 header and leaves the rest alone. *)
LEMMA NextHopSet ==
    ASSUME NEW m, NEW dst, NEW hl, NEW b, NEW n
    PROVE  SetNextHop(Headers(m, <<V6(dst, hl)>>, b, <<>>, <<>>), n)
              = Headers(n, <<V6(dst, Decrement(hl))>>, b, <<>>, <<>>)
<1>1. PICK p : p = Headers(m, <<V6(dst, hl)>>, b, <<>>, <<>>)
  OBVIOUS
<1>2. PICK k : k = Decrement(hl)
  OBVIOUS
<1>3. p.v6 = <<V6(dst, hl)>> /\ p.v6 # <<>> /\ p.v6[1].hl = hl
  BY <1>1 DEF Headers, V6
<1>4. SetNextHop(p, n) = [p EXCEPT !.mac = n, !.v6[1].hl = Decrement(p.v6[1].hl)]
  BY <1>3 DEF SetNextHop
<1>5. SetNextHop(p, n) = [p EXCEPT !.mac = n, !.v6[1].hl = k]
  BY <1>2, <1>3, <1>4
<1>6. PICK q : q = [p EXCEPT !.mac = n]
  OBVIOUS
<1>7. q = Headers(n, <<V6(dst, hl)>>, b, <<>>, <<>>)
  BY <1>1, <1>6 DEF Headers
<1>8. PICK u : u = V6(dst, hl)
  OBVIOUS
<1>9. q.v6 = <<u>> /\ q.v6[1] = u
  BY <1>7, <1>8 DEF Headers
<1>10. [u EXCEPT !.hl = k] = V6(dst, k)
  BY <1>8 DEF V6
<1>11. [<<u>> EXCEPT ![1] = V6(dst, k)] = <<V6(dst, k)>>
  OBVIOUS
<1>12. [q.v6 EXCEPT ![1] = [q.v6[1] EXCEPT !.hl = k]] = <<V6(dst, k)>>
  BY <1>9, <1>10, <1>11
<1>13. [q EXCEPT !.v6 = <<V6(dst, k)>>] = Headers(n, <<V6(dst, k)>>, b, <<>>, <<>>)
  BY <1>7 DEF Headers
<1> QED
  BY <1>1, <1>2, <1>5, <1>6, <1>12, <1>13

(* A carrier is routed to a router, or stays at one for want of a route. *)
LEMMA CarrierRouted ==
    ASSUME NEW C, NEW actions, Goes(C, actions), NEW r, NEW t, Fits(r, t),
           NEW m \in Routers, NEW a \in Way(C), NEW hl, NEW b
    PROVE  \E m2 \in Routers : \E hl2 : RoutingV6(t, Carried(m, a, hl, b)) = Carried(m2, a, hl2, b)
<1>1. PICK p : p = Carried(m, a, hl, b)
  OBVIOUS
<1>2. V6Key(p) = a
  BY <1>1 DEF V6Key, V6, Carried, Headers
<1>3. CASE Hit(Lpm(t["routes6"], a))
  <2>1. PICK e : e = TheOne(Lpm(t["routes6"], a))
    OBVIOUS
  <2>2. e \in Matching("routes6", a)
    BY <1>3, <2>1, MatchOfRules DEF TableNames
  <2>3. e.nexthop \in Routers
    BY <2>2 DEF Goes
  <2>4. RoutingV6(t, p) = SetNextHop(p, e.nexthop)
    BY <1>2, <1>3, <2>1 DEF RoutingV6
  <2>5. SetNextHop(p, e.nexthop) = Carried(e.nexthop, a, Decrement(hl), b)
    BY <1>1, NextHopSet DEF Carried
  <2> QED
    BY <1>1, <2>3, <2>4, <2>5
<1>4. CASE ~Hit(Lpm(t["routes6"], a))
  BY <1>1, <1>2, <1>4 DEF RoutingV6
<1> QED
  BY <1>3, <1>4

(* un and uA consume SIDs of the carrier, and every SID that gives it      *)
(* another address leaves the rest alone.                                  *)
Toward(p, a) == [p EXCEPT !.v6[1].dst = a]

LEMMA Redirected ==
    ASSUME NEW m, NEW a, NEW hl, NEW b, NEW p, p = Carried(m, a, hl, b)
    PROVE  /\ \A a2 : Toward(p, a2) = Carried(m, a2, hl, b)
           /\ Srv6UsidUn(p) = Carried(m, ShiftSids(a, 1), hl, b)
           /\ Srv6UsidUa(p) = Carried(m, ShiftSids(a, 2), hl, b)
<1>1. PICK u : u = V6(a, hl)
  OBVIOUS
<1>2. p.v6 = <<u>> /\ p.v6[1] = u /\ u.dst = a
  BY <1>1 DEF Carried, Headers, V6
<1>3. ASSUME NEW a2
      PROVE  Toward(p, a2) = Carried(m, a2, hl, b)
  <2>1. [u EXCEPT !.dst = a2] = V6(a2, hl)
    BY <1>1 DEF V6
  <2>2. [<<u>> EXCEPT ![1] = V6(a2, hl)] = <<V6(a2, hl)>>
    OBVIOUS
  <2>3. [p.v6 EXCEPT ![1] = [p.v6[1] EXCEPT !.dst = a2]] = <<V6(a2, hl)>>
    BY <1>2, <2>1, <2>2
  <2>4. [p EXCEPT !.v6 = <<V6(a2, hl)>>] = Carried(m, a2, hl, b)
    BY DEF Carried, Headers
  <2> QED
    BY <2>3, <2>4 DEF Toward
<1>4. ASSUME NEW k
      PROVE  [p EXCEPT !.v6[1].dst = ShiftSids(p.v6[1].dst, k)]
               = Carried(m, ShiftSids(a, k), hl, b)
  <2>1. PICK a2 : a2 = ShiftSids(a, k)
    OBVIOUS
  <2>2. ShiftSids(p.v6[1].dst, k) = a2
    BY <1>2, <2>1
  <2> QED
    BY <1>3, <2>1, <2>2 DEF Toward
<1>5. Srv6UsidUn(p) = [p EXCEPT !.v6[1].dst = ShiftSids(p.v6[1].dst, 1)]
  BY DEF Srv6UsidUn
<1>6. Srv6UsidUa(p) = [p EXCEPT !.v6[1].dst = ShiftSids(p.v6[1].dst, 2)]
  BY DEF Srv6UsidUa
<1> QED
  BY <1>3, <1>4, <1>5, <1>6

(* Where the SIDs of a router do not end a carrier it goes on, by its      *)
(* route or by the link of a uA.                                           *)
LEMMA CarrierGoesOn ==
    ASSUME NEW C, NEW actions, Goes(C, actions), NEW r, NEW t, Fits(r, t),
           NEW m \in Routers, NEW a \in Way(C), NEW hl, NEW b, NEW nexthop,
           NEW w \in Encapsulation(t, Carried(m, a, hl, b))
    PROVE  /\ \E m2 \in Routers : \E hl2 : RoutingV6(t, w) = Carried(m2, a, hl2, b)
           /\ \E m2 \in Routers : \E hl2 : Xconnect(t, w, nexthop) = Carried(m2, a, hl2, b)
<1>0. PICK p : p = Carried(m, a, hl, b)
  OBVIOUS
<1>1. p.v6 = <<V6(a, hl)>> /\ p.v6 # <<>>
  BY <1>0 DEF Carried, Headers
<1>2. V6Key(p) = a
  BY <1>1 DEF V6Key, V6
<1>3. ~Hit(Lpm(t["encap6"], a))
  <2>1. Matching("encap6", a) = {}
    BY DEF Goes
  <2> QED
    BY <2>1, MatchOfRules DEF TableNames
<1>4. w = p
  BY <1>0, <1>1, <1>2, <1>3 DEF Encapsulation, Srv6Encap
<1>5. \E m2 \in Routers : \E hl2 : RoutingV6(t, w) = Carried(m2, a, hl2, b)
  BY <1>0, <1>4, CarrierRouted
<1>6. CASE Hit(Lpm(t["xconnect"], nexthop))
  <2>1. PICK n : n = TheOne(Lpm(t["xconnect"], nexthop)).nexthop
    OBVIOUS
  <2>2. n \in Routers
    BY <1>6, <2>1, MatchOfRules DEF Sensible, TableNames
  <2>3. Xconnect(t, w, nexthop) = [p EXCEPT !.mac = n]
    BY <1>4, <1>6, <2>1 DEF Xconnect
  <2>4. [p EXCEPT !.mac = n] = Carried(n, a, hl, b)
    BY <1>0 DEF Carried, Headers
  <2> QED
    BY <1>5, <2>2, <2>3, <2>4
<1>7. CASE ~Hit(Lpm(t["xconnect"], nexthop))
  BY <1>0, <1>4, <1>5, <1>7 DEF Xconnect
<1> QED
  BY <1>6, <1>7

-----------------------------------------------------------------------------
(* What a switch does with a packet sent to it: its SIDs first, then a     *)
(* carrier unless the SID says no, then the next hop.                      *)

LEMMA Layer3Steps ==
    ASSUME NEW r \in Routers, NEW t, Fits(r, t), NEW p, NEW q \in Layer3(t, p)
    PROVE  \/ q = p
           \/ /\ p.mac \in t.station /\ p.mac \in Routers
              /\ \E res \in Srv6LocalsidTable(t, p) :
                 \E w \in IF res.flag THEN {res.p} ELSE Encapsulation(t, res.p) :
                    q = IF res.xconnect = <<>> THEN RoutingV6(t, w) ELSE Xconnect(t, w, res.xconnect)
<1>1. CASE p.mac \notin t.station
  BY <1>1 DEF Layer3
<1>2. CASE p.mac \in t.station
  <2>1. PICK res \in Srv6LocalsidTable(t, p) :
           q \in {IF res.xconnect = <<>> THEN RoutingV6(t, w) ELSE Xconnect(t, w, res.xconnect) :
                     w \in IF res.flag THEN {res.p} ELSE Encapsulation(t, res.p)}
    BY <1>2 DEF Layer3
  <2>2. PICK w \in IF res.flag THEN {res.p} ELSE Encapsulation(t, res.p) :
           q = IF res.xconnect = <<>> THEN RoutingV6(t, w) ELSE Xconnect(t, w, res.xconnect)
    BY <2>1
  <2>3. p.mac \in Routers
    <3>1. p.mac \in t["station"]
      BY <1>2
    <3> QED
      BY <3>1 DEF Fits, Sensible, TableNames
  <2> QED
    BY <1>2, <2>2, <2>3
<1> QED
  BY <1>1, <1>2

(* Without an IPv6 header, no SID is looked for. *)
LEMMA BareThroughLayer3 ==
    ASSUME NEW r \in Routers, NEW t, Fits(r, t), NEW p, p.v6 = <<>>, NEW q \in Layer3(t, p)
    PROVE  \/ q = p
           \/ p.mac \in Routers /\ \E w \in Encapsulation(t, p) : q = RoutingV6(t, w)
<1> SUFFICES ASSUME q # p
             PROVE  p.mac \in Routers /\ \E w \in Encapsulation(t, p) : q = RoutingV6(t, w)
  OBVIOUS
<1>1. Srv6LocalsidTable(t, p) = {Result(p, FALSE, <<>>)}
  BY NoRoute DEF Srv6LocalsidTable
<1>2. PICK res \in Srv6LocalsidTable(t, p) :
         \E w \in IF res.flag THEN {res.p} ELSE Encapsulation(t, res.p) :
            q = IF res.xconnect = <<>> THEN RoutingV6(t, w) ELSE Xconnect(t, w, res.xconnect)
  BY Layer3Steps
<1>3. res.xconnect = <<>> /\ res.flag = FALSE /\ res.p = p
  BY <1>1, <1>2 DEF Result
<1> QED
  BY <1>2, <1>3, Layer3Steps

-----------------------------------------------------------------------------
(* The pipeline on an IPv4 packet, by itself or with a tunnel below it. *)

Over(x, gtp, inner4) == Inside(<<>>, <<>>, <<x>>, gtp, inner4)

(* A packet is given the carrier of a rule that matches its destination. *)
LEMMA CarrierGiven ==
    ASSUME NEW r, NEW t, Fits(r, t), NEW m, NEW x, NEW gtp, NEW inner4,
           NEW p, p = Plain(m, Over(x, gtp, inner4))
    PROVE  \/ Srv6EncapV4(t, p) = p
           \/ \E a \in CarriersTo(x.dst) : \E hl :
                 Srv6EncapV4(t, p) = Carried(m, a, hl, Over(x, gtp, inner4))
<1>1. p.v4 = <<x>> /\ p.v4 # <<>> /\ p.srh = <<>>
  BY DEF Plain, Headers, Over, Inside
<1>2. V4Key(p) = x.dst
  BY <1>1 DEF V4Key
<1>3. CASE Hit(Lpm(t["encap4"], x.dst))
  <2>1. PICK e : e = TheOne(Lpm(t["encap4"], x.dst))
    OBVIOUS
  <2>2. e \in Matching("encap4", x.dst) /\ e.sids = <<e.sids[1]>>
    BY <1>3, <2>1, MatchOfRules DEF Sensible, TableNames
  <2>3. PICK a : a = e.sids[1]
    OBVIOUS
  <2>4. a \in CarriersTo(x.dst)
    BY <2>2, <2>3 DEF CarriersTo
  <2>5. Len(e.sids) # 2
    <3>1. e.sids = <<a>>
      BY <2>2, <2>3
    <3> QED
      BY <3>1
  <2>6. PICK hl : hl = p.v4[1].ttl
    OBVIOUS
  <2>7. PICK w : w = [p EXCEPT !.v6 = <<V6(a, hl)>>]
    OBVIOUS
  <2>8. w = Carried(m, a, hl, Over(x, gtp, inner4)) /\ w.srh = <<>>
    BY <2>7 DEF Plain, Carried, Headers, Over, Inside
  <2>9. Srv6EncapV4(t, p) = [w EXCEPT !.srh = SrhOf(e.sids, w.srh)]
    BY <1>2, <1>3, <2>1, <2>3, <2>6, <2>7 DEF Srv6EncapV4
  <2>10. SrhOf(e.sids, w.srh) = <<>>
    BY <2>5, <2>8 DEF SrhOf
  <2>11. Srv6EncapV4(t, p) = Carried(m, a, hl, Over(x, gtp, inner4))
    BY <2>8, <2>9, <2>10 DEF Carried, Headers, Over, Inside
  <2> QED
    BY <2>4, <2>11
<1>4. CASE ~Hit(Lpm(t["encap4"], x.dst))
  BY <1>2, <1>4 DEF Srv6EncapV4
<1> QED
  BY <1>3, <1>4

(* A packet that was not entered stays as it is or is given a carrier.     *)
LEMMA PlainThroughLayer3 ==
    ASSUME NEW C, NEW actions, Goes(C, actions), Slots >= 2, NEW r \in Routers, NEW t, Fits(r, t),
           NEW m, NEW x, CarriersTo(x.dst) \subseteq C, NEW q \in Layer3(t, Plain(m, Ip4(x)))
    PROVE  \/ q = Plain(m, Ip4(x))
           \/ \E m2 \in Routers : \E a \in Way(C) : \E hl : q = Carried(m2, a, hl, Ip4(x))
<1>1. PICK p : p = Plain(m, Ip4(x))
  OBVIOUS
<1>2. /\ p.v6 = <<>> /\ p.v4 # <<>> /\ p.gtp = <<>> /\ p.mac = m
      /\ p = Plain(m, Over(x, <<>>, <<>>)) /\ Ip4(x) = Over(x, <<>>, <<>>)
  BY <1>1 DEF Plain, Headers, Ip4, Over, Inside
<1>3. Encapsulation(t, p) = {Srv6EncapV4(t, p)}
  BY <1>2 DEF Encapsulation, SrvTransitUdp
<1>4. SUFFICES ASSUME m \in Routers, NEW w \in Encapsulation(t, p), q = RoutingV6(t, w)
               PROVE  \/ q = p
                      \/ \E m2 \in Routers : \E a \in Way(C) : \E hl : q = Carried(m2, a, hl, Ip4(x))
  BY <1>1, <1>2, BareThroughLayer3
<1>5. CASE w = p
  BY <1>2, <1>4, <1>5, NoRoute
<1>6. ASSUME NEW a \in CarriersTo(x.dst), NEW hl, w = Carried(m, a, hl, Ip4(x))
      PROVE  \E m2 \in Routers : \E hl2 : q = Carried(m2, a, hl2, Ip4(x)) /\ a \in Way(C)
  <2>1. a \in Way(C)
    BY <1>6, WayAddresses
  <2> QED
    BY <1>4, <1>6, <2>1, CarrierRouted
<1> QED
  BY <1>2, <1>3, <1>4, <1>5, <1>6, CarrierGiven

(* A tunnel is ended and what was in it given a carrier; or it is given a carrier itself. *)
LEMMA TunnelThroughLayer3 ==
    ASSUME NEW C, NEW actions, Goes(C, actions), NEW D, NEW ends, Goes(D, ends), Slots >= 2,
           NEW r \in Routers, NEW t, Fits(r, t),
           NEW m, NEW o, NEW g, NEW x, CarriersTo(o.dst) \subseteq C,
           {e.sids[1] : e \in Rules("gtp4d")} \subseteq D, Matching("encap4", <<"0", "0">>) = {},
           NEW q \in Layer3(t, Plain(m, Tunnel(o, g, x)))
    PROVE  \/ q = Plain(m, Tunnel(o, g, x))
           \/ \E m2 \in Routers : \E a \in Way(C) : \E hl : q = Carried(m2, a, hl, Tunnel(o, g, x))
           \/ \E m2 \in Routers : \E a \in Way(D) : \E hl : q = Carried(m2, a, hl, Untunnelled(x))
<1>1. PICK p : p = Plain(m, Tunnel(o, g, x))
  OBVIOUS
<1>2. /\ p.v6 = <<>> /\ p.v4 # <<>> /\ p.gtp # <<>> /\ p.inner4 = <<x>> /\ p.inner4 # <<>>
      /\ p.mac = m
      /\ p = Plain(m, Over(o, <<g>>, <<x>>)) /\ Tunnel(o, g, x) = Over(o, <<g>>, <<x>>)
  BY <1>1 DEF Plain, Headers, Tunnel, Over, Inside
<1>3. Encapsulation(t, p) = {Srv6EncapV4(t, z) : z \in SrvTransitUdp(t, p)}
  BY <1>2 DEF Encapsulation
<1>4. SUFFICES ASSUME q # p
               PROVE  \/ \E m2 \in Routers : \E a \in Way(C) : \E hl :
                            q = Carried(m2, a, hl, Tunnel(o, g, x))
                      \/ \E m2 \in Routers : \E a \in Way(D) : \E hl :
                            q = Carried(m2, a, hl, Untunnelled(x))
  BY <1>1
<1>5. m \in Routers /\ \E w \in Encapsulation(t, p) : q = RoutingV6(t, w)
  BY <1>1, <1>2, <1>4, BareThroughLayer3
<1>6. PICK w \in Encapsulation(t, p) : q = RoutingV6(t, w)
  BY <1>5
<1>7. PICK z \in SrvTransitUdp(t, p) : w = Srv6EncapV4(t, z)
  BY <1>3, <1>6
<1>8. CASE t.gtp4d = {}
  <2>1. w = Srv6EncapV4(t, p)
    BY <1>7, <1>8 DEF SrvTransitUdp
  <2>2. CASE w = p
    BY <1>2, <1>6, <1>4, <2>2, NoRoute
  <2>3. ASSUME NEW a \in CarriersTo(o.dst), NEW hl, w = Carried(m, a, hl, Tunnel(o, g, x))
        PROVE  \E m2 \in Routers : \E hl2 :
                  q = Carried(m2, a, hl2, Tunnel(o, g, x)) /\ a \in Way(C)
    <3>1. a \in Way(C)
      BY <2>3, WayAddresses
    <3>2. PICK b : b = Tunnel(o, g, x)
      OBVIOUS
    <3>3. \E m2 \in Routers : \E hl2 : RoutingV6(t, Carried(m, a, hl, b)) = Carried(m2, a, hl2, b)
      BY <1>5, <3>1, CarrierRouted
    <3> QED
      BY <1>6, <2>3, <3>1, <3>2, <3>3
  <2>4. w = p \/ \E a \in CarriersTo(o.dst) : \E hl : w = Carried(m, a, hl, Tunnel(o, g, x))
    <3>1. PICK gg, xx : gg = <<g>> /\ xx = <<x>>
      OBVIOUS
    <3>2. p = Plain(m, Over(o, gg, xx)) /\ Tunnel(o, g, x) = Over(o, gg, xx)
      BY <1>2, <3>1
    <3> QED
      BY <2>1, <3>2, CarrierGiven
  <2> QED
    BY <2>2, <2>3, <2>4
<1>9. CASE t.gtp4d # {}
  <2>1. PICK e : e = TheOne(t["gtp4d"])
    OBVIOUS
  <2>2. e \in Rules("gtp4d")
    <3>1. e \in t["gtp4d"]
      BY <1>9, <2>1 DEF TheOne
    <3> QED
      BY <3>1 DEF Fits, TableNames
  <2>3. PICK a : a = e.sids[1]
    OBVIOUS
  <2>4. a \in D
    BY <2>2, <2>3
  <2>5. a \in Way(D)
    BY <2>4, WayAddresses
  <2>6. PICK ttl : ttl = p.inner4[1].ttl
    OBVIOUS
  <2>7. z = [p EXCEPT !.v6 = <<V6(a, ttl)>>, !.gtp = <<>>, !.v4 = <<>>]
    BY <1>2, <1>7, <1>9, <2>1, <2>3, <2>6 DEF SrvTransitUdp
  <2>8. z = Carried(m, a, ttl, Untunnelled(x))
    BY <1>1, <2>7 DEF Plain, Carried, Headers, Tunnel, Untunnelled, Inside
  <2>9. V4Key(z) = <<"0", "0">>
    BY <2>8 DEF V4Key, Carried, Headers, Untunnelled, Inside
  <2>10. ~Hit(Lpm(t["encap4"], <<"0", "0">>))
    BY MatchOfRules DEF TableNames
  <2>11. w = z
    BY <1>7, <2>9, <2>10 DEF Srv6EncapV4
  <2>12. PICK b : b = Untunnelled(x)
    OBVIOUS
  <2>13. \E m2 \in Routers : \E hl2 : RoutingV6(t, Carried(m, a, ttl, b)) = Carried(m2, a, hl2, b)
    BY <1>5, <2>5, CarrierRouted
  <2> QED
    BY <1>6, <2>5, <2>8, <2>11, <2>12, <2>13
<1> QED
  BY <1>8, <1>9

(* Taken out of its carrier, alone or below a new tunnel. *)
TakenOut(m, x, gtp, inner4, oo, gg) == Headers(m, <<>>, Over(x, gtp, inner4), oo, gg)

(* It is routed to a host and loses one hop, or stays. *)
LEMMA RoutedToHost ==
    ASSUME NEW r, NEW t, Fits(r, t), NEW m, NEW dst, NEW ttl, NEW gtp, NEW inner4, NEW oo, NEW gg,
           NEW p, p = TakenOut(m, V4(dst, ttl), gtp, inner4, oo, gg)
    PROVE  \/ RoutingV4(t, p) = p
           \/ \E m2 : /\ m2 \notin Routers
                      /\ RoutingV4(t, p)
                           = TakenOut(m2, V4(dst, Decrement(ttl)), gtp, inner4, oo, gg)
<1>1. PICK x : x = V4(dst, ttl)
  OBVIOUS
<1>2. p.v4 = <<x>> /\ p.v4 # <<>> /\ p.v4[1] = x /\ x.ttl = ttl
  BY <1>1 DEF TakenOut, Headers, Over, Inside, V4
<1>3. PICK key : key = V4Key(p)
  OBVIOUS
<1>4. CASE Hit(Lpm(t["routes4"], key))
  <2>1. PICK n : n = TheOne(Lpm(t["routes4"], key)).nexthop
    OBVIOUS
  <2>2. n \notin Routers
    BY <1>4, <2>1, MatchOfRules DEF Sensible, TableNames
  <2>3. PICK k : k = Decrement(ttl)
    OBVIOUS
  <2>4. RoutingV4(t, p) = SetNextHopV4(p, n)
    BY <1>3, <1>4, <2>1 DEF RoutingV4
  <2>5. SetNextHopV4(p, n) = [p EXCEPT !.mac = n, !.v4[1].ttl = Decrement(p.v4[1].ttl)]
    BY <1>2 DEF SetNextHopV4
  <2>6. SetNextHopV4(p, n) = [p EXCEPT !.mac = n, !.v4[1].ttl = k]
    BY <1>2, <2>3, <2>5
  <2>7. PICK q : q = [p EXCEPT !.mac = n]
    OBVIOUS
  <2>8. q = TakenOut(n, V4(dst, ttl), gtp, inner4, oo, gg)
    BY <2>7 DEF TakenOut, Headers
  <2>9. q.v4 = <<x>> /\ q.v4[1] = x
    BY <1>1, <2>8 DEF TakenOut, Headers, Over, Inside
  <2>10. [x EXCEPT !.ttl = k] = V4(dst, k)
    BY <1>1 DEF V4
  <2>11. [<<x>> EXCEPT ![1] = V4(dst, k)] = <<V4(dst, k)>>
    OBVIOUS
  <2>12. [q.v4 EXCEPT ![1] = [q.v4[1] EXCEPT !.ttl = k]] = <<V4(dst, k)>>
    BY <2>9, <2>10, <2>11
  <2>13. [q EXCEPT !.v4 = <<V4(dst, k)>>] = TakenOut(n, V4(dst, k), gtp, inner4, oo, gg)
    BY <2>8 DEF TakenOut, Headers, Over, Inside
  <2> QED
    BY <2>2, <2>3, <2>4, <2>6, <2>7, <2>12, <2>13
<1>5. CASE ~Hit(Lpm(t["routes4"], key))
  BY <1>3, <1>5 DEF RoutingV4
<1> QED
  BY <1>4, <1>5

(* Where a SID ends its carrier, an IPv4 packet leaves the fabric or the   *)
(* switch drops it.                                                        *)
LEMMA CarrierEnds ==
    ASSUME NEW r, NEW t, Fits(r, t), NEW m \in t.station, NEW dst, NEW ttl,
           NEW gtp, NEW inner4, NEW oo, NEW gg,
           NEW q, q = RoutingV6(t, RoutingV4(t, TakenOut(m, V4(dst, ttl), gtp, inner4, oo, gg)))
    PROVE  \/ \E m2 : /\ m2 \notin Routers
                      /\ q = TakenOut(m2, V4(dst, Decrement(ttl)), gtp, inner4, oo, gg)
           \/ q.mac \in t.station
<1>1. PICK p : p = TakenOut(m, V4(dst, ttl), gtp, inner4, oo, gg)
  OBVIOUS
<1>2. p.mac = m /\ p.v6 = <<>>
  BY <1>1 DEF TakenOut, Headers
<1>3. PICK w : w = RoutingV4(t, p)
  OBVIOUS
<1>4. CASE w = p
  <2>1. q = p
    BY <1>1, <1>2, <1>3, <1>4, NoRoute
  <2> QED
    BY <1>2, <2>1
<1>5. ASSUME NEW m2, m2 \notin Routers,
             w = TakenOut(m2, V4(dst, Decrement(ttl)), gtp, inner4, oo, gg)
      PROVE  q = w
  <2>1. w.v6 = <<>>
    BY <1>5 DEF TakenOut, Headers
  <2> QED
    BY <1>1, <1>3, <2>1, NoRoute
<1>6. \/ w = p
      \/ \E m2 : m2 \notin Routers /\ w = TakenOut(m2, V4(dst, Decrement(ttl)), gtp, inner4, oo, gg)
  BY <1>1, <1>3, RoutedToHost
<1> QED
  BY <1>4, <1>5, <1>6

(* dx4 takes the IPv6 header away, and what takes a GTP-U tunnel adds that. *)
LEMMA HeadersRemoved ==
    ASSUME NEW m, NEW a, NEW hl, NEW x, NEW gtp, NEW inner4, NEW p,
           p = Carried(m, a, hl, Over(x, gtp, inner4))
    PROVE  /\ Srv6EndDx4(p) = TakenOut(m, x, gtp, inner4, <<>>, <<>>)
           /\ \A e : Srv6Gtp4E(p, e)
                       = TakenOut(m, x, gtp, inner4, <<V4(e.gnb, 64)>>, <<Gtp(e.teid)>>)
<1>1. Srv6EndDx4(p) = TakenOut(m, x, gtp, inner4, <<>>, <<>>)
  <2>1. PICK u : u = [p EXCEPT !.v6 = <<>>]
    OBVIOUS
  <2>2. u = TakenOut(m, x, gtp, inner4, <<>>, <<>>)
    BY <2>1 DEF Carried, TakenOut, Headers
  <2>3. [u EXCEPT !.srh = <<>>] = u /\ [u EXCEPT !.inner6 = <<>>] = u
    BY <2>2 DEF TakenOut, Headers, Over, Inside
  <2> QED
    BY <2>1, <2>2, <2>3 DEF Srv6EndDx4
<1>2. ASSUME NEW e
      PROVE  Srv6Gtp4E(p, e) = TakenOut(m, x, gtp, inner4, <<V4(e.gnb, 64)>>, <<Gtp(e.teid)>>)
  <2>1. PICK o, g : o = V4(e.gnb, 64) /\ g = Gtp(e.teid)
    OBVIOUS
  <2>2. PICK u : u = TakenOut(m, x, gtp, inner4, <<>>, <<>>)
    OBVIOUS
  <2>3. PICK v : v = [u EXCEPT !.outer4 = <<o>>]
    OBVIOUS
  <2>4. v = TakenOut(m, x, gtp, inner4, <<o>>, <<>>)
    BY <2>2, <2>3 DEF TakenOut, Headers
  <2>5. [v EXCEPT !.outerGtp = <<g>>] = TakenOut(m, x, gtp, inner4, <<o>>, <<g>>)
    BY <2>4 DEF TakenOut, Headers
  <2>6. Srv6Gtp4E(p, e) = [v EXCEPT !.outerGtp = <<g>>]
    BY <1>1, <2>1, <2>2, <2>3 DEF Srv6Gtp4E
  <2> QED
    BY <2>1, <2>5, <2>6
<1> QED
  BY <1>1, <1>2

(* The SIDs that end the carrier of an IPv4 packet. *)
Ends4(actions) == actions \subseteq Moving \cup {"srv6_end_dx4", "srv6_gtp4_e"}

(* What a switch does with a carrier, as far as its SIDs only move it on. *)
LEMMA MovedThroughLayer3 ==
    ASSUME NEW C, NEW actions, Goes(C, actions), Slots >= 2, NEW r \in Routers, NEW t, Fits(r, t),
           NEW m \in Routers, NEW a \in Way(C), NEW hl, NEW b,
           NEW q \in Layer3(t, Carried(m, a, hl, b))
    PROVE  \/ \E m2 \in Routers : \E a2 \in Way(C) : \E hl2 : q = Carried(m2, a2, hl2, b)
           \/ /\ m \in t.station
              /\ \E e \in Matching("localsid", a) :
                 \E res \in Srv6LocalsidTable(t, Carried(m, a, hl, b)) :
                 \E w \in IF res.flag THEN {res.p} ELSE Encapsulation(t, res.p) :
                    /\ e.action \in actions \ Moving
                    /\ Hit(Lpm(t["localsid"], a)) /\ e = TheOne(Lpm(t["localsid"], a))
                    /\ q = IF res.xconnect = <<>> THEN RoutingV6(t, w)
                           ELSE Xconnect(t, w, res.xconnect)
<1>1. PICK p : p = Carried(m, a, hl, b)
  OBVIOUS
<1>2. p.mac = m /\ p.v6 = <<V6(a, hl)>> /\ p.v6 # <<>>
  BY <1>1 DEF Carried, Headers
<1>3. V6Key(p) = a
  BY <1>2 DEF V6Key, V6
<1>4. CASE q = p
  BY <1>1, <1>4
<1>5. CASE q # p
  <2>1. m \in t.station
    BY <1>1, <1>2, <1>5, Layer3Steps
  <2>2. PICK res \in Srv6LocalsidTable(t, p) :
           \E w \in IF res.flag THEN {res.p} ELSE Encapsulation(t, res.p) :
              q = IF res.xconnect = <<>> THEN RoutingV6(t, w) ELSE Xconnect(t, w, res.xconnect)
    BY <1>1, <1>5, Layer3Steps
  <2>3. PICK w \in IF res.flag THEN {res.p} ELSE Encapsulation(t, res.p) :
           q = IF res.xconnect = <<>> THEN RoutingV6(t, w) ELSE Xconnect(t, w, res.xconnect)
    BY <2>2
  <2>4. ASSUME NEW a2 \in Way(C), res.p = Carried(m, a2, hl, b), res.flag = FALSE
        PROVE  \E m2 \in Routers : \E c \in Way(C) : \E hl2 : q = Carried(m2, c, hl2, b)
    <3>1. w \in Encapsulation(t, Carried(m, a2, hl, b))
      BY <2>3, <2>4
    <3>2. PICK y : y = res.xconnect
      OBVIOUS
    <3>3. /\ \E m2 \in Routers : \E hl2 : RoutingV6(t, w) = Carried(m2, a2, hl2, b)
          /\ \E m2 \in Routers : \E hl2 : Xconnect(t, w, y) = Carried(m2, a2, hl2, b)
      BY <3>1, CarrierGoesOn
    <3>4. \E m2 \in Routers : \E hl2 : q = Carried(m2, a2, hl2, b)
      BY <2>3, <3>2, <3>3
    <3> QED
      BY <3>4
  <2>5. CASE ~Hit(Lpm(t["localsid"], a))
    <3>1. res = Result(p, FALSE, <<>>)
      BY <1>3, <2>2, <2>5 DEF Srv6LocalsidTable
    <3> QED
      BY <1>1, <2>4, <3>1 DEF Result
  <2>6. CASE Hit(Lpm(t["localsid"], a))
    <3>1. PICK e : e = TheOne(Lpm(t["localsid"], a))
      OBVIOUS
    <3>2. e \in Matching("localsid", a)
      BY <2>6, <3>1, MatchOfRules DEF TableNames
    <3>3. e.action \in actions
      BY <3>2 DEF Goes
    <3>4. CASE e.action = "srv6_usid_un"
      <4>1. res = Result(Srv6UsidUn(p), FALSE, <<>>)
        BY <1>3, <2>2, <2>6, <3>1, <3>4 DEF Srv6LocalsidTable
      <4>2. res.p = Carried(m, ShiftSids(a, 1), hl, b) /\ res.flag = FALSE
        BY <1>1, <4>1, Redirected DEF Result
      <4>3. ShiftSids(a, 1) \in Way(C)
        BY WayAddresses
      <4> QED
        BY <2>4, <4>2, <4>3
    <3>5. CASE e.action = "srv6_usid_ua"
      <4>1. res = Result(Srv6UsidUa(p), FALSE, e.nexthop)
        BY <1>3, <2>2, <2>6, <3>1, <3>5 DEF Srv6LocalsidTable
      <4>2. res.p = Carried(m, ShiftSids(a, 2), hl, b) /\ res.flag = FALSE
        BY <1>1, <4>1, Redirected DEF Result
      <4>3. ShiftSids(a, 2) \in Way(C)
        BY WayAddresses
      <4> QED
        BY <2>4, <4>2, <4>3
    <3>6. CASE e.action \notin Moving
      BY <1>1, <2>1, <2>3, <2>6, <3>1, <3>2, <3>3, <3>6
    <3> QED
      BY <3>4, <3>5, <3>6 DEF Moving
  <2> QED
    BY <2>5, <2>6
<1> QED
  BY <1>4, <1>5

(* A carried packet goes on in its carrier, with the MAC of a router, or   *)
(* is taken out of it, loses one hop and has the MAC of a host, or is      *)
(* dropped.                                                                *)
GoesOn(q, C, b) == \E m \in Routers : \E a \in Way(C) : \E hl : q = Carried(m, a, hl, b)

GetsOut(q, actions, y, gtp, inner4) ==
    \E m : /\ m \notin Routers
           /\ \/ /\ "srv6_end_dx4" \in actions
                 /\ q = TakenOut(m, y, gtp, inner4, <<>>, <<>>)
              \/ /\ "srv6_gtp4_e" \in actions
                 /\ \E o, g : /\ o.h = "v4" /\ g.h = "gtp"
                              /\ q = TakenOut(m, y, gtp, inner4, <<o>>, <<g>>)

LEMMA CarriedThroughLayer3 ==
    ASSUME NEW C, NEW actions, Goes(C, actions), Ends4(actions), Slots >= 2,
           NEW r \in Routers, NEW t, Fits(r, t), NEW m \in Routers, NEW a \in Way(C), NEW hl,
           NEW dst, NEW ttl, NEW gtp, NEW inner4,
           NEW q \in Layer3(t, Carried(m, a, hl, Over(V4(dst, ttl), gtp, inner4)))
    PROVE  \/ GoesOn(q, C, Over(V4(dst, ttl), gtp, inner4))
           \/ GetsOut(q, actions, V4(dst, Decrement(ttl)), gtp, inner4)
           \/ q.mac \in t.station
<1>1. PICK x : x = V4(dst, ttl)
  OBVIOUS
<1>2. PICK b : b = Over(x, gtp, inner4)
  OBVIOUS
<1>3. PICK p : p = Carried(m, a, hl, b)
  OBVIOUS
<1>4. V6Key(p) = a
  BY <1>3 DEF V6Key, V6, Carried, Headers
<1>5. PICK y : y = V4(dst, Decrement(ttl))
  OBVIOUS
<1>6. ASSUME m \in t.station, NEW e, NEW res \in Srv6LocalsidTable(t, p),
             NEW w \in IF res.flag THEN {res.p} ELSE Encapsulation(t, res.p),
             e.action \in actions \ Moving,
             Hit(Lpm(t["localsid"], a)), e = TheOne(Lpm(t["localsid"], a)),
             q = IF res.xconnect = <<>> THEN RoutingV6(t, w) ELSE Xconnect(t, w, res.xconnect)
      PROVE  GetsOut(q, actions, y, gtp, inner4) \/ q.mac \in t.station
  <2>1. ASSUME NEW oo, NEW gg,
               res = Result(RoutingV4(t, TakenOut(m, x, gtp, inner4, oo, gg)), TRUE, <<>>)
        PROVE  \/ \E m2 : m2 \notin Routers /\ q = TakenOut(m2, y, gtp, inner4, oo, gg)
               \/ q.mac \in t.station
    <3>1. q = RoutingV6(t, RoutingV4(t, TakenOut(m, V4(dst, ttl), gtp, inner4, oo, gg)))
      BY <1>1, <1>6, <2>1 DEF Result
    <3>2. \/ \E m2 : /\ m2 \notin Routers
                     /\ q = TakenOut(m2, V4(dst, Decrement(ttl)), gtp, inner4, oo, gg)
          \/ q.mac \in t.station
      BY <1>6, <3>1, CarrierEnds
    <3> QED
      BY <1>5, <3>2
  <2>2. CASE e.action = "srv6_end_dx4"
    <3>1. res = Result(RoutingV4(t, Srv6EndDx4(p)), TRUE, <<>>)
      BY <1>4, <1>6, <2>2 DEF Srv6LocalsidTable
    <3>2. Srv6EndDx4(p) = TakenOut(m, x, gtp, inner4, <<>>, <<>>)
      BY <1>2, <1>3, HeadersRemoved
    <3> QED
      BY <1>6, <2>1, <2>2, <3>1, <3>2 DEF GetsOut
  <2>3. CASE e.action = "srv6_gtp4_e"
    <3>1. res = Result(RoutingV4(t, Srv6Gtp4E(p, e)), TRUE, <<>>)
      BY <1>4, <1>6, <2>3 DEF Srv6LocalsidTable
    <3>2. PICK o, g : o = V4(e.gnb, 64) /\ g = Gtp(e.teid)
      OBVIOUS
    <3>3. Srv6Gtp4E(p, e) = TakenOut(m, x, gtp, inner4, <<o>>, <<g>>)
      BY <1>2, <1>3, <3>2, HeadersRemoved
    <3>4. o.h = "v4" /\ g.h = "gtp"
      BY <3>2 DEF V4, Gtp
    <3>5. \/ \E m2 : m2 \notin Routers /\ q = TakenOut(m2, y, gtp, inner4, <<o>>, <<g>>)
          \/ q.mac \in t.station
      BY <2>1, <3>1, <3>3
    <3> QED
      BY <1>6, <2>3, <3>4, <3>5 DEF GetsOut
  <2> QED
    BY <1>6, <2>2, <2>3 DEF Ends4
<1>7. \/ \E m2 \in Routers : \E a2 \in Way(C) : \E hl2 : q = Carried(m2, a2, hl2, b)
      \/ /\ m \in t.station
         /\ \E e \in Matching("localsid", a) : \E res \in Srv6LocalsidTable(t, p) :
            \E w \in IF res.flag THEN {res.p} ELSE Encapsulation(t, res.p) :
               /\ e.action \in actions \ Moving
               /\ Hit(Lpm(t["localsid"], a)) /\ e = TheOne(Lpm(t["localsid"], a))
               /\ q = IF res.xconnect = <<>> THEN RoutingV6(t, w) ELSE Xconnect(t, w, res.xconnect)
  BY <1>1, <1>2, <1>3, MovedThroughLayer3
<1>8. GoesOn(q, C, b) \/ GetsOut(q, actions, y, gtp, inner4) \/ q.mac \in t.station
  BY <1>6, <1>7 DEF GoesOn
<1> QED
  BY <1>1, <1>2, <1>5, <1>8

-----------------------------------------------------------------------------
(* The pipeline on an IPv6 packet. *)

Plain6(m, y) == Headers(m, <<y>>, Nothing, <<>>, <<>>)

(* A rule gives packets to dst a carrier from C, and the second of two in an SRH. *)
Road6(dst, C, srh) ==
    \E e \in Matching("encap6", dst) :
        \/ e.sids = <<e.sids[1]>> /\ C = {e.sids[1]} /\ srh = <<>>
        \/ /\ e.sids = <<e.sids[1], e.sids[2]>> /\ C = {e.sids[1], e.sids[2]}
           /\ srh = <<Srh(0, <<e.sids[2]>>)>>

(* A packet to dst is as it was, but for its hop limit, or is carried between routers. *)
On6(q, dst) ==
    \/ \E m, k : q = Plain6(m, V6(dst, k))
    \/ \E C, srh : /\ Road6(dst, C, srh)
                   /\ \E m \in Routers : \E a \in Way(C) : \E hl, k :
                         q = Carried(m, a, hl, Ip6(srh, V6(dst, k)))

Ends6(srh) == Moving \cup {"srv6_end_dx6"} \cup IF srh = <<>> THEN {} ELSE {"srv6_end"}

LEMMA RoadGoes ==
    ASSUME NEW dst, Carries6(dst), NEW C, NEW srh, Road6(dst, C, srh)
    PROVE  /\ Goes(C, Ends6(srh))
           /\ srh = <<>> \/ \E a \in C : srh = <<Srh(0, <<a>>)>>
<1>1. PICK e \in Matching("encap6", dst) :
         \/ e.sids = <<e.sids[1]>> /\ C = {e.sids[1]} /\ srh = <<>>
         \/ /\ e.sids = <<e.sids[1], e.sids[2]>> /\ C = {e.sids[1], e.sids[2]}
            /\ srh = <<Srh(0, <<e.sids[2]>>)>>
  BY DEF Road6
<1>2. PICK s1, s2 : s1 = e.sids[1] /\ s2 = e.sids[2]
  OBVIOUS
<1>3. CASE e.sids = <<s1>> /\ C = {s1} /\ srh = <<>>
  <2>1. Goes({s1}, Moving \cup {"srv6_end_dx6"})
    <3>1. Len(e.sids) = 1
      BY <1>3
    <3>2. e.sids # <<s1, s2>>
      BY <3>1
    <3> QED
      BY <1>2, <3>2 DEF Carries6
  <2>2. Ends6(srh) = Moving \cup {"srv6_end_dx6"}
    BY <1>3 DEF Ends6
  <2> QED
    BY <1>3, <2>1, <2>2
<1>4. CASE e.sids = <<s1, s2>> /\ C = {s1, s2} /\ srh = <<Srh(0, <<s2>>)>>
  <2>1. Goes({s1, s2}, Moving \cup {"srv6_end", "srv6_end_dx6"})
    <3>1. Len(e.sids) = 2
      BY <1>4
    <3>2. e.sids # <<s1>>
      BY <3>1
    <3> QED
      BY <1>2, <3>2 DEF Carries6
  <2>2. srh # <<>>
    BY <1>4
  <2>3. Ends6(srh) = Moving \cup {"srv6_end", "srv6_end_dx6"}
    BY <2>2 DEF Ends6
  <2> QED
    BY <1>4, <2>1, <2>3
<1> QED
  BY <1>1, <1>2, <1>3, <1>4

(* At a router, a packet is given carriers or not, and then routed. *)
LEMMA Given6 ==
    ASSUME Slots >= 2, NEW dst, Carries6(dst), NEW r, NEW t, Fits(r, t), NEW m \in Routers, NEW k,
           NEW w \in Encapsulation(t, Plain6(m, V6(dst, k)))
    PROVE  On6(RoutingV6(t, w), dst)
<1>1. PICK y : y = V6(dst, k)
  OBVIOUS
<1>2. PICK p : p = Plain6(m, y)
  OBVIOUS
<1>3. p.v6 = <<y>> /\ p.v6 # <<>> /\ p.srh = <<>> /\ p.v6[1].hl = k
  BY <1>1, <1>2 DEF Plain6, Headers, Nothing, Inside, V6
<1>4. V6Key(p) = dst
  BY <1>1, <1>3 DEF V6Key, V6
<1>5. w = Srv6Encap(t, p)
  BY <1>1, <1>2, <1>3 DEF Encapsulation
<1>6. CASE ~Hit(Lpm(t["encap6"], dst))
  <2>1. w = p
    BY <1>4, <1>5, <1>6 DEF Srv6Encap
  <2>2. CASE ~Hit(Lpm(t["routes6"], dst))
    <3>1. RoutingV6(t, w) = p
      BY <1>4, <2>1, <2>2 DEF RoutingV6
    <3> QED
      BY <1>1, <1>2, <3>1 DEF On6
  <2>3. CASE Hit(Lpm(t["routes6"], dst))
    <3>1. PICK n : n = TheOne(Lpm(t["routes6"], dst)).nexthop
      OBVIOUS
    <3>2. RoutingV6(t, w) = SetNextHop(p, n)
      BY <1>4, <2>1, <2>3, <3>1 DEF RoutingV6
    <3>3. SetNextHop(p, n) = Plain6(n, V6(dst, Decrement(k)))
      BY <1>1, <1>2, NextHopSet DEF Plain6
    <3> QED
      BY <3>2, <3>3 DEF On6
  <2> QED
    BY <2>2, <2>3
<1>7. CASE Hit(Lpm(t["encap6"], dst))
  <2>1. PICK e : e = TheOne(Lpm(t["encap6"], dst))
    OBVIOUS
  <2>2. e \in Matching("encap6", dst)
    BY <1>7, <2>1, MatchOfRules DEF TableNames
  <2>3. PICK s1, s2 : s1 = e.sids[1] /\ s2 = e.sids[2]
    OBVIOUS
  <2>4. PICK u : u = [p EXCEPT !.inner6 = p.v6, !.v6 = <<V6(s1, p.v6[1].hl)>>]
    OBVIOUS
  <2>5. u = Carried(m, s1, k, Ip6(<<>>, y)) /\ u.srh = <<>>
    BY <1>2, <1>3, <2>4 DEF Plain6, Carried, Headers, Nothing, Ip6, Inside
  <2>6. w = [u EXCEPT !.srh = SrhOf(e.sids, u.srh)]
    BY <1>3, <1>4, <1>5, <1>7, <2>1, <2>3, <2>4 DEF Srv6Encap
  <2>7. ASSUME NEW C, NEW srh, Road6(dst, C, srh), s1 \in C, SrhOf(e.sids, <<>>) = srh
        PROVE  On6(RoutingV6(t, w), dst)
    <3>1. w = Carried(m, s1, k, Ip6(srh, y))
      BY <2>5, <2>6, <2>7 DEF Carried, Headers, Ip6, Inside
    <3>2. Goes(C, Ends6(srh))
      BY <2>7, RoadGoes
    <3>3. s1 \in Way(C)
      BY <2>7, <3>2, WayAddresses
    <3>4. PICK b : b = Ip6(srh, y)
      OBVIOUS
    <3>5. \E m2 \in Routers : \E hl2 : RoutingV6(t, Carried(m, s1, k, b)) = Carried(m2, s1, hl2, b)
      BY <3>2, <3>3, CarrierRouted
    <3>6. \E m2 \in Routers : \E a \in Way(C) : \E hl2, k2 :
             RoutingV6(t, w) = Carried(m2, a, hl2, Ip6(srh, V6(dst, k2)))
      BY <1>1, <3>1, <3>3, <3>4, <3>5
    <3> QED
      BY <2>7, <3>6 DEF On6
  <2>8. CASE e.sids = <<s1>>
    <3>1. Len(e.sids) # 2
      BY <2>8
    <3>2. SrhOf(e.sids, <<>>) = <<>>
      BY <3>1 DEF SrhOf
    <3>3. Road6(dst, {s1}, <<>>)
      BY <2>2, <2>3, <2>8 DEF Road6
    <3> QED
      BY <2>7, <3>2, <3>3
  <2>9. CASE e.sids = <<s1, s2>>
    <3>1. Len(e.sids) = 2
      BY <2>9
    <3>2. SrhOf(e.sids, <<>>) = <<Srh(0, <<s2>>)>>
      BY <2>3, <3>1 DEF SrhOf
    <3>3. Road6(dst, {s1, s2}, <<Srh(0, <<s2>>)>>)
      BY <2>2, <2>3, <2>9 DEF Road6
    <3> QED
      BY <2>7, <3>2, <3>3
  <2> QED
    BY <2>2, <2>3, <2>8, <2>9 DEF Carries6
<1> QED
  BY <1>6, <1>7

LEMMA Plain6ThroughLayer3 ==
    ASSUME Slots >= 2, NEW dst, Carries6(dst), NEW r \in Routers, NEW t, Fits(r, t), NEW m, NEW k,
           NEW q \in Layer3(t, Plain6(m, V6(dst, k)))
    PROVE  On6(q, dst)
<1>1. PICK p : p = Plain6(m, V6(dst, k))
  OBVIOUS
<1>2. p.mac = m /\ V6Key(p) = dst
  BY <1>1 DEF V6Key, Plain6, Headers, V6
<1>3. CASE q = p
  BY <1>1, <1>3 DEF On6
<1>4. CASE q # p
  <2>1. ~Hit(Lpm(t["localsid"], dst))
    <3>1. Matching("localsid", dst) = {}
      BY DEF Carries6
    <3> QED
      BY <3>1, MatchOfRules DEF TableNames
  <2>2. Srv6LocalsidTable(t, p) = {Result(p, FALSE, <<>>)}
    BY <1>2, <2>1 DEF Srv6LocalsidTable
  <2>3. m \in Routers
    BY <1>1, <1>2, <1>4, Layer3Steps
  <2>4. PICK res \in Srv6LocalsidTable(t, p) :
           \E w \in IF res.flag THEN {res.p} ELSE Encapsulation(t, res.p) :
              q = IF res.xconnect = <<>> THEN RoutingV6(t, w) ELSE Xconnect(t, w, res.xconnect)
    BY <1>1, <1>4, Layer3Steps
  <2>5. res.xconnect = <<>> /\ res.flag = FALSE /\ res.p = p
    BY <2>2, <2>4 DEF Result
  <2>6. PICK w \in Encapsulation(t, p) : q = RoutingV6(t, w)
    BY <2>4, <2>5
  <2> QED
    BY <1>1, <2>3, <2>6, Given6
<1> QED
  BY <1>3, <1>4

LEMMA Carried6ThroughLayer3 ==
    ASSUME Slots >= 2, NEW dst, Carries6(dst), NEW r \in Routers, NEW t, Fits(r, t), NEW C, NEW srh,
           Road6(dst, C, srh), NEW m \in Routers, NEW a \in Way(C), NEW hl, NEW k,
           NEW q \in Layer3(t, Carried(m, a, hl, Ip6(srh, V6(dst, k))))
    PROVE  On6(q, dst)
<1>1. PICK y : y = V6(dst, k)
  OBVIOUS
<1>2. PICK b : b = Ip6(srh, y)
  OBVIOUS
<1>3. PICK p : p = Carried(m, a, hl, b)
  OBVIOUS
<1>4. V6Key(p) = a
  BY <1>3 DEF V6Key, V6, Carried, Headers
<1>5. Goes(C, Ends6(srh)) /\ (srh = <<>> \/ \E c \in C : srh = <<Srh(0, <<c>>)>>)
  BY RoadGoes
<1>6. ASSUME NEW m2 \in Routers, NEW a2 \in Way(C), NEW hl2, q = Carried(m2, a2, hl2, b)
      PROVE  On6(q, dst)
  BY <1>1, <1>2, <1>6 DEF On6
<1>7. ASSUME m \in t.station, NEW e, NEW res \in Srv6LocalsidTable(t, p),
             NEW w \in IF res.flag THEN {res.p} ELSE Encapsulation(t, res.p),
             e.action \in Ends6(srh) \ Moving,
             Hit(Lpm(t["localsid"], a)), e = TheOne(Lpm(t["localsid"], a)),
             q = IF res.xconnect = <<>> THEN RoutingV6(t, w) ELSE Xconnect(t, w, res.xconnect)
      PROVE  On6(q, dst)
  <2>1. CASE e.action = "srv6_end_dx6"
    <3>1. PICK z \in Srv6EndDx6(p) : res = Result(z, FALSE, <<>>)
      BY <1>4, <1>7, <2>1 DEF Srv6LocalsidTable
    <3>2. z = Plain6(m, y)
      <4>1. p.inner6 = <<y>> /\ p.inner6 # <<>> /\ p.inner6[1] = y
        BY <1>2, <1>3 DEF Carried, Headers, Ip6, Inside
      <4>2. z = [p EXCEPT !.v6 = <<y>>, !.inner6 = <<>>, !.srh = <<>>]
        BY <3>1, <4>1 DEF Srv6EndDx6
      <4> QED
        BY <1>2, <1>3, <4>2 DEF Carried, Plain6, Headers, Nothing, Ip6, Inside
    <3>3. res.xconnect = <<>> /\ res.flag = FALSE /\ res.p = z
      BY <3>1 DEF Result
    <3>4. w \in Encapsulation(t, Plain6(m, V6(dst, k))) /\ q = RoutingV6(t, w)
      BY <1>1, <1>7, <3>2, <3>3
    <3> QED
      BY <3>4, Given6
  <2>2. CASE e.action = "srv6_end"
    <3>1. PICK c \in C : srh = <<Srh(0, <<c>>)>>
      BY <1>5, <1>7, <2>2 DEF Ends6, Moving
    <3>2. PICK z \in Srv6End(p) : res = Result(z, TRUE, <<>>)
      BY <1>4, <1>7, <2>2 DEF Srv6LocalsidTable
    <3>3. z = Carried(m, c, hl, b)
      <4>1. PICK s : s = Srh(0, <<c>>)
        OBVIOUS
      <4>2. p.srh = <<s>> /\ p.srh # <<>> /\ p.srh[1] = s
        BY <1>2, <1>3, <3>1, <4>1 DEF Carried, Headers, Ip6, Inside
      <4>3. s.left = 0 /\ s.list[1] = c
        BY <4>1 DEF Srh
      <4>4. ~(s.left > 0)
        BY <4>3
      <4>5. Srv6End(p) = {[p EXCEPT !.v6[1].dst = s.list[1]]}
        BY <4>2, <4>4 DEF Srv6End
      <4>6. z = Toward(p, c)
        BY <3>2, <4>3, <4>5 DEF Toward
      <4> QED
        BY <1>3, <4>6, Redirected
    <3>4. res.xconnect = <<>> /\ res.flag = TRUE /\ res.p = z
      BY <3>2 DEF Result
    <3>5. q = RoutingV6(t, Carried(m, c, hl, b))
      BY <1>7, <3>3, <3>4
    <3>6. c \in Way(C)
      BY <1>5, <3>1, WayAddresses
    <3>7. \E m2 \in Routers : \E hl2 : q = Carried(m2, c, hl2, b)
      BY <1>5, <3>5, <3>6, CarrierRouted
    <3> QED
      BY <1>6, <3>6, <3>7
  <2> QED
    BY <1>7, <2>1, <2>2 DEF Ends6
<1>8. \/ \E m2 \in Routers : \E a2 \in Way(C) : \E hl2 : q = Carried(m2, a2, hl2, b)
      \/ /\ m \in t.station
         /\ \E e \in Matching("localsid", a) : \E res \in Srv6LocalsidTable(t, p) :
            \E w \in IF res.flag THEN {res.p} ELSE Encapsulation(t, res.p) :
               /\ e.action \in Ends6(srh) \ Moving
               /\ Hit(Lpm(t["localsid"], a)) /\ e = TheOne(Lpm(t["localsid"], a))
               /\ q = IF res.xconnect = <<>> THEN RoutingV6(t, w) ELSE Xconnect(t, w, res.xconnect)
  BY <1>1, <1>2, <1>3, <1>5, MovedThroughLayer3
<1> QED
  BY <1>6, <1>7, <1>8

-----------------------------------------------------------------------------
(* From switch to switch. *)

(* What has the MAC of a router goes to no host; what has the switch's own goes nowhere. *)
LEMMA PortsToRouters ==
    ASSUME NEW r \in Routers, NEW t, Fits(r, t), NEW in, NEW q, q.mac \in Routers
    PROVE  /\ \A port \in Layer2(t, in, q) : Peer[r][port].node \notin Hosts
           /\ q.mac \in t.station => Layer2(t, in, q) = {}
<1>1. \A e \in t["multicast"] : e.match \notin Routers
  BY DEF Fits, Sensible, TableNames
<1>2. \A e \in t["unicast"] :
         e.match # r /\ (e.match \in Routers => Peer[r][e.port].node \notin Hosts)
  BY DEF Fits, Sensible, TableNames
<1>3. ~Hit(Exact(t.multicast, q.mac))
  BY <1>1 DEF Hit, Exact
<1>4. ASSUME NEW port \in Layer2(t, in, q) PROVE Peer[r][port].node \notin Hosts /\ q.mac # r
  <2>1. Hit(Exact(t.unicast, q.mac)) /\ port = TheOne(Exact(t.unicast, q.mac)).port
    BY <1>3, <1>4 DEF Layer2
  <2>2. TheOne(Exact(t.unicast, q.mac)) \in Exact(t.unicast, q.mac)
    BY <2>1 DEF Hit, TheOne
  <2>3. PICK e : e = TheOne(Exact(t.unicast, q.mac))
    OBVIOUS
  <2>4. e \in t["unicast"] /\ e.match = q.mac
    BY <2>2, <2>3 DEF Exact
  <2> QED
    BY <1>2, <2>1, <2>3, <2>4
<1>5. q.mac \in t.station => q.mac = r
  <2>1. \A e \in t["station"] : e = r
    BY DEF Fits, Sensible, TableNames
  <2> QED
    BY <2>1
<1> QED
  BY <1>4, <1>5

(* A packet that is no solicitation leaves as the routing made it. *)
LEMMA Leaving ==
    ASSUME NEW t, NEW in, NEW m, NEW w, NEW p, p = Parse(m, w), p.ns = <<>>,
           NEW o \in Ingress(t, in, m, w)
    PROVE  \E q \in Layer3(t, p) :
              o.ports = Layer2(t, in, q) /\ o.mac = q.mac /\ o.wire = Deparse(q)
<1>1. ~Hit({})
  BY DEF Hit
<1>2. o \in {Out(Layer2(t, in, q), q) : q \in Layer3(t, p)}
  BY <1>1 DEF Ingress
<1> QED
  BY <1>2 DEF Out

(* What leaves a port of the switch that has packet p. *)
LEMMA Copied ==
    ASSUME NEW p, NEW o, NEW c \in Copies(p, o)
    PROVE  /\ \E port \in o.ports : c.at = Peer[p.at][port].node
           /\ c.mac = o.mac /\ c.wire = o.wire /\ c.flow = p.flow
           /\ c.entered = (p.entered \/ (~IsCarrier(p.wire) /\ IsCarrier(o.wire)))
BY DEF Copies, Packet

(* c is what a switch has made of packet p, when nothing answers p in its place. *)
Passes(p, c) ==
    /\ p.at \in Routers
    /\ \E o \in Ingress(tables[p.at], p.port, p.mac, p.wire) : c \in Copies(p, o)

(* What holds of it in any case: only a packet that has entered can have   *)
(* an address that says it did, and hosts are not sent what is a router's. *)
Follows(p, c) ==
    /\ c.flow = p.flow
    /\ c.entered = (p.entered \/ (~IsCarrier(p.wire) /\ IsCarrier(c.wire)))
    /\ c.mac \in Routers => c.at \notin Hosts

LEMMA Passed ==
    ASSUME Kept, SensibleTables, NEW p, NEW c, Passes(p, c), NEW z, Parse(p.mac, p.wire) = z,
           z.ns = <<>>
    PROVE  /\ Fits(p.at, tables[p.at])
           /\ Follows(p, c)
           /\ \E q \in Layer3(tables[p.at], z) :
                 c.mac = q.mac /\ c.wire = Deparse(q) /\ q.mac \notin tables[p.at].station
<1>1. PICK t : t = tables[p.at]
  OBVIOUS
<1>2. Fits(p.at, t)
  BY <1>1, TablesFit DEF Passes
<1>3. PICK o \in Ingress(t, p.port, p.mac, p.wire) : c \in Copies(p, o)
  BY <1>1 DEF Passes
<1>4. PICK q \in Layer3(t, z) :
         o.ports = Layer2(t, p.port, q) /\ o.mac = q.mac /\ o.wire = Deparse(q)
  BY <1>3, Leaving
<1>5. /\ c.mac = o.mac /\ c.wire = o.wire /\ c.flow = p.flow
      /\ c.entered = (p.entered \/ (~IsCarrier(p.wire) /\ IsCarrier(o.wire)))
  BY <1>3, Copied
<1>6. PICK port \in o.ports : c.at = Peer[p.at][port].node
  BY <1>3, Copied
<1>7. \A m \in t["station"] : m = p.at
  BY <1>2 DEF Fits, Sensible, TableNames
<1>8. q.mac \notin t.station
  <2>1. q.mac \in t.station => q.mac \in Routers
    BY <1>7 DEF Passes
  <2> QED
    BY <1>2, <1>4, <1>6, <2>1, PortsToRouters DEF Passes
<1>9. c.mac \in Routers => c.at \notin Hosts
  BY <1>2, <1>4, <1>5, <1>6, PortsToRouters DEF Passes
<1> QED
  BY <1>1, <1>2, <1>4, <1>5, <1>8, <1>9 DEF Follows

(* c is between routers, in a carrier of those with the addresses C. *)
Rides(c, C, x) == c.mac \in Routers /\ \E a \in Way(C) : \E hl : c.wire = <<V6(a, hl), x>>

(* c is on its way to a host, with nothing around the IPv4 packet with     *)
(* header y, or with a tunnel, according to what took it out.              *)
Leaves(c, actions, y) ==
    /\ c.mac \notin Routers
    /\ \/ "srv6_end_dx4" \in actions /\ c.wire = <<y>>
       \/ /\ "srv6_gtp4_e" \in actions
          /\ \E o, g : o.h = "v4" /\ g.h = "gtp" /\ c.wire = <<o, g, y>>

(* An IPv4 packet that has not been given a carrier. *)
LEMMA PlainPasses ==
    ASSUME Kept, SensibleTables, Slots >= 2, NEW p, NEW c, Passes(p, c),
           NEW C, NEW actions, Goes(C, actions),
           NEW x, x.h = "v4", CarriersTo(x.dst) \subseteq C, p.wire = <<x>>
    PROVE  /\ Follows(p, c)
           /\ (c.mac = p.mac /\ c.wire = <<x>>) \/ Rides(c, C, x)
<1>1. PICK z : z = Plain(p.mac, Ip4(x))
  OBVIOUS
<1>2. Parse(p.mac, p.wire) = z
  BY <1>1, ParsePlain
<1>3. z.ns = <<>> /\ z.mac = p.mac
  BY <1>1 DEF Plain, Headers
<1>4. PICK q \in Layer3(tables[p.at], z) : c.mac = q.mac /\ c.wire = Deparse(q)
  BY <1>2, <1>3, Passed
<1>5. Fits(p.at, tables[p.at])
  BY <1>2, <1>3, Passed
<1>6. ASSUME q = z PROVE c.mac = p.mac /\ c.wire = <<x>>
  <2>1. Deparse(z) = <<x>>
    BY <1>1, Deparsed4
  <2> QED
    BY <1>3, <1>4, <1>6, <2>1
<1>7. ASSUME NEW m2 \in Routers, NEW a \in Way(C), NEW hl, q = Carried(m2, a, hl, Ip4(x))
      PROVE  c.mac \in Routers /\ c.wire = <<V6(a, hl), x>>
  <2>1. q.mac = m2
    BY <1>7 DEF Carried, Headers
  <2>2. Deparse(q) = <<V6(a, hl), x>>
    BY <1>7, Deparsed4
  <2> QED
    BY <1>4, <2>1, <2>2
<1>8. q = z \/ \E m2 \in Routers : \E a \in Way(C) : \E hl : q = Carried(m2, a, hl, Ip4(x))
  BY <1>1, <1>4, <1>5, PlainThroughLayer3 DEF Passes
<1>9. Follows(p, c)
  BY <1>2, <1>3, Passed
<1> QED
  BY <1>6, <1>7, <1>8, <1>9 DEF Rides

(* An IPv4 packet in a carrier. *)
LEMMA CarriedPasses ==
    ASSUME Kept, SensibleTables, Slots >= 2, NEW p, NEW c, Passes(p, c), p.mac \in Routers,
           NEW C, NEW actions, Goes(C, actions), Ends4(actions), NEW a \in Way(C), NEW hl,
           NEW dst, NEW ttl, p.wire = <<V6(a, hl), V4(dst, ttl)>>
    PROVE  /\ Follows(p, c)
           /\ Rides(c, C, V4(dst, ttl)) \/ Leaves(c, actions, V4(dst, Decrement(ttl)))
<1>1. PICK x, y : x = V4(dst, ttl) /\ y = V4(dst, Decrement(ttl))
  OBVIOUS
<1>2. PICK z : z = Carried(p.mac, a, hl, Ip4(x))
  OBVIOUS
<1>3. Parse(p.mac, p.wire) = z
  <2>1. x.h = "v4" /\ V6(a, hl).h = "v6"
    BY <1>1 DEF V4, V6
  <2> QED
    BY <1>1, <1>2, <2>1, ParseCarried DEF Carried
<1>4. z.ns = <<>> /\ Ip4(x) = Over(x, <<>>, <<>>) /\ Ip4(y) = Over(y, <<>>, <<>>)
  BY <1>2 DEF Carried, Headers, Ip4, Over
<1>5. PICK q \in Layer3(tables[p.at], z) :
         c.mac = q.mac /\ c.wire = Deparse(q) /\ q.mac \notin tables[p.at].station
  BY <1>3, <1>4, Passed
<1>6. Fits(p.at, tables[p.at])
  BY <1>3, <1>4, Passed
<1>7. ASSUME NEW m2 \in Routers, NEW a2 \in Way(C), NEW hl2, q = Carried(m2, a2, hl2, Ip4(x))
      PROVE  c.mac \in Routers /\ c.wire = <<V6(a2, hl2), x>>
  <2>1. q.mac = m2
    BY <1>7 DEF Carried, Headers
  <2>2. Deparse(q) = <<V6(a2, hl2), x>>
    BY <1>7, Deparsed4
  <2> QED
    BY <1>5, <2>1, <2>2
<1>8. ASSUME NEW m2, m2 \notin Routers, q = TakenOut(m2, y, <<>>, <<>>, <<>>, <<>>)
      PROVE  c.mac \notin Routers /\ c.wire = <<y>>
  <2>1. q = Plain(m2, Ip4(y)) /\ q.mac = m2
    BY <1>4, <1>8 DEF TakenOut, Plain, Headers
  <2> QED
    BY <1>5, <1>8, <2>1, Deparsed4
<1>9. ASSUME NEW m2, m2 \notin Routers, NEW o, NEW g,
             q = TakenOut(m2, y, <<>>, <<>>, <<o>>, <<g>>)
      PROVE  c.mac \notin Routers /\ c.wire = <<o, g, y>>
  <2>1. q = Headers(m2, <<>>, Ip4(y), <<o>>, <<g>>) /\ q.mac = m2
    BY <1>4, <1>9 DEF TakenOut, Headers
  <2>2. Deparse(Headers(m2, <<>>, Ip4(y), <<o>>, <<g>>)) = <<o, g, y>>
    BY Deparsed4
  <2> QED
    BY <1>5, <1>9, <2>1, <2>2
<1>10. GoesOn(q, C, Ip4(x)) \/ GetsOut(q, actions, y, <<>>, <<>>)
  <2>1. q \in Layer3(tables[p.at], Carried(p.mac, a, hl, Over(V4(dst, ttl), <<>>, <<>>)))
    BY <1>1, <1>2, <1>4, <1>5
  <2>2. p.at \in Routers
    BY DEF Passes
  <2> QED
    BY <1>1, <1>4, <1>5, <1>6, <2>1, <2>2, CarriedThroughLayer3
<1>11. Follows(p, c)
  BY <1>3, <1>4, Passed
<1>12. CASE GoesOn(q, C, Ip4(x))
  BY <1>1, <1>7, <1>11, <1>12 DEF GoesOn, Rides
<1>13. CASE GetsOut(q, actions, y, <<>>, <<>>)
  BY <1>1, <1>8, <1>9, <1>11, <1>13 DEF GetsOut, Leaves
<1> QED
  BY <1>10, <1>12, <1>13

(* An IPv4 packet that is out, maybe in a tunnel: no switch is its next hop. *)
LEMMA OutPasses ==
    ASSUME Kept, SensibleTables, NEW p, NEW c, Passes(p, c), p.mac \notin Routers,
           NEW y, y.h = "v4",
           p.wire = <<y>> \/ \E o, g : o.h = "v4" /\ g.h = "gtp" /\ p.wire = <<o, g, y>>
    PROVE  /\ c.flow = p.flow /\ c.mac = p.mac /\ c.wire = p.wire
           /\ p.entered => c.entered
<1>1. PICK z : z = Parse(p.mac, p.wire)
  OBVIOUS
<1>2. z.ns = <<>> /\ z.mac = p.mac /\ Deparse(z) = p.wire
  <2>1. CASE p.wire = <<y>>
    <3>1. z = Plain(p.mac, Ip4(y))
      BY <1>1, <2>1, ParsePlain
    <3>2. Deparse(z) = <<y>>
      BY <3>1, DeparsedTunnel, Deparsed4
    <3>3. z.ns = <<>> /\ z.mac = p.mac
      BY <3>1 DEF Plain, Headers
    <3> QED
      BY <2>1, <3>2, <3>3
  <2>2. ASSUME NEW o, NEW g, o.h = "v4", g.h = "gtp", p.wire = <<o, g, y>>
        PROVE  z.ns = <<>> /\ z.mac = p.mac /\ Deparse(z) = p.wire
    <3>1. z = Plain(p.mac, Tunnel(o, g, y))
      BY <1>1, <2>2, ParseTunnel
    <3>2. Deparse(z) = <<o, g, y>>
      BY <3>1, DeparsedTunnel, Deparsed4
    <3>3. z.ns = <<>> /\ z.mac = p.mac
      BY <3>1 DEF Plain, Headers
    <3> QED
      BY <2>2, <3>2, <3>3
  <2> QED
    BY <2>1, <2>2
<1>3. PICK q \in Layer3(tables[p.at], z) : c.mac = q.mac /\ c.wire = Deparse(q)
  BY <1>1, <1>2, Passed
<1>4. q = z
  <2>1. Fits(p.at, tables[p.at]) /\ p.at \in Routers
    BY <1>1, <1>2, Passed DEF Passes
  <2> QED
    BY <1>2, <1>3, <2>1, Layer3Steps
<1>5. Follows(p, c)
  BY <1>1, <1>2, Passed
<1> QED
  BY <1>2, <1>3, <1>4, <1>5 DEF Follows

-----------------------------------------------------------------------------
(* IPv4 packets cross the fabric as if it were one hop.                    *)

(* The wire of a packet whose own header was x: taken out of its carrier it has lost one hop. *)
OutOf(x, wire) ==
    LET y == V4(x.dst, Decrement(x.ttl))
    IN wire = <<y>> \/ \E o, g : o.h = "v4" /\ g.h = "gtp" /\ wire = <<o, g, y>>

(* An IPv4 packet has not entered the fabric and is as it was sent; or is  *)
(* carried between routers and has lost nothing; or is out, on its way to  *)
(* a host, and has lost one hop.                                           *)
Sent(c) ==
    LET x == c.flow.wire[1]
    IN \/ ~c.entered /\ c.wire = <<x>>
       \/ c.entered /\ Rides(c, Carriers4, x)
       \/ c.entered /\ c.mac \notin Routers /\ OutOf(x, c.wire)

OneHop ==
    /\ \A c \in air : c.flow \in Flows /\ (c.flow.kind = "ipv4" => c.at \in Routers /\ Sent(c))
    /\ \A c \in arrived : /\ c.flow \in Flows
                          /\ c.flow.kind = "ipv4" /\ c.entered => OutOf(c.flow.wire[1], c.wire)

LEMMA ForwardedSent ==
    ASSUME Kept, Carries4, NEW p, p.flow \in Flows, p.flow.kind = "ipv4", Sent(p),
           NEW c, Passes(p, c)
    PROVE  Sent(c) /\ (c.at \in Hosts /\ c.entered => c.mac \notin Routers)
<1>1. PICK x : x = p.flow.wire[1]
  OBVIOUS
<1>2. PICK dst, ttl : dst = x.dst /\ ttl = x.ttl
  OBVIOUS
<1>3. x = V4(dst, ttl)
  <2>1. p.flow.wire = <<V4(dst, ttl)>>
    BY <1>1, <1>2 DEF Carries4
  <2> QED
    BY <1>1, <2>1
<1>4. x.h = "v4"
  BY <1>3 DEF V4
<1>5. PICK actions : actions = Moving \cup {"srv6_end_dx4", "srv6_gtp4_e"}
  OBVIOUS
<1>6. Goes(Carriers4, actions) /\ Ends4(actions) /\ SensibleTables /\ Slots >= 2
  BY <1>5 DEF Carries4, Ends4
<1>7. ASSUME NEW a \in Way(Carriers4), NEW hl, c.wire = <<V6(a, hl), x>> PROVE IsCarrier(c.wire)
  <2>1. a[1] = "fcbb:bb00"
    BY <1>6, WayAddresses
  <2>2. c.wire[1] = V6(a, hl) /\ c.wire # <<>>
    BY <1>7
  <2> QED
    BY <2>1, <2>2 DEF IsCarrier, V6
<1>8. CASE ~p.entered /\ p.wire = <<x>>
  <2>1. CarriersTo(x.dst) \subseteq Carriers4
    BY DEF CarriersTo, Carriers4, Matching
  <2>2. ~IsCarrier(<<x>>)
    BY <1>4 DEF IsCarrier
  <2>3. Follows(p, c) /\ ((c.mac = p.mac /\ c.wire = <<x>>) \/ Rides(c, Carriers4, x))
    BY <1>4, <1>6, <1>8, <2>1, PlainPasses
  <2>4. CASE c.wire = <<x>>
    <3>1. c.entered = FALSE
      BY <1>8, <2>2, <2>3, <2>4 DEF Follows
    <3> QED
      BY <1>1, <2>3, <2>4, <3>1 DEF Sent, Follows
  <2>5. CASE Rides(c, Carriers4, x)
    <3>1. IsCarrier(c.wire)
      BY <1>7, <2>5 DEF Rides
    <3>2. c.entered
      BY <1>8, <2>2, <2>3, <3>1 DEF Follows
    <3>3. c.flow.wire[1] = x /\ c.mac \in Routers /\ c.at \notin Hosts
      BY <1>1, <2>3, <2>5 DEF Follows, Rides
    <3> QED
      BY <2>5, <3>2, <3>3 DEF Sent
  <2> QED
    BY <2>3, <2>4, <2>5
<1>9. CASE p.entered /\ Rides(p, Carriers4, x)
  <2>1. PICK a \in Way(Carriers4) : \E hl : p.wire = <<V6(a, hl), V4(dst, ttl)>>
    BY <1>3, <1>9 DEF Rides
  <2>2. PICK hl : p.wire = <<V6(a, hl), V4(dst, ttl)>>
    BY <2>1
  <2>3. p.mac \in Routers
    BY <1>9 DEF Rides
  <2>4. /\ Follows(p, c)
        /\ \/ Rides(c, Carriers4, V4(dst, ttl))
           \/ Leaves(c, actions, V4(dst, Decrement(ttl)))
    BY <1>6, <2>2, <2>3, CarriedPasses
  <2>5. Rides(c, Carriers4, x) \/ (c.mac \notin Routers /\ OutOf(x, c.wire))
    BY <1>2, <1>3, <2>4 DEF OutOf, Leaves
  <2> QED
    BY <1>1, <1>9, <2>4, <2>5 DEF Sent, Follows, Rides
<1>10. CASE p.entered /\ p.mac \notin Routers /\ OutOf(x, p.wire)
  <2>1. PICK y : y = V4(dst, Decrement(ttl))
    OBVIOUS
  <2>2. y.h = "v4"
    BY <2>1 DEF V4
  <2>3. p.wire = <<y>> \/ \E o, g : o.h = "v4" /\ g.h = "gtp" /\ p.wire = <<o, g, y>>
    BY <1>2, <1>10, <2>1 DEF OutOf
  <2>4. c.flow = p.flow /\ c.mac = p.mac /\ c.wire = p.wire /\ c.entered
    BY <1>6, <1>10, <2>2, <2>3, OutPasses
  <2> QED
    BY <1>1, <1>10, <2>4 DEF Sent
<1> QED
  BY <1>1, <1>8, <1>9, <1>10 DEF Sent


LEMMA InitOneHop == FabricInit => OneHop
BY DEF FabricInit, OneHop

LEMMA NextOneHop ==
    ASSUME Kept, OneHop, Carries4, [FabricNext]_fabricVars
    PROVE  OneHop'
<1>1. CASE UNCHANGED <<air, arrived>>
  BY <1>1 DEF OneHop
<1>2. ASSUME NEW f \in Flows, Send(f) PROVE OneHop'
  <2>1. PICK p : p = Packet(f.at, f.port, f.mac, f.wire, f, FALSE)
    OBVIOUS
  <2>2. air' = {p} /\ arrived' = {}
    BY <1>2, <2>1 DEF Send
  <2>3. p.flow = f /\ p.at = f.at /\ p.wire = f.wire /\ p.entered = FALSE
    BY <2>1 DEF Packet
  <2>4. ASSUME f.kind = "ipv4" PROVE p.at \in Routers /\ Sent(p)
    <3>1. f.at \in Routers /\ f.wire = <<V4(f.wire[1].dst, f.wire[1].ttl)>>
      BY <2>4 DEF Carries4
    <3>2. PICK y : y = V4(f.wire[1].dst, f.wire[1].ttl)
      OBVIOUS
    <3>3. f.wire = <<y>>
      BY <3>1, <3>2
    <3>4. f.wire = <<f.wire[1]>>
      BY <3>3
    <3> QED
      BY <2>3, <3>1, <3>4 DEF Sent
  <2> QED
    BY <2>2, <2>3, <2>4 DEF OneHop
<1>3. CASE Forward
  <2>1. PICK p \in air : \E o \in Ingress(tables[p.at], p.port, p.mac, p.wire) :
           /\ air' = (air \ {p}) \cup {c \in Copies(p, o) : c.at \in Routers}
           /\ arrived' = arrived \cup {c \in Copies(p, o) : c.at \in Hosts}
    BY <1>3 DEF Forward
  <2>2. PICK o \in Ingress(tables[p.at], p.port, p.mac, p.wire) :
           /\ air' = (air \ {p}) \cup {c \in Copies(p, o) : c.at \in Routers}
           /\ arrived' = arrived \cup {c \in Copies(p, o) : c.at \in Hosts}
    BY <2>1
  <2>3. p.flow \in Flows /\ (p.flow.kind = "ipv4" => p.at \in Routers /\ Sent(p))
    BY DEF OneHop
  <2>4. \A c \in Copies(p, o) : c.flow = p.flow
    BY Copied
  <2>5. ASSUME p.flow.kind = "ipv4", NEW c \in Copies(p, o)
        PROVE  Sent(c) /\ (c.at \in Hosts /\ c.entered => c.mac \notin Routers)
    <3>1. Passes(p, c)
      BY <2>3, <2>5 DEF Passes
    <3> QED
      BY <2>3, <2>5, <3>1, ForwardedSent
  <2>6. ASSUME p.flow.kind = "ipv4", NEW c \in Copies(p, o), c.at \in Hosts, c.entered
        PROVE  OutOf(c.flow.wire[1], c.wire)
    BY <2>5, <2>6 DEF Sent, Rides
  <2> QED
    BY <2>2, <2>3, <2>4, <2>5, <2>6 DEF OneHop
<1>4. CASE Loss
  BY <1>4 DEF Loss, OneHop
<1>5. UNCHANGED <<air, arrived>> \/ (\E f \in Flows : Send(f)) \/ Forward \/ Loss
  BY DEF FabricNext, fabricVars, WriteTable, Restart, Command, RouteInsert, IPv4RouteInsert,
         GTP4DRouteInsert, GTP4ERouteInsert, Srv6EncapInsert, Srv6Insert, Srv6Clear, UAInsert,
         Want
<1> QED
  BY <1>1, <1>2, <1>3, <1>4, <1>5

LEMMA OneHopArrives ==
    ASSUME Carries4, OneHop
    PROVE  FabricIsOneHop
<1> SUFFICES ASSUME NEW c \in arrived, c.entered, c.flow.kind = "ipv4"
             PROVE  c.wire[Len(c.wire)].ttl = Decrement(c.flow.wire[Len(c.flow.wire)].ttl)
  BY DEF FabricIsOneHop
<1>1. c.flow \in Flows /\ OutOf(c.flow.wire[1], c.wire)
  BY DEF OneHop
<1>2. PICK x : x = V4(c.flow.wire[1].dst, c.flow.wire[1].ttl)
  OBVIOUS
<1>3. c.flow.wire = <<x>>
  BY <1>1, <1>2 DEF Carries4
<1>4. Len(c.flow.wire) = 1 /\ c.flow.wire[1] = x
  BY <1>3
<1>5. PICK y : y = V4(x.dst, Decrement(x.ttl))
  OBVIOUS
<1>6. y.ttl = Decrement(x.ttl)
  BY <1>5 DEF V4
<1>7. c.wire = <<y>> \/ \E o, g : c.wire = <<o, g, y>>
  BY <1>1, <1>4, <1>5 DEF OutOf
<1>8. c.wire[Len(c.wire)] = y
  <2>1. CASE c.wire = <<y>>
    BY <2>1
  <2>2. ASSUME NEW o, NEW g, c.wire = <<o, g, y>> PROVE c.wire[Len(c.wire)] = y
    <3>1. Len(c.wire) = 3 /\ c.wire[3] = y
      BY <2>2
    <3> QED
      BY <3>1
  <2> QED
    BY <1>7, <2>1, <2>2
<1> QED
  BY <1>4, <1>6, <1>8

(* The time to live of a packet the fabric encapsulates counts the fabric  *)
(* as one hop, over any topology and any path, while rules change and      *)
(* switches restart: it is carried along unchanged, set_next_hop_v4        *)
(* decrements it when the packet is taken out, and nothing does so again.  *)
THEOREM OneHopAcross ==
    ASSUME Carries4
    PROVE  FabricSpec => []FabricIsOneHop
<1>1. FabricInit => Kept /\ OneHop
  BY InitKept, InitOneHop
<1>2. Kept /\ OneHop /\ [FabricNext]_fabricVars => (Kept /\ OneHop)'
  BY NextKeeps, NextOneHop
<1>3. OneHop => FabricIsOneHop
  BY OneHopArrives
<1> QED
  BY <1>1, <1>2, <1>3, PTL DEF FabricSpec

-----------------------------------------------------------------------------
(* Tunnels and IPv6 packets from switch to switch. *)

(* c is between routers, a tunnel in a carrier of those with the addresses C. *)
RidesWhole(c, C, o, g, x) ==
    c.mac \in Routers /\ \E a \in Way(C) : \E hl : c.wire = <<V6(a, hl), o, g, x>>

(* c is on its way to a host, the tunnel taken out. *)
LeavesWhole(c, actions, o, g, x) ==
    c.mac \notin Routers /\ "srv6_end_dx4" \in actions /\ c.wire = <<o, g, x>>

(* A tunnel in a carrier stays in it until dx4 takes it out. *)
LEMMA CarriedTunnelPasses ==
    ASSUME Kept, SensibleTables, Slots >= 2, NEW p, NEW c, Passes(p, c),
           NEW C, NEW actions, Goes(C, actions), actions \subseteq Moving \cup {"srv6_end_dx4"},
           NEW dst, NEW ttl, NEW g, g.h = "gtp", NEW x, x.h = "v4",
           RidesWhole(p, C, V4(dst, ttl), g, x)
    PROVE  /\ Follows(p, c)
           /\ \/ RidesWhole(c, C, V4(dst, ttl), g, x)
              \/ LeavesWhole(c, actions, V4(dst, Decrement(ttl)), g, x)
<1>1. PICK o, y : o = V4(dst, ttl) /\ y = V4(dst, Decrement(ttl))
  OBVIOUS
<1>2. PICK a \in Way(C) : \E hl : p.wire = <<V6(a, hl), o, g, x>>
  BY <1>1 DEF RidesWhole
<1>3. PICK hl : p.wire = <<V6(a, hl), o, g, x>>
  BY <1>2
<1>4. PICK z : z = Carried(p.mac, a, hl, Tunnel(o, g, x))
  OBVIOUS
<1>5. Parse(p.mac, p.wire) = z
  <2>1. PICK u : u = V6(a, hl)
    OBVIOUS
  <2>2. u.h = "v6" /\ o.h = "v4"
    BY <1>1, <2>1 DEF V4, V6
  <2>3. Parse(p.mac, <<u, o, g, x>>) = Headers(p.mac, <<u>>, Tunnel(o, g, x), <<>>, <<>>)
    BY <2>2, ParseCarriedTunnel
  <2> QED
    BY <1>3, <1>4, <2>1, <2>3 DEF Carried
<1>6. /\ z.ns = <<>> /\ p.mac \in Routers /\ p.at \in Routers
      /\ Tunnel(o, g, x) = Over(o, <<g>>, <<x>>)
  BY <1>4 DEF Carried, Headers, Tunnel, Over, RidesWhole, Passes
<1>7. PICK q \in Layer3(tables[p.at], z) :
         c.mac = q.mac /\ c.wire = Deparse(q) /\ q.mac \notin tables[p.at].station
  BY <1>5, <1>6, Passed
<1>8. Fits(p.at, tables[p.at]) /\ Follows(p, c)
  BY <1>5, <1>6, Passed
<1>9. GoesOn(q, C, Tunnel(o, g, x)) \/ GetsOut(q, actions, y, <<g>>, <<x>>)
  <2>1. q \in Layer3(tables[p.at], Carried(p.mac, a, hl, Over(V4(dst, ttl), <<g>>, <<x>>)))
    BY <1>1, <1>4, <1>6, <1>7
  <2>2. Ends4(actions)
    BY DEF Ends4
  <2> QED
    BY <1>1, <1>6, <1>7, <1>8, <2>1, <2>2, CarriedThroughLayer3
<1>10. CASE GoesOn(q, C, Tunnel(o, g, x))
  <2>1. PICK m2 \in Routers, a2 \in Way(C) : \E hl2 : q = Carried(m2, a2, hl2, Tunnel(o, g, x))
    BY <1>10 DEF GoesOn
  <2>2. PICK hl2 : q = Carried(m2, a2, hl2, Tunnel(o, g, x))
    BY <2>1
  <2>3. q.mac = m2
    BY <2>2 DEF Carried, Headers
  <2>4. Deparse(q) = <<V6(a2, hl2), o, g, x>>
    BY <2>2, DeparsedTunnel
  <2> QED
    BY <1>1, <1>7, <1>8, <2>3, <2>4 DEF RidesWhole
<1>11. CASE GetsOut(q, actions, y, <<g>>, <<x>>)
  <2>1. "srv6_gtp4_e" \notin actions
    BY DEF Moving
  <2>2. PICK m2 : /\ m2 \notin Routers /\ "srv6_end_dx4" \in actions
                  /\ q = TakenOut(m2, y, <<g>>, <<x>>, <<>>, <<>>)
    BY <1>11, <2>1 DEF GetsOut
  <2>3. q = Plain(m2, Tunnel(y, g, x)) /\ q.mac = m2
    BY <2>2 DEF TakenOut, Plain, Headers, Tunnel, Over
  <2>4. Deparse(q) = <<y, g, x>>
    BY <2>3, DeparsedTunnel
  <2> QED
    BY <1>1, <1>7, <1>8, <2>2, <2>3, <2>4 DEF LeavesWhole
<1> QED
  BY <1>9, <1>10, <1>11

(* A tunnel without a carrier: it is as it was, gets one, or is ended. *)
LEMMA TunnelPasses ==
    ASSUME Kept, SensibleTables, Slots >= 2, NEW p, NEW c, Passes(p, c),
           NEW C, NEW actions, Goes(C, actions), NEW D, NEW ends, Goes(D, ends),
           NEW o, NEW g, NEW x, o.h = "v4", g.h = "gtp", x.h = "v4",
           CarriersTo(o.dst) \subseteq C, {e.sids[1] : e \in Rules("gtp4d")} \subseteq D,
           Matching("encap4", <<"0", "0">>) = {}, p.wire = <<o, g, x>>
    PROVE  /\ Follows(p, c)
           /\ \/ c.mac = p.mac /\ c.wire = <<o, g, x>>
              \/ RidesWhole(c, C, o, g, x)
              \/ Rides(c, D, x)
<1>1. PICK z : z = Plain(p.mac, Tunnel(o, g, x))
  OBVIOUS
<1>2. Parse(p.mac, p.wire) = z
  BY <1>1, ParseTunnel
<1>3. z.ns = <<>> /\ z.mac = p.mac /\ p.at \in Routers
  BY <1>1 DEF Plain, Headers, Passes
<1>4. PICK q \in Layer3(tables[p.at], z) : c.mac = q.mac /\ c.wire = Deparse(q)
  BY <1>2, <1>3, Passed
<1>5. Fits(p.at, tables[p.at]) /\ Follows(p, c)
  BY <1>2, <1>3, Passed
<1>6. \/ q = z
      \/ \E m2 \in Routers : \E a \in Way(C) : \E hl : q = Carried(m2, a, hl, Tunnel(o, g, x))
      \/ \E m2 \in Routers : \E a \in Way(D) : \E hl : q = Carried(m2, a, hl, Untunnelled(x))
  BY <1>1, <1>3, <1>4, <1>5, TunnelThroughLayer3
<1>7. CASE q = z
  <2>1. Deparse(z) = <<o, g, x>>
    BY <1>1, DeparsedTunnel
  <2> QED
    BY <1>3, <1>4, <1>5, <1>7, <2>1
<1>8. ASSUME NEW m2 \in Routers, NEW a \in Way(C), NEW hl, q = Carried(m2, a, hl, Tunnel(o, g, x))
      PROVE  RidesWhole(c, C, o, g, x)
  <2>1. q.mac = m2
    BY <1>8 DEF Carried, Headers
  <2>2. Deparse(q) = <<V6(a, hl), o, g, x>>
    BY <1>8, DeparsedTunnel
  <2> QED
    BY <1>4, <2>1, <2>2 DEF RidesWhole
<1>9. ASSUME NEW m2 \in Routers, NEW a \in Way(D), NEW hl, q = Carried(m2, a, hl, Untunnelled(x))
      PROVE  Rides(c, D, x)
  <2>1. q.mac = m2
    BY <1>9 DEF Carried, Headers
  <2>2. Deparse(q) = <<V6(a, hl), x>>
    BY <1>9, Deparsed4
  <2> QED
    BY <1>4, <2>1, <2>2 DEF Rides
<1> QED
  BY <1>5, <1>6, <1>7, <1>8, <1>9

(* An IPv6 packet to dst: by itself, or between routers in a carrier, the  *)
(* second one of which is in an SRH.                                       *)
Whole6(c, dst) ==
    \/ \E k : c.wire = <<V6(dst, k)>>
    \/ /\ c.mac \in Routers
       /\ \E C, srh : /\ Road6(dst, C, srh)
                      /\ \E a \in Way(C) : \E hl, k :
                            \/ srh = <<>> /\ c.wire = <<V6(a, hl), V6(dst, k)>>
                            \/ \E s : srh = <<s>> /\ c.wire = <<V6(a, hl), s, V6(dst, k)>>

LEMMA RoadSrh ==
    ASSUME NEW dst, NEW C, NEW srh, Road6(dst, C, srh)
    PROVE  srh = <<>> \/ \E s : s.h = "srh" /\ srh = <<s>>
<1>1. \A list : Srh(0, list).h = "srh"
  BY DEF Srh
<1> QED
  BY <1>1 DEF Road6

LEMMA Deparsed6Whole ==
    ASSUME NEW dst, NEW q, On6(q, dst), NEW c, c.mac = q.mac, c.wire = Deparse(q)
    PROVE  Whole6(c, dst)
<1>1. ASSUME NEW m, NEW k, q = Plain6(m, V6(dst, k)) PROVE Whole6(c, dst)
  <2>1. Deparse(q) = <<V6(dst, k)>>
    BY <1>1, Deparsed6 DEF Plain6
  <2> QED
    BY <2>1 DEF Whole6
<1>2. ASSUME NEW C, NEW srh, Road6(dst, C, srh), NEW m \in Routers, NEW a \in Way(C), NEW hl, NEW k,
             q = Carried(m, a, hl, Ip6(srh, V6(dst, k)))
      PROVE  Whole6(c, dst)
  <2>1. q.mac = m
    BY <1>2 DEF Carried, Headers
  <2>2. CASE srh = <<>>
    <3>1. Deparse(q) = <<V6(a, hl), V6(dst, k)>>
      BY <1>2, <2>2, Deparsed6
    <3> QED
      BY <1>2, <2>1, <2>2, <3>1 DEF Whole6
  <2>3. ASSUME NEW s, srh = <<s>> PROVE Whole6(c, dst)
    <3>1. Deparse(q) = <<V6(a, hl), s, V6(dst, k)>>
      BY <1>2, <2>3, Deparsed6
    <3> QED
      BY <1>2, <2>1, <2>3, <3>1 DEF Whole6
  <2> QED
    BY <1>2, <2>2, <2>3, RoadSrh
<1> QED
  BY <1>1, <1>2 DEF On6

LEMMA Passes6 ==
    ASSUME Kept, SensibleTables, Slots >= 2, NEW p, NEW c, Passes(p, c),
           NEW dst, Carries6(dst), Whole6(p, dst)
    PROVE  Follows(p, c) /\ Whole6(c, dst)
<1>1. PICK z : z = Parse(p.mac, p.wire)
  OBVIOUS
<1>2. PICK t : t = tables[p.at]
  OBVIOUS
<1>3. p.at \in Routers /\ Fits(p.at, t)
  BY <1>2, TablesFit DEF Passes
<1>4. z.ns = <<>> /\ \A q \in Layer3(t, z) : On6(q, dst)
  <2>1. ASSUME NEW k, p.wire = <<V6(dst, k)>>
        PROVE  z.ns = <<>> /\ \A q \in Layer3(t, z) : On6(q, dst)
    <3>1. PICK y : y = V6(dst, k)
      OBVIOUS
    <3>2. y.h = "v6"
      BY <3>1 DEF V6
    <3>3. z = Plain6(p.mac, y)
      BY <1>1, <2>1, <3>1, <3>2, ParsePlain6 DEF Plain6
    <3>4. z.ns = <<>>
      BY <3>3 DEF Plain6, Headers
    <3> QED
      BY <1>3, <3>1, <3>3, <3>4, Plain6ThroughLayer3
  <2>2. ASSUME p.mac \in Routers, NEW C, NEW srh, Road6(dst, C, srh), NEW a \in Way(C),
               NEW hl, NEW k,
               \/ srh = <<>> /\ p.wire = <<V6(a, hl), V6(dst, k)>>
               \/ \E s : srh = <<s>> /\ p.wire = <<V6(a, hl), s, V6(dst, k)>>
        PROVE  z.ns = <<>> /\ \A q \in Layer3(t, z) : On6(q, dst)
    <3>1. PICK u, y : u = V6(a, hl) /\ y = V6(dst, k)
      OBVIOUS
    <3>2. u.h = "v6" /\ y.h = "v6"
      BY <3>1 DEF V6
    <3>3. z = Headers(p.mac, <<u>>, Ip6(srh, y), <<>>, <<>>)
      <4>1. CASE srh = <<>> /\ p.wire = <<u, y>>
        BY <1>1, <3>2, <4>1, ParseCarried6
      <4>2. ASSUME NEW s, srh = <<s>>, p.wire = <<u, s, y>>
            PROVE  z = Headers(p.mac, <<u>>, Ip6(srh, y), <<>>, <<>>)
        <5>1. s.h = "srh"
          BY <2>2, <4>2, RoadSrh
        <5> QED
          BY <1>1, <3>2, <4>2, <5>1, ParseSegments
      <4> QED
        BY <2>2, <3>1, <4>1, <4>2
    <3>4. z = Carried(p.mac, a, hl, Ip6(srh, V6(dst, k)))
      BY <3>1, <3>3 DEF Carried
    <3>5. z.ns = <<>>
      BY <3>3 DEF Headers
    <3> QED
      BY <1>3, <2>2, <3>4, <3>5, Carried6ThroughLayer3
  <2> QED
    BY <2>1, <2>2 DEF Whole6
<1>5. PICK q \in Layer3(t, z) : c.mac = q.mac /\ c.wire = Deparse(q)
  BY <1>1, <1>2, <1>4, Passed
<1>6. Follows(p, c)
  BY <1>1, <1>4, Passed
<1> QED
  BY <1>4, <1>5, <1>6, Deparsed6Whole

-----------------------------------------------------------------------------
(* Every packet arrives in a form its host expects. *)

LEMMA Conveyed ==
    ASSUME ConveysAll, NEW f \in Flows, f.shapes # {}
    PROVE  f.at \in Routers /\ (Conveys4(f) \/ ConveysTunnel(f) \/ Conveys6(f))
<1>1. Conveys(f)
  BY DEF ConveysAll
<1> QED
  BY <1>1 DEF Conveys

(* The address that must be kept is the one of the innermost header. *)
LEMMA LastAddresses ==
    /\ \A x : x.h \in {"v4", "v6"} => LastAddress(<<x>>) = x.dst
    /\ \A o, g, x : o.h = "v4" /\ g.h = "gtp" /\ x.h = "v4" => LastAddress(<<o, g, x>>) = x.dst
<1>1. ASSUME NEW x, x.h \in {"v4", "v6"} PROVE LastAddress(<<x>>) = x.dst
  <2>1. PICK w : w = <<x>>
    OBVIOUS
  <2>2. DOMAIN w = {1} /\ w[1] = x
    BY <2>1
  <2>3. PICK ip : ip = {i \in DOMAIN w : w[i].h \in {"v4", "v6"}}
    OBVIOUS
  <2>4. ip = {1}
    BY <1>1, <2>2, <2>3
  <2>5. (CHOOSE i \in ip : \A j \in ip : j <= i) = 1
    BY <2>4
  <2> QED
    BY <2>1, <2>2, <2>3, <2>5 DEF LastAddress
<1>2. ASSUME NEW o, NEW g, NEW x, o.h = "v4", g.h = "gtp", x.h = "v4"
      PROVE  LastAddress(<<o, g, x>>) = x.dst
  <2>1. PICK w : w = <<o, g, x>>
    OBVIOUS
  <2>2. DOMAIN w = {1, 2, 3} /\ w[1] = o /\ w[2] = g /\ w[3] = x
    BY <2>1
  <2>3. PICK ip : ip = {i \in DOMAIN w : w[i].h \in {"v4", "v6"}}
    OBVIOUS
  <2>4. ip = {1, 3}
    BY <1>2, <2>2, <2>3
  <2>5. (CHOOSE i \in ip : \A j \in ip : j <= i) = 3
    BY <2>4
  <2> QED
    BY <2>1, <2>2, <2>3, <2>5 DEF LastAddress
<1> QED
  BY <1>1, <1>2

LEMMA Shapes ==
    /\ \A x : Shape(<<x>>) = <<x.h>>
    /\ \A o, g, x : Shape(<<o, g, x>>) = <<o.h, g.h, x.h>>
BY DEF Shape

(* c has y, maybe below a tunnel, in a form its host expects. *)
Outside(c, y) ==
    \/ <<"v4">> \in c.flow.shapes /\ c.wire = <<y>>
    \/ /\ Tunnelled \in c.flow.shapes
       /\ \E o, g : o.h = "v4" /\ g.h = "gtp" /\ c.wire = <<o, g, y>>

(* An IPv4 packet is on its way from the last switch to its host. *)
Arriving(c) ==
    c.mac \notin Routers /\ \E ttl : Outside(c, V4(LastAddress(c.flow.wire), ttl))

(* It is as it was sent; in a carrier that ends well; or out of it.        *)
Whole4(c) ==
    LET x == c.flow.wire[1]
    IN \/ c.mac \in Routers /\ c.wire = <<x>>
       \/ Rides(c, CarriersTo(x.dst), x)
       \/ Arriving(c)

Ended == {e.sids[1] : e \in Rules("gtp4d")}

(* A packet in a tunnel: also, the tunnel in a carrier.                    *)
WholeTunnel(c) ==
    LET o == c.flow.wire[1]
        g == c.flow.wire[2]
        x == c.flow.wire[3]
    IN \/ c.mac \in Routers /\ c.wire = <<o, g, x>>
       \/ RidesWhole(c, CarriersTo(o.dst), o, g, x)
       \/ Rides(c, Ended, x)
       \/ Arriving(c)

OnItsWay(c) ==
    \/ Conveys4(c.flow) /\ Whole4(c)
    \/ ConveysTunnel(c.flow) /\ WholeTunnel(c)
    \/ Conveys6(c.flow) /\ Whole6(c, c.flow.wire[1].dst)

(* This is so of every packet, with the switches and with the hosts; what  *)
(* a host has is not addressed to a router.                                *)
AllWhole ==
    /\ \A c \in air : c.flow \in Flows /\ (c.flow.shapes # {} => c.at \in Routers /\ OnItsWay(c))
    /\ \A c \in arrived : /\ c.flow \in Flows
                          /\ c.flow.shapes # {} => c.mac \notin Routers /\ OnItsWay(c)

LEMMA StillArriving ==
    ASSUME Kept, SensibleTables, NEW p, NEW c, Passes(p, c), Arriving(p)
    PROVE  c.flow = p.flow /\ c.mac = p.mac /\ Arriving(c)
<1>1. PICK ttl : Outside(p, V4(LastAddress(p.flow.wire), ttl))
  BY DEF Arriving
<1>2. PICK y : y = V4(LastAddress(p.flow.wire), ttl)
  OBVIOUS
<1>3. y.h = "v4"
  BY <1>2 DEF V4
<1>4. p.wire = <<y>> \/ \E o, g : o.h = "v4" /\ g.h = "gtp" /\ p.wire = <<o, g, y>>
  BY <1>1, <1>2 DEF Outside
<1>5. c.flow = p.flow /\ c.mac = p.mac /\ c.wire = p.wire
  BY <1>3, <1>4, OutPasses DEF Arriving
<1>6. Outside(c, V4(LastAddress(c.flow.wire), ttl))
  BY <1>1, <1>5 DEF Outside
<1> QED
  BY <1>5, <1>6 DEF Arriving

(* What takes a packet out leaves it in a form its host expects. *)
LEMMA TakenOutWell ==
    ASSUME NEW c, NEW dst, NEW ttl, dst = LastAddress(c.flow.wire),
           Leaves(c, Moving \cup TakeOut(c.flow.shapes), V4(dst, ttl))
    PROVE  Arriving(c)
<1>1. "srv6_end_dx4" \in Moving \cup TakeOut(c.flow.shapes) => <<"v4">> \in c.flow.shapes
  BY DEF Moving, TakeOut
<1>2. "srv6_gtp4_e" \in Moving \cup TakeOut(c.flow.shapes) => Tunnelled \in c.flow.shapes
  BY DEF Moving, TakeOut
<1>3. Outside(c, V4(dst, ttl))
  BY <1>1, <1>2 DEF Outside, Leaves
<1> QED
  BY <1>3 DEF Arriving, Leaves

LEMMA EndsTakeOut ==
    ASSUME NEW shapes
    PROVE  Ends4(Moving \cup TakeOut(shapes))
BY DEF Ends4, TakeOut

(* An IPv4 packet in a carrier of such carriers goes on or gets out. *)
LEMMA RidesOn ==
    ASSUME Kept, SensibleTables, Slots >= 2, NEW p, NEW c, Passes(p, c),
           NEW C, Goes(C, Moving \cup TakeOut(p.flow.shapes)),
           NEW dst, NEW ttl, dst = LastAddress(p.flow.wire), Rides(p, C, V4(dst, ttl))
    PROVE  Follows(p, c) /\ (Rides(c, C, V4(dst, ttl)) \/ Arriving(c))
<1>1. PICK actions : actions = Moving \cup TakeOut(p.flow.shapes)
  OBVIOUS
<1>2. Ends4(actions) /\ Goes(C, actions)
  BY <1>1, EndsTakeOut
<1>3. p.mac \in Routers /\ \E a \in Way(C) : \E hl : p.wire = <<V6(a, hl), V4(dst, ttl)>>
  BY DEF Rides
<1>4. PICK a \in Way(C) : \E hl : p.wire = <<V6(a, hl), V4(dst, ttl)>>
  BY <1>3
<1>5. PICK hl : p.wire = <<V6(a, hl), V4(dst, ttl)>>
  BY <1>4
<1>6. /\ Follows(p, c)
      /\ Rides(c, C, V4(dst, ttl)) \/ Leaves(c, actions, V4(dst, Decrement(ttl)))
  BY <1>2, <1>3, <1>5, CarriedPasses
<1>7. c.flow = p.flow
  BY <1>6 DEF Follows
<1> QED
  BY <1>1, <1>6, <1>7, TakenOutWell

LEMMA Forwarded4 ==
    ASSUME Kept, SensibleTables, Slots >= 2, NEW p, NEW c, Passes(p, c),
           Conveys4(p.flow), Whole4(p)
    PROVE  /\ c.flow = p.flow /\ Whole4(c)
           /\ c.at \in Hosts => c.mac \notin Routers
<1>1. PICK dst, ttl : dst = p.flow.wire[1].dst /\ ttl = p.flow.wire[1].ttl
  OBVIOUS
<1>2. PICK x : x = V4(dst, ttl)
  OBVIOUS
<1>3. p.flow.wire = <<x>> /\ p.flow.wire[1] = x
  BY <1>1, <1>2 DEF Conveys4
<1>4. x.h = "v4" /\ x.dst = dst /\ LastAddress(p.flow.wire) = dst
  <2>1. x.h = "v4" /\ x.dst = dst
    BY <1>2 DEF V4
  <2> QED
    BY <1>3, <2>1, LastAddresses
<1>5. PICK C : C = CarriersTo(dst)
  OBVIOUS
<1>6. Goes(C, Moving \cup TakeOut(p.flow.shapes))
  BY <1>1, <1>5 DEF Conveys4
<1>7. CASE p.mac \in Routers /\ p.wire = <<x>>
  <2>1. Follows(p, c) /\ ((c.mac = p.mac /\ c.wire = <<x>>) \/ Rides(c, C, x))
    BY <1>4, <1>5, <1>6, <1>7, PlainPasses
  <2> QED
    BY <1>3, <1>4, <1>5, <1>7, <2>1 DEF Whole4, Follows
<1>8. CASE Rides(p, C, x)
  <2>1. Follows(p, c) /\ (Rides(c, C, x) \/ Arriving(c))
    BY <1>2, <1>4, <1>6, <1>8, RidesOn
  <2> QED
    BY <1>3, <1>4, <1>5, <2>1 DEF Whole4, Follows
<1>9. CASE Arriving(p)
  <2>1. c.flow = p.flow /\ c.mac = p.mac /\ Arriving(c)
    BY <1>9, StillArriving
  <2> QED
    BY <1>9, <2>1 DEF Whole4, Arriving
<1> QED
  BY <1>3, <1>4, <1>5, <1>7, <1>8, <1>9 DEF Whole4

LEMMA ForwardedTunnel ==
    ASSUME Kept, SensibleTables, Slots >= 2, NEW p, NEW c, Passes(p, c),
           ConveysTunnel(p.flow), WholeTunnel(p)
    PROVE  /\ c.flow = p.flow /\ WholeTunnel(c)
           /\ c.at \in Hosts => c.mac \notin Routers
<1>1. PICK f : f = p.flow
  OBVIOUS
<1>2. PICK odst, ottl, teid : odst = f.wire[1].dst /\ ottl = f.wire[1].ttl /\ teid = f.wire[2].teid
  OBVIOUS
<1>3. PICK dst, ttl : dst = f.wire[3].dst /\ ttl = f.wire[3].ttl
  OBVIOUS
<1>4. PICK o, g, x : o = V4(odst, ottl) /\ g = Gtp(teid) /\ x = V4(dst, ttl)
  OBVIOUS
<1>5. f.wire = <<o, g, x>>
  BY <1>1, <1>2, <1>3, <1>4 DEF ConveysTunnel
<1>6. f.wire[1] = o /\ f.wire[2] = g /\ f.wire[3] = x
  BY <1>5
<1>7. o.h = "v4" /\ o.dst = odst /\ g.h = "gtp" /\ x.h = "v4" /\ x.dst = dst
  BY <1>4 DEF V4, Gtp
<1>8. LastAddress(f.wire) = dst
  BY <1>5, <1>7, LastAddresses
<1>9. PICK C, ends : /\ C = CarriersTo(odst)
                     /\ ends = IF Tunnelled \in f.shapes THEN {"srv6_end_dx4"} ELSE {}
  OBVIOUS
<1>10. /\ Goes(C, Moving \cup ends) /\ Goes(Ended, Moving \cup TakeOut(f.shapes))
       /\ Matching("encap4", <<"0", "0">>) = {}
  BY <1>1, <1>2, <1>9 DEF ConveysTunnel, Ended
<1>11. CASE p.mac \in Routers /\ p.wire = <<o, g, x>>
  <2>1. CarriersTo(o.dst) \subseteq C /\ {e.sids[1] : e \in Rules("gtp4d")} \subseteq Ended
    BY <1>7, <1>9 DEF Ended
  <2>2. /\ Follows(p, c)
        /\ \/ c.mac = p.mac /\ c.wire = <<o, g, x>>
           \/ RidesWhole(c, C, o, g, x)
           \/ Rides(c, Ended, x)
    BY <1>7, <1>10, <1>11, <2>1, TunnelPasses
  <2> QED
    BY <1>1, <1>6, <1>7, <1>9, <1>11, <2>2 DEF WholeTunnel, Follows
<1>12. CASE RidesWhole(p, C, o, g, x)
  <2>0. PICK actions : actions = Moving \cup ends
    OBVIOUS
  <2>1. actions \subseteq Moving \cup {"srv6_end_dx4"} /\ Goes(C, actions)
    BY <1>9, <1>10, <2>0
  <2>2. /\ Follows(p, c)
        /\ \/ RidesWhole(c, C, V4(odst, ottl), g, x)
           \/ LeavesWhole(c, actions, V4(odst, Decrement(ottl)), g, x)
    BY <1>4, <1>7, <1>12, <2>1, CarriedTunnelPasses
  <2>3. "srv6_end_dx4" \in actions => Tunnelled \in f.shapes
    BY <1>9, <2>0 DEF Moving
  <2>4. CASE RidesWhole(c, C, o, g, x)
    BY <1>1, <1>6, <1>7, <1>9, <2>2, <2>4 DEF WholeTunnel, Follows, RidesWhole
  <2>5. ASSUME LeavesWhole(c, actions, V4(odst, Decrement(ottl)), g, x)
        PROVE  Arriving(c)
    <3>1. PICK y : y = V4(odst, Decrement(ottl))
      OBVIOUS
    <3>2. y.h = "v4" /\ c.wire = <<y, g, x>>
      BY <2>5, <3>1 DEF V4, LeavesWhole
    <3>3. c.flow = f
      BY <1>1, <2>2 DEF Follows
    <3>4. Outside(c, x)
      BY <1>7, <2>3, <2>5, <3>2, <3>3 DEF Outside, LeavesWhole
    <3> QED
      BY <1>4, <1>8, <2>5, <3>3, <3>4 DEF Arriving, LeavesWhole
  <2>6. RidesWhole(c, C, o, g, x) \/ Arriving(c)
    BY <1>4, <2>2, <2>5
  <2>7. c.flow = p.flow /\ (Arriving(c) => c.mac \notin Routers)
    BY <2>2 DEF Follows, Arriving
  <2> QED
    BY <2>4, <2>6, <2>7 DEF WholeTunnel
<1>13. CASE Rides(p, Ended, x)
  <2>1. Follows(p, c) /\ (Rides(c, Ended, x) \/ Arriving(c))
    BY <1>1, <1>4, <1>8, <1>10, <1>13, RidesOn
  <2> QED
    BY <1>1, <1>6, <2>1 DEF WholeTunnel, Follows
<1>14. CASE Arriving(p)
  <2>1. c.flow = p.flow /\ c.mac = p.mac /\ Arriving(c)
    BY <1>14, StillArriving
  <2> QED
    BY <1>14, <2>1 DEF WholeTunnel, Arriving
<1> QED
  BY <1>1, <1>6, <1>7, <1>9, <1>11, <1>12, <1>13, <1>14 DEF WholeTunnel

LEMMA ForwardedWhole ==
    ASSUME Kept, ConveysAll, NEW p, NEW c, Passes(p, c), OnItsWay(p)
    PROVE  OnItsWay(c) /\ (c.at \in Hosts => c.mac \notin Routers)
<1>1. SensibleTables /\ Slots >= 2
  BY DEF ConveysAll
<1>2. CASE Conveys4(p.flow) /\ Whole4(p)
  BY <1>1, <1>2, Forwarded4 DEF OnItsWay
<1>3. CASE ConveysTunnel(p.flow) /\ WholeTunnel(p)
  BY <1>1, <1>3, ForwardedTunnel DEF OnItsWay
<1>4. CASE Conveys6(p.flow) /\ Whole6(p, p.flow.wire[1].dst)
  <2>1. PICK dst : dst = p.flow.wire[1].dst
    OBVIOUS
  <2>2. Carries6(dst) /\ Whole6(p, dst)
    BY <1>4, <2>1 DEF Conveys6
  <2>3. Follows(p, c) /\ Whole6(c, dst)
    BY <1>1, <2>2, Passes6
  <2> QED
    BY <1>4, <2>1, <2>3 DEF Follows, OnItsWay
<1> QED
  BY <1>2, <1>3, <1>4 DEF OnItsWay

LEMMA InitAllWhole == FabricInit => AllWhole
BY DEF FabricInit, AllWhole

(* A packet is sent as its configuration says it is conveyed. *)
LEMMA SentWhole ==
    ASSUME NEW p, p.wire = p.flow.wire, p.mac = p.flow.mac,
           Conveys4(p.flow) \/ ConveysTunnel(p.flow) \/ Conveys6(p.flow)
    PROVE  OnItsWay(p)
<1>1. PICK f : f = p.flow
  OBVIOUS
<1>2. CASE Conveys4(f)
  <2>1. PICK x : x = V4(f.wire[1].dst, f.wire[1].ttl)
    OBVIOUS
  <2>2. f.wire = <<x>> /\ f.mac \in Routers
    BY <1>2, <2>1 DEF Conveys4
  <2>3. f.wire = <<f.wire[1]>>
    BY <2>2
  <2> QED
    BY <1>1, <1>2, <2>2, <2>3 DEF OnItsWay, Whole4
<1>3. CASE ConveysTunnel(f)
  <2>1. PICK o, g, x : /\ o = V4(f.wire[1].dst, f.wire[1].ttl)
                       /\ g = Gtp(f.wire[2].teid)
                       /\ x = V4(f.wire[3].dst, f.wire[3].ttl)
    OBVIOUS
  <2>2. f.wire = <<o, g, x>> /\ f.mac \in Routers
    BY <1>3, <2>1 DEF ConveysTunnel
  <2>3. f.wire = <<f.wire[1], f.wire[2], f.wire[3]>>
    BY <2>2
  <2> QED
    BY <1>1, <1>3, <2>2, <2>3 DEF OnItsWay, WholeTunnel
<1>4. CASE Conveys6(f)
  BY <1>1, <1>4 DEF OnItsWay, Conveys6, Whole6
<1> QED
  BY <1>1, <1>2, <1>3, <1>4

LEMMA NextAllWhole ==
    ASSUME Kept, AllWhole, ConveysAll, [FabricNext]_fabricVars
    PROVE  AllWhole'
<1>1. CASE UNCHANGED <<air, arrived>>
  BY <1>1 DEF AllWhole
<1>2. ASSUME NEW f \in Flows, Send(f) PROVE AllWhole'
  <2>1. PICK p : p = Packet(f.at, f.port, f.mac, f.wire, f, FALSE)
    OBVIOUS
  <2>2. air' = {p} /\ arrived' = {}
    BY <1>2, <2>1 DEF Send
  <2>3. p.flow = f /\ p.at = f.at /\ p.wire = f.wire /\ p.mac = f.mac
    BY <2>1 DEF Packet
  <2>4. ASSUME f.shapes # {} PROVE p.at \in Routers /\ OnItsWay(p)
    BY <2>3, <2>4, Conveyed, SentWhole
  <2> QED
    BY <2>2, <2>3, <2>4 DEF AllWhole
<1>3. CASE Forward
  <2>1. PICK p \in air : \E o \in Ingress(tables[p.at], p.port, p.mac, p.wire) :
           /\ air' = (air \ {p}) \cup {c \in Copies(p, o) : c.at \in Routers}
           /\ arrived' = arrived \cup {c \in Copies(p, o) : c.at \in Hosts}
    BY <1>3 DEF Forward
  <2>2. PICK o \in Ingress(tables[p.at], p.port, p.mac, p.wire) :
           /\ air' = (air \ {p}) \cup {c \in Copies(p, o) : c.at \in Routers}
           /\ arrived' = arrived \cup {c \in Copies(p, o) : c.at \in Hosts}
    BY <2>1
  <2>3. p.flow \in Flows /\ (p.flow.shapes # {} => p.at \in Routers /\ OnItsWay(p))
    BY DEF AllWhole
  <2>4. \A c \in Copies(p, o) : c.flow = p.flow
    BY Copied
  <2>5. ASSUME p.flow.shapes # {}, NEW c \in Copies(p, o)
        PROVE  OnItsWay(c) /\ (c.at \in Hosts => c.mac \notin Routers)
    <3>1. Passes(p, c)
      BY <2>3, <2>5 DEF Passes
    <3> QED
      BY <2>3, <2>5, <3>1, ForwardedWhole
  <2> QED
    BY <2>2, <2>3, <2>4, <2>5 DEF AllWhole
<1>4. CASE Loss
  BY <1>4 DEF Loss, AllWhole
<1>5. UNCHANGED <<air, arrived>> \/ (\E f \in Flows : Send(f)) \/ Forward \/ Loss
  BY DEF FabricNext, fabricVars, WriteTable, Restart, Command, RouteInsert, IPv4RouteInsert,
         GTP4DRouteInsert, GTP4ERouteInsert, Srv6EncapInsert, Srv6Insert, Srv6Clear, UAInsert,
         Want
<1> QED
  BY <1>1, <1>2, <1>3, <1>4, <1>5

LEMMA ArrivingWhole ==
    ASSUME NEW c, Arriving(c)
    PROVE  Shape(c.wire) \in c.flow.shapes /\ LastAddress(c.wire) = LastAddress(c.flow.wire)
<1>1. PICK dst : dst = LastAddress(c.flow.wire)
  OBVIOUS
<1>2. PICK ttl : Outside(c, V4(dst, ttl))
  BY <1>1 DEF Arriving
<1>3. PICK y : y = V4(dst, ttl)
  OBVIOUS
<1>4. y.h = "v4" /\ y.dst = dst
  BY <1>3 DEF V4
<1>5. CASE <<"v4">> \in c.flow.shapes /\ c.wire = <<y>>
  <2>1. Shape(<<y>>) = <<"v4">>
    BY <1>4, Shapes
  <2>2. LastAddress(<<y>>) = dst
    BY <1>4, LastAddresses
  <2> QED
    BY <1>1, <1>5, <2>1, <2>2
<1>6. ASSUME Tunnelled \in c.flow.shapes, NEW o, NEW g, o.h = "v4", g.h = "gtp",
             c.wire = <<o, g, y>>
      PROVE  Shape(c.wire) \in c.flow.shapes /\ LastAddress(c.wire) = LastAddress(c.flow.wire)
  <2>1. Shape(<<o, g, y>>) = Tunnelled
    BY <1>4, <1>6, Shapes DEF Tunnelled
  <2>2. LastAddress(<<o, g, y>>) = dst
    BY <1>4, <1>6, LastAddresses
  <2> QED
    BY <1>1, <1>6, <2>1, <2>2
<1> QED
  BY <1>2, <1>3, <1>5, <1>6 DEF Outside

LEMMA WholeArrives ==
    ASSUME AllWhole
    PROVE  ArrivesWhole
<1> SUFFICES ASSUME NEW c \in arrived, c.flow.shapes # {}
             PROVE  /\ Shape(c.wire) \in c.flow.shapes
                    /\ LastAddress(c.wire) = LastAddress(c.flow.wire)
  BY DEF ArrivesWhole
<1>1. c.mac \notin Routers /\ OnItsWay(c)
  BY DEF AllWhole
<1>2. CASE Conveys4(c.flow) /\ Whole4(c)
  <2>1. Arriving(c)
    BY <1>1, <1>2 DEF Whole4, Rides
  <2> QED
    BY <2>1, ArrivingWhole
<1>3. CASE ConveysTunnel(c.flow) /\ WholeTunnel(c)
  <2>1. Arriving(c)
    BY <1>1, <1>3 DEF WholeTunnel, Rides, RidesWhole
  <2> QED
    BY <2>1, ArrivingWhole
<1>4. CASE Conveys6(c.flow) /\ Whole6(c, c.flow.wire[1].dst)
  <2>1. PICK dst, hl : dst = c.flow.wire[1].dst /\ hl = c.flow.wire[1].hl
    OBVIOUS
  <2>2. PICK k : c.wire = <<V6(dst, k)>>
    BY <1>1, <1>4, <2>1 DEF Whole6
  <2>3. PICK x, y : x = V6(dst, hl) /\ y = V6(dst, k)
    OBVIOUS
  <2>4. y.h = "v6" /\ y.dst = dst /\ x.h = "v6" /\ x.dst = dst
    BY <2>3 DEF V6
  <2>5. c.flow.wire = <<x>> /\ <<"v6">> \in c.flow.shapes
    BY <1>4, <2>1, <2>3 DEF Conveys6
  <2>6. LastAddress(<<x>>) = dst /\ LastAddress(<<y>>) = dst
    BY <2>4, LastAddresses
  <2>7. Shape(<<y>>) = <<"v6">>
    BY <2>4, Shapes
  <2> QED
    BY <2>2, <2>3, <2>5, <2>6, <2>7
<1> QED
  BY <1>1, <1>2, <1>3, <1>4 DEF OnItsWay

(* A packet that reaches a host arrives whole, whichever way it came:      *)
(* without any header the fabric added, except where its host expects the  *)
(* tunnel, and for the address it was sent to.  So it does over any        *)
(* topology and with any carriers that end with one of the SIDs of         *)
(* process_srv6_local that its host can do with, while the rules of the    *)
(* CLI's commands reach the switches one by one and switches restart.      *)
THEOREM WholeOnArrival ==
    ASSUME ConveysAll
    PROVE  FabricSpec => []ArrivesWhole
<1>1. FabricInit => Kept /\ AllWhole
  BY InitKept, InitAllWhole
<1>2. Kept /\ AllWhole /\ [FabricNext]_fabricVars => (Kept /\ AllWhole)'
  BY NextKeeps, NextAllWhole
<1>3. AllWhole => ArrivesWhole
  BY WholeArrives
<1> QED
  BY <1>1, <1>2, <1>3, PTL DEF FabricSpec
=============================================================================
