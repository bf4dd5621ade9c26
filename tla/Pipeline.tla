------------------------------- MODULE Pipeline -------------------------------
(***************************************************************************)
(* The P4 program of the switches (p4src/main.p4, p4src/include/parser.p4) *)
(* as operators on packets: what a switch with given tables may do with a  *)
(* packet that enters it by a given port.                                  *)
(*                                                                         *)
(* An address is the sequence of a 32-bit block and the 16-bit slots after *)
(* it; a packet on the wire is the sequence of its headers below Ethernet. *)
(* The next-header, length and checksum fields follow from the headers     *)
(* that are there and are left out, and so are the flow label and the      *)
(* traffic class.                                                          *)
(***************************************************************************)
EXTENDS Naturals, SequencesExt

CONSTANTS
    Slots,      \* 16-bit slots of an IPv6 address after its block (6)
    HopModulus, \* hop limits and TTLs are modulo this (256)
    Leftovers   \* what earlier packets left in the memory of the IPv6
                \* headers: [dst, hl], never empty

ASSUME PipelineAssumption ==
    /\ Slots \in Nat /\ HopModulus \in Nat \ {0}
    /\ Leftovers # {}

-----------------------------------------------------------------------------
(* Addresses *)

Zeros(n) == [i \in 1..n |-> "0"]
Address(block, sids) == <<block>> \o sids \o Zeros(Slots - Len(sids))
ZeroAddress == Address("0", <<>>)
Carrier(sids) == Address("fcbb:bb00", sids)

(* Mutated form of ShiftSids: the shift is applied to the block as well. *)
ShiftWholeAddress(a, n) == SubSeq(a, n + 1, Slots + 1) \o Zeros(n)

(* The SIDs after the block move n slots to the left, zeros fill the end:  *)
(* (dst & UN_BLOCK_MASK) | ((dst << 16 * n) & ~UN_BLOCK_MASK).             *)
ShiftSids(a, n) == <<a[1]>> \o SubSeq(a, n + 2, Slots + 1) \o Zeros(n)

-----------------------------------------------------------------------------
(* Tables.  An entry is a record with a field match; an LPM entry matches  *)
(* the addresses its match is a prefix of, and the longest match wins.     *)

Lpm(table, key) ==
    LET hits == {e \in table : IsPrefix(e.match, key)}
    IN {e \in hits : \A f \in hits : Len(f.match) <= Len(e.match)}
Exact(table, key) == {e \in table : e.match = key}
Hit(entries) == entries # {}
TheOne(entries) == CHOOSE e \in entries : TRUE

-----------------------------------------------------------------------------
(* The parsed headers: each field of a parsed packet is a sequence of one  *)
(* header or, when the header is invalid, of none.  "gtp" stands for the   *)
(* UDP header with destination port 2152 and the GTP-U headers after it.   *)

V6(dst, hl) == [h |-> "v6", dst |-> dst, hl |-> hl]
V4(dst, ttl) == [h |-> "v4", dst |-> dst, ttl |-> ttl]
Srh(left, list) == [h |-> "srh", left |-> left, list |-> list]
Gtp(teid) == [h |-> "gtp", teid |-> teid]
Ns(target) == [h |-> "ns", target |-> target]
Na(target, mac) == [h |-> "na", target |-> target, mac |-> mac]

HeaderAt(wire, i, kind) ==
    IF i <= Len(wire) /\ wire[i].h = kind THEN <<wire[i]>> ELSE <<>>

(* The parser: IPv6, then SRH, then inner IPv6 or IPv4; or IPv4; then UDP  *)
(* with GTP-U, and the inner IPv4; what it does not know stays payload.    *)
Parse(mac, wire) ==
    LET v6 == HeaderAt(wire, 1, "v6")
        srh == IF v6 = <<>> THEN <<>> ELSE HeaderAt(wire, 2, "srh")
        n1 == Len(v6) + Len(srh)
        inner6 == IF v6 = <<>> THEN <<>> ELSE HeaderAt(wire, n1 + 1, "v6")
        v4 == IF inner6 # <<>> THEN <<>> ELSE HeaderAt(wire, n1 + 1, "v4")
        n2 == n1 + Len(inner6) + Len(v4)
        ns == IF v6 = <<>> THEN <<>> ELSE HeaderAt(wire, n2 + 1, "ns")
        gtp == HeaderAt(wire, n2 + 1, "gtp")
        inner4 == IF gtp = <<>> THEN <<>> ELSE HeaderAt(wire, n2 + 2, "v4")
        n3 == n2 + Len(ns) + Len(gtp) + Len(inner4)
    IN [mac |-> mac, v6 |-> v6, srh |-> srh, inner6 |-> inner6, v4 |-> v4,
        ns |-> ns, gtp |-> gtp, inner4 |-> inner4, outer4 |-> <<>>, outerGtp |-> <<>>,
        payload |-> SubSeq(wire, n3 + 1, Len(wire))]

(* The deparser emits the valid headers in this order. *)
Deparse(p) ==
    p.outer4 \o p.v6 \o p.srh \o p.inner6 \o p.outerGtp \o p.v4
    \o p.gtp \o p.inner4 \o p.ns \o p.payload

(* The key of a table read from an invalid header is zero. *)
V6Key(p) == IF p.v6 = <<>> THEN ZeroAddress ELSE p.v6[1].dst
V4Key(p) == IF p.v4 = <<>> THEN <<"0", "0">> ELSE p.v4[1].dst

Decrement(n) == (n + HopModulus - 1) % HopModulus
-----------------------------------------------------------------------------
(* srv6_localsid_table.  A result is [p, flag, xconnect]: the packet, the  *)
(* flag that skips encapsulation, and the next hop of a uA, if any.  What  *)
(* an action reads from an invalid header is undefined: it is whatever an  *)
(* earlier packet left there.                                              *)

Result(p, flag, xconnect) == [p |-> p, flag |-> flag, xconnect |-> xconnect]

(* Mutated form of SetNextHopV4: the TTL is left alone. *)
SetNextHopV4KeepsTtl(p, mac) == [p EXCEPT !.mac = mac]

SetNextHopV4(p, mac) ==
    IF p.v4 = <<>> THEN [p EXCEPT !.mac = mac]
    ELSE [p EXCEPT !.mac = mac, !.v4[1].ttl = Decrement(@)]
RoutingV4(t, p) ==
    LET hit == Lpm(t.routes4, V4Key(p))
    IN IF Hit(hit) THEN SetNextHopV4(p, TheOne(hit).nexthop) ELSE p

(* Mutated form of Srv6UsidUn: two SIDs are consumed, as by a uA. *)
Srv6UsidUnTwice(p) == [p EXCEPT !.v6[1].dst = ShiftSids(@, 2)]

Srv6UsidUn(p) == [p EXCEPT !.v6[1].dst = ShiftSids(@, 1)]
Srv6UsidUa(p) == [p EXCEPT !.v6[1].dst = ShiftSids(@, 2)]

(* Without an SRH, segment_left and the list are read all the same. *)
Srv6End(p) ==
    IF p.srh = <<>>
    THEN {[p EXCEPT !.v6[1].dst = l.dst] : l \in Leftovers \cup {V6(ZeroAddress, 0)}}
    ELSE LET s == p.srh[1]
         IN IF s.left > 0
            THEN {[p EXCEPT !.v6[1].dst = s.list[s.left], !.srh[1].left = @ - 1]}
            ELSE {[p EXCEPT !.v6[1].dst = s.list[1]]}

(* Mutated form of Srv6EndDx6: the inner header stays valid. *)
Srv6EndDx6KeepsInner(p) ==
    {[p EXCEPT !.v6 = <<inner>>, !.srh = <<>>] :
        inner \in IF p.inner6 = <<>> THEN {V6(l.dst, l.hl) : l \in Leftovers}
                  ELSE {p.inner6[1]}}

Srv6EndDx6(p) ==
    {[p EXCEPT !.v6 = <<inner>>, !.inner6 = <<>>, !.srh = <<>>] :
        inner \in IF p.inner6 = <<>> THEN {V6(l.dst, l.hl) : l \in Leftovers}
                  ELSE {p.inner6[1]}}

(* Mutated form of Srv6EndDx4: the outer header is left in place. *)
Srv6EndDx4KeepsOuter(p) == [p EXCEPT !.srh = <<>>, !.inner6 = <<>>]

Srv6EndDx4(p) == [p EXCEPT !.v6 = <<>>, !.srh = <<>>, !.inner6 = <<>>]

Srv6Gtp4E(p, e) ==
    [Srv6EndDx4(p) EXCEPT !.outer4 = <<V4(e.gnb, 64)>>, !.outerGtp = <<Gtp(e.teid)>>]

Srv6LocalsidTable(t, p) ==
    LET hit == Lpm(t.localsid, V6Key(p))
        e == TheOne(hit)
    IN IF ~Hit(hit) THEN {Result(p, FALSE, <<>>)}
       ELSE CASE e.action = "srv6_end" -> {Result(q, TRUE, <<>>) : q \in Srv6End(p)}
              [] e.action = "srv6_end_dx6" -> {Result(q, FALSE, <<>>) : q \in Srv6EndDx6(p)}
              [] e.action = "srv6_end_dx4" -> {Result(RoutingV4(t, Srv6EndDx4(p)), TRUE, <<>>)}
              [] e.action = "srv6_gtp4_e" -> {Result(RoutingV4(t, Srv6Gtp4E(p, e)), TRUE, <<>>)}
              [] e.action = "srv6_usid_un" -> {Result(Srv6UsidUn(p), FALSE, <<>>)}
              [] e.action = "srv6_usid_ua" -> {Result(Srv6UsidUa(p), FALSE, e.nexthop)}

-----------------------------------------------------------------------------
(* Encapsulation: one carrier, or one carrier and an SRH with the second.  *)

SrhOf(sids, srh) == IF Len(sids) = 2 THEN <<Srh(0, <<sids[2]>>)>> ELSE srh

(* t_m_gtp4_d_sid1: the tunnel headers give way to an IPv6 header. *)
SrvTransitUdp(t, p) ==
    IF p.gtp = <<>> \/ t.gtp4d = {} THEN {p}
    ELSE {[p EXCEPT !.v6 = <<V6(TheOne(t.gtp4d).sids[1], ttl)>>, !.gtp = <<>>, !.v4 = <<>>] :
            ttl \in IF p.inner4 = <<>> THEN {l.hl : l \in Leftovers} ELSE {p.inner4[1].ttl}}

Srv6EncapV4(t, p) ==
    LET hit == Lpm(t.encap4, V4Key(p))
        sids == TheOne(hit).sids
    IN IF ~Hit(hit) THEN p
       ELSE [p EXCEPT !.v6 = <<V6(sids[1], p.v4[1].ttl)>>, !.srh = SrhOf(sids, @)]

Srv6Encap(t, p) ==
    LET hit == Lpm(t.encap6, V6Key(p))
        sids == TheOne(hit).sids
    IN IF ~Hit(hit) THEN p
       ELSE [p EXCEPT !.inner6 = p.v6, !.v6 = <<V6(sids[1], p.v6[1].hl)>>, !.srh = SrhOf(sids, @)]

Encapsulation(t, p) ==
    IF p.v4 # <<>> /\ p.v6 = <<>>
    THEN {Srv6EncapV4(t, q) : q \in SrvTransitUdp(t, p)}
    ELSE {Srv6Encap(t, p)}

-----------------------------------------------------------------------------
(* Routing, or the cross-connect of a uA, which leaves the hop limit alone.*)

SetNextHop(p, mac) ==
    IF p.v6 = <<>> THEN [p EXCEPT !.mac = mac]
    ELSE [p EXCEPT !.mac = mac, !.v6[1].hl = Decrement(@)]

RoutingV6(t, p) ==
    LET hit == Lpm(t.routes6, V6Key(p))
    IN IF Hit(hit) THEN SetNextHop(p, TheOne(hit).nexthop) ELSE p

Xconnect(t, p, nexthop) ==
    LET hit == Lpm(t.xconnect, nexthop)
    IN IF Hit(hit) THEN [p EXCEPT !.mac = TheOne(hit).nexthop] ELSE p

(* Lines 591-638: what happens to a packet sent to this switch's own MAC.  *)
Layer3(t, p) ==
    IF p.mac \notin t.station THEN {p}
    ELSE UNION {{IF r.xconnect = <<>> THEN RoutingV6(t, q) ELSE Xconnect(t, q, r.xconnect) :
                    q \in IF r.flag THEN {r.p} ELSE Encapsulation(t, r.p)} :
                r \in Srv6LocalsidTable(t, p)}

(* The ports a packet leaves by.  set_output_port and set_multicast_group  *)
(* overwrite what the drop of a packet with hop limit zero has set, so     *)
(* that drop has no effect here.                                           *)
Layer2(t, in, p) ==
    LET unicast == Exact(t.unicast, p.mac)
    IN IF Hit(unicast) THEN {TheOne(unicast).port}
       ELSE IF Hit(Exact(t.multicast, p.mac)) THEN t.group \ {in}
       ELSE {}

Out(ports, p) == [ports |-> ports, mac |-> p.mac, wire |-> Deparse(p)]

(* Mutated form of NdpReply: the answer takes part in bridging as well. *)
NdpReplyBridged(t, in, p, e) ==
    LET na == [p EXCEPT !.mac = "33:33", !.ns = <<Na(p.ns[1].target, e.mac)>>]
    IN {Out({in} \cup Layer2(t, in, q), q) : q \in Layer3(t, na)}

(* ndp_ns_to_na: the answer goes back where the question came from, and    *)
(* only here does the drop of a zero hop limit last.                       *)
NdpReply(t, in, p, e) ==
    LET na == [p EXCEPT !.mac = "33:33", !.ns = <<Na(p.ns[1].target, e.mac)>>]
    IN {Out(IF p.v6[1].hl = 0 THEN {} ELSE {in}, q) : q \in Layer3(t, na)}

(* The ingress and egress pipelines: the set of possible outcomes. *)
Ingress(t, in, mac, wire) ==
    LET p == Parse(mac, wire)
        reply == IF p.ns = <<>> THEN {} ELSE Exact(t.ndp, p.ns[1].target)
    IN IF Hit(reply) THEN NdpReply(t, in, p, TheOne(reply))
       ELSE {Out(Layer2(t, in, q), q) : q \in Layer3(t, p)}
=============================================================================
