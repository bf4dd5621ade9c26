-------------------------------- MODULE Fabric --------------------------------
(***************************************************************************)
(* The switches joined by their links: packets travel from switch to       *)
(* switch through the pipeline of each, while the operator's commands and  *)
(* the restarts of switches change the tables under them.                  *)
(*                                                                         *)
(* A command of the ONOS CLI changes the flow rules ONOS wants at once;    *)
(* the switches get them later, table by table, each switch on its own.    *)
(***************************************************************************)
EXTENDS Pipeline

CONSTANTS
    Routers,      \* the switches; a router's MAC is its name
    Hosts,        \* the hosts; a host's MAC is its name
    Peer,         \* Peer[r][port] = [node, port]: the other end of the link
    Flows,        \* what hosts may send: [kind, from, at, port, mac, wire], and
                  \* what must come of it: [exit, shapes] (see the properties)
    Paths,        \* the paths of the carriers in use, ending with a host
    LossyTo,      \* routers on the way to which packets may be lost
    InitTables,   \* the tables of each router at the start
    Commands,     \* the commands the operator may issue
    MaxCommands,  \* bound on the commands issued
    Fragile,      \* routers that may restart
    MaxRestarts   \* bound on the restarts

TableNames == {"station", "unicast", "multicast", "group", "ndp", "localsid", "encap4",
               "encap6", "gtp4d", "routes4", "routes6", "xconnect"}

ASSUME FabricAssumption ==
    /\ Routers \cap Hosts = {}
    /\ MaxCommands \in Nat /\ MaxRestarts \in Nat
    /\ Fragile \subseteq Routers
    /\ DOMAIN InitTables = Routers
    /\ \A r \in Routers : DOMAIN InitTables[r] = TableNames

VARIABLES
    store,     \* the tables ONOS wants each router to have
    tables,    \* the tables each router has
    air,       \* packets on their way to a router: [at, port, mac, wire, flow, entered]
    arrived,   \* copies of the last packet sent that reached a host
    issued,    \* number of commands issued
    restarts   \* number of restarts

fabricVars == <<store, tables, air, arrived, issued, restarts>>

NoTables == [n \in TableNames |-> {}]

Packet(at, port, mac, wire, flow, entered) ==
    [at |-> at, port |-> port, mac |-> mac, wire |-> wire, flow |-> flow, entered |-> entered]

FabricInit ==
    /\ store = InitTables
    /\ tables = InitTables
    /\ air = {}
    /\ arrived = {}
    /\ issued = 0
    /\ restarts = 0

-----------------------------------------------------------------------------
(* Packets.  They share nothing but the header memory (Leftovers), so one  *)
(* packet and its copies at a time are enough.                             *)

Send(f) ==
    /\ air = {}
    /\ air' = {Packet(f.at, f.port, f.mac, f.wire, f, FALSE)}
    /\ arrived' = {}
    /\ UNCHANGED <<store, tables, issued, restarts>>

IsCarrier(wire) == wire # <<>> /\ wire[1].h = "v6" /\ wire[1].dst[1] = "fcbb:bb00"

(* What leaves the ports of o goes to the nodes at the other end of their links. *)
Copies(p, o) ==
    LET entered == p.entered \/ (~IsCarrier(p.wire) /\ IsCarrier(o.wire))
        to(port) == Peer[p.at][port]
    IN {Packet(to(port).node, to(port).port, o.mac, o.wire, p.flow, entered) : port \in o.ports}

Forward ==
    \E p \in air : \E o \in Ingress(tables[p.at], p.port, p.mac, p.wire) :
       /\ air' = (air \ {p}) \cup {c \in Copies(p, o) : c.at \in Routers}
       /\ arrived' = arrived \cup {c \in Copies(p, o) : c.at \in Hosts}
       /\ UNCHANGED <<store, tables, issued, restarts>>

(* A packet is lost on a link. *)
Loss ==
    /\ \E p \in air : p.at \in LossyTo /\ air' = air \ {p}
    /\ UNCHANGED <<store, tables, arrived, issued, restarts>>

-----------------------------------------------------------------------------
(* The commands.  Applying a rule replaces the one with the same match.    *)

Insert(table, e) == {f \in table : f.match # e.match} \cup {e}

Want(d, name, e) ==
    /\ issued < MaxCommands
    /\ issued' = issued + 1
    /\ store' = [store EXCEPT ![d][name] = Insert(@, e)]
    /\ UNCHANGED <<tables, air, arrived, restarts>>

CommandsOf(name) == {c \in Commands : c.name = name}

(* The rules the commands make.  The prefix given to gtp4d is not part of  *)
(* the match, and the last segment of an insertion is the target: it is    *)
(* matched, not inserted.                                                  *)
Route(c) == [match |-> c.match, nexthop |-> c.nexthop]
Gtp4dRule(c) == [match |-> 2152, sids |-> <<c.sid>>]
Gtp4eRule(c) == [match |-> SubSeq(c.sid, 1, 3), action |-> "srv6_gtp4_e",
                 gnb |-> c.gnb, teid |-> c.teid]
EncapRule(c) == [match |-> c.match, sids |-> <<c.sid>>]
InsertRule(c) == [match |-> c.segments[Len(c.segments)],
                  sids |-> SubSeq(c.segments, 1, Len(c.segments) - 1)]
UARule(c) == [match |-> SubSeq(c.sid, 1, 3), action |-> "srv6_usid_ua", nexthop |-> c.via]
XconnectRule(c) == [match |-> SubSeq(c.via, 1, 3), nexthop |-> c.mac]

RouteInsert == \E c \in CommandsOf("route-insert") : Want(c.dev, "routes6", Route(c))
IPv4RouteInsert == \E c \in CommandsOf("route-ipv4-insert") : Want(c.dev, "routes4", Route(c))
GTP4DRouteInsert == \E c \in CommandsOf("route-gtp4d-insert") : Want(c.dev, "gtp4d", Gtp4dRule(c))
GTP4ERouteInsert ==
    \E c \in CommandsOf("route-gtp4e-insert") : Want(c.dev, "localsid", Gtp4eRule(c))
Srv6EncapInsert == \E c \in CommandsOf("srv6-encap-insert") : Want(c.dev, "encap4", EncapRule(c))
Srv6Insert == \E c \in CommandsOf("srv6-insert") : Want(c.dev, "encap6", InsertRule(c))

Srv6Clear ==
    \E c \in CommandsOf("srv6-clear") :
        /\ issued < MaxCommands
        /\ issued' = issued + 1
        /\ store' = [store EXCEPT ![c.dev].encap6 = {}]
        /\ UNCHANGED <<tables, air, arrived, restarts>>

(* Two rules in two tables: a switch may have one of them without the other. *)
UAInsert ==
    \E c \in CommandsOf("uA-insert") :
        /\ issued < MaxCommands
        /\ issued' = issued + 1
        /\ store' = [store EXCEPT ![c.dev].localsid = Insert(@, UARule(c)),
                                 ![c.dev].xconnect = Insert(@, XconnectRule(c))]
        /\ UNCHANGED <<tables, air, arrived, restarts>>

(* A switch gets what is new in one of its tables. *)
WriteTable ==
    /\ \E d \in Routers, n \in TableNames :
         /\ tables[d][n] # store[d][n]
         /\ tables' = [tables EXCEPT ![d][n] = store[d][n]]
    /\ UNCHANGED <<store, air, arrived, issued, restarts>>

(* A switch restarts with empty tables, which are written again. *)
Restart ==
    /\ restarts < MaxRestarts
    /\ restarts' = restarts + 1
    /\ \E d \in Fragile : tables' = [tables EXCEPT ![d] = NoTables]
    /\ UNCHANGED <<store, air, arrived, issued>>

Command ==
    \/ RouteInsert \/ IPv4RouteInsert \/ GTP4DRouteInsert \/ GTP4ERouteInsert
    \/ Srv6EncapInsert \/ Srv6Insert \/ Srv6Clear \/ UAInsert

FabricNext == (\E f \in Flows : Send(f)) \/ Forward \/ Loss \/ Command \/ WriteTable \/ Restart

FabricSpec == FabricInit /\ [][FabricNext]_fabricVars

(* Switches process what they receive, and ONOS writes what it wants. *)
FabricFairSpec ==
    FabricSpec /\ WF_fabricVars(Forward) /\ WF_fabricVars(WriteTable)
-----------------------------------------------------------------------------
(* Properties.                                                             *)

RoutersIn(a) == SelectSeq(Tail(a), LAMBDA t : t \in Routers)

(* The routers a packet has yet to visit: those of its carrier and, unless *)
(* the carrier is already the one of the SRH, those of the SRH.            *)
Remaining(wire) ==
    LET dst == wire[1].dst
        next == IF Len(wire) > 1 /\ wire[2].h = "srh" THEN wire[2].list[1] ELSE dst
    IN IF \E n \in 0..Slots : dst = ShiftSids(next, n) THEN RoutersIn(dst)
       ELSE RoutersIn(dst) \o RoutersIn(next)

Routed == {p \in air : p.entered}
Received == {p \in arrived : p.entered}

PathNow ==
    IF Routed # {} THEN LET p == CHOOSE x \in Routed : TRUE
                            r == Remaining(p.wire)
                        IN Append(r, p.flow.exit[Last(r)])
    ELSE IF Received # {} THEN <<(CHOOSE x \in Received : TRUE).at>>
    ELSE <<>>

PlaceNow ==
    IF Routed # {} THEN (CHOOSE x \in Routed : TRUE).at
    ELSE IF Received # {} THEN (CHOOSE x \in Received : TRUE).at
    ELSE "nowhere"

Promise == INSTANCE SegmentPath WITH path <- PathNow, place <- PlaceNow

(* Whatever happens to the tables while it is on its way, a packet that    *)
(* was given a carrier visits the routers of that carrier in order and     *)
(* leaves to the host behind the last of them, or is lost.                 *)
FollowsItsPath == Promise!Spec

Shape(wire) == [i \in DOMAIN wire |-> wire[i].h]
LastAddress(wire) ==
    LET ip == {i \in DOMAIN wire : wire[i].h \in {"v4", "v6"}}
    IN wire[CHOOSE i \in ip : \A j \in ip : j <= i].dst

(* A host receives the packet it was sent and nothing of the headers the   *)
(* fabric added on the way: what was in a gNB's tunnel, or the tunnel as   *)
(* it was where r1 does not end it; a UE's packet in a tunnel again.       *)
ArrivesWhole ==
    \A c \in arrived : c.flow.shapes # {} =>
        Shape(c.wire) \in c.flow.shapes /\ LastAddress(c.wire) = LastAddress(c.flow.wire)

(* The hop limit of a packet the fabric encapsulates counts the routers on *)
(* the way, and the packet inside is decremented once, when it leaves:     *)
(* hosts never see a TTL below the one sent by more than one.              *)
FabricIsOneHop ==
    \A c \in arrived : c.entered /\ c.flow.kind = "ipv4" =>
        c.wire[Len(c.wire)].ttl = Decrement(c.flow.wire[Len(c.flow.wire)].ttl)

(* A neighbour solicitation for a router's address is answered to the one  *)
(* who asked and never travels any further.                                *)
SolicitationsStay ==
    \A c \in air \cup arrived : c.flow.kind = "ns" =>
        \/ c \in air /\ c.at = c.flow.at /\ c.wire = c.flow.wire
        \/ c \in arrived /\ c.at = c.flow.from

Delivered(c) == IF c.flow.kind = "ns" THEN c.at = c.flow.from ELSE c.at \in Hosts \ {c.flow.from}

(* Where nothing restarts and nothing is lost, no packet ends in a switch  *)
(* for want of a route, a SID or a port, whatever path it was given.       *)
NoBlackHole ==
    [][air # {} /\ air' = {} => \E c \in arrived' : Delivered(c)]_fabricVars

(* No path makes a packet turn in circles: every packet leaves the fabric. *)
PacketsLeave == air # {} ~> air = {}
-----------------------------------------------------------------------------
(* Configurations: what the theorems about this module assume of one.      *)

(* The rules the commands may put in a table of a router. *)
Ordered(r, name) ==
    LET Of(command) == {c \in CommandsOf(command) : c.dev = r}
    IN CASE name = "routes6" -> {Route(c) : c \in Of("route-insert")}
         [] name = "routes4" -> {Route(c) : c \in Of("route-ipv4-insert")}
         [] name = "gtp4d" -> {Gtp4dRule(c) : c \in Of("route-gtp4d-insert")}
         [] name = "localsid" -> {Gtp4eRule(c) : c \in Of("route-gtp4e-insert")}
                                 \cup {UARule(c) : c \in Of("uA-insert")}
         [] name = "xconnect" -> {XconnectRule(c) : c \in Of("uA-insert")}
         [] name = "encap4" -> {EncapRule(c) : c \in Of("srv6-encap-insert")}
         [] name = "encap6" -> {InsertRule(c) : c \in Of("srv6-insert")}
         [] OTHER -> {}

(* A host asks for an address of the router it is connected to, and that   *)
(* router knows it and does not restart.                                   *)
AsksItsRouter(f) ==
    /\ f.at \in Routers \ Fragile
    /\ f.from \in Hosts /\ Peer[f.at][f.port].node = f.from
    /\ f.wire = <<f.wire[1], f.wire[2]>> /\ f.wire[1].h = "v6" /\ f.wire[2].h = "ns"
    /\ Hit(Exact(InitTables[f.at].ndp, f.wire[2].target))

SolicitationsAnswered == \A f \in Flows : f.kind = "ns" => AsksItsRouter(f)

Rules(name) == UNION {InitTables[r][name] \cup Ordered(r, name) : r \in Routers}
Matching(name, key) == {e \in Rules(name) : IsPrefix(e.match, key)}

Moving == {"srv6_usid_un", "srv6_usid_ua"}
Actions == Moving \cup {"srv6_end", "srv6_end_dx6", "srv6_end_dx4", "srv6_gtp4_e"}

(* A router answers to its own name; hosts and routers are where the       *)
(* tables say; what has no IPv6 header is not taken for a carrier; IPv4    *)
(* packets get one carrier, and their routes lead to hosts.                *)
Sensible(r, name, e) ==
    /\ name = "station" => e = r
    /\ name = "unicast" => e.match # r /\ (e.match \in Routers => Peer[r][e.port].node \notin Hosts)
    /\ name = "multicast" => e.match \notin Routers
    /\ name = "localsid" => ~IsPrefix(e.match, ZeroAddress) /\ e.action \in Actions
    /\ name = "xconnect" => e.nexthop \in Routers
    /\ name = "encap4" => e.sids = <<e.sids[1]>>
    /\ name = "routes4" => e.nexthop \notin Routers
    /\ name = "routes6" => ~IsPrefix(e.match, ZeroAddress)

SensibleTables ==
    \A r \in Routers : \A name \in TableNames :
       \A e \in InitTables[r][name] \cup Ordered(r, name) : Sensible(r, name, e)

(* The addresses that carriers with the addresses C have on their way. *)
CarrierAddresses == {a \in Seq(STRING) : Len(a) = Slots + 1 /\ a[1] = "fcbb:bb00"}
Way(C) == {ShiftSids(a, n) : a \in C, n \in 0..Slots}

(* Such a carrier goes from router to router until one of these actions. *)
Goes(C, actions) ==
    /\ \A a \in C : a \in CarrierAddresses
    /\ \A a \in Way(C) :
          /\ \A e \in Matching("localsid", a) : e.action \in actions
          /\ Matching("encap6", a) = {}
          /\ \A e \in Matching("routes6", a) : e.nexthop \in Routers

(* Carriers of IPv4 packets end where such a packet can be taken out. *)
Carriers4 == {e.sids[1] : e \in Rules("encap4")}

Carries4 ==
    /\ Slots >= 2
    /\ SensibleTables
    /\ Goes(Carriers4, Moving \cup {"srv6_end_dx4", "srv6_gtp4_e"})
    /\ \A f \in Flows : f.kind = "ipv4" =>
          f.at \in Routers /\ f.wire = <<V4(f.wire[1].dst, f.wire[1].ttl)>>

(* What takes an IPv4 packet out of its carrier in a form its host expects.*)
Tunnelled == <<"v4", "gtp", "v4">>
TakeOut(shapes) ==
    {action \in {"srv6_end_dx4", "srv6_gtp4_e"} :
        (IF action = "srv6_end_dx4" THEN <<"v4">> ELSE Tunnelled) \in shapes}
CarriersTo(dst) == {e.sids[1] : e \in Matching("encap4", dst)}

(* An IPv4 packet, sent to the router of its host. *)
Conveys4(f) ==
    /\ f.mac \in Routers
    /\ f.wire = <<V4(f.wire[1].dst, f.wire[1].ttl)>>
    /\ Goes(CarriersTo(f.wire[1].dst), Moving \cup TakeOut(f.shapes))

(* An IPv4 packet in a tunnel: the router takes it out of it, or has no    *)
(* rule that says so and carries the tunnel.                               *)
ConveysTunnel(f) ==
    /\ f.mac \in Routers
    /\ f.wire = <<V4(f.wire[1].dst, f.wire[1].ttl), Gtp(f.wire[2].teid),
                  V4(f.wire[3].dst, f.wire[3].ttl)>>
    /\ Matching("encap4", <<"0", "0">>) = {}
    /\ Goes({e.sids[1] : e \in Rules("gtp4d")}, Moving \cup TakeOut(f.shapes))
    /\ Goes(CarriersTo(f.wire[1].dst),
            Moving \cup (IF Tunnelled \in f.shapes THEN {"srv6_end_dx4"} ELSE {}))

(* An IPv6 packet, which no SID matches: it gets a carrier, or two, the    *)
(* second in an SRH.  Only there is srv6_end sure of what it reads.        *)
Carries6(dst) ==
    /\ Matching("localsid", dst) = {}
    /\ \A e \in Matching("encap6", dst) :
          \/ e.sids = <<e.sids[1]>> /\ Goes({e.sids[1]}, Moving \cup {"srv6_end_dx6"})
          \/ /\ e.sids = <<e.sids[1], e.sids[2]>>
             /\ Goes({e.sids[1], e.sids[2]}, Moving \cup {"srv6_end", "srv6_end_dx6"})

Conveys6(f) ==
    /\ <<"v6">> \in f.shapes
    /\ f.wire = <<V6(f.wire[1].dst, f.wire[1].hl)>>
    /\ Carries6(f.wire[1].dst)

Conveys(f) ==
    /\ f.at \in Routers
    /\ CASE Shape(f.wire) = <<"v4">> -> Conveys4(f)
         [] Shape(f.wire) = Tunnelled -> ConveysTunnel(f)
         [] Shape(f.wire) = <<"v6">> -> Conveys6(f)
         [] OTHER -> FALSE

ConveysAll ==
    /\ Slots >= 2
    /\ SensibleTables
    /\ \A f \in Flows : f.shapes # {} => Conveys(f)
=============================================================================
