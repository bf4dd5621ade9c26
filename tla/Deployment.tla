------------------------------ MODULE Deployment ------------------------------
(***************************************************************************)
(* The network of the demonstrator: the topology of mininet/topo.py, the   *)
(* SIDs and interfaces of config/netcfg.json, the routes of                *)
(* config/routing_tables.txt, and the rules of run.sh and srv6_mup.sh.     *)
(***************************************************************************)
EXTENDS Fabric

RouterNames == {"r1", "r2", "r3", "r4", "r5", "r6", "r7", "r8", "r9"}
HostNames == {"h1", "h1a", "h1b", "h2", "h2a", "h3a"}

(* Ports are numbered from 1 in the order of the addLink calls. *)
Neighbours ==
    [r1 |-> <<"r2", "r4", "r6", "h1", "h1a", "h1b">>,
     r2 |-> <<"r1", "r3", "r4", "r5">>,
     r3 |-> <<"r2", "r4", "r5", "r8">>,
     r4 |-> <<"r1", "r2", "r3", "r5", "r6", "r7">>,
     r5 |-> <<"r2", "r3", "r4", "r6", "r7", "r8", "r9">>,
     r6 |-> <<"r1", "r4", "r5", "r7">>,
     r7 |-> <<"r4", "r5", "r6", "r9">>,
     r8 |-> <<"r3", "r5", "r9", "h2", "h2a">>,
     r9 |-> <<"r5", "r7", "r8", "h3a">>]

PortTo(r, node) == CHOOSE i \in DOMAIN Neighbours[r] : Neighbours[r][i] = node

Links ==
    [r \in RouterNames |-> [i \in DOMAIN Neighbours[r] |->
        LET n == Neighbours[r][i]
        IN [node |-> n, port |-> IF n \in RouterNames THEN PortTo(n, r) ELSE 0]]]

(* routing_tables.txt: the next hop of each router to each other router. *)
RouteTo ==
    [r1 |-> [r2 |-> "r2", r3 |-> "r2", r4 |-> "r4", r5 |-> "r4", r6 |-> "r6", r7 |-> "r4",
             r8 |-> "r4", r9 |-> "r4"],
     r2 |-> [r1 |-> "r1", r3 |-> "r3", r4 |-> "r4", r5 |-> "r5", r6 |-> "r4", r7 |-> "r4",
             r8 |-> "r3", r9 |-> "r3"],
     r3 |-> [r1 |-> "r2", r2 |-> "r2", r4 |-> "r4", r5 |-> "r5", r6 |-> "r4", r7 |-> "r5",
             r8 |-> "r8", r9 |-> "r8"],
     r4 |-> [r1 |-> "r1", r2 |-> "r2", r3 |-> "r3", r5 |-> "r5", r6 |-> "r6", r7 |-> "r7",
             r8 |-> "r5", r9 |-> "r5"],
     r5 |-> [r1 |-> "r4", r2 |-> "r2", r3 |-> "r3", r4 |-> "r4", r6 |-> "r6", r7 |-> "r7",
             r8 |-> "r8", r9 |-> "r9"],
     r6 |-> [r1 |-> "r1", r2 |-> "r4", r3 |-> "r5", r4 |-> "r4", r5 |-> "r5", r7 |-> "r7",
             r8 |-> "r5", r9 |-> "r7"],
     r7 |-> [r1 |-> "r6", r2 |-> "r4", r3 |-> "r5", r4 |-> "r4", r5 |-> "r5", r6 |-> "r6",
             r8 |-> "r5", r9 |-> "r9"],
     r8 |-> [r1 |-> "r3", r2 |-> "r3", r3 |-> "r3", r4 |-> "r5", r5 |-> "r5", r6 |-> "r5",
             r7 |-> "r9", r9 |-> "r9"],
     r9 |-> [r1 |-> "r5", r2 |-> "r5", r3 |-> "r5", r4 |-> "r5", r5 |-> "r5", r6 |-> "r7",
             r7 |-> "r7", r8 |-> "r8"]]

(* Mutated form of RouteToH1: r3 sends back to r8 what came from there. *)
RouteToH1Looping == [r1 |-> "h1", r2 |-> "r1", r3 |-> "r8", r4 |-> "r1", r5 |-> "r4",
                     r6 |-> "r1", r7 |-> "r4", r8 |-> "r3", r9 |-> "r5"]

RouteToH1 == [r1 |-> "h1", r2 |-> "r1", r3 |-> "r2", r4 |-> "r1", r5 |-> "r4", r6 |-> "r1",
              r7 |-> "r4", r8 |-> "r3", r9 |-> "r5"]
RouteToH2 == [r1 |-> "r2", r2 |-> "r3", r3 |-> "r8", r4 |-> "r5", r5 |-> "r8", r6 |-> "r5",
              r7 |-> "r5", r8 |-> "h2", r9 |-> "r8"]

Host6(h) == Address(h, <<>>)
Entry(m, nexthop) == [match |-> m, nexthop |-> nexthop]
Encap(m, sids) == [match |-> m, sids |-> <<sids>>]
Sid(r, sids, action) == [match |-> <<"fcbb:bb00", r>> \o sids, action |-> action]

Localsids(r) ==
    {Sid(r, <<>>, "srv6_usid_un"), Sid(r, <<"0">>, "srv6_end")}
    \cup {Sid(x, <<"fd00">>, "srv6_end_dx6") : x \in {r} \cap {"r1", "r2", "r8"}}
    \cup {Sid(x, <<"fd44">>, "srv6_end_dx4") : x \in {r} \cap {"r1", "r2", "r8", "r9"}}
    \cup {[match |-> <<"fcbb:bb00", "r1", "4eee">>, action |-> "srv6_gtp4_e",
           gnb |-> <<"10.100.200", "3">>, teid |-> 1] : x \in {r} \cap {"r1"}}

(* run.sh and srv6_mup.sh: the rules of the edge routers r1, r8 and r9.    *)
Encaps4 ==
    [r1 |-> {Encap(<<"192.168.0">>, Carrier(<<"r2", "r3", "r8", "fd44">>)),
             Encap(<<"192.168.1">>, Carrier(<<"r6", "r7", "r9", "fd44">>))},
     r8 |-> {Encap(<<"10.100.200">>, Carrier(<<"r3", "r2", "r1", "fd44">>)),
             Encap(<<"10.60.0">>, Carrier(<<"r9", "r3", "r2", "r1", "4eee">>))},
     r9 |-> {Encap(<<"10.100.200">>, Carrier(<<"r7", "r6", "r1", "fd44">>)),
             Encap(<<"10.60.0">>, Carrier(<<"r8", "r5", "r4", "r1", "4eee">>))}]

Services(h) == {Entry(<<"10.96.10", n>>, h) : n \in {"30", "40", "50"}}

Routes4 ==
    [r1 |-> {Entry(<<"10.100.200">>, "h1a"), Entry(<<"10.60.0">>, "h1a")},
     r8 |-> {Entry(<<"192.168.0">>, "h2a")} \cup Services("h2a"),
     r9 |-> {Entry(<<"192.168.1">>, "h3a")} \cup Services("h3a")]

At(f, r) == IF r \in DOMAIN f THEN f[r] ELSE {}

(* The ports netcfg.json gives an interface to make the broadcast group.   *)
InterfacePorts == [r1 |-> {4, 5, 6}, r8 |-> {3, 5}, r9 |-> {4}]

DeployedTables ==
    [r \in RouterNames |->
        [station |-> {r},
         unicast |-> {[match |-> Neighbours[r][i], port |-> i] : i \in DOMAIN Neighbours[r]},
         multicast |-> {[match |-> m] : m \in {"broadcast", "33:33"}},
         group |-> At(InterfacePorts, r),
         ndp |-> At([r1 |-> {[match |-> "2001:1:1::ff", mac |-> "r1"]},
                     r8 |-> {[match |-> "2001:1:2::ff", mac |-> "r8"]}], r),
         localsid |-> Localsids(r),
         encap4 |-> At(Encaps4, r),
         encap6 |-> IF r # "r1" THEN {}
                    ELSE {Encap(Host6("h2"), Carrier(<<"r6", "r7", "r9", "r8", "fd00">>))},
         gtp4d |-> IF r # "r1" THEN {}
                   ELSE {Encap(2152, Carrier(<<"r2", "r3", "r8", "fd44">>))},
         routes4 |-> At(Routes4, r),
         routes6 |-> {Entry(Host6("h1"), RouteToH1[r]), Entry(Host6("h2"), RouteToH2[r])}
                     \cup {Entry(<<"fcbb:bb00", x>>, RouteTo[r][x]) : x \in RouterNames \ {r}},
         xconnect |-> {}]]

=============================================================================
