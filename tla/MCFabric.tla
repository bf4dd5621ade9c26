------------------------------- MODULE MCFabric -------------------------------
(***************************************************************************)
(* A small fabric for the commands of the CLI: four routers a, b, c, d,    *)
(* IPv6 host x and IPv4 host u at a, y and w at d; b and d are joined      *)
(* directly and by way of c.                                               *)
(***************************************************************************)
EXTENDS Fabric

SmallRouters == {"a", "b", "c", "d"}
SmallHosts == {"x", "u", "y", "w"}

Joins ==
    [a |-> <<"b", "x", "u">>, b |-> <<"a", "c", "d">>, c |-> <<"b", "d">>,
     d |-> <<"b", "c", "y", "w">>]
PortOf(r, n) == CHOOSE i \in DOMAIN Joins[r] : Joins[r][i] = n
SmallPeer ==
    [r \in SmallRouters |-> [i \in DOMAIN Joins[r] |->
        LET n == Joins[r][i]
        IN [node |-> n, port |-> IF n \in SmallRouters THEN PortOf(n, r) ELSE 0]]]

NextTo ==
    [a |-> [b |-> "b", c |-> "b", d |-> "b", x |-> "x", y |-> "b"],
     b |-> [a |-> "a", c |-> "c", d |-> "d", x |-> "a", y |-> "d"],
     c |-> [a |-> "b", b |-> "b", d |-> "d", x |-> "b", y |-> "d"],
     d |-> [a |-> "b", b |-> "b", c |-> "c", x |-> "b", y |-> "y"]]
To6(n) == IF n \in SmallRouters THEN <<"fcbb:bb00", n>> ELSE Address(n, <<>>)

SmallTables ==
    [r \in SmallRouters |->
        [NoTables EXCEPT
            !.station = {r},
            !.unicast = {[match |-> Joins[r][i], port |-> i] : i \in DOMAIN Joins[r]},
            !.localsid =
                {[match |-> <<"fcbb:bb00", r>>, action |-> "srv6_usid_un"],
                 [match |-> <<"fcbb:bb00", r, "0">>, action |-> "srv6_end"],
                 [match |-> <<"fcbb:bb00", r, "fd00">>, action |-> "srv6_end_dx6"],
                 [match |-> <<"fcbb:bb00", r, "fd44">>, action |-> "srv6_end_dx4"]},
            !.routes6 = {[match |-> To6(n), nexthop |-> NextTo[r][n]] : n \in DOMAIN NextTo[r]},
            !.routes4 = IF r = "d" THEN {[match |-> <<"20">>, nexthop |-> "w"]} ELSE {}]]

ToY == Address("y", <<>>)
SmallFlow(from, r, wire, exit, shapes) ==
    [kind |-> "user", from |-> from, at |-> r, port |-> PortOf(r, from), mac |-> r,
     wire |-> wire, exit |-> exit, shapes |-> shapes]
X2Y == SmallFlow("x", "a", <<V6(ToY, 9)>>, [d |-> "y"], {<<"v6">>})
U2W == SmallFlow("u", "a", <<V4(<<"20", "1">>, 9)>>, [d |-> "w"], {<<"v4">>})
W2U == SmallFlow("w", "d", <<V4(<<"10", "1">>, 9)>>, [a |-> "u"], {<<"v4", "gtp", "v4">>})
SmallFlows == {X2Y, U2W, W2U}

SidOfA == Carrier(<<"a", "4eee">>)

SmallCommands ==
    {[name |-> "uA-insert", dev |-> "b", sid |-> Carrier(<<"b", "fa0c">>), via |-> Carrier(<<"c">>),
      mac |-> "c"],
     [name |-> "srv6-insert", dev |-> "a",
      segments |-> <<Carrier(<<"b", "fa0c", "c">>), Carrier(<<"d", "fd00">>), ToY>>],
     [name |-> "srv6-insert", dev |-> "a", segments |-> <<Carrier(<<"b", "c", "d", "fd00">>), ToY>>],
     [name |-> "srv6-clear", dev |-> "a"],
     [name |-> "route-insert", dev |-> "b", match |-> To6("d"), nexthop |-> "c"],
     [name |-> "srv6-encap-insert", dev |-> "a", match |-> <<"20">>,
      sid |-> Carrier(<<"b", "c", "d", "fd44">>)],
     [name |-> "srv6-encap-insert", dev |-> "d", match |-> <<"10">>,
      sid |-> Carrier(<<"c", "b", "a", "4eee">>)],
     [name |-> "route-gtp4e-insert", dev |-> "a", sid |-> SidOfA, gnb |-> <<"10", "9">>, teid |-> 1],
     [name |-> "route-ipv4-insert", dev |-> "a", match |-> <<"10">>, nexthop |-> "u"]}

SmallPaths ==
    {<<"b", "c", "d", "y">>, <<"b", "c", "d", "w">>, <<"c", "b", "a", "u">>}
NoLeftovers == {V6(ZeroAddress, 0)}

(* What the theorems of FabricProofs assume of a configuration. *)
ASSUME SensibleConfiguration == SolicitationsAnswered /\ Carries4 /\ ConveysAll
=============================================================================
