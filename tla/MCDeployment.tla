----------------------------- MODULE MCDeployment -----------------------------
(* What the hosts of the demonstrator send, for TLC. *)
EXTENDS Deployment

FlowOf(kind, from, r, wire, exit, shapes) ==
    [kind |-> kind, from |-> from, at |-> r, port |-> PortTo(r, from), mac |-> r,
     wire |-> wire, exit |-> exit, shapes |-> shapes]

Workers == [r8 |-> "h2a", r9 |-> "h3a"]
Anchor == [r1 |-> "h1a"]

(* A UE's packet to a service, in the gNB's tunnel to a UPF on worker 1 or 3. *)
UplinkTo(upf) ==
    FlowOf("gtp", "h1a", "r1", <<V4(<<upf, "3">>, 64), Gtp(1), V4(<<"10.96.10", "30">>, 63)>>,
           Workers, {<<"v4">>, <<"v4", "gtp", "v4">>})
Uplinks == {UplinkTo("192.168.0"), UplinkTo("192.168.1")}

Downlinks ==
    {FlowOf("ipv4", h, r, <<V4(<<"10.60.0", "1">>, 64)>>, Anchor, {<<"v4", "gtp", "v4">>}) :
        <<h, r>> \in {<<"h2a", "r8">>, <<"h3a", "r9">>}}

PlainV4 ==
    {FlowOf("ipv4", "h1a", "r1", <<V4(<<n, "20">>, 64)>>, Workers, {<<"v4">>}) :
        n \in {"192.168.0", "192.168.1"}}
    \cup {FlowOf("ipv4", h, r, <<V4(<<"10.100.200", "20">>, 64)>>, Anchor, {<<"v4">>}) :
        <<h, r>> \in {<<"h2a", "r8">>, <<"h3a", "r9">>}}

PlainV6 ==
    {FlowOf("ipv6", "h1", "r1", <<V6(Host6("h2"), 64)>>, [r8 |-> "h2"], {<<"v6">>}),
     FlowOf("ipv6", "h2", "r8", <<V6(Host6("h1"), 64)>>, [r1 |-> "h1"], {<<"v6">>})}

Solicitations ==
    {[FlowOf("ns", h, r, <<V6(Host6("ff02::1"), 255), Ns(t)>>, <<>>, {}) EXCEPT !.mac = m] :
        <<h, r, t, m>> \in {"h1"} \X {"r1"} \X {"2001:1:1::ff"} \X {"33:33", "r1"}
                          \cup {"h2"} \X {"r8"} \X {"2001:1:2::ff"} \X {"33:33", "r8"}}

UserFlows == Uplinks \cup Downlinks \cup PlainV4 \cup PlainV6
DeliveredFlows == UserFlows \cup Solicitations

DeployedPaths ==
    {<<"r2", "r3", "r8", "h2a">>, <<"r6", "r7", "r9", "h3a">>, <<"r3", "r2", "r1", "h1a">>,
     <<"r7", "r6", "r1", "h1a">>, <<"r9", "r3", "r2", "r1", "h1a">>,
     <<"r8", "r5", "r4", "r1", "h1a">>, <<"r6", "r7", "r9", "r8", "h2">>}

Gtp4dTo(sids) ==
    [name |-> "route-gtp4d-insert", dev |-> "r1", match |-> <<"10.96.10">>, sid |-> Carrier(sids)]

(* The paths of srv6_mup.sh and of anycast-sfc.sh. *)
SteeringCommands ==
    {Gtp4dTo(<<"r2", "r3", "r8", "fd44">>), Gtp4dTo(<<"r4", "r5", "r9", "fd44">>)}
SteeringPaths == DeployedPaths \cup {<<"r4", "r5", "r9", "h3a">>}

SomeLeftovers == {V6(Host6("h2"), 7), V6(Carrier(<<"r9", "fd44">>), 3)}

(* What the theorems of FabricProofs assume of a configuration. *)
ASSUME SensibleConfiguration == SolicitationsAnswered /\ Carries4 /\ ConveysAll
=============================================================================
