------------------------------ MODULE Controller ------------------------------
(***************************************************************************)
(* The ONOS application org.p4.srv6_usid once MainComponent is active: the *)
(* four components (IPv6 routing, SRv6, L2 bridging, NDP reply) listen to  *)
(* device, link and host events and run every configuration task on the   *)
(* single-thread executor of MainComponent.                                *)
(*                                                                         *)
(* A listener runs on the event dispatcher's thread: it looks at the       *)
(* mastership and the availability of the device at that moment and        *)
(* enqueues a task.  The task runs later, on the executor's thread, and    *)
(* reads the network configuration, the links and the hosts of that later  *)
(* moment.  An exception thrown by a task ends that task only.             *)
(***************************************************************************)
EXTENDS Naturals, Sequences, FiniteSets

CONSTANTS
    Devices,      \* the P4 switches (device:r1 ... device:r9)
    Ports,        \* switch port numbers
    LinkSet,      \* the unidirectional links that may exist: [src, dst, port]
    Hosts,        \* the hosts, each named by its MAC address
    Locations,    \* where a host may be attached: [dev, port]
    Comps,        \* the components deployed, some of AllComps
    InitConfig,   \* devices whose srv6DeviceConfig is known at the start
    InitIfaces,   \* devices whose port interfaces are known at the start
    UdxDevices,   \* devices whose srv6DeviceConfig names a uDX SID
    Udx4Devices,  \* devices whose srv6DeviceConfig names a uDX4 SID
    Roaming,      \* devices whose mastership may move to another ONOS node
    Movable,      \* hosts that may move or leave
    MaxChanges    \* bound on the number of changes of the network

AllComps == {"ipv6", "srv6", "l2", "ndp"}

ASSUME ControllerAssumption ==
    /\ LinkSet \subseteq [src: Devices, dst: Devices, port: Ports]
    /\ Locations \subseteq [dev: Devices, port: Ports]
    /\ Comps \subseteq AllComps
    /\ InitConfig \subseteq Devices
    /\ InitIfaces \subseteq Devices
    /\ UdxDevices \subseteq Devices
    /\ Udx4Devices \subseteq Devices
    /\ Roaming \subseteq Devices
    /\ Movable \subseteq Hosts
    /\ Devices \cap Hosts = {}
    /\ MaxChanges \in Nat

None == "none"

VARIABLES
    (* The network, as the ONOS stores know it *)
    avail,        \* devices with an open stream channel and a pipeline
    master,       \* devices this ONOS node is the master of
    config,       \* devices whose srv6DeviceConfig can be read
    ifaces,       \* devices whose port interfaces can be read
    links,        \* the links discovered
    hosts,        \* the hosts known: [host, loc], one location for each
    changes,      \* number of changes of the network so far
    (* Events waiting for the dispatcher, in the order they were posted *)
    devEvents,    \* [dev, to]: "to" are the components not yet notified
    linkEvents,   \* links added
    hostEvents,   \* [host, loc]: hosts added, with the location they had
    (* The application *)
    listening,    \* components whose listeners are registered
    timers,       \* components whose initial set-up is still to be enqueued
    queue,        \* tasks accepted by the executor
    run,          \* what is left of the task the executor's thread runs
    (* What the application has asked the ONOS stores for *)
    flows,        \* flow rules [dev, table, match, action]
    groups        \* devices with the L2 multicast group

network == <<avail, master, config, ifaces, links, hosts, changes>>
events == <<devEvents, linkEvents, hostEvents>>
app == <<listening, timers, queue, run>>
stores == <<flows, groups>>
vars == <<network, events, app, stores>>

-----------------------------------------------------------------------------
(* Flow rules.  The ONOS store identifies a rule by device, table, match   *)
(* and priority (every rule here has the same one): applying a rule        *)
(* replaces the one with its identity, whatever that one's action was.     *)

Tables == {"l2_firewall", "unicast", "multicast", "srv6_localsid_table",
           "ndp_reply_table"}
Matches == Devices \cup Hosts \cup
           {"uN/48", "uN/64", "uDX/64", "uDX4/64", "broadcast", "33:33", "ifaceIp"}
Actions == Devices \cup Ports \cup
           {"NoAction", "srv6_usid_un", "srv6_end", "srv6_end_dx6",
            "srv6_end_dx4", "set_multicast_group"}
Rule == [dev: Devices, table: Tables, match: Matches, action: Actions]

SameRule(r, s) == r.dev = s.dev /\ r.table = s.table /\ r.match = s.match

ApplyFlowRules(store, rules) ==
    {r \in store : \A s \in rules : ~SameRule(r, s)} \cup rules

NewRule(d, table, match, action) ==
    [dev |-> d, table |-> table, match |-> match, action |-> action]

(* l2_firewall matches the device's own myStationMac. *)
StationRules(d) == {NewRule(d, "l2_firewall", d, "NoAction")}

(* The unicast table, keyed by MAC, is shared by the next-hop rules of     *)
(* IPv6 routing and by the hosts L2 bridging learns.                       *)
L2NextHopRules(l) == {NewRule(l.src, "unicast", l.dst, l.port)}
HostRules(h, loc) == {NewRule(loc.dev, "unicast", h, loc.port)}

MyUSidRules(d) ==
    {NewRule(d, "srv6_localsid_table", "uN/48", "srv6_usid_un"),
     NewRule(d, "srv6_localsid_table", "uN/64", "srv6_end")}
    \cup {NewRule(x, "srv6_localsid_table", "uDX/64", "srv6_end_dx6") : x \in UdxDevices \cap {d}}
    \cup {NewRule(x, "srv6_localsid_table", "uDX4/64", "srv6_end_dx4") : x \in Udx4Devices \cap {d}}

MulticastFlowRules(d) ==
    {NewRule(d, "multicast", m, "set_multicast_group") : m \in {"broadcast", "33:33"}}

NdpReplyRules(d) == {NewRule(d, "ndp_reply_table", "ifaceIp", d)}

-----------------------------------------------------------------------------
(* Setting up one device for one component: whether it throws, and what it *)
(* asks for when it does not.                                              *)

SetUpThrows(c, d) == c # "l2" /\ d \notin config

SetUpRules(c, d) ==
    CASE c = "ipv6" -> StationRules(d)
      [] c = "srv6" -> MyUSidRules(d)
      [] c = "l2"   -> MulticastFlowRules(d)
      [] c = "ndp"  -> IF d \in ifaces THEN NdpReplyRules(d) ELSE {}

SetUpDevice(c, d) ==
    /\ flows' = ApplyFlowRules(flows, SetUpRules(c, d))
    /\ groups' = IF c = "l2" /\ d \in ifaces THEN groups \cup {d} ELSE groups

(* Mutated form of ConnectedHosts: setUpAllDevices sets up the device and no host. *)
ConnectedHostsForgotten(d) == {}

EgressLinks(d) == {l \in links : l.src = d}
ConnectedHosts(d) == {e \in hosts : e.loc.dev = d}

-----------------------------------------------------------------------------
(* Tasks of the executor, and the task it is running.                      *)

LearnedHost == [host: Hosts, loc: Locations]

Task == [kind: {"all"}, comp: Comps]
        \cup [kind: {"device"}, comp: Comps, dev: Devices]
        \cup [kind: {"nexthops"}, dev: Devices]
        \cup [kind: {"host"}, learned: LearnedHost]

SetUpAllTask(c) == [kind |-> "all", comp |-> c]
SetUpDeviceTask(c, d) == [kind |-> "device", comp |-> c, dev |-> d]
NextHopsTask(d) == [kind |-> "nexthops", dev |-> d]
LearnHostTask(e) == [kind |-> "host", learned |-> e]

Doing(c, ds, ls, hs) == [comp |-> c, devs |-> ds, links |-> ls, learn |-> hs]
Idle == Doing(None, {}, {}, {})
Running == [comp: AllComps \cup {None}, devs: SUBSET Devices,
            links: SUBSET LinkSet, learn: SUBSET LearnedHost]

TypeOK ==
    /\ avail \subseteq Devices
    /\ master \subseteq Devices
    /\ config \subseteq Devices
    /\ ifaces \subseteq Devices
    /\ links \subseteq LinkSet
    /\ hosts \subseteq LearnedHost
    /\ changes \in 0..MaxChanges
    /\ devEvents \in Seq([dev: Devices, to: SUBSET Comps])
    /\ linkEvents \in Seq(LinkSet)
    /\ hostEvents \in Seq(LearnedHost)
    /\ listening \subseteq Comps
    /\ timers \subseteq listening
    /\ queue \in Seq(Task)
    /\ run \in Running
    /\ run.devs # {} => run.comp \in Comps
    /\ flows \subseteq Rule
    /\ groups \subseteq Devices

Init ==
    /\ avail = {}
    /\ master = Devices
    /\ config = InitConfig
    /\ ifaces = InitIfaces
    /\ links = {}
    /\ hosts = {}
    /\ changes = 0
    /\ devEvents = <<>>
    /\ linkEvents = <<>>
    /\ hostEvents = <<>>
    /\ listening = {}
    /\ timers = {}
    /\ queue = <<>>
    /\ run = Idle
    /\ flows = {}
    /\ groups = {}

-----------------------------------------------------------------------------
(* The network changes (ONOS core and providers, external).                *)

Change == changes < MaxChanges /\ changes' = changes + 1

(* A device opens its stream channel and gets its pipeline. *)
DeviceUp(d) ==
    /\ Change
    /\ d \notin avail
    /\ avail' = avail \cup {d}
    /\ devEvents' = Append(devEvents, [dev |-> d, to |-> Comps])
    /\ UNCHANGED <<master, config, ifaces, links, hosts, linkEvents, hostEvents, app, stores>>

(* A device goes away: its links vanish, the host location provider        *)
(* forgets its hosts, and the same kind of event is posted.                *)
DeviceDown(d) ==
    /\ Change
    /\ d \in avail
    /\ avail' = avail \ {d}
    /\ links' = {l \in links : l.src # d /\ l.dst # d}
    /\ hosts' = {e \in hosts : e.loc.dev # d}
    /\ devEvents' = Append(devEvents, [dev |-> d, to |-> Comps])
    /\ UNCHANGED <<master, config, ifaces, linkEvents, hostEvents, app, stores>>

(* LLDP finds a link.  mininet/topo.py joins two routers by one link only, *)
(* which may be pulled and plugged into another port.                      *)
LinkAdded(l) ==
    /\ Change
    /\ l.src \in avail /\ l.dst \in avail
    /\ \A k \in links : k.src # l.src \/ k.dst # l.dst
    /\ links' = links \cup {l}
    /\ linkEvents' = Append(linkEvents, l)
    /\ UNCHANGED <<avail, master, config, ifaces, hosts, devEvents, hostEvents, app, stores>>

(* A link is removed.  The event is posted, and isRelevant refuses it. *)
LinkRemoved(l) ==
    /\ Change
    /\ l \in links
    /\ links' = links \ {l}
    /\ UNCHANGED <<avail, master, config, ifaces, hosts, events, app, stores>>

HostAdded(e) ==
    /\ Change
    /\ \A k \in hosts : k.host # e.host
    /\ e.loc.dev \in avail
    /\ hosts' = hosts \cup {e}
    /\ hostEvents' = Append(hostEvents, e)
    /\ UNCHANGED <<avail, master, config, ifaces, links, devEvents, linkEvents, app, stores>>

(* HOST_REMOVED and HOST_MOVED: isRelevant refuses both. *)
HostRemoved(e) ==
    /\ Change
    /\ e \in hosts /\ e.host \in Movable
    /\ hosts' = hosts \ {e}
    /\ UNCHANGED <<avail, master, config, ifaces, links, events, app, stores>>

HostMoved(e, to) ==
    /\ Change
    /\ e \in hosts /\ e.host \in Movable
    /\ to # e.loc /\ to.dev \in avail
    /\ hosts' = (hosts \ {e}) \cup {[e EXCEPT !.loc = to]}
    /\ UNCHANGED <<avail, master, config, ifaces, links, events, app, stores>>

(* make netcfg: no component listens to network configuration events. *)
ConfigPushed(d) ==
    /\ Change
    /\ d \notin config
    /\ config' = config \cup {d}
    /\ UNCHANGED <<avail, master, ifaces, links, hosts, events, app, stores>>

IfacesPushed(d) ==
    /\ Change
    /\ d \notin ifaces
    /\ ifaces' = ifaces \cup {d}
    /\ UNCHANGED <<avail, master, config, links, hosts, events, app, stores>>

MastershipMoved(d) ==
    /\ Change
    /\ d \in Roaming
    /\ master' = IF d \in master THEN master \ {d} ELSE master \cup {d}
    /\ UNCHANGED <<avail, config, ifaces, links, hosts, events, app, stores>>

-----------------------------------------------------------------------------
(* Activation: the listeners are registered, then setUpAllDevices is       *)
(* scheduled; the timer hands it to the executor INITIAL_SETUP_DELAY later.*)

(* Mutated form of Activate: the listeners are not registered. *)
ActivateUnregistered(c) ==
    /\ c \notin listening
    /\ timers' = timers \cup {c}
    /\ UNCHANGED <<network, events, listening, queue, run, stores>>

(* Mutated form of Activate: the initial set-up is not scheduled. *)
ActivateNoSetUp(c) ==
    /\ c \notin listening
    /\ listening' = listening \cup {c}
    /\ UNCHANGED <<network, events, timers, queue, run, stores>>

Activate(c) ==
    /\ c \notin listening
    /\ listening' = listening \cup {c}
    /\ timers' = timers \cup {c}
    /\ UNCHANGED <<network, events, queue, run, stores>>

TimerFires(c) ==
    /\ c \in timers
    /\ timers' = timers \ {c}
    /\ queue' = Append(queue, SetUpAllTask(c))
    /\ UNCHANGED <<network, events, listening, run, stores>>

-----------------------------------------------------------------------------
(* The dispatcher calls isRelevant and event of one listener after the     *)
(* other, the order of the listeners being unimportant but fixed.          *)

Enqueue(tasks) == queue' = queue \o tasks

(* Mutated form of Relevant: the availability test is inverted. *)
RelevantWhenDown(c, d) == c \in listening /\ d \in master /\ d \notin avail

(* isRelevant and the first test of event, for the listener of c. *)
Relevant(c, d) == c \in listening /\ d \in master /\ d \in avail

DeviceEvent ==
    /\ devEvents # <<>> /\ Head(devEvents).to # {}
    /\ LET e == Head(devEvents)
           c == CHOOSE x \in e.to : TRUE
       IN /\ devEvents' = <<[e EXCEPT !.to = @ \ {c}]>> \o Tail(devEvents)
          /\ Enqueue(IF Relevant(c, e.dev) THEN <<SetUpDeviceTask(c, e.dev)>> ELSE <<>>)
    /\ UNCHANGED <<network, linkEvents, hostEvents, listening, timers, run, stores>>

DeviceEventDone ==
    /\ devEvents # <<>> /\ Head(devEvents).to = {}
    /\ devEvents' = Tail(devEvents)
    /\ UNCHANGED <<network, linkEvents, hostEvents, app, stores>>

NextHopsIfMaster(d) ==
    IF "ipv6" \in listening /\ d \in master THEN <<NextHopsTask(d)>> ELSE <<>>

(* Mutated form of LinkEvent: only the far end of the link is configured. *)
LinkEventDstOnly ==
    /\ linkEvents # <<>>
    /\ Enqueue(NextHopsIfMaster(Head(linkEvents).dst))
    /\ linkEvents' = Tail(linkEvents)
    /\ UNCHANGED <<network, devEvents, hostEvents, listening, timers, run, stores>>

LinkEvent ==
    /\ linkEvents # <<>>
    /\ LET l == Head(linkEvents)
       IN Enqueue(NextHopsIfMaster(l.src) \o NextHopsIfMaster(l.dst))
    /\ linkEvents' = Tail(linkEvents)
    /\ UNCHANGED <<network, devEvents, hostEvents, listening, timers, run, stores>>

HostEvent ==
    /\ hostEvents # <<>>
    /\ LET e == Head(hostEvents)
       IN Enqueue(IF "l2" \in listening /\ e.loc.dev \in master
                  THEN <<LearnHostTask(e)>> ELSE <<>>)
    /\ hostEvents' = Tail(hostEvents)
    /\ UNCHANGED <<network, devEvents, linkEvents, listening, timers, run, stores>>

-----------------------------------------------------------------------------
(* The executor's thread.                                                  *)

Free == run.devs = {} /\ run.links = {} /\ run.learn = {}

Take(kind) == Free /\ queue # <<>> /\ Head(queue).kind = kind /\ queue' = Tail(queue)

(* setUpAllDevices of a component: the devices available when it starts.  *)
StartSetUpAll ==
    /\ Take("all")
    /\ run' = Doing(Head(queue).comp, avail, {}, {})
    /\ UNCHANGED <<network, events, listening, timers, stores>>

(* The task of a device event: mastership and availability were looked at  *)
(* when it was enqueued, not now.                                          *)
RunSetUpDevice ==
    /\ Take("device")
    /\ LET t == Head(queue)
       IN IF SetUpThrows(t.comp, t.dev) THEN UNCHANGED stores
          ELSE SetUpDevice(t.comp, t.dev)
    /\ run' = Idle
    /\ UNCHANGED <<network, events, listening, timers>>

(* The task of a link event: the links read are those of now. *)
StartNextHops ==
    /\ Take("nexthops")
    /\ run' = Doing("ipv6", {}, EgressLinks(Head(queue).dev), {})
    /\ UNCHANGED <<network, events, listening, timers, stores>>

(* The task of a host event: the location is the one the event carried. *)
RunLearnHost ==
    /\ Take("host")
    /\ LET e == Head(queue).learned
       IN flows' = ApplyFlowRules(flows, HostRules(e.host, e.loc))
    /\ run' = Idle
    /\ UNCHANGED <<network, events, listening, timers, groups>>

(* One device of setUpAllDevices.  A device that is gone or mastered       *)
(* elsewhere is skipped; one without configuration throws, and with the    *)
(* exception the rest of the task is lost.                                 *)
SetUpOneDevice ==
    /\ run.links = {} /\ run.learn = {}
    /\ \E d \in run.devs :
         \/ /\ d \notin avail \cap master
            /\ run' = Doing(run.comp, run.devs \ {d}, {}, {})
            /\ UNCHANGED stores
         \/ /\ d \in avail \cap master
            /\ SetUpThrows(run.comp, d)
            /\ run' = Idle
            /\ UNCHANGED stores
         \/ /\ d \in avail \cap master
            /\ ~SetUpThrows(run.comp, d)
            /\ SetUpDevice(run.comp, d)
            /\ run' = Doing(run.comp, run.devs \ {d},
                            IF run.comp = "ipv6" THEN EgressLinks(d) ELSE {},
                            IF run.comp = "l2" THEN ConnectedHosts(d) ELSE {})
    /\ UNCHANGED <<network, events, listening, timers, queue>>

(* One link of setUpL2NextHopRules: the next hop's MAC is in its           *)
(* configuration, without which the whole task is lost.                    *)
InstallNextHop ==
    /\ \E l \in run.links :
         \/ /\ l.dst \notin config
            /\ run' = Idle
            /\ UNCHANGED flows
         \/ /\ l.dst \in config
            /\ flows' = ApplyFlowRules(flows, L2NextHopRules(l))
            /\ run' = Doing(run.comp, run.devs, run.links \ {l}, run.learn)
    /\ UNCHANGED <<network, events, listening, timers, queue, groups>>

(* One host of setUpAllDevices of L2 bridging. *)
LearnConnectedHost ==
    /\ \E e \in run.learn :
         /\ flows' = ApplyFlowRules(flows, HostRules(e.host, e.loc))
         /\ run' = Doing(run.comp, run.devs, run.links, run.learn \ {e})
    /\ UNCHANGED <<network, events, listening, timers, queue, groups>>

-----------------------------------------------------------------------------
NetworkStep ==
    \/ \E d \in Devices : DeviceUp(d) \/ DeviceDown(d)
    \/ \E l \in LinkSet : LinkAdded(l) \/ LinkRemoved(l)
    \/ \E e \in LearnedHost : HostAdded(e) \/ HostRemoved(e)
    \/ \E e \in LearnedHost, to \in Locations : HostMoved(e, to)
    \/ \E d \in Devices : ConfigPushed(d) \/ IfacesPushed(d) \/ MastershipMoved(d)

DispatcherStep == DeviceEvent \/ DeviceEventDone \/ LinkEvent \/ HostEvent

ExecutorStep ==
    \/ StartSetUpAll \/ RunSetUpDevice \/ StartNextHops \/ RunLearnHost
    \/ SetUpOneDevice \/ InstallNextHop \/ LearnConnectedHost

LifecycleStep == \E c \in Comps : Activate(c) \/ TimerFires(c)

Next == NetworkStep \/ DispatcherStep \/ ExecutorStep \/ LifecycleStep

Spec == Init /\ [][Next]_vars

(* Karaf activates every component, timers fire, the dispatcher's and the  *)
(* executor's threads run; nothing is assumed of the network.              *)
Fairness ==
    /\ \A c \in Comps : WF_vars(Activate(c)) /\ WF_vars(TimerFires(c))
    /\ WF_vars(DeviceEvent \/ DeviceEventDone) /\ WF_vars(LinkEvent) /\ WF_vars(HostEvent)
    /\ WF_vars(ExecutorStep)

FairSpec == Spec /\ Fairness
-----------------------------------------------------------------------------
(* Properties.                                                             *)

Quiet ==
    /\ devEvents = <<>> /\ linkEvents = <<>> /\ hostEvents = <<>>
    /\ listening = Comps /\ timers = {} /\ queue = <<>> /\ Free

DeviceReady(c, d) ==
    /\ SetUpRules(c, d) \subseteq flows
    /\ c = "l2" /\ d \in ifaces => d \in groups

(* Once everything has settled, every device that is up has the rules of   *)
(* every component, however its coming and going interleaved with the      *)
(* activation of the components, their initial set-up and the queue.       *)
QuietDevicesReady ==
    Quiet => \A c \in Comps, d \in avail \cap master : DeviceReady(c, d)

(* Once everything has settled, the next-hop rule of every link carries    *)
(* the port the link has now, even if the cable was moved while a task     *)
(* holding the old set of links was running.                               *)
QuietPortsCurrent ==
    Quiet /\ "ipv6" \in Comps =>
        \A l \in links : l.src \in master => L2NextHopRules(l) \subseteq flows

(* Once everything has settled, every host that never moved is reachable   *)
(* through the port it is attached to.                                     *)
QuietHostsLearned ==
    Quiet /\ "l2" \in Comps =>
        \A e \in hosts : e.loc.dev \in master /\ e.host \notin Movable
            => HostRules(e.host, e.loc) \subseteq flows

(* A device that is up gets the rules of every component sooner or later,  *)
(* unless it goes away first.                                              *)
DevicesEventuallyReady ==
    \A c \in Comps, d \in Devices :
        d \in avail ~> DeviceReady(c, d) \/ d \notin avail

(* A link that stays gets its next-hop rule sooner or later.               *)
LinksEventuallyInstalled ==
    \A l \in LinkSet : l \in links ~> L2NextHopRules(l) \subseteq flows \/ l \notin links

(* The configuration of a device may come too late for its set-up, but     *)
(* once it is there a bounce of the device repairs everything: from any    *)
(* moment the device is down, configured and listened to, it has its rules *)
(* whenever things settle with the device up.                              *)
BounceRepairs ==
    \A c \in Comps, d \in Devices \ Roaming :
        [](/\ d \notin avail /\ d \in config \cap ifaces /\ c \in listening
           => [](Quiet /\ d \in avail => DeviceReady(c, d)))

NeighboursConfigured(d) == \A l \in LinkSet : l.src = d => l.dst \in config

(* A link may be reported before the configuration of the device at its    *)
(* other end, and next hops be lost with the task that throws.  Plugging   *)
(* the link again repairs it: from any moment the link is absent, every    *)
(* neighbour of its source configured and IPv6 routing listening, its      *)
(* next-hop rule has the port it has now whenever things settle with the   *)
(* link there.                                                             *)
ReplugRepairs ==
    \A l \in {k \in LinkSet : k.src \notin Roaming} :
        [](/\ l \notin links /\ NeighboursConfigured(l.src) /\ "ipv6" \in listening
           => [](Quiet /\ l \in links => L2NextHopRules(l) \subseteq flows))
=============================================================================
