# Verification of srv6-dmm

A TLA+ development beside the code of `srv6-dmm`, a demonstrator of a mobile
user plane over SRv6 micro-segments (uSID): nine P4 switches, an ONOS
application that programs them, the scripts that steer a 5G uplink to one of
two workers, and the 5G system whose traffic it carries: free5GC with its UPF and
SMF, and UERANSIM, which plays gNBs and UEs.

Paths below are relative to one of four places:

* `src/onos-mininet/P4-MUP-SRv6/`, the program of the fabric (its Java classes
  are in `app/src/main/java/org/onosproject/srv6_usid/`): the default;
* `upf/` is `src/manager_worker/free5gc/NFs/upf/internal/`;
* `smf/` is `src/manager_worker/free5gc/NFs/smf/`;
* `ueransim/` is `src/worker2/UERANSIM/src/`.

* [1. The system](#1-the-system)
* [2. Modules and how they correspond to the code](#2-modules-and-how-they-correspond-to-the-code)
* [3. Runs](#3-runs)
* [4. Assumptions and fairness](#4-assumptions-and-fairness)
* [5. Findings](#5-findings)
* [6. Proofs](#6-proofs)
* [7. What is not modelled](#7-what-is-not-modelled)
* [8. What could come next](#8-what-could-come-next)

## 1. The system

### Parts

| Part | State it keeps | Operations | Where |
|---|---|---|---|
| ONOS application: `MainComponent` | a single-thread executor; the flows and groups of a previous execution | hand out the executor, delay a task, clean up at activation and deactivation | modelled in part |
| `Ipv6RoutingComponent` | none of its own; rules `l2_firewall`, `unicast`, routing tables | device and link listeners, initial set-up, five route commands | modelled |
| `Srv6Component` | none; `srv6_localsid_table`, encapsulation tables | device listener, initial set-up, three commands | modelled |
| `L2BridgingComponent` | none; `unicast`, `multicast`, one group per device | device and host listeners, initial set-up | modelled |
| `NdpReplyComponent` | none; `ndp_reply_table` | device listener, initial set-up | modelled |
| `common/` helpers, `Srv6DeviceConfig` | the device configuration pushed with `make netcfg` | build rules and groups, read configuration | modelled as far as rules and reads go |
| CLI commands | none | one class per command | modelled |
| pipeconf: `PipelinerImpl` | the clone session of the objectives | `forward` | not modelled |
| pipeconf: interpreter, loader | none | packet-in and packet-out conversion, registration | not modelled |
| P4 program: `main.p4`, `parser.p4` | tables; the header memory of the software switch | parse, ingress, egress, deparse | modelled in part |
| Demonstrator: `mininet/topo.py`, `config/`, `run.sh`, `srv6_mup.sh` | links, SIDs, routes, rules | set up once | modelled as data |
| `anycast-sfc.sh` | one flag | poll the load, move the uplink | its rules are modelled, its loop is not |
| UPF: `upf/pfcp`, `upf/forwarder/perio` | associations, sessions by SEID, transactions, groups of periodic reports | PFCP requests and reports, expiry, the perio server and its tickers | modelled |
| SMF: `smf/pkg/association`, `smf/internal/sbi/producer`, `smf/internal/pfcp` | association state, SM contexts, requests | association loop, heartbeats, establishment to deletion, reports | its PFCP side is modelled |
| UERANSIM: `ueransim/ue`, `ueransim/gnb`, radio link to NAS | cells, RRC and mobility states; UEs and contexts of a gNB | cell selection, setup and release, registration, service request, local release | modelled for one UE |
| Rest of free5GC and UERANSIM, Mininet and Stratum wrappers, service manifests | | | environment |

### How they interact

The four components of the application register listeners with the ONOS core.
One **dispatcher** thread calls the listeners: a listener looks at the device's
mastership and availability *at that moment* and puts a task on the executor.
One **executor** thread, shared by all components, runs the tasks later, and
reads the configuration, the links and the hosts of *that later moment*. Each
component also asks at its activation for `setUpAllDevices` to be put on the
executor after a delay. A task that throws is lost and nothing retries it. The
components share the `unicast` table (next hops and hosts) and nothing else.

Rules go into ONOS's flow-rule store, where a rule replaces the one with the
same device, table, priority and match. ONOS brings each switch in line with the
store in its own time, table by table, and again after a switch restarts with
empty tables. Meanwhile the switches forward packets with whatever they have.

The UPF has one goroutine for everything PFCP: requests of SMFs, answers to its
own requests, session reports, and the end of transactions. PFCP runs over UDP,
and both sides repeat what is not answered. The perio server, its ticker
goroutines and the main loop hand each other events and reports through two
bounded channels; the main loop sends to the perio server *while* it handles a
request, and the perio server waits in `stopTicker` for a ticker that may itself
be waiting to send.

In UERANSIM every layer of the UE and of the gNB is a thread with a FIFO queue of
its own. The UE's link, RRC and NAS tasks each keep their own idea of the serving
cell and the connection; the gNB's link, RRC and NGAP tasks do so of the UE. No
message over the simulated radio is acknowledged or repeated.

### What is hard, and what makes each part correct

* *Interleaving of activation, timers, events and the queue*: a device or a link
  may come between the registration of a listener and the initial set-up, or
  change under a running task. Correct: once all has settled every device that
  is up has every component's rules, every link its present port, every host its
  location.
* *Failure of a task*: a missing configuration throws in the middle of a loop.
  Correct would be that the others are unaffected; the code does less (section
  5), and what remains true is that a bounce of the device, or a link that comes
  again, repairs it.
* *Distributed tables*: a rule or a pair of rules reaches switches at different
  times, with packets under way. Correct: a packet that was given a carrier of
  SIDs visits the routers of that carrier in order and leaves to the host behind
  the last one, or is lost.
* *Headers added by one router and taken off by another*: correct if a host
  receives what was sent to it, whatever route and encapsulation it took.
* *Hand-written routes* on nine routers: correct if no packet circles or ends in
  a switch for want of a route.
* *Identifiers that are given out again at once*: SEIDs, UE ids and sequence
  numbers come back while datagrams that name their former owner are under way.
  Correct: a request takes effect once, on the session it was made for.
* *Two sides that forget at different times*: an SMF and a UPF, a UE and a gNB
  crash, expire and release on their own. Correct: what one side thinks is in
  service is in service at the other, or they find out and start afresh.
* *Goroutines that wait for each other* through full channels: correct if the main
  loop always gets on and every periodic report comes.

`PROJECT.json` lists every such hazard at its line, with the properties that
would catch it, or the reason why none does yet.

## 2. Modules and how they correspond to the code

| Module | What it is |
|---|---|
| `Controller` | the ONOS application as a state machine |
| `MCController` | two devices, two hosts, one cable on either of two ports |
| `ControllerProofs` | type correctness of `Controller` |
| `ReadinessProofs` | five of its properties: devices ready, ports current, hosts learned, what a bounce and what a replugged cable repair |
| `Pipeline` | the P4 program as operators on packets |
| `SegmentPath` | abstract: what segment routing promises |
| `Fabric` | switches, links, packets, CLI commands; refines `SegmentPath` |
| `Deployment`, `MCDeployment` | the demonstrator's topology, routes and rules; what its hosts send |
| `MCFabric` | a fabric of four routers that exercises every command |
| `FabricProofs` | three theorems about `Fabric`: packets arrive whole, one hop across, solicitations |
| `UpfPfcp` | the PFCP server of the UPF and the SMFs that drive it; refines `SeidPool` |
| `SeidPool` | abstract: a SEID in use belongs to one session until that ends |
| `MCUpf` | one SMF for TLC |
| `UpfProofs` | four theorems about `UpfPfcp` |
| `OwnershipProofs` | three more: whose session a request finds |
| `PerioReports`, `MCPerio` | the perio server, its tickers, the main loop and their channels |
| `PerioProofs` | three theorems about `PerioReports` |
| `RadioLink`, `MCRadio` | one UE, its gNBs, the simulated radio, RRC and mobility management |
| `RadioProofs` | three theorems about `RadioLink` |
| `SetupProofs` | two more: what a setup carries, and that who is connected is served |

### Controller

State: what ONOS knows of the network (`avail`, `master`, `config`, `ifaces`,
`links`, `hosts`), the events posted and not yet dispatched (`devEvents`,
`linkEvents`, `hostEvents`), the application (`listening`, `timers`, `queue`, and
`run`, what is left of the running task) and what it has asked the stores for
(`flows`, `groups`).

| Action | Code |
|---|---|
| `DeviceUp`, `DeviceDown`, `LinkAdded`, ..., `MastershipMoved` | ONOS core and providers (external); each posts the events the components listen to, `LinkRemoved`, `HostRemoved` and `HostMoved` are refused by `isRelevant` |
| `Activate(c)` | `activate()` of a component: listeners registered, `scheduleTask(setUpAllDevices)` |
| `TimerFires(c)` | the timeout of `MainComponent.scheduleTask` |
| `DeviceEvent`, `LinkEvent`, `HostEvent` | `isRelevant` and `event` of the listeners, one listener per step for device events |
| `StartSetUpAll`, `SetUpOneDevice`, `InstallNextHop`, `LearnConnectedHost` | `setUpAllDevices` of each component, one device, link or host per step |
| `RunSetUpDevice`, `StartNextHops`, `RunLearnHost` | the tasks of the three kinds of events |

A rule is `[dev, table, match, action]`: the parameters that identify it and the
one that can differ. `SetUpThrows` is the exception of a configuration that is
not there; with it the rest of the task is gone, as in the code, whose loops are
not guarded.

### Pipeline, Fabric, Deployment

An address is a block and six 16-bit slots, all the program ever looks at; a
packet is the sequence of its headers. `Parse`, `Deparse` and one operator per
action and table follow `parser.p4` and `main.p4`; `Ingress` gives the *set* of
possible outcomes, because what an action reads from a header that is not valid
is not defined: bmv2 leaves what an earlier packet put there (`Leftovers`). As a
table key such a header reads as zero.

`Fabric` sends one packet and its copies at a time (packets share nothing but
`Leftovers`) through `tables`, while commands change `store`, `WriteTable` brings
one table of one switch in line with it, `Loss` takes a packet off a link and
`Restart` empties a switch. Each command is an action that updates the store as
the component's method does: `UAInsert` adds two rules in two tables, which a
switch may get in either order; `GTP4DRouteInsert` leaves the prefix out of the
match, as the code does; `Srv6Insert` matches the last segment and inserts the
others. What rule a command makes is an operator of its own (`Route`, `UARule`,
...), so that *Configurations*, at the end of the module, can say which tables and
commands the theorems are about.

`SegmentPath` is the abstract specification: a packet is given a path, moves,
visits the head of its path, may vanish, and leaves only to the host its path
ends with. `Fabric` maps its packet to it: the path is read off the SIDs left in
the carrier and the segment routing header (`Remaining`).
`FollowsItsPath == Promise!Spec` is checked as a property.

`Deployment` holds the tables that the scripts and the configuration install.
Ports are numbered in the order of `topo.py`'s `addLink` calls.

### UpfPfcp, SeidPool

The UPF: the session slots and free list of `LocalNode` (`slots`, `free`), the
associated nodes and the SEIDs each lists (`rnodes`, `sess`), the receive and
transmit transactions (`rx`, `tx`), the report channel (`reports`). Each SMF: its
association goroutine (`asc`, `seen`), its SM contexts (`ctx`) and the requests it
waits for (`pend`).

| Action | Code |
|---|---|
| `SetUpAssociation`, `Heartbeat`, `AllReleased`, `ReleaseOfUPF` | `smf/pkg/association/association.go` |
| `CreateContext`, `Modify`, `Release`, `RemoveContext` | the SBI handlers of `pdu_session.go` around their PFCP requests; the context's lock is held from the request to its end |
| `TakeAnswer`, `GiveUp` | the end of a request: answered, or repeated in vain |
| `HandleReport` | `HandlePfcpSessionReportRequest` |
| `HandleAssociation` ... `HandleDeletion` | the handlers of `upf/pfcp`, called when `RxTransaction.recv` says so |
| `Repeated`, `RxTimeout`, `TxTimeout` | transactions: a stored answer sent again, expiry |
| `NotifySessReport`, `ServeReport`, `HandleReportResponse` | reports, and what a rejected one deletes, through `RemoteSess`, which may panic |
| `Crash`, `Boot`, `SmfRestart` | either side starts with empty memory |

A datagram is never an object of its own. A request can arrive, again and again,
as long as its sender repeats it, so the UPF takes requests from `pend`; an answer
lost is one not taken before the request is given up. The rules of a session are
one number, that of the last modification.

`SeidsPooled` is the refinement: the owner of each SEID in use, read off `slots`,
behaves as `SeidPool` allows.

### PerioReports

One variable per thing that blocks or is shared: the events the main loop has
still to send (`todo`), the two channels (`evtCh`, `srCh`), the reports the perio
server has still to send (`left`), the ticker it waits for (`stopping`), and what
each ticker goroutine does. `LeaveGroup` keeps both conditions of the code: the
ticker is stopped when no URR is left, the group is forgotten when the *session*
has no URR left in it.

### RadioLink

The UE's link, RRC and NAS tasks with the four queues between them (`up`, `down`,
`toRrc`, `toNas`), the datagrams in flight per gNB, and the gNB's `m_stiToUe`,
`m_ueMap` and contexts. Random UE numbers are 1, 2, ...; time is counted in
heartbeats, with the thresholds of the code (a second against two). NAS security,
PDU sessions and the AMF's side are reduced to `ASKED`, `SERVED` and whether the
AMF answers.

## 3. Runs

Every run explores its whole state space. Deadlock is checked in the runs of
`PerioReports` and `RadioLink`, which never stop; the other systems come to rest
when the bounded changes, commands, packets and requests are used up.

| Run | Question | Bounds | States |
|---|---|---|---|
| `routing` | IPv6 routing: devices ready, ports current once quiet; both come about | 2 devices, 1 cable on either of two ports, 5 changes | 171 196 |
| `bridging` | L2 bridging: multicast rules, group and hosts right once quiet | 2 devices, 2 hosts, one of which may move, 5 changes | 902 922 |
| `late` | IPv6 routing: late configuration repaired by a bounce, or by plugging a link again | 2 devices, 1 cable on either of two ports, 6 changes | 872 518 |
| `delivery` | every kind of packet delivered whole, without loops, along its path | 9 routers, all flows, 1 command | 260 |
| `commands` | paths are followed while rules move, packets are lost, a router restarts | 4 routers, 4 commands, 1 restart, loss towards c | 458 330 |
| `upf` | requests act once, SEIDs keep their owner, both sides agree | 1 SMF, 4 requests and 2 contexts per run of it, 1 report, 1 restart of either side | 1 424 929 |
| `perio` | no goroutine blocks for ever, one ticker per period, every URR reported | 2 sessions of 2 URRs, 2 periods, channels of 4 and 1 | 135 105 |
| `radio` | procedures cut short at any message end well | 1 gNB, 2 outages | 242 358 |
| `reselection` | the UE's tasks agree on cells and the serving one | 2 gNBs, 1 outage | 1 838 068 |
| `stale_seid`, `lost_group`, `stranded` | section 5 | | a counterexample each |

*What they show, and why the bounds are enough.*

* `routing`: `QuietDevicesReady`, `QuietPortsCurrent` and, under fairness,
  `DevicesEventuallyReady` and `LinksEventuallyInstalled`. Five changes are two
  devices up, a cable plugged, pulled, and plugged into the other port, all while
  the component activates, its timer runs and tasks with old links are in the
  queue. Next hops matter at one end only, so the cable is modelled at that end.
* `bridging`: `QuietDevicesReady`, `QuietHostsLearned`. Five changes let a host be
  learned on one port, its device bounce, and the host come back on the other,
  with the task of the first event still in the queue. Hosts that ONOS reports
  as *moved* are excluded by the property: the code refuses that event.
* `late`: `BounceRepairs`, `ReplugRepairs`. r2's configuration is not there at the
  start, and its mastership moves; the promises are for r1. The initial set-up may
  throw at r2 before it comes to r1, and the task of the link to r2 throws too.
  From the moment r1 is down, configured and listened to, it has the rules of its
  set-up whenever all is quiet and it is up again (`BounceRepairs`; it says nothing
  of next hops). From the moment the link is absent and r2 is configured, its next
  hop is on the port it has whenever all is quiet and it is there
  (`ReplugRepairs`). Six changes are both devices up, the cable plugged and its
  next hop lost, the configuration pushed, the cable pulled and plugged, on the
  other port if need be.

The components share nothing but the executor and the `unicast` table, so the runs
take them apart. SRv6 and NDP reply have no run of their own: each is a device
listener and an initial set-up, which for IPv6 routing `routing` and `late` check;
the theorems (section 6) are about the four of them together, and about `ipv6` and
`l2` sharing `unicast`.

* `delivery`: `ArrivesWhole` (the headers the fabric added are gone, the rest is
  there), `FabricIsOneHop` (hosts see at most one decrement),
  `SolicitationsStay`, `NoBlackHole`, `PacketsLeave`, `FollowsItsPath`. The state
  space is small because each packet has one way to go; the run covers every flow
  the configuration is for, tunnelled uplink, downlink, plain IPv4 and IPv6 and
  neighbour solicitations, over all nine routers, before, during and after the
  uplink is steered.
* `commands`: `FollowsItsPath`, `ArrivesWhole` with the uA cross-connect,
  two-carrier encapsulation with an SRH, and the GTP-U encapsulation set up by
  hand, in any order, while b may restart with empty tables and c's link loses
  packets. A packet end to end takes at most three commands (the downlink: the
  encapsulation at d, the tunnel's SID and the route to u at a); the fourth is a
  `clear`, a changed route or a second encapsulation while it is on its way.
* `upf`: `SeidsPooled`, `SeidTable`, `AtMostOnce`, `OwnSession`, `ContextsServed`,
  `CleanStart`. Four requests are an association, two establishments and a
  deletion or modification, after which the freed SEID is given out again; with a
  restart of the SMF there are two such rounds, with one of the UPF two tables (the
  theorems allow any number of both).
  What one SMF does to another is in the theorems, which hold for any number.
* `perio`: `GroupsCurrent`, `OneTicker`, and under fairness `MainGetsThrough` and
  `Reported`. Channels of 4 and 1 stand for 512 and 128: the URRs of both sessions
  and the tickers fill the first, one report the second, so that the main loop and
  the perio server do wait for each other. With 3 places for events TLC finds the
  deadlock that section 4 describes.
* `radio`: `ConnectedIsServed`, `SetupCarriesNas`, `Reconnects`. Two outages cut
  the first attempt and the repetition of it, each at any message.
* `reselection`: `CellsAgree`, `ServingIsCurrent`, `ConnectedIsServed`. The nearer
  gNB wins the UE over while it is idle; the outage takes away the farther one
  before, while or after that.

Every property of a passing run has a mutant in `PROJECT.json`, a change of one
definition as a bug in that code would make, under which TLC finds the property
violated.

The bounds are constants: `MaxChanges`, `MaxCommands`, `MaxRestarts`, `MaxSeq`,
`MaxCtx`, `MaxReports`, `MaxRetrans`, `EvtLen`, `ReportLen`, `MaxOutages`; TTLs are modulo `HopModulus`.

## 4. Assumptions and fairness

Some properties hold only while the code's surroundings behave. Each such
assumption is a constant of the module, true in the passing runs; where it is
realistic to drop it, a run of section 5 does.

| Constant | What it says | Without it |
|---|---|---|
| `EarlyConfig` (a definition over constants) | configuration precedes the devices, mastership stays | tasks throw and are lost; `late` shows what remains true |
| `WindowCovers` | the UPF remembers a request as long as the SMF repeats it (both are configured, separately) | a repeated establishment makes a second session |
| `SlowRestart` | an SMF stays away until the UPF has forgotten its last run's requests, and the sessions it left have nothing to report | sequence numbers start at 1 again, and the first requests get old answers |
| `UseAfterRelease` = FALSE | a context is not used again after a deletion was given up | finding `stale_seid` |
| `OnePerPeriod` | no two sessions measure over the same period (see below) | finding `lost_group` |
| `SlowTicks` | a period is longer than the handling of one tick | reports of one period pile up |
| `FewRequests` | the perio server keeps up with the SMF's requests | `evtCh` fills, and `stopTicker` waits for a ticker that waits for room: all three stop. With channels of 3 and bursts of requests TLC finds that deadlock; with 512 places it takes 512 requests in a burst |
| `OutagesWhileServed` = FALSE | a link fails only before the gNB serves the UE, or while it has no context of it | finding `stranded` |

`OnePerPeriod` says more than it seems to. The SMF gives every session the one period
of its configuration (`smf/internal/context/sm_context.go:285`,
`smf/internal/context/datapath.go:358-361`), so the assumption is false as soon as
`urrPeriod` is set and two sessions are there at once: of that, only the finding
`lost_group` speaks, and neither `perio` nor the theorems under `OnePerPeriod` do. In
the shipped configuration `urrPeriod` is commented out
(`src/manager_worker/free5gc/config/smfcfg.yaml:92`), and no session is measured.

*Fairness.* `Controller.FairSpec`: weak fairness of `Activate` and `TimerFires` of
each component (Karaf activates every component, `SharedScheduledExecutors` fires
every timeout), of the dispatcher for each kind of event, and of the executor's
thread (a running thread with work does it). Nothing is assumed of the network.
`Fabric.FabricFairSpec`: weak fairness of `Forward` (a switch processes what it
received) and of `WriteTable` (ONOS reconciles switches with its store
periodically). Commands, losses and restarts are never forced.
`PerioReports.Fairness`: weak fairness of each goroutine (Go schedules whoever can
run), and strong fairness of the main loop's `ServeReport`: its `select` chooses
at random among what is ready, so a report that waits is taken however many
requests come. `RadioLink.Fairness`: weak fairness of every task and timer; a link
comes back; the AMF answers; neither outages nor releases are forced. T3510 and
T3517 have strong fairness: they run on for many heartbeats, and in the model each
heartbeat disables them for a while.

## 5. Findings

Three places where the code does not do what its text says; each is a run that
finds the counterexample.

| Run | The text | What happens |
|---|---|---|
| `stale_seid` | `smf/internal/pfcp/message/send.go:266-269` checks that a modification is answered for the SEID it was made for | the answers to a deletion are lost, the SMF makes the context active again (`pdu_session.go:771`), the UPF has given the SEID to another session (`upf/pfcp/node.go:662`) and looks sessions up by SEID alone: the next modification or deletion hits the other session |
| `lost_group` | `upf/forwarder/perio/server.go:159`: "Stop ticker if no more PERIO URR" | the group is forgotten when *one* session has no URR left in it (`:166`); the URRs of others are never reported again and their ticker runs on without a group |
| `stranded` | `ueransim/gnb/rrc/handler.cpp:97-105`, which nobody calls: notify NGAP, delete the RRC context | the link layer of a gNB forgets a UE and only logs it (`gnb/rls/task.cpp:56`); the UE comes back under the same id, for which RRC discards every setup request (`connection.cpp:48`) |

Other disagreements met on the way, which the models show but no run is spent on:

* `Ipv6RoutingComponent.java:591-600`: the set-up of "all devices known" stops at
  the first without configuration, as the lambda throws out of the loop;
  `:236-238` and `:339`: a link found before its next hop's configuration is not
  installed, until the next link event or initial set-up of its source
  (`ReplugRepairs` shows that its own next link event does).
* `L2BridgingComponent.java:145-186`: a device without host-facing ports gets the
  rules that use the multicast group, and no group.
* `srv6_mup.sh:16` sets up "h1a to h2a or h3a"; `route-gtp4d-insert` leaves its
  prefix out of the match, so the last command takes all tunnels.
* `main.p4:603-604`: `srv6_end` on a packet without an SRH makes the destination
  what an earlier packet left in the header memory; `main.p4:589`: the drop of a
  packet with hop limit zero is overridden by the output port set afterwards;
  `main.p4:386`: a GTP-U message without a user packet loses its headers.
* `config/netcfg.json:191` gives h2's interface to a port that `topo.py` connects
  to r9.
* `MainComponent.java`: the wait for the clean-up of a previous execution gives up
  after ten rounds, and groups go one second after the rules that use them.
* The UPF answers an establishment of an unknown node not at all
  (`upf/pfcp/session.go:30-34`), stores a transaction for it all the same, and
  counts its own sequence numbers past the 24 bits the header has room for.
* With several SMFs, a UPF that was started again gives out the SEIDs of its last
  run from the first one on, and looks a session up by its SEID alone: a
  modification that one SMF still repeats can hit the session another SMF has just
  made. With one SMF its own association loop ends its contexts first. This is why
  the theorems about `OwnSession` assume `Kept` (section 6).

## 6. Proofs

*The controller.* The theorems hold for every set of devices, ports, links, hosts and
components, for any bound on the changes, under `ControllerAssumption`: links
and locations are on devices, components are among the four, MAC addresses of
devices and hosts differ.

* `ControllerProofs!Typing`: `Spec => []TypeOK`. Inductive as it stands, one step
  per action.
* `ReadinessProofs!DevicesReady`: `Spec => []QuietDevicesReady` when
  `EarlyConfig`, that is, when configuration and interfaces are known from the
  start and mastership does not move. The findings show that the first cannot be
  dropped. `QuietDevicesReady` speaks of quiet states only, so it is not
  inductive. The invariant is `DevicesAccountedFor`: for every component and
  every device that is up, the device is ready or its set-up is still *pending*:
  the component is not listening or its timer has not fired, an event that
  announces the device has not reached its listener, a task is in the queue, or
  the running task has the device before it. Each step hands the device from one
  of these to the next: the dispatcher finds it up and mastered
  (`AccountedDispatcher`), the timer enqueues the initial set-up
  (`AccountedLifecycle`), the executor takes a task or finishes the device
  (`AccountedExecutor`), and what is ready stays so because rules with the same
  identity agree (`RulesAgree`, `ReadyStays`). When nothing is in flight nothing
  is pending (`AccountedQuiet`).
* `ReadinessProofs!PortsCurrent`: `Spec => []QuietPortsCurrent` under
  `EarlyConfig`. Here rules with the same identity do *not* agree: a task may hold
  a link that has been replaced, and put back its port. `LinksAccountedFor` says
  that every link is pending, or it is *covered*: no other link between the same
  devices is left in the running task (`Fresh`), and its rule is installed or the
  link itself is still to be done. That no two links join the same devices at a
  time, and that the ends of a link are up (`LinksSound`), is proved with it. Host
  rules cannot disturb next hops because the MAC addresses differ
  (`NextHopRuleKept`).
* `ReadinessProofs!HostsLearned`: `Spec => []QuietHostsLearned` when mastership
  does not move; configuration may come late. L2 bridging overwrites a host's
  rule with whatever location it is told, and a location that is out of date may be
  in an event, in a task of the queue, or in what the running task has read of the
  host store (the device went down and the host was found at another port).
  `HostsAccountedFor` says that each of them is *followed* by the location the host
  has now: `Superseded` looks for it further back in the same queue, or in the one
  behind it. And until the rule of that location is installed, the location or a
  set-up that will read it is on its way (`HostPending`). That a component that
  does not listen yet has no tasks is needed too (`BridgeSound`): an event nobody
  listens to is lost, and must not have been what others rely on.
* `ReadinessProofs!BouncesRepair`: `Spec => BounceRepairs`, without `EarlyConfig`.
  Exceptions may end any task that sets up all devices, so nothing is expected of
  it; `Bounced` counts on the event of the device and the task the event becomes only
  (`Heard`), and that task does not throw, as configuration is never taken back.
  Next hops are not part of it: a device event does not set them up.
* `ReadinessProofs!ReplugsRepair`: `Spec => ReplugRepairs`, without `EarlyConfig`
  either. `Replugged` counts on the event of the link and the task of its source
  only (`NextHopsHeard`), with `Fresh` and `LinksSound` as in `PortsCurrent`. That
  task, or an initial set-up, may still be lost while it runs, but not while it
  holds the link: what a task holds are the links of one device (`OneSource`), and
  the neighbours of the link's source are all configured.

Sequences are reasoned about through `Elements`, the set of a sequence's
elements, and four lemmas on how concatenation, `Append` and `Tail` change it.

*The UPF.* All under `PfcpAssumption` (bounds are numbers, `Nil` and `NoAnswer`
are neither sessions, answers nor reports under way), for any number of SMFs, requests, contexts,
reports and restarts:

* `UpfProofs!Typing`: `Spec => []TypeOK`. It is inductive only together with
  `RequestsNamed`: the F-SEID of an establishment is one of its SMF's, as it
  becomes the F-SEID of a session.
* `UpfProofs!ExecutedOnce`: `Spec => []AtMostOnce` when `WindowCovers`. `OnceInv`
  says where a request under way stands: its number has been given out, and it has
  not been executed or the UPF still has its transaction. `RxTimeout` is the one
  step that needs the assumption.
* `UpfProofs!TableConsistent`: `Spec => []SeidTable`, inductive as it stands with
  the types. `SeidSteps` first sorts all actions by what they do to SEIDs: nothing,
  all of a node's deleted, one deleted, one taken, one modified, or a new table.
  `FreeListDeleted` (sessions that are there come on the free list, in any order,
  where they were not) and `SeidPlaced` (a SEID taken from the end of the list, or
  a new slot) carry it.
* `UpfProofs!SeidsKeepOwners`: `Spec => SeidsPooled`, the refinement. Each sort of
  step is one of `SeidPool`, or leaves the owners as they are; that a SEID taken
  from the free list has no owner is `SeidTable`.
* `OwnershipProofs!CleanStarts`: `Spec => []CleanStart` when `SlowRestart`.
* `OwnershipProofs!RequestsFindTheirSession` and `ContextsAreServed`:
  `Spec => [](Kept => OwnSession)` and `Spec => [](Kept => ContextsServed)` when
  `WindowCovers`, `SlowRestart` and `~UseAfterRelease`; `Kept` says that the UPF is in
  its first run or that there is one SMF. Without it the first is false (section 5).
  Both run on the same invariant, `OwnInv`. `Local(n)` is what node `n` and its SMF
  keep of each other whatever the others do: a number not given out names nothing,
  a request under way is what its context asked, an answer stored or accepted is the
  answer to what was asked. `Shared(n)`, under `Kept`, is about the table all SMFs
  share: what an answer that may still reach the SMF (`Sent`) says of the table is
  true, a context that is active, or about to be, owns the session it names
  (`SafeOwned`, `GrantsOwned`), and a report is refused only for a context that has
  ended (`Reported`). `SmfStep` first says what each action of an SMF does to its
  requests; `SessionAfter` and `SessionEnds` what a step of the UPF does to a session.
  TLC checked the whole invariant before it was proved: with one SMF on the bounds
  of `upf` and with two restarts of either side, with two SMFs on part of the state space.

*The data plane.* Under `FabricAssumption`, for any topology, tables and commands in
any order, with rules that reach the switches late, losses and restarts:

* `FabricProofs!SolicitationsAreKept`: `FabricSpec => []SolicitationsStay` under
  `SolicitationsAnswered`: hosts ask the router they are connected to for an address
  it answers for, and that router does not restart. The invariant `Kept` says where
  the rules of a table come from (the start, or a command), and so that nothing takes
  away an answer; `Asked`, that a solicitation has not left the first switch. The
  lemmas follow it through the whole of `Ingress`: `ndp_ns_to_na` comes first, and the
  rest of the pipeline must not undo the port it has set.
* `FabricProofs!OneHopAcross`: `FabricSpec => []FabricIsOneHop` under `Carries4`:
  every rule at the start or of a command is `Sensible`, and the carriers of IPv4
  packets `Goes` well. That says what the scripts must not get wrong: a switch answers
  to its own MAC address and no rule sends another switch's to a host, a carrier of
  IPv4 packets is routed to switches only and is not taken for an IPv6 packet on its way
  (`srv6_end`, `srv6_end_dx6`, a second encapsulation), IPv4 routes lead to hosts, and
  no IPv6 rule matches the zero address, which is what the key of a header that is not
  there reads as. The invariant `OneHop` says that a packet is as it was sent, or is
  carried, its TTL as sent, or is out, decremented once and addressed to a MAC of no
  switch (`Sent`). The hop limit of the carrier and the order of the switches do not
  matter.
* `FabricProofs!WholeOnArrival`: `FabricSpec => []ArrivesWhole` under `ConveysAll`, for
  IPv4 and IPv6 packets and packets in a gNB's tunnel alike. `ConveysAll` says of each
  flow that every carrier it may be given ends, if it ends, with an action that leaves the
  packet as its host expects it: no header at all after dx4, a tunnel after gtp4_e; a
  tunnel is not put into another; `srv6_end`, which reads the SRH, is met only by
  carriers that have one. The invariant `AllWhole` follows each sort of packet
  (`Whole4`, `WholeTunnel`, `Whole6`) from host to host: as sent, in a carrier with
  nothing of what is inside changed but its hop limit, or on its way from the last
  switch with a MAC of no switch. It needs that last part: the packet is taken out one
  step before it arrives. TLC checked `AllWhole` on both configurations first.

The two share their lemmas. One goes up the pipeline from the parser (`ParseCarried` and
the like: which headers it finds in a packet of each form) over the SIDs
(`CarrierGoesOn`, `CarrierEnds`), the encapsulations (`CarrierGiven`,
`TunnelThroughLayer3`, `Given6`) and the next hop to the deparser (`Deparsed4`), and each
packet of one of the forms leaves in one of the forms. That an address shifted at every
switch stays among those `Goes` speaks of is a lemma on `ShiftSids` (`ShiftedAgain`).
The rules that apply change between two switches: a table holds rules of the start or of
commands at any time (`Kept`), and the assumptions are about all of them.

The assumptions are facts about configurations, not about runs. TLC evaluates them
for the deployed tables and for those of `commands` (`SensibleConfiguration`).

*The perio server.* Under `PerioAssumption` (channels have room for one thing at
least, `None` is no period and no ticker), for any sessions, URRs, periods, tickers
and channel sizes:

* `PerioProofs!Typing`: `Spec => []TypeOK`, and with it that neither channel holds
  more than it has room for.
* `PerioProofs!TickersSingle` and `PerioProofs!GroupsFollow`: `Spec => []OneTicker`
  and `Spec => []GroupsCurrent` when `OnePerPeriod`; the finding `lost_group` shows
  that the assumption cannot be dropped. The two need each other. `PerioInv`
  follows every URR through the event channel: `At(i, u, p)` says that event `i`
  enters `u` into the group of `p`, and position 0 is the group itself. A URR the
  kernel does not have with that period is removed further on (`Leaving`), one it
  has is entered and not removed after that (`Entered`), and between two entries
  that would put two sessions in a group, or a URR in two, the first is removed
  (`Apart`). Sending appends a position (`GroupedSentAdd`, `GroupedSentDel`),
  receiving shifts all of them by one (`GroupedTaken`, `GroupedRemoved`). So a
  group only ever has URRs of one session (`Alone`), the two conditions of
  `LeaveGroup` are the same (`Leaves`), and a group is forgotten exactly when its
  ticker is stopped (`Ticking`).

*The radio link.* Under `SignalAssumption` (finitely many gNBs, whose signals have
negative strengths in dBm) and the bound on outages, for any number of gNBs and outages,
and but for the last theorem whether the UE is served when they come or not:

* `RadioProofs!Typing`: `Spec => []TypeOK`, inductive with `Audible`, that RRC only
  knows cells with a signal strength: cell selection picks the strongest.
* `RadioProofs!CellsConsistent`: `Spec => []CellsAgree`. The UDP task tells RRC of
  signals through `up`. `CellsTold` says that the last signal of a cell in that queue
  tells whether the UDP task has the cell, and RRC knows it if there is none;
  `LostIsGone`, that the id of a lost cell is never given to another.
* `RadioProofs!ServingFollows`: `Spec => []ServingIsCurrent`. `ServingTold` looks
  at the assignments in `down`: the last is of the current cell, and without any the
  control task serves it or a cell that is lost.
* `SetupProofs!SetupsCarryNas`: `Spec => []SetupCarriesNas`. `RrcConnectionSetup`
  is accepted by RRC in any state, and takes the NAS message that waits, so a second
  setup for one request would complete with nothing. `SetupInv` shows that there is
  none. A setup is one message on its way round (`Token`): from the gNB that waits for
  its completion, by way of the radio and the UE's queues, and back (`OneSetup`); the
  gNB discards requests meanwhile. While a setup is asked for or made, RRC still has
  the NAS message, or is connected to a gNB that has been sent the completion before it
  reads a request again and does not release the UE (`Kept`). The number under which
  the gNB knows the UE changes only when no setup is asked for or made
  (`Releasing`, `Renumbering`), and no release follows a setup (`SetupLast`).
  TLC checked the invariant with one gNB and three outages on the whole state space
  (67 180 states), and with two gNBs on part of it.
* `SetupProofs!ConnectedServed`: `Spec => []ConnectedIsServed` when
  `~OutagesWhileServed`: the gNB does not tell a UE out of its reach that it no longer
  serves it, so a link that fails under a served UE breaks the property at once.
  `ConnectedIsServed` speaks of states without messages under way, so the invariant,
  `ServedInv`, on top of `SetupInv`, says where an attached UE stands with
  messages under way (`AttachedServed`): connected to a gNB within reach that has an
  NGAP context for its number (`Serves`), or that the completion of its setup is on the
  way to (`Completing`), or whose release is on the way to it (`ReleaseUnderWay`);
  or its cell is lost, or the local release already waits in RRC's queue. A gNB that
  serves the UE it is connected to, or that a completion is on the way to, has no
  release under way (`Unreleased`); the completion has not left a UE that is
  somewhere else (`CompletesAt`). The case that took a conjunct of its own is a setup
  that arrives late: RRC takes it in any state, so an attached UE must not be set up by
  a gNB whose link has gone (`SetupsLinked`).
  TLC checked the invariant with one gNB on the whole state space, and with two gNBs and two
  outages on ten million states and as many of random walks of depth 300.

*Model-checked only*: liveness (the prover does not do fairness), that is
`DevicesEventuallyReady`, `LinksEventuallyInstalled`, `PacketsLeave`,
`MainGetsThrough`, `Reported` and `Reconnects`; and of the data plane `NoBlackHole`, which is
about one set of tables, and the refinement `FollowsItsPath`: the path left is read off the carrier with
`SelectSeq`, of which the provers know no law and which no induction can give them.

## 7. What is not modelled

* In the application: clean-up at activation and deactivation, the
  interpreter and the loader (stateless conversions), invalid arguments of
  commands, JSON parsing, logging. Group buckets are the ports with interfaces.
* In the P4 program: ACL and the copies to the CPU, packet-in and packet-out,
  DSCP, UDP and TCP ports other than GTP-U's, lengths, checksums, flow labels,
  and the ECMP selectors that the tables have commented out. The drop of a packet
  with hop limit zero is modelled by what it does: the output port set afterwards
  overrides it.
* Bridges, VETH pairs, static ARP, Mininet and Stratum processes: environment.
* In the UPF: the PDRs, FARs and QERs of a session, buffered packets, the takeover
  of sessions by another node ID, the netlink drivers, shutdown. The count of URRs
  in `node.go:208` is a listed hazard without a property.
* In the SMF: SBI but for the requests it causes, charging, the choice among
  several UPFs and paths through several.
* In UERANSIM: security, session management, PLMN selection, mobility
  registration, deregistration, paging, barring, several UEs, and the unlocked maps
  of `udp_task.cpp` (a data race whose outcomes C++ does not define).
* The other network functions of free5GC, Kubernetes manifests, Mininet and
  Stratum: environment.

*Coverage.* Of some 460 000 lines, about nine tenths are generated or carried
along: UERANSIM's ASN.1 codecs (the largest files of the repository), fmt and
spdlog, and free5GC's OpenAPI models and handlers. They translate data and hold no
state. The map covers the program's own logic and the stateful core of the two
vendored systems, and is a small share of the repository for that reason.

## 8. What could come next

1. The clean-up of a previous execution (`MainComponent.java:89-108`, `150-190`)
   with deactivation and a slow switch: are flows always gone before their groups?
2. The polling loop of `anycast-sfc.sh:25-67` on top of the uplink's two paths.
3. The rules of a PFCP session: PDRs and the URRs they count (`node.go:208`), the
   packets buffered for a FAR, and the channel between netlink and main loop.
4. Several UEs in `RadioLink`, deregistration, and the AMF's side of NGAP.
5. Proofs: that every step of `Fabric` is one of `SegmentPath`.
