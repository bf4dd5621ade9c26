--------------------------- MODULE ControllerProofs ---------------------------
(***************************************************************************)
(* Theorems about Controller for every set of devices, links, hosts and    *)
(* components, and every bound on the changes of the network.              *)
(***************************************************************************)
EXTENDS Controller, SequenceTheorems, TLAPS

USE DEF None

(* What each set-up asks for is made of rules. *)
LEMMA RulesAreRules ==
    /\ \A c \in Comps, d \in Devices : SetUpRules(c, d) \subseteq Rule
    /\ \A l \in LinkSet : L2NextHopRules(l) \subseteq Rule
    /\ \A e \in LearnedHost : HostRules(e.host, e.loc) \subseteq Rule
<1>1. ASSUME NEW d \in Devices PROVE /\ StationRules(d) \subseteq Rule
                                     /\ MyUSidRules(d) \subseteq Rule
                                     /\ MulticastFlowRules(d) \subseteq Rule
                                     /\ NdpReplyRules(d) \subseteq Rule
  BY ControllerAssumption DEF StationRules, MyUSidRules, MulticastFlowRules, NdpReplyRules,
     NewRule, Rule, Tables, Matches, Actions
<1>2. ASSUME NEW c \in Comps, NEW d \in Devices PROVE SetUpRules(c, d) \subseteq Rule
  <2>1. c \in {"ipv6", "srv6", "l2", "ndp"}
    BY ControllerAssumption DEF AllComps
  <2>2. QED
    BY <1>1, <2>1 DEF SetUpRules
<1>3. ASSUME NEW l \in LinkSet PROVE L2NextHopRules(l) \subseteq Rule
  BY ControllerAssumption DEF L2NextHopRules, NewRule, Rule, Tables, Matches, Actions
<1>4. ASSUME NEW e \in LearnedHost PROVE HostRules(e.host, e.loc) \subseteq Rule
  BY ControllerAssumption DEF LearnedHost, HostRules, NewRule, Rule, Tables, Matches, Actions
<1>5. QED
  BY <1>2, <1>3, <1>4

LEMMA ApplyKeepsRules ==
    ASSUME NEW S, NEW R, S \subseteq Rule, R \subseteq Rule
    PROVE  ApplyFlowRules(S, R) \subseteq Rule
  BY DEF ApplyFlowRules

LEMMA TasksAreTasks ==
    /\ \A c \in Comps : SetUpAllTask(c) \in Task
    /\ \A c \in Comps, d \in Devices : SetUpDeviceTask(c, d) \in Task
    /\ \A d \in Devices : NextHopsTask(d) \in Task
    /\ \A e \in LearnedHost : LearnHostTask(e) \in Task
  BY DEF SetUpAllTask, SetUpDeviceTask, NextHopsTask, LearnHostTask, Task

-----------------------------------------------------------------------------
(* The types of the application's state are invariant.                     *)
LEMMA TypeInit == Init => TypeOK
  BY ControllerAssumption DEF Init, TypeOK, Idle, Doing, Running

LEMMA TypeNext == TypeOK /\ [Next]_vars => TypeOK'
<1> SUFFICES ASSUME TypeOK, [Next]_vars PROVE TypeOK'
  OBVIOUS
<1> USE DEF TypeOK
<1>1. CASE NetworkStep
  <2>1. ASSUME NEW d \in Devices, DeviceUp(d) PROVE TypeOK'
    BY <2>1, ControllerAssumption DEF DeviceUp, Change, app, stores
  <2>2. ASSUME NEW d \in Devices, DeviceDown(d) PROVE TypeOK'
    BY <2>2, ControllerAssumption DEF DeviceDown, Change, app, stores
  <2>3. ASSUME NEW l \in LinkSet, LinkAdded(l) PROVE TypeOK'
    BY <2>3, ControllerAssumption DEF LinkAdded, Change, app, stores
  <2>4. ASSUME NEW l \in LinkSet, LinkRemoved(l) PROVE TypeOK'
    BY <2>4, ControllerAssumption DEF LinkRemoved, Change, app, stores, events
  <2>5. ASSUME NEW e \in LearnedHost, HostAdded(e) PROVE TypeOK'
    BY <2>5, ControllerAssumption DEF HostAdded, Change, app, stores
  <2>6. ASSUME NEW e \in LearnedHost, HostRemoved(e) PROVE TypeOK'
    BY <2>6, ControllerAssumption DEF HostRemoved, Change, app, stores, events
  <2>7. ASSUME NEW e \in LearnedHost, NEW to \in Locations, HostMoved(e, to) PROVE TypeOK'
    <3>1. [e EXCEPT !.loc = to] \in LearnedHost
      BY DEF LearnedHost
    <3>2. hosts' \subseteq LearnedHost
      BY <3>1, <2>7 DEF HostMoved
    <3>3. changes' \in 0..MaxChanges
      BY <2>7, ControllerAssumption DEF HostMoved, Change
    <3>4. QED
      BY <2>7, <3>2, <3>3 DEF HostMoved, app, stores, events
  <2>8. ASSUME NEW d \in Devices, ConfigPushed(d) PROVE TypeOK'
    BY <2>8, ControllerAssumption DEF ConfigPushed, Change, app, stores, events
  <2>9. ASSUME NEW d \in Devices, IfacesPushed(d) PROVE TypeOK'
    BY <2>9, ControllerAssumption DEF IfacesPushed, Change, app, stores, events
  <2>10. ASSUME NEW d \in Devices, MastershipMoved(d) PROVE TypeOK'
    BY <2>10, ControllerAssumption DEF MastershipMoved, Change, app, stores, events
  <2>11. QED
    BY <1>1, <2>1, <2>2, <2>3, <2>4, <2>5, <2>6, <2>7, <2>8, <2>9, <2>10 DEF NetworkStep
<1>2. CASE DispatcherStep
  <2>1. CASE DeviceEvent
    <3> DEFINE e == Head(devEvents)
               c == CHOOSE x \in e.to : TRUE
               f == [e EXCEPT !.to = @ \ {c}]
    <3>0. devEvents \in Seq([dev: Devices, to: SUBSET Comps]) /\ devEvents # <<>>
      BY <2>1 DEF DeviceEvent
    <3>1. e \in [dev: Devices, to: SUBSET Comps] /\ Tail(devEvents) \in Seq([dev: Devices, to: SUBSET Comps])
      BY <3>0, HeadTailProperties
    <3>2. c \in Comps
      BY <2>1, <3>1 DEF DeviceEvent
    <3>3. SetUpDeviceTask(c, e.dev) \in Task
      BY <3>1, <3>2, TasksAreTasks
    <3>4. queue' = queue \o <<SetUpDeviceTask(c, e.dev)>> \/ queue' = queue \o <<>>
      BY <2>1 DEF DeviceEvent, Enqueue
    <3>t. <<SetUpDeviceTask(c, e.dev)>> \in Seq(Task) /\ <<>> \in Seq(Task)
      BY <3>3
    <3>5. queue' \in Seq(Task)
      <4> HIDE DEF e, c
      <4>1. QED
        BY <3>4, <3>t, ConcatProperties
    <3>6. f \in [dev: Devices, to: SUBSET Comps]
      BY <3>1
    <3>7. devEvents' = <<f>> \o Tail(devEvents)
      BY <2>1 DEF DeviceEvent
    <3>8. devEvents' \in Seq([dev: Devices, to: SUBSET Comps])
      <4> HIDE DEF f
      <4>1. QED
        BY <3>1, <3>6, <3>7, ConcatProperties
    <3>9. QED
      BY <2>1, <3>5, <3>8 DEF DeviceEvent, network, stores
  <2>9. CASE DeviceEventDone
    BY <2>9 DEF DeviceEventDone, network, app, stores
  <2>2. CASE LinkEvent
    <3>1. Head(linkEvents).src \in Devices /\ Head(linkEvents).dst \in Devices
      BY <2>2, ControllerAssumption DEF LinkEvent
    <3>2. \A d \in Devices : NextHopsIfMaster(d) \in Seq(Task)
      BY TasksAreTasks DEF NextHopsIfMaster
    <3>3. queue' \in Seq(Task)
      BY <2>2, <3>1, <3>2 DEF LinkEvent, Enqueue
    <3>4. QED
      BY <2>2, <3>3 DEF LinkEvent, network, stores
  <2>3. CASE HostEvent
    <3>1. Head(hostEvents) \in LearnedHost
      BY <2>3 DEF HostEvent
    <3>2. queue' \in Seq(Task)
      BY <2>3, <3>1, TasksAreTasks DEF HostEvent, Enqueue
    <3>3. QED
      BY <2>3, <3>2 DEF HostEvent, network, stores
  <2>4. QED
    BY <1>2, <2>1, <2>2, <2>3, <2>9 DEF DispatcherStep
<1>3. CASE ExecutorStep
  <2> USE DEF Running, Idle, Doing
  <2>1. CASE StartSetUpAll
    <3>1. Head(queue).comp \in Comps /\ Head(queue).comp \in AllComps
      BY <2>1, ControllerAssumption DEF StartSetUpAll, Take, Task
    <3>2. QED
      BY <2>1, <3>1 DEF StartSetUpAll, Take, network, events, stores
  <2>2. CASE RunSetUpDevice
    <3> DEFINE t == Head(queue)
    <3>1. t.comp \in Comps /\ t.dev \in Devices
      BY <2>2 DEF RunSetUpDevice, Take, Task
    <3>a. SetUpRules(t.comp, t.dev) \subseteq Rule
      BY <3>1, RulesAreRules
    <3>b. ApplyFlowRules(flows, SetUpRules(t.comp, t.dev)) \subseteq Rule
      BY <3>a, ApplyKeepsRules
    <3>c. \/ flows' = flows /\ groups' = groups
          \/ /\ flows' = ApplyFlowRules(flows, SetUpRules(t.comp, t.dev))
             /\ groups' \in {groups, groups \cup {t.dev}}
      BY <2>2 DEF RunSetUpDevice, SetUpDevice, stores
    <3>2. flows' \subseteq Rule /\ groups' \subseteq Devices
      BY <3>1, <3>b, <3>c
    <3>3. QED
      BY <2>2, <3>2 DEF RunSetUpDevice, Take, network, events
  <2>3. CASE StartNextHops
    <3>1. EgressLinks(Head(queue).dev) \subseteq LinkSet
      BY DEF EgressLinks
    <3>2. run' \in Running
      BY <2>3, <3>1 DEF StartNextHops, AllComps
    <3>3. QED
      BY <2>3, <3>2 DEF StartNextHops, Take, network, events, stores
  <2>4. CASE RunLearnHost
    <3>1. Head(queue).learned \in LearnedHost
      BY <2>4 DEF RunLearnHost, Take, Task
    <3>2. flows' \subseteq Rule
      BY <2>4, <3>1, RulesAreRules, ApplyKeepsRules DEF RunLearnHost
    <3>3. QED
      BY <2>4, <3>2 DEF RunLearnHost, Take, network, events
  <2>5. CASE SetUpOneDevice
    <3>1. PICK d \in run.devs :
            \/ /\ run' = Doing(run.comp, run.devs \ {d}, {}, {})
               /\ UNCHANGED stores
            \/ /\ run' = Idle
               /\ UNCHANGED stores
            \/ /\ SetUpDevice(run.comp, d)
               /\ ~SetUpThrows(run.comp, d)
               /\ run' = Doing(run.comp, run.devs \ {d},
                               IF run.comp = "ipv6" THEN EgressLinks(d) ELSE {},
                               IF run.comp = "l2" THEN ConnectedHosts(d) ELSE {})
      BY <2>5 DEF SetUpOneDevice
    <3>2. EgressLinks(d) \subseteq LinkSet /\ ConnectedHosts(d) \subseteq LearnedHost
      BY DEF EgressLinks, ConnectedHosts
    <3>3. run' \in Running
      BY <3>1, <3>2
    <3>4. flows' \subseteq Rule /\ groups' \subseteq Devices
      <4>1. CASE UNCHANGED stores
        BY <4>1 DEF stores
      <4>2. CASE SetUpDevice(run.comp, d) /\ run.comp \in Comps
        <5>1. SetUpRules(run.comp, d) \subseteq Rule
          BY <4>2, RulesAreRules
        <5>2. ApplyFlowRules(flows, SetUpRules(run.comp, d)) \subseteq Rule
          BY <5>1, ApplyKeepsRules
        <5>3. QED
          BY <4>2, <5>2 DEF SetUpDevice
      <4>3. run.devs # {} => run.comp \in Comps
        OBVIOUS
      <4>4. QED
        BY <3>1, <4>1, <4>2, <4>3
    <3>5. QED
      BY <2>5, <3>3, <3>4 DEF SetUpOneDevice, network, events
  <2>6. CASE InstallNextHop
    <3>1. PICK l \in run.links :
            \/ run' = Idle /\ UNCHANGED flows
            \/ /\ flows' = ApplyFlowRules(flows, L2NextHopRules(l))
               /\ run' = Doing(run.comp, run.devs, run.links \ {l}, run.learn)
      BY <2>6 DEF InstallNextHop
    <3>a. L2NextHopRules(l) \subseteq Rule
      BY RulesAreRules
    <3>b. ApplyFlowRules(flows, L2NextHopRules(l)) \subseteq Rule
      BY <3>a, ApplyKeepsRules
    <3>2. flows' \subseteq Rule /\ run' \in Running
      BY <3>1, <3>b
    <3>3. QED
      BY <2>6, <3>2 DEF InstallNextHop, network, events
  <2>7. CASE LearnConnectedHost
    <3>1. PICK e \in run.learn :
            /\ flows' = ApplyFlowRules(flows, HostRules(e.host, e.loc))
            /\ run' = Doing(run.comp, run.devs, run.links, run.learn \ {e})
      BY <2>7 DEF LearnConnectedHost
    <3>a. HostRules(e.host, e.loc) \subseteq Rule
      BY RulesAreRules
    <3>b. ApplyFlowRules(flows, HostRules(e.host, e.loc)) \subseteq Rule
      BY <3>a, ApplyKeepsRules
    <3>2. flows' \subseteq Rule /\ run' \in Running
      BY <3>1, <3>b
    <3>3. QED
      BY <2>7, <3>2 DEF LearnConnectedHost, network, events
  <2>8. QED
    BY <1>3, <2>1, <2>2, <2>3, <2>4, <2>5, <2>6, <2>7 DEF ExecutorStep
<1>4. CASE LifecycleStep
  <2>1. ASSUME NEW c \in Comps, Activate(c) PROVE TypeOK'
    BY <2>1 DEF Activate, network, events, stores
  <2>2. ASSUME NEW c \in Comps, TimerFires(c) PROVE TypeOK'
    BY <2>2, TasksAreTasks DEF TimerFires, network, events, stores
  <2>3. QED
    BY <1>4, <2>1, <2>2 DEF LifecycleStep
<1>5. CASE UNCHANGED vars
  BY <1>5 DEF vars, network, events, app, stores
<1>6. QED
  BY <1>1, <1>2, <1>3, <1>4, <1>5 DEF Next

(* Type correctness of the controller, for every instance. *)
THEOREM Typing == Spec => []TypeOK
<1>1. QED
  BY TypeInit, TypeNext, PTL DEF Spec
=============================================================================
