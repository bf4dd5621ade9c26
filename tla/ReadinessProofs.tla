---------------------------- MODULE ReadinessProofs ----------------------------
(***************************************************************************)
(* Where the configuration is there from the start and mastership stays,   *)
(* no coming and going of devices, links and hosts makes the application   *)
(* forget a device or leave a next hop or a host on the wrong port; where  *)
(* configuration comes late, a bounce of the device or a link that comes   *)
(* again repairs what it made the application miss: the proof, for every   *)
(* instance, of the safety properties the runs check.                      *)
(***************************************************************************)
EXTENDS ControllerProofs

-----------------------------------------------------------------------------
(* Sequences as the sets of their elements. *)

Elements(s) == {s[i] : i \in 1..Len(s)}

LEMMA ElementsOfConcat ==
    ASSUME NEW S, NEW s \in Seq(S), NEW t \in Seq(S)
    PROVE  Elements(s \o t) = Elements(s) \cup Elements(t)
<1>1. /\ Len(s \o t) = Len(s) + Len(t)
      /\ Len(s) \in Nat /\ Len(t) \in Nat
      /\ \A i \in 1..Len(s) + Len(t) :
            (s \o t)[i] = IF i <= Len(s) THEN s[i] ELSE t[i - Len(s)]
  BY ConcatProperties, LenProperties
<1>2. Elements(s \o t) \subseteq Elements(s) \cup Elements(t)
  <2>1. SUFFICES ASSUME NEW i \in 1..Len(s) + Len(t)
                 PROVE  (s \o t)[i] \in Elements(s) \cup Elements(t)
    BY <1>1 DEF Elements
  <2>2. CASE i <= Len(s)
    BY <1>1, <2>2 DEF Elements
  <2>3. CASE i > Len(s)
    <3>1. i - Len(s) \in 1..Len(t) /\ (s \o t)[i] = t[i - Len(s)]
      BY <1>1, <2>3
    <3>2. QED
      BY <3>1 DEF Elements
  <2>4. QED
    BY <1>1, <2>2, <2>3
<1>3. ASSUME NEW i \in 1..Len(s) PROVE s[i] \in Elements(s \o t)
  <2>1. i \in 1..Len(s) + Len(t) /\ (s \o t)[i] = s[i]
    BY <1>1
  <2>2. QED
    BY <1>1, <2>1 DEF Elements
<1>4. ASSUME NEW i \in 1..Len(t) PROVE t[i] \in Elements(s \o t)
  <2>1. Len(s) + i \in 1..Len(s) + Len(t) /\ (s \o t)[Len(s) + i] = t[i]
    BY <1>1
  <2>2. QED
    BY <1>1, <2>1 DEF Elements
<1>5. QED
  BY <1>2, <1>3, <1>4 DEF Elements

LEMMA ElementsOfSingleton ==
    ASSUME NEW x
    PROVE  Elements(<<x>>) = {x}
  BY DEF Elements

LEMMA ElementsOfAppend ==
    ASSUME NEW S, NEW s \in Seq(S), NEW x \in S
    PROVE  Elements(Append(s, x)) = Elements(s) \cup {x}
<1>1. Append(s, x) = s \o <<x>> /\ <<x>> \in Seq(S)
  OBVIOUS
<1>2. Elements(s \o <<x>>) = Elements(s) \cup Elements(<<x>>)
  BY <1>1, ElementsOfConcat
<1>3. QED
  BY <1>1, <1>2, ElementsOfSingleton

LEMMA ElementsOfTail ==
    ASSUME NEW S, NEW s \in Seq(S), s # <<>>
    PROVE  Elements(s) = {Head(s)} \cup Elements(Tail(s))
<1>1. /\ Len(s) \in Nat /\ Len(s) >= 1
      /\ Len(Tail(s)) = Len(s) - 1
      /\ \A i \in 1..Len(Tail(s)) : Tail(s)[i] = s[i + 1]
  BY HeadTailProperties, EmptySeq
<1>2. Head(s) = s[1]
  OBVIOUS
<1>3. ASSUME NEW i \in 1..Len(s) PROVE s[i] \in {Head(s)} \cup Elements(Tail(s))
  <2>1. CASE i = 1
    BY <1>2, <2>1
  <2>2. CASE i # 1
    <3>1. i - 1 \in 1..Len(Tail(s)) /\ Tail(s)[i - 1] = s[i]
      BY <1>1, <2>2
    <3>2. QED
      BY <3>1 DEF Elements
  <2>3. QED
    BY <2>1, <2>2
<1>4. ASSUME NEW i \in 1..Len(Tail(s)) PROVE Tail(s)[i] \in Elements(s)
  <2>1. i + 1 \in 1..Len(s) /\ Tail(s)[i] = s[i + 1]
    BY <1>1
  <2>2. QED
    BY <2>1 DEF Elements
<1>5. Head(s) \in Elements(s)
  BY <1>1, <1>2 DEF Elements
<1>6. QED
  BY <1>3, <1>4, <1>5 DEF Elements

-----------------------------------------------------------------------------
(* Rules with the same identity that different tasks ask for. *)

LEMMA RulesAgree ==
    ASSUME NEW c \in Comps, NEW d \in Devices, NEW b \in Comps, NEW e \in Devices,
           NEW r \in SetUpRules(c, d), NEW s \in SetUpRules(b, e), SameRule(r, s)
    PROVE  r = s
<1>1. /\ c = "ipv6" \/ c = "srv6" \/ c = "l2" \/ c = "ndp"
      /\ b = "ipv6" \/ b = "srv6" \/ b = "l2" \/ b = "ndp"
  BY ControllerAssumption DEF AllComps
<1>2. QED
  BY <1>1 DEF SameRule, SetUpRules, StationRules, MyUSidRules, MulticastFlowRules,
     NdpReplyRules, NewRule

LEMMA SetUpRulesNotUnicast ==
    ASSUME NEW c \in Comps, NEW d \in Devices, NEW r \in SetUpRules(c, d)
    PROVE  r.table # "unicast"
<1>1. c \in {"ipv6", "srv6", "l2", "ndp"}
  BY ControllerAssumption DEF AllComps
<1>2. QED
  BY <1>1 DEF SetUpRules, StationRules, MyUSidRules, MulticastFlowRules, NdpReplyRules, NewRule

-----------------------------------------------------------------------------
(* The setting: configuration and interfaces are known from the start, and *)
(* mastership does not move.                                               *)

EarlyConfig == InitConfig = Devices /\ InitIfaces = Devices /\ Roaming = {}
Settled == config = Devices /\ ifaces = Devices /\ master = Devices

LEMMA SettledInit == EarlyConfig /\ Init => Settled
  BY DEF EarlyConfig, Init, Settled

LEMMA SettledNext == EarlyConfig /\ Settled /\ [Next]_vars => Settled'
<1> SUFFICES ASSUME EarlyConfig, Settled, [Next]_vars PROVE Settled'
  OBVIOUS
<1> USE DEF Settled
<1>1. CASE NetworkStep
  <2>1. ASSUME NEW d \in Devices, DeviceUp(d) \/ DeviceDown(d) PROVE Settled'
    BY <2>1 DEF DeviceUp, DeviceDown
  <2>2. ASSUME NEW l \in LinkSet, LinkAdded(l) \/ LinkRemoved(l) PROVE Settled'
    BY <2>2 DEF LinkAdded, LinkRemoved
  <2>3. ASSUME NEW e \in LearnedHost, HostAdded(e) \/ HostRemoved(e) PROVE Settled'
    BY <2>3 DEF HostAdded, HostRemoved
  <2>4. ASSUME NEW e \in LearnedHost, NEW to \in Locations, HostMoved(e, to) PROVE Settled'
    BY <2>4 DEF HostMoved
  <2>5. ASSUME NEW d \in Devices, ConfigPushed(d) \/ IfacesPushed(d) \/ MastershipMoved(d)
        PROVE  Settled'
    BY <2>5 DEF ConfigPushed, IfacesPushed, MastershipMoved, EarlyConfig
  <2>6. QED
    BY <1>1, <2>1, <2>2, <2>3, <2>4, <2>5 DEF NetworkStep
<1>2. CASE DispatcherStep
  BY <1>2 DEF DispatcherStep, DeviceEvent, DeviceEventDone, LinkEvent, HostEvent, network
<1>3. CASE ExecutorStep
  BY <1>3 DEF ExecutorStep, StartSetUpAll, RunSetUpDevice, StartNextHops, RunLearnHost,
     SetUpOneDevice, InstallNextHop, LearnConnectedHost, network
<1>4. CASE LifecycleStep
  BY <1>4 DEF LifecycleStep, Activate, TimerFires, network
<1>5. CASE UNCHANGED vars
  BY <1>5 DEF vars, network
<1>6. QED
  BY <1>1, <1>2, <1>3, <1>4, <1>5 DEF Next

(* What a step can do to the stores. *)
SetsUp == \E b \in Comps, e \in Devices : flows' = ApplyFlowRules(flows, SetUpRules(b, e))
InstallsLink == \E l \in LinkSet : flows' = ApplyFlowRules(flows, L2NextHopRules(l))
LearnsHost == \E e \in LearnedHost : flows' = ApplyFlowRules(flows, HostRules(e.host, e.loc))

LEMMA StoresStep ==
    ASSUME TypeOK, [Next]_vars
    PROVE  /\ groups \subseteq groups'
           /\ flows' = flows \/ SetsUp \/ InstallsLink \/ LearnsHost
<1> DEFINE Goal == /\ groups \subseteq groups'
                   /\ flows' = flows \/ SetsUp \/ InstallsLink \/ LearnsHost
<1>0. UNCHANGED stores => Goal
  BY DEF stores
<1>1. CASE NetworkStep
  BY <1>0, <1>1 DEF NetworkStep, DeviceUp, DeviceDown, LinkAdded, LinkRemoved, HostAdded,
     HostRemoved, HostMoved, ConfigPushed, IfacesPushed, MastershipMoved
<1>2. CASE DispatcherStep
  BY <1>0, <1>2 DEF DispatcherStep, DeviceEvent, DeviceEventDone, LinkEvent, HostEvent
<1>3. CASE LifecycleStep
  BY <1>0, <1>3 DEF LifecycleStep, Activate, TimerFires
<1>4. CASE UNCHANGED vars
  BY <1>0, <1>4 DEF vars
<1>5. CASE ExecutorStep
  <2>1. CASE StartSetUpAll \/ StartNextHops
    BY <1>0, <2>1 DEF StartSetUpAll, StartNextHops
  <2>2. CASE RunSetUpDevice
    <3>1. Head(queue).comp \in Comps /\ Head(queue).dev \in Devices
      BY <2>2 DEF RunSetUpDevice, Take, Task, TypeOK
    <3>2. QED
      BY <1>0, <2>2, <3>1 DEF RunSetUpDevice, SetUpDevice, SetsUp
  <2>3. CASE RunLearnHost
    <3>1. Head(queue).learned \in LearnedHost
      BY <2>3 DEF RunLearnHost, Take, Task, TypeOK
    <3>2. QED
      BY <2>3, <3>1 DEF RunLearnHost, LearnsHost
  <2>4. CASE SetUpOneDevice
    <3>1. PICK d \in run.devs : UNCHANGED stores \/ SetUpDevice(run.comp, d)
      BY <2>4 DEF SetUpOneDevice
    <3>2. d \in Devices /\ run.comp \in Comps
      BY <3>1 DEF TypeOK, Running
    <3>3. QED
      BY <1>0, <3>1, <3>2 DEF SetUpDevice, SetsUp
  <2>5. CASE InstallNextHop
    <3>1. PICK l \in run.links :
            UNCHANGED flows \/ flows' = ApplyFlowRules(flows, L2NextHopRules(l))
      BY <2>5 DEF InstallNextHop
    <3>2. l \in LinkSet /\ groups' = groups
      BY <2>5 DEF TypeOK, Running, InstallNextHop
    <3>3. QED
      BY <3>1, <3>2 DEF InstallsLink
  <2>6. CASE LearnConnectedHost
    <3>1. PICK e \in run.learn : flows' = ApplyFlowRules(flows, HostRules(e.host, e.loc))
      BY <2>6 DEF LearnConnectedHost
    <3>2. e \in LearnedHost /\ groups' = groups
      BY <2>6 DEF TypeOK, Running, LearnConnectedHost
    <3>3. QED
      BY <3>1, <3>2 DEF LearnsHost
  <2>7. QED
    BY <1>5, <2>1, <2>2, <2>3, <2>4, <2>5, <2>6 DEF ExecutorStep
<1>6. QED
  BY <1>1, <1>2, <1>3, <1>4, <1>5 DEF Next

(* A device that is ready stays ready. *)
LEMMA ReadyStays ==
    ASSUME TypeOK, [Next]_vars,
           NEW c \in Comps, NEW d \in Devices, d \in ifaces, d \in ifaces', DeviceReady(c, d)
    PROVE  DeviceReady(c, d)'
<1>1. SetUpRules(c, d)' = SetUpRules(c, d)
  BY DEF SetUpRules, StationRules, MyUSidRules, MulticastFlowRules, NdpReplyRules
<1>2. groups \subseteq groups' /\ (flows' = flows \/ SetsUp \/ InstallsLink \/ LearnsHost)
  BY StoresStep
<1>3. SetUpRules(c, d) \subseteq flows
  BY DEF DeviceReady
<1>4. SetUpRules(c, d) \subseteq flows'
  <2>1. CASE SetsUp
    <3>1. PICK b \in Comps, e \in Devices : flows' = ApplyFlowRules(flows, SetUpRules(b, e))
      BY <2>1 DEF SetsUp
    <3>2. QED
      BY <1>3, <3>1, RulesAgree DEF ApplyFlowRules
  <2>2. CASE InstallsLink
    BY <1>3, <2>2, SetUpRulesNotUnicast DEF InstallsLink, ApplyFlowRules, L2NextHopRules,
       NewRule, SameRule
  <2>3. CASE LearnsHost
    BY <1>3, <2>3, SetUpRulesNotUnicast DEF LearnsHost, ApplyFlowRules, HostRules,
       NewRule, SameRule
  <2>4. QED
    BY <1>2, <1>3, <2>1, <2>2, <2>3
<1>5. QED
  BY <1>1, <1>2, <1>4 DEF DeviceReady

-----------------------------------------------------------------------------
(* Every device that is up is ready or accounted for: its set-up by c is   *)
(* still to be scheduled, announced by an event, in the queue or running.  *)

NotYet(c) == c \notin listening \/ c \in timers
Announced(c, d) == \E e \in Elements(devEvents) : e.dev = d /\ c \in e.to
Queued(c, d) == {SetUpAllTask(c), SetUpDeviceTask(c, d)} \cap Elements(queue) # {}
Working(c, d) == run.comp = c /\ d \in run.devs

DevicePending(c, d) == NotYet(c) \/ Announced(c, d) \/ Queued(c, d) \/ Working(c, d)
DevicesAccountedFor ==
    \A c \in Comps, d \in avail : DevicePending(c, d) \/ DeviceReady(c, d)

Event == [dev: Devices, to: SUBSET Comps]

LEMMA AccountedInit == Init => DevicesAccountedFor
  BY DEF Init, DevicesAccountedFor

(* The queue and the events only grow at the end. *)
LEMMA QueueGrows ==
    ASSUME NEW s \in Seq(Task), Enqueue(s), TypeOK
    PROVE  Elements(queue') = Elements(queue) \cup Elements(s)
<1>1. queue \in Seq(Task)
  BY DEF TypeOK
<1>2. QED
  BY <1>1, ElementsOfConcat DEF Enqueue

LEMMA EventPosted ==
    ASSUME TypeOK, NEW d \in Devices,
           devEvents' = Append(devEvents, [dev |-> d, to |-> Comps])
    PROVE  Elements(devEvents') = Elements(devEvents) \cup {[dev |-> d, to |-> Comps]}
<1>1. devEvents \in Seq(Event) /\ [dev |-> d, to |-> Comps] \in Event
  BY DEF TypeOK, Event
<1>2. QED
  BY <1>1, ElementsOfAppend

(* The executor takes the first task; the others stay. *)
LEMMA QueueTaken ==
    ASSUME TypeOK, NEW kind, Take(kind)
    PROVE  /\ Elements(queue) = {Head(queue)} \cup Elements(queue')
           /\ Head(queue) \in Task /\ Head(queue).kind = kind
<1>1. queue \in Seq(Task) /\ queue # <<>> /\ queue' = Tail(queue)
  BY DEF TypeOK, Take
<1>2. QED
  BY <1>1, ElementsOfTail, HeadTailProperties DEF Take

(* What the dispatcher does with the event at the head of the queue.       *)
LEMMA EventDispatched ==
    ASSUME TypeOK, DeviceEvent
    PROVE  \E e \in Event, f \in Event, c \in Comps :
             /\ e.to # {} /\ f.dev = e.dev /\ f.to = e.to \ {c}
             /\ \E rest : /\ Elements(devEvents) = {e} \cup rest
                          /\ Elements(devEvents') = {f} \cup rest
             /\ Enqueue(IF Relevant(c, e.dev) THEN <<SetUpDeviceTask(c, e.dev)>> ELSE <<>>)
<1> DEFINE e == Head(devEvents)
           c == CHOOSE x \in e.to : TRUE
           f == [e EXCEPT !.to = @ \ {c}]
<1>1. devEvents \in Seq(Event) /\ devEvents # <<>>
  BY DEF TypeOK, Event, DeviceEvent
<1>2. e \in Event /\ Tail(devEvents) \in Seq(Event)
  BY <1>1, HeadTailProperties
<1>3. c \in e.to /\ c \in Comps /\ e.to # {}
  BY <1>2 DEF DeviceEvent, Event
<1>4. f \in Event /\ f.dev = e.dev /\ f.to = e.to \ {c}
  BY <1>2 DEF Event
<1>5. devEvents' = <<f>> \o Tail(devEvents)
  BY DEF DeviceEvent
<1>6. Elements(devEvents) = {e} \cup Elements(Tail(devEvents))
  BY <1>1, ElementsOfTail
<1>7. Elements(devEvents') = {f} \cup Elements(Tail(devEvents))
  <2> HIDE DEF f
  <2>1. <<f>> \in Seq(Event)
    BY <1>4
  <2>2. Elements(<<f>> \o Tail(devEvents)) = Elements(<<f>>) \cup Elements(Tail(devEvents))
    BY <2>1, <1>2, ElementsOfConcat
  <2>3. QED
    BY <2>2, <1>5, ElementsOfSingleton
<1>8. Enqueue(IF Relevant(c, e.dev) THEN <<SetUpDeviceTask(c, e.dev)>> ELSE <<>>)
  BY DEF DeviceEvent
<1>9. QED
  <2> HIDE DEF e, c, f
  <2>1. QED
    BY <1>2, <1>3, <1>4, <1>6, <1>7, <1>8

(* Steps of the network. *)
LEMMA AccountedNetwork ==
    ASSUME TypeOK, NetworkStep,
           NEW c \in Comps, NEW d \in avail', d \in avail => DevicePending(c, d)
    PROVE  DevicePending(c, d)'
<1> USE DEF DevicePending, NotYet, Announced, Queued, Working
<1>1. ASSUME NEW x \in Devices, DeviceUp(x) PROVE DevicePending(c, d)'
  <2>1. Elements(devEvents') = Elements(devEvents) \cup {[dev |-> x, to |-> Comps]}
    BY <1>1, EventPosted DEF DeviceUp
  <2>2. CASE d = x
    <3> DEFINE e == [dev |-> x, to |-> Comps]
    <3>1. e \in Elements(devEvents') /\ e.dev = d /\ c \in e.to
      BY <2>1, <2>2
    <3>2. Announced(c, d)'
      <4> HIDE DEF e
      <4>1. QED
        BY <3>1
    <3>3. QED
      BY <3>2
  <2>3. CASE d # x
    BY <1>1, <2>1, <2>3 DEF DeviceUp, app
  <2>4. QED
    BY <2>2, <2>3
<1>2. ASSUME NEW x \in Devices, DeviceDown(x) PROVE DevicePending(c, d)'
  <2>1. Elements(devEvents) \subseteq Elements(devEvents')
    BY <1>2, EventPosted DEF DeviceDown
  <2>2. QED
    BY <1>2, <2>1 DEF DeviceDown, app
<1>3. CASE UNCHANGED <<avail, devEvents, app>>
  BY <1>3 DEF app
<1>4. QED
  BY <1>1, <1>2, <1>3 DEF NetworkStep, LinkAdded, LinkRemoved, HostAdded, HostRemoved,
     HostMoved, ConfigPushed, IfacesPushed, MastershipMoved, events

(* The dispatcher only adds tasks to the queue.                            *)
LEMMA DispatcherQueues ==
    ASSUME TypeOK, DispatcherStep
    PROVE  Elements(queue) \subseteq Elements(queue')
<1>1. CASE DeviceEvent
  <2>1. PICK e \in Event, b \in Comps :
          Enqueue(IF Relevant(b, e.dev) THEN <<SetUpDeviceTask(b, e.dev)>> ELSE <<>>)
    BY <1>1, EventDispatched
  <2>2. SetUpDeviceTask(b, e.dev) \in Task
    BY TasksAreTasks DEF Event
  <2>3. <<SetUpDeviceTask(b, e.dev)>> \in Seq(Task) /\ <<>> \in Seq(Task)
    BY <2>2
  <2>4. Enqueue(<<SetUpDeviceTask(b, e.dev)>>) \/ Enqueue(<<>>)
    BY <2>1
  <2>5. QED
    BY <2>3, <2>4, QueueGrows
<1>2. CASE DeviceEventDone
  BY <1>2 DEF DeviceEventDone, app
<1>3. CASE LinkEvent
  <2>1. Head(linkEvents).src \in Devices /\ Head(linkEvents).dst \in Devices
    BY <1>3, ControllerAssumption DEF LinkEvent, TypeOK
  <2>2. \A x \in Devices : NextHopsIfMaster(x) \in Seq(Task)
    BY TasksAreTasks DEF NextHopsIfMaster
  <2>3. NextHopsIfMaster(Head(linkEvents).src) \o NextHopsIfMaster(Head(linkEvents).dst) \in Seq(Task)
    BY <2>1, <2>2
  <2>4. QED
    BY <1>3, <2>3, QueueGrows DEF LinkEvent
<1>4. CASE HostEvent
  <2>1. Head(hostEvents) \in LearnedHost
    BY <1>4 DEF HostEvent, TypeOK
  <2>2. <<LearnHostTask(Head(hostEvents))>> \in Seq(Task) /\ <<>> \in Seq(Task)
    BY <2>1, TasksAreTasks
  <2>3. Enqueue(<<LearnHostTask(Head(hostEvents))>>) \/ Enqueue(<<>>)
    BY <1>4 DEF HostEvent
  <2>4. QED
    BY <2>2, <2>3, QueueGrows
<1>5. QED
  BY <1>1, <1>2, <1>3, <1>4 DEF DispatcherStep

(* Steps of the dispatcher: an announcement becomes a task, the listener   *)
(* finding the device up and mastered.                                     *)
LEMMA AccountedDispatcher ==
    ASSUME TypeOK, Settled, DispatcherStep,
           NEW c \in Comps, NEW d \in avail', DevicePending(c, d)
    PROVE  DevicePending(c, d)'
<1>1. UNCHANGED <<avail, listening, timers, run>> /\ Elements(queue) \subseteq Elements(queue')
  BY DispatcherQueues DEF DispatcherStep, DeviceEvent, DeviceEventDone, LinkEvent, HostEvent, app,
     network
<1>2. CASE NotYet(c) \/ Queued(c, d) \/ Working(c, d)
  BY <1>1, <1>2 DEF DevicePending, NotYet, Queued, Working
<1>3. CASE Announced(c, d) /\ ~NotYet(c)
  <2>1. PICK g \in Elements(devEvents) : g.dev = d /\ c \in g.to
    BY <1>3 DEF Announced
  <2>2. CASE UNCHANGED devEvents
    BY <2>1, <2>2 DEF DevicePending, Announced
  <2>3. CASE DeviceEvent
    <3>1. PICK e \in Event, f \in Event, b \in Comps :
             /\ e.to # {} /\ f.dev = e.dev /\ f.to = e.to \ {b}
             /\ \E rest : /\ Elements(devEvents) = {e} \cup rest
                          /\ Elements(devEvents') = {f} \cup rest
             /\ Enqueue(IF Relevant(b, e.dev) THEN <<SetUpDeviceTask(b, e.dev)>> ELSE <<>>)
      BY <2>3, EventDispatched
    <3>2. PICK rest : /\ Elements(devEvents) = {e} \cup rest
                      /\ Elements(devEvents') = {f} \cup rest
      BY <3>1
    <3>3. CASE g \in rest
      BY <2>1, <3>2, <3>3 DEF DevicePending, Announced
    <3>4. CASE g = e /\ c # b
      BY <2>1, <3>1, <3>2, <3>4 DEF DevicePending, Announced
    <3>5. CASE g = e /\ c = b
      <4>1. d \in Devices /\ Relevant(c, d)
        BY <1>1, <1>3, <2>1, <3>5 DEF Event, Relevant, NotYet, Settled
      <4>2. SetUpDeviceTask(c, d) \in Task /\ Enqueue(<<SetUpDeviceTask(c, d)>>)
        BY <2>1, <3>1, <3>5, <4>1, TasksAreTasks
      <4>3. <<SetUpDeviceTask(c, d)>> \in Seq(Task)
        BY <4>2
      <4>4. Elements(queue') = Elements(queue) \cup Elements(<<SetUpDeviceTask(c, d)>>)
        BY <4>2, <4>3, QueueGrows
      <4>5. QED
        BY <4>4, ElementsOfSingleton DEF DevicePending, Queued
    <3>6. QED
      BY <2>1, <3>2, <3>3, <3>4, <3>5
  <2>4. CASE DeviceEventDone
    <3>1. devEvents \in Seq(Event) /\ devEvents # <<>> /\ devEvents' = Tail(devEvents)
      BY <2>4 DEF DeviceEventDone, TypeOK, Event
    <3>2. Elements(devEvents) = {Head(devEvents)} \cup Elements(devEvents')
      BY <3>1, ElementsOfTail
    <3>3. Head(devEvents).to = {}
      BY <2>4 DEF DeviceEventDone
    <3>4. QED
      BY <2>1, <3>2, <3>3 DEF DevicePending, Announced
  <2>5. QED
    BY <2>2, <2>3, <2>4 DEF DispatcherStep, LinkEvent, HostEvent
<1>4. QED
  BY <1>2, <1>3 DEF DevicePending

(* A timer hands the initial set-up over to the executor. *)
LEMMA AccountedLifecycle ==
    ASSUME TypeOK, LifecycleStep,
           NEW c \in Comps, NEW d \in avail', DevicePending(c, d)
    PROVE  DevicePending(c, d)'
<1> USE DEF DevicePending
<1>1. ASSUME NEW b \in Comps, Activate(b) PROVE DevicePending(c, d)'
  BY <1>1 DEF Activate, network, events, NotYet, Announced, Queued, Working
<1>2. ASSUME NEW b \in Comps, TimerFires(b) PROVE DevicePending(c, d)'
  <2>1. Elements(queue') = Elements(queue) \cup {SetUpAllTask(b)}
    <3>1. queue \in Seq(Task) /\ SetUpAllTask(b) \in Task
      BY TasksAreTasks DEF TypeOK
    <3>2. queue' = Append(queue, SetUpAllTask(b))
      BY <1>2 DEF TimerFires
    <3>3. QED
      BY <3>1, <3>2, ElementsOfAppend
  <2>2. UNCHANGED <<devEvents, listening, run>> /\ timers' = timers \ {b}
    BY <1>2 DEF TimerFires, events
  <2>3. CASE Announced(c, d) \/ Queued(c, d) \/ Working(c, d)
    BY <2>1, <2>2, <2>3 DEF Announced, Queued, Working
  <2>4. CASE NotYet(c) /\ c # b
    BY <2>2, <2>4 DEF NotYet
  <2>5. CASE c = b
    BY <2>1, <2>5 DEF Queued
  <2>6. QED
    BY <2>3, <2>4, <2>5
<1>3. QED
  BY <1>1, <1>2 DEF LifecycleStep

(* Asking for the rules of a device makes it ready. *)
LEMMA SetUpMakesReady ==
    ASSUME NEW c, NEW d, d \in ifaces, d \in ifaces', SetUpDevice(c, d)
    PROVE  DeviceReady(c, d)'
<1>1. SetUpRules(c, d)' = SetUpRules(c, d)
  BY DEF SetUpRules, StationRules, MyUSidRules, MulticastFlowRules, NdpReplyRules
<1>2. SetUpRules(c, d) \subseteq flows'
  BY DEF SetUpDevice, ApplyFlowRules
<1>3. c = "l2" /\ d \in ifaces => d \in groups'
  BY DEF SetUpDevice
<1>4. QED
  BY <1>1, <1>2, <1>3 DEF DeviceReady

(* The executor sets up what it takes from the queue: in this setting no   *)
(* task throws.                                                            *)
LEMMA AccountedExecutor ==
    ASSUME TypeOK, Settled, Settled', ExecutorStep,
           NEW c \in Comps, NEW d \in Devices, d \in avail', DevicePending(c, d)
    PROVE  DevicePending(c, d)' \/ DeviceReady(c, d)'
<1> USE DEF DevicePending
<1>1. UNCHANGED <<avail, devEvents, listening, timers>>
  BY DEF ExecutorStep, StartSetUpAll, RunSetUpDevice, StartNextHops, RunLearnHost,
     SetUpOneDevice, InstallNextHop, LearnConnectedHost, network, events
<1>2. CASE NotYet(c) \/ Announced(c, d)
  BY <1>1, <1>2 DEF NotYet, Announced
<1>3. CASE Queued(c, d)
  <2>1. CASE UNCHANGED queue
    BY <1>3, <2>1 DEF Queued
  <2>2. CASE StartSetUpAll
    <3>1. Take("all") /\ run' = Doing(Head(queue).comp, avail, {}, {})
      BY <2>2 DEF StartSetUpAll
    <3>2. Elements(queue) = {Head(queue)} \cup Elements(queue') /\ Head(queue).kind = "all"
      BY <3>1, QueueTaken
    <3>3. CASE Head(queue) = SetUpAllTask(c)
      BY <1>1, <3>1, <3>3 DEF Doing, SetUpAllTask, Working
    <3>4. CASE Head(queue) # SetUpAllTask(c)
      BY <1>3, <3>2, <3>4 DEF Queued, SetUpDeviceTask
    <3>5. QED
      BY <3>3, <3>4
  <2>3. CASE RunSetUpDevice
    <3>1. Take("device")
      BY <2>3 DEF RunSetUpDevice
    <3>2. Elements(queue) = {Head(queue)} \cup Elements(queue') /\ Head(queue).kind = "device"
      BY <3>1, QueueTaken
    <3>3. CASE Head(queue) = SetUpDeviceTask(c, d)
      <4>1. Head(queue).comp = c /\ Head(queue).dev = d
        BY <3>3 DEF SetUpDeviceTask
      <4>2. SetUpDevice(c, d)
        BY <2>3, <4>1 DEF RunSetUpDevice, SetUpThrows, Settled
      <4>3. QED
        BY <4>2, SetUpMakesReady DEF Settled
    <3>4. CASE Head(queue) # SetUpDeviceTask(c, d)
      BY <1>3, <3>2, <3>4 DEF Queued, SetUpAllTask
    <3>5. QED
      BY <3>3, <3>4
  <2>4. ASSUME NEW kind, Take(kind), kind \notin {"all", "device"}
        PROVE  Queued(c, d)'
    <3>1. Elements(queue) = {Head(queue)} \cup Elements(queue') /\ Head(queue).kind = kind
      BY <2>4, QueueTaken
    <3>2. QED
      BY <1>3, <2>4, <3>1 DEF Queued, SetUpAllTask, SetUpDeviceTask
  <2>5. CASE StartNextHops \/ RunLearnHost
    BY <2>4, <2>5 DEF StartNextHops, RunLearnHost
  <2>6. QED
    BY <2>1, <2>2, <2>3, <2>5 DEF ExecutorStep, SetUpOneDevice, InstallNextHop, LearnConnectedHost
<1>4. CASE Working(c, d)
  <2>1. run.devs # {} /\ run.comp = c /\ d \in run.devs
    BY <1>4 DEF Working
  <2>2. ASSUME NEW kind PROVE ~Take(kind)
    BY <2>1 DEF Take, Free
  <2>3. CASE SetUpOneDevice
    <3>1. PICK x \in run.devs :
         \/ /\ x \notin avail \cap master
            /\ run' = Doing(run.comp, run.devs \ {x}, {}, {})
         \/ SetUpThrows(run.comp, x)
         \/ /\ SetUpDevice(run.comp, x)
            /\ run'.comp = run.comp /\ run'.devs = run.devs \ {x}
      BY <2>3 DEF SetUpOneDevice, Doing
    <3>2. ~SetUpThrows(run.comp, x)
      BY DEF SetUpThrows, Settled, TypeOK, Running
    <3>3. CASE x = d
      <4>1. d \in avail \cap master
        BY <1>1 DEF Settled
      <4>2. SetUpDevice(c, d)
        BY <2>1, <3>1, <3>2, <3>3, <4>1
      <4>3. QED
        BY <4>2, SetUpMakesReady DEF Settled
    <3>4. CASE x # d
      BY <2>1, <3>1, <3>2, <3>4 DEF Doing, Working
    <3>5. QED
      BY <3>3, <3>4
  <2>4. CASE InstallNextHop
    <3>1. PICK l \in run.links :
            l.dst \notin config \/ run' = Doing(run.comp, run.devs, run.links \ {l}, run.learn)
      BY <2>4 DEF InstallNextHop
    <3>2. l.dst \in config
      BY ControllerAssumption DEF Settled, TypeOK, Running
    <3>3. QED
      BY <2>1, <3>1, <3>2 DEF Doing, Working
  <2>5. CASE LearnConnectedHost
    BY <2>1, <2>5 DEF LearnConnectedHost, Doing, Working
  <2>6. QED
    BY <2>2, <2>3, <2>4, <2>5 DEF ExecutorStep, StartSetUpAll, RunSetUpDevice, StartNextHops, RunLearnHost
<1>5. QED
  BY <1>2, <1>3, <1>4

LEMMA AccountedNext ==
    ASSUME TypeOK, TypeOK', Settled, Settled', DevicesAccountedFor, [Next]_vars
    PROVE  DevicesAccountedFor'
<1> SUFFICES ASSUME NEW c \in Comps, NEW d \in avail', ~DeviceReady(c, d)'
             PROVE  DevicePending(c, d)'
  BY DEF DevicesAccountedFor
<1>1. d \in Devices
  BY DEF TypeOK
<1>2. ~DeviceReady(c, d)
  BY <1>1, ReadyStays DEF Settled
<1>3. d \in avail => DevicePending(c, d)
  BY <1>2 DEF DevicesAccountedFor
<1>4. NetworkStep \/ UNCHANGED avail
  BY DEF Next, DispatcherStep, DeviceEvent, DeviceEventDone, LinkEvent, HostEvent,
     ExecutorStep, StartSetUpAll, RunSetUpDevice, StartNextHops, RunLearnHost, SetUpOneDevice,
     InstallNextHop, LearnConnectedHost, LifecycleStep, Activate, TimerFires, vars, network
<1>5. CASE NetworkStep
  BY <1>3, <1>5, AccountedNetwork
<1>6. CASE UNCHANGED avail
  <2>1. DevicePending(c, d)
    BY <1>3, <1>6
  <2>2. CASE DispatcherStep
    BY <2>1, <2>2, AccountedDispatcher
  <2>3. CASE ExecutorStep
    BY <1>1, <2>1, <2>3, AccountedExecutor
  <2>4. CASE LifecycleStep
    BY <2>1, <2>4, AccountedLifecycle
  <2>5. CASE UNCHANGED vars
    BY <2>1, <2>5 DEF vars, events, app, DevicePending, NotYet, Announced, Queued, Working
  <2>6. QED
    BY <1>5, <1>3, <2>2, <2>3, <2>4, <2>5, AccountedNetwork DEF Next
<1>7. QED
  BY <1>4, <1>5, <1>6

(* When nothing is in flight nothing is pending. *)
LEMMA AccountedQuiet == DevicesAccountedFor => QuietDevicesReady
<1> SUFFICES ASSUME DevicesAccountedFor, Quiet, NEW c \in Comps, NEW d \in avail \cap master
             PROVE  DeviceReady(c, d)
  BY DEF QuietDevicesReady
<1>1. Elements(<<>>) = {}
  BY DEF Elements
<1>2. ~DevicePending(c, d)
  BY <1>1 DEF Quiet, Free, DevicePending, NotYet, Announced, Queued, Working
<1>3. QED
  BY <1>2 DEF DevicesAccountedFor

(* Where the configuration is known from the start and mastership stays,   *)
(* every device that is up has the rules of every component whenever       *)
(* nothing is in flight: the listeners, the initial set-up of              *)
(* MainComponent.scheduleTask and the device events between them leave no  *)
(* gap, in any order of any number of devices coming and going.            *)
THEOREM DevicesReady ==
    ASSUME EarlyConfig
    PROVE  Spec => []QuietDevicesReady
<1>1. Init => Settled /\ DevicesAccountedFor
  BY SettledInit, AccountedInit
<1>2. TypeOK /\ TypeOK' /\ Settled /\ DevicesAccountedFor /\ [Next]_vars
        => Settled' /\ DevicesAccountedFor'
  BY SettledNext, AccountedNext
<1>3. Spec => []TypeOK
  BY Typing
<1>4. Spec => [](Settled /\ DevicesAccountedFor)
  BY <1>1, <1>2, <1>3, PTL DEF Spec
<1>5. QED
  BY <1>4, AccountedQuiet, PTL
-----------------------------------------------------------------------------
(* The same for links.  A link that is there is pending (its set-up still  *)
(* to be scheduled, announced, in the queue or running), or it is the only *)
(* link between its ends the running task knows, and its rule is installed *)
(* or about to be: no task can put back the port of an earlier cable.      *)

LinksSound ==
    /\ \A l \in links : l.src \in avail /\ l.dst \in avail
    /\ \A k, l \in links : k.src = l.src /\ k.dst = l.dst => k = l

LinkAnnounced(l) == \E e \in Elements(linkEvents) : e.src = l.src
LinkQueued(l) == {SetUpAllTask("ipv6"), NextHopsTask(l.src)} \cap Elements(queue) # {}
LinkPending(l) ==
    NotYet("ipv6") \/ LinkAnnounced(l) \/ LinkQueued(l) \/ Working("ipv6", l.src)

Fresh(l) == \A k \in run.links : k.src = l.src /\ k.dst = l.dst => k = l
LinkCovered(l) == Fresh(l) /\ (l \in run.links \/ L2NextHopRules(l) \subseteq flows)

LinksAccountedFor ==
    LinksSound /\ ("ipv6" \in Comps => \A l \in links : LinkPending(l) \/ LinkCovered(l))

LEMMA LinksInit == Init => LinksAccountedFor
  BY DEF Init, LinksAccountedFor, LinksSound

LEMMA LinksSoundNext == TypeOK /\ LinksSound /\ [Next]_vars => LinksSound'
<1> SUFFICES ASSUME TypeOK, LinksSound, [Next]_vars PROVE LinksSound'
  OBVIOUS
<1> USE DEF LinksSound
<1>0. ASSUME UNCHANGED avail, links' \subseteq links PROVE LinksSound'
  BY <1>0
<1>1. CASE NetworkStep
  <2>1. ASSUME NEW d \in Devices, DeviceUp(d) \/ DeviceDown(d) PROVE LinksSound'
    BY <2>1 DEF DeviceUp, DeviceDown
  <2>2. ASSUME NEW l \in LinkSet, LinkAdded(l) PROVE LinksSound'
    BY <2>2 DEF LinkAdded
  <2>3. CASE UNCHANGED avail /\ links' \subseteq links
    BY <1>0, <2>3
  <2>4. QED
    BY <1>1, <2>1, <2>2, <2>3 DEF NetworkStep, LinkRemoved, HostAdded, HostRemoved,
       HostMoved, ConfigPushed, IfacesPushed, MastershipMoved
<1>2. CASE UNCHANGED network
  BY <1>0, <1>2 DEF network
<1>3. QED
  BY <1>1, <1>2 DEF Next, DispatcherStep, DeviceEvent, DeviceEventDone, LinkEvent, HostEvent,
     ExecutorStep, StartSetUpAll, RunSetUpDevice, StartNextHops, RunLearnHost, SetUpOneDevice,
     InstallNextHop, LearnConnectedHost, LifecycleStep, Activate, TimerFires, vars

(* A next-hop rule is lost only to a link between the same two devices.    *)
LEMMA NextHopRuleKept ==
    ASSUME NEW l \in LinkSet, L2NextHopRules(l) \subseteq flows,
           \/ flows' = flows
           \/ SetsUp
           \/ LearnsHost
           \/ \E k \in LinkSet : /\ k.src = l.src /\ k.dst = l.dst => k = l
                                 /\ flows' = ApplyFlowRules(flows, L2NextHopRules(k))
    PROVE  L2NextHopRules(l) \subseteq flows'
<1>1. CASE SetsUp
  <2>1. PICK b \in Comps, e \in Devices : flows' = ApplyFlowRules(flows, SetUpRules(b, e))
    BY <1>1 DEF SetsUp
  <2>2. QED
    BY <2>1, SetUpRulesNotUnicast DEF ApplyFlowRules, L2NextHopRules, NewRule, SameRule
<1>2. CASE LearnsHost
  <2>1. PICK e \in LearnedHost : flows' = ApplyFlowRules(flows, HostRules(e.host, e.loc))
    BY <1>2 DEF LearnsHost
  <2>2. e.host # l.dst
    BY ControllerAssumption DEF LearnedHost
  <2>3. QED
    BY <2>1, <2>2 DEF ApplyFlowRules, L2NextHopRules, HostRules, NewRule, SameRule
<1>3. ASSUME NEW k \in LinkSet, k.src = l.src /\ k.dst = l.dst => k = l,
             flows' = ApplyFlowRules(flows, L2NextHopRules(k))
      PROVE  L2NextHopRules(l) \subseteq flows'
  BY <1>3 DEF ApplyFlowRules, L2NextHopRules, NewRule, SameRule
<1>4. QED
  BY <1>1, <1>2, <1>3

(* Steps of the network: a new link is announced. *)
LEMMA LinksNetwork ==
    ASSUME TypeOK, NetworkStep,
           NEW l \in links', l \in links => LinkPending(l) \/ LinkCovered(l)
    PROVE  LinkPending(l)' \/ LinkCovered(l)'
<1>1. UNCHANGED <<app, stores>>
  BY DEF NetworkStep, DeviceUp, DeviceDown, LinkAdded, LinkRemoved, HostAdded, HostRemoved,
     HostMoved, ConfigPushed, IfacesPushed, MastershipMoved
<1>2. ASSUME l \in links, Elements(linkEvents) \subseteq Elements(linkEvents')
      PROVE  LinkPending(l)' \/ LinkCovered(l)'
  BY <1>1, <1>2 DEF app, stores, LinkPending, LinkCovered, NotYet, LinkAnnounced, LinkQueued,
     Working, Fresh
<1>3. ASSUME NEW k \in LinkSet, LinkAdded(k) PROVE LinkPending(l)' \/ LinkCovered(l)'
  <2>1. Elements(linkEvents') = Elements(linkEvents) \cup {k}
    <3>1. linkEvents \in Seq(LinkSet) /\ linkEvents' = Append(linkEvents, k)
      BY <1>3 DEF TypeOK, LinkAdded
    <3>2. QED
      BY <3>1, ElementsOfAppend
  <2>2. l = k \/ l \in links
    BY <1>3 DEF LinkAdded
  <2>3. CASE l = k
    BY <2>1, <2>3 DEF LinkPending, LinkAnnounced
  <2>4. QED
    BY <1>2, <2>1, <2>2, <2>3
<1>4. CASE links' \subseteq links /\ UNCHANGED linkEvents
  BY <1>2, <1>4
<1>5. QED
  BY <1>3, <1>4 DEF NetworkStep, DeviceUp, DeviceDown, LinkRemoved, HostAdded, HostRemoved,
     HostMoved, ConfigPushed, IfacesPushed, MastershipMoved, events

(* Steps of the dispatcher: the announcement becomes a task. *)
LEMMA LinksDispatcher ==
    ASSUME TypeOK, Settled, DispatcherStep, "ipv6" \in Comps,
           NEW l \in links', LinkPending(l) \/ LinkCovered(l)
    PROVE  LinkPending(l)' \/ LinkCovered(l)'
<1>1. UNCHANGED <<listening, timers, run, stores>>
  BY DEF DispatcherStep, DeviceEvent, DeviceEventDone, LinkEvent, HostEvent, app
<1>2. Elements(queue) \subseteq Elements(queue')
  BY DispatcherQueues
<1>3. CASE LinkCovered(l)
  BY <1>1, <1>3 DEF LinkCovered, Fresh, stores
<1>4. CASE NotYet("ipv6") \/ LinkQueued(l) \/ Working("ipv6", l.src)
  BY <1>1, <1>2, <1>4 DEF LinkPending, NotYet, LinkQueued, Working
<1>5. CASE LinkAnnounced(l) /\ ~NotYet("ipv6")
  <2>1. CASE UNCHANGED linkEvents
    BY <1>5, <2>1 DEF LinkAnnounced, LinkPending
  <2>2. CASE LinkEvent
    <3>1. linkEvents \in Seq(LinkSet) /\ linkEvents # <<>> /\ linkEvents' = Tail(linkEvents)
      BY <2>2 DEF LinkEvent, TypeOK
    <3>2. Elements(linkEvents) = {Head(linkEvents)} \cup Elements(linkEvents')
      BY <3>1, ElementsOfTail
    <3>3. CASE Head(linkEvents).src = l.src
      <4> DEFINE s == NextHopsIfMaster(Head(linkEvents).src)
                 t == NextHopsIfMaster(Head(linkEvents).dst)
      <4>1. Head(linkEvents).src \in Devices /\ Head(linkEvents).dst \in Devices
        BY <3>1, ControllerAssumption
      <4>2. s \in Seq(Task) /\ t \in Seq(Task) /\ Enqueue(s \o t)
        BY <2>2, <4>1, TasksAreTasks DEF NextHopsIfMaster, LinkEvent
      <4>3. s = <<NextHopsTask(l.src)>>
        BY <1>5, <3>3, <4>1 DEF NextHopsIfMaster, NotYet, Settled
      <4> HIDE DEF s, t
      <4>4. Elements(s \o t) = Elements(s) \cup Elements(t) /\ s \o t \in Seq(Task)
        BY <4>2, ElementsOfConcat
      <4>5. Elements(queue') = Elements(queue) \cup Elements(s \o t)
        BY <4>2, <4>4, QueueGrows
      <4>6. NextHopsTask(l.src) \in Elements(queue')
        BY <4>3, <4>4, <4>5, ElementsOfSingleton
      <4>7. QED
        BY <4>6 DEF LinkPending, LinkQueued
    <3>4. CASE Head(linkEvents).src # l.src
      BY <1>5, <3>2, <3>4 DEF LinkAnnounced, LinkPending
    <3>5. QED
      BY <3>3, <3>4
  <2>3. QED
    BY <2>1, <2>2 DEF DispatcherStep, DeviceEvent, DeviceEventDone, HostEvent
<1>6. QED
  BY <1>3, <1>4, <1>5 DEF LinkPending
(* A timer hands the initial set-up over to the executor. *)
LEMMA LinksLifecycle ==
    ASSUME TypeOK, LifecycleStep,
           NEW l, LinkPending(l) \/ LinkCovered(l)
    PROVE  LinkPending(l)' \/ LinkCovered(l)'
<1>1. UNCHANGED <<linkEvents, run, stores>>
  BY DEF LifecycleStep, Activate, TimerFires, events
<1>2. ASSUME NEW b \in Comps, Activate(b) PROVE LinkPending(l)' \/ LinkCovered(l)'
  BY <1>1, <1>2 DEF Activate, LinkPending, LinkCovered, NotYet, LinkAnnounced, LinkQueued,
     Working, Fresh, stores
<1>3. ASSUME NEW b \in Comps, TimerFires(b) PROVE LinkPending(l)' \/ LinkCovered(l)'
  <2>1. Elements(queue') = Elements(queue) \cup {SetUpAllTask(b)}
    <3>1. queue \in Seq(Task) /\ SetUpAllTask(b) \in Task /\ queue' = Append(queue, SetUpAllTask(b))
      BY <1>3, TasksAreTasks DEF TypeOK, TimerFires
    <3>2. QED
      BY <3>1, ElementsOfAppend
  <2>2. UNCHANGED listening /\ timers' = timers \ {b}
    BY <1>3 DEF TimerFires
  <2>3. CASE b = "ipv6"
    BY <2>1, <2>3 DEF LinkPending, LinkQueued
  <2>4. CASE b # "ipv6"
    BY <1>1, <2>1, <2>2, <2>4 DEF LinkPending, LinkCovered, NotYet, LinkAnnounced, LinkQueued,
       Working, Fresh, stores
  <2>5. QED
    BY <2>3, <2>4
<1>4. QED
  BY <1>2, <1>3 DEF LifecycleStep

(* The executor takes a task: what the task needs to know of the links it  *)
(* reads now.                                                              *)
LEMMA LinksTaken ==
    ASSUME TypeOK, LinksSound, [Next]_vars, NEW kind, Take(kind),
           StartSetUpAll \/ RunSetUpDevice \/ StartNextHops \/ RunLearnHost,
           NEW l \in links, LinkPending(l) \/ LinkCovered(l)
    PROVE  LinkPending(l)' \/ LinkCovered(l)'
<1>1. UNCHANGED <<links, linkEvents, listening, timers>>
  BY DEF StartSetUpAll, RunSetUpDevice, StartNextHops, RunLearnHost, network, events
<1>2. run.devs = {} /\ run.links = {}
  BY DEF Take, Free
<1>3. l \in LinkSet
  BY DEF TypeOK
<1>4. /\ Elements(queue) = {Head(queue)} \cup Elements(queue')
      /\ Head(queue) \in Task /\ Head(queue).kind = kind
  BY QueueTaken
<1>5. run'.links \subseteq links
  BY DEF StartSetUpAll, RunSetUpDevice, StartNextHops, RunLearnHost, Doing, Idle, EgressLinks
<1>6. Fresh(l)'
  BY <1>5 DEF Fresh, LinksSound
<1>7. CASE NotYet("ipv6") \/ LinkAnnounced(l)
  BY <1>1, <1>7 DEF NotYet, LinkAnnounced, LinkPending
<1>8. CASE LinkQueued(l)
  <2>1. CASE Head(queue) \notin {SetUpAllTask("ipv6"), NextHopsTask(l.src)}
    BY <1>4, <1>8, <2>1 DEF LinkQueued, LinkPending
  <2>2. CASE Head(queue) = SetUpAllTask("ipv6")
    <3>1. StartSetUpAll
      BY <2>2 DEF RunSetUpDevice, StartNextHops, RunLearnHost, Take, SetUpAllTask
    <3>2. run' = Doing("ipv6", avail, {}, {})
      BY <2>2, <3>1 DEF StartSetUpAll, SetUpAllTask
    <3>3. QED
      BY <3>2 DEF Doing, Working, LinkPending, LinksSound
  <2>3. CASE Head(queue) = NextHopsTask(l.src)
    <3>1. StartNextHops
      BY <2>3 DEF StartSetUpAll, RunSetUpDevice, RunLearnHost, Take, NextHopsTask
    <3>2. run' = Doing("ipv6", {}, EgressLinks(l.src), {})
      BY <2>3, <3>1 DEF StartNextHops, NextHopsTask
    <3>3. l \in run'.links
      BY <3>2 DEF Doing, EgressLinks
    <3>4. QED
      BY <1>6, <3>3 DEF LinkCovered
  <2>4. QED
    BY <2>1, <2>2, <2>3
<1>9. CASE LinkCovered(l)
  <2>1. L2NextHopRules(l) \subseteq flows
    BY <1>2, <1>9 DEF LinkCovered
  <2>2. flows' = flows \/ SetsUp \/ LearnsHost
    <3>1. CASE RunSetUpDevice
      <4>1. Head(queue).comp \in Comps /\ Head(queue).dev \in Devices
        BY <1>4, <3>1 DEF RunSetUpDevice, Take, Task
      <4>2. QED
        BY <3>1, <4>1 DEF RunSetUpDevice, SetUpDevice, SetsUp, stores
    <3>2. CASE RunLearnHost
      <4>1. Head(queue).learned \in LearnedHost
        BY <1>4, <3>2 DEF RunLearnHost, Take, Task
      <4>2. QED
        BY <3>2, <4>1 DEF RunLearnHost, LearnsHost
    <3>3. CASE StartSetUpAll \/ StartNextHops
      BY <3>3 DEF StartSetUpAll, StartNextHops, stores
    <3>4. QED
      BY <3>1, <3>2, <3>3
  <2>3. L2NextHopRules(l) \subseteq flows'
    BY <1>3, <2>1, <2>2, NextHopRuleKept
  <2>4. QED
    BY <1>6, <2>3 DEF LinkCovered, L2NextHopRules
<1>10. CASE Working("ipv6", l.src)
  BY <1>2, <1>10 DEF Working
<1>11. QED
  BY <1>7, <1>8, <1>9, <1>10 DEF LinkPending

(* The executor goes on with its task. *)
LEMMA LinksWorked ==
    ASSUME TypeOK, Settled, LinksSound,
           SetUpOneDevice \/ InstallNextHop \/ LearnConnectedHost,
           NEW l \in links, LinkPending(l) \/ LinkCovered(l)
    PROVE  LinkPending(l)' \/ LinkCovered(l)'
<1>1. UNCHANGED <<links, linkEvents, listening, timers, queue>>
  BY DEF SetUpOneDevice, InstallNextHop, LearnConnectedHost, network, events
<1>2. l \in LinkSet /\ l.src \in Devices /\ l.dst \in Devices
  BY ControllerAssumption DEF TypeOK
<1>3. CASE NotYet("ipv6") \/ LinkAnnounced(l) \/ LinkQueued(l)
  BY <1>1, <1>3 DEF NotYet, LinkAnnounced, LinkQueued, LinkPending
<1>4. CASE SetUpOneDevice
  <2>1. PICK x \in run.devs :
         \/ /\ x \notin avail \cap master
            /\ run' = Doing(run.comp, run.devs \ {x}, {}, {})
            /\ UNCHANGED stores
         \/ SetUpThrows(run.comp, x)
         \/ /\ SetUpDevice(run.comp, x)
            /\ run'.comp = run.comp /\ run'.devs = run.devs \ {x}
            /\ run'.links = IF run.comp = "ipv6" THEN EgressLinks(x) ELSE {}
    BY <1>4 DEF SetUpOneDevice, Doing
  <2>2. x \in Devices /\ run.comp \in Comps
    BY DEF TypeOK, Running
  <2>3. ~SetUpThrows(run.comp, x)
    BY <2>2 DEF SetUpThrows, Settled
  <2>4. run'.comp = run.comp /\ run'.devs = run.devs \ {x} /\ run'.links \subseteq links
    BY <2>1, <2>3 DEF Doing, EgressLinks
  <2>5. Fresh(l)'
    BY <2>4 DEF Fresh, LinksSound
  <2>6. CASE Working("ipv6", l.src) /\ x # l.src
    BY <2>4, <2>6 DEF Working, LinkPending
  <2>7. CASE Working("ipv6", l.src) /\ x = l.src
    <3>1. x \in avail \cap master
      BY <2>7, <1>2 DEF LinksSound, Settled
    <3>2. l \in run'.links
      BY <2>1, <2>3, <2>7, <3>1 DEF Working, EgressLinks
    <3>3. QED
      BY <2>5, <3>2 DEF LinkCovered
  <2>8. CASE LinkCovered(l)
    <3>1. L2NextHopRules(l) \subseteq flows
      BY <1>4, <2>8 DEF LinkCovered, SetUpOneDevice
    <3>2. flows' = flows \/ SetsUp
      BY <2>1, <2>2, <2>3 DEF SetUpDevice, SetsUp, stores
    <3>3. L2NextHopRules(l) \subseteq flows'
      BY <1>2, <3>1, <3>2, NextHopRuleKept
    <3>4. QED
      BY <2>5, <3>3 DEF LinkCovered, L2NextHopRules
  <2>9. QED
    BY <1>3, <2>6, <2>7, <2>8 DEF LinkPending
<1>5. CASE InstallNextHop
  <2>1. PICK k \in run.links :
         \/ k.dst \notin config
         \/ /\ flows' = ApplyFlowRules(flows, L2NextHopRules(k))
            /\ run' = Doing(run.comp, run.devs, run.links \ {k}, run.learn)
    BY <1>5 DEF InstallNextHop
  <2>2. k \in LinkSet /\ k.dst \in config
    BY ControllerAssumption DEF TypeOK, Running, Settled
  <2>3. /\ flows' = ApplyFlowRules(flows, L2NextHopRules(k))
        /\ run'.comp = run.comp /\ run'.devs = run.devs /\ run'.links = run.links \ {k}
    BY <2>1, <2>2 DEF Doing
  <2>4. CASE Working("ipv6", l.src)
    BY <2>3, <2>4 DEF Working, LinkPending
  <2>5. CASE LinkCovered(l)
    <3>1. Fresh(l)'
      BY <2>3, <2>5 DEF LinkCovered, Fresh
    <3>2. CASE L2NextHopRules(l) \subseteq flows
      <4>1. k.src = l.src /\ k.dst = l.dst => k = l
        BY <2>5 DEF LinkCovered, Fresh
      <4>2. L2NextHopRules(l) \subseteq flows'
        BY <1>2, <2>2, <2>3, <3>2, <4>1, NextHopRuleKept
      <4>3. QED
        BY <3>1, <4>2 DEF LinkCovered, L2NextHopRules
    <3>3. CASE l \in run.links /\ k = l
      <4>1. L2NextHopRules(l) \subseteq flows'
        BY <2>3, <3>3 DEF ApplyFlowRules
      <4>2. QED
        BY <3>1, <4>1 DEF LinkCovered, L2NextHopRules
    <3>4. CASE l \in run.links /\ k # l
      BY <2>3, <3>1, <3>4 DEF LinkCovered
    <3>5. QED
      BY <2>5, <3>2, <3>3, <3>4 DEF LinkCovered
  <2>6. QED
    BY <1>3, <2>4, <2>5 DEF LinkPending
<1>6. CASE LearnConnectedHost
  <2>1. PICK e \in run.learn :
          /\ flows' = ApplyFlowRules(flows, HostRules(e.host, e.loc))
          /\ run'.comp = run.comp /\ run'.devs = run.devs /\ run'.links = run.links
    BY <1>6 DEF LearnConnectedHost, Doing
  <2>2. LearnsHost
    BY <2>1 DEF LearnsHost, TypeOK, Running
  <2>3. CASE Working("ipv6", l.src)
    BY <2>1, <2>3 DEF Working, LinkPending
  <2>4. CASE LinkCovered(l)
    <3>1. Fresh(l)'
      BY <2>1, <2>4 DEF LinkCovered, Fresh
    <3>2. CASE L2NextHopRules(l) \subseteq flows
      <4>1. L2NextHopRules(l) \subseteq flows'
        BY <1>2, <2>2, <3>2, NextHopRuleKept
      <4>2. QED
        BY <3>1, <4>1 DEF LinkCovered, L2NextHopRules
    <3>3. CASE l \in run.links
      BY <2>1, <3>1, <3>3 DEF LinkCovered
    <3>4. QED
      BY <2>4, <3>2, <3>3 DEF LinkCovered
  <2>5. QED
    BY <1>3, <2>3, <2>4 DEF LinkPending
<1>7. QED
  BY <1>4, <1>5, <1>6

LEMMA LinksNext ==
    ASSUME TypeOK, Settled, LinksAccountedFor, [Next]_vars
    PROVE  LinksAccountedFor'
<1>1. LinksSound /\ LinksSound'
  BY LinksSoundNext DEF LinksAccountedFor
<1> SUFFICES ASSUME "ipv6" \in Comps, NEW l \in links'
             PROVE  LinkPending(l)' \/ LinkCovered(l)'
  BY <1>1 DEF LinksAccountedFor
<1>2. l \in links => LinkPending(l) \/ LinkCovered(l)
  BY DEF LinksAccountedFor
<1>3. CASE NetworkStep
  BY <1>2, <1>3, LinksNetwork
<1>4. NetworkStep \/ UNCHANGED links
  BY DEF Next, DispatcherStep, DeviceEvent, DeviceEventDone, LinkEvent, HostEvent,
     ExecutorStep, StartSetUpAll, RunSetUpDevice, StartNextHops, RunLearnHost, SetUpOneDevice,
     InstallNextHop, LearnConnectedHost, LifecycleStep, Activate, TimerFires, vars, network
<1>5. CASE l \in links
  <2>1. CASE DispatcherStep
    BY <1>2, <1>5, <2>1, LinksDispatcher
  <2>2. CASE LifecycleStep
    BY <1>2, <1>5, <2>2, LinksLifecycle
  <2>3. ASSUME NEW kind, Take(kind), StartSetUpAll \/ RunSetUpDevice \/ StartNextHops \/ RunLearnHost
        PROVE  LinkPending(l)' \/ LinkCovered(l)'
    BY <1>1, <1>2, <1>5, <2>3, LinksTaken
  <2>4. CASE StartSetUpAll \/ RunSetUpDevice \/ StartNextHops \/ RunLearnHost
    BY <2>3, <2>4 DEF StartSetUpAll, RunSetUpDevice, StartNextHops, RunLearnHost
  <2>5. CASE SetUpOneDevice \/ InstallNextHop \/ LearnConnectedHost
    BY <1>1, <1>2, <1>5, <2>5, LinksWorked
  <2>6. CASE UNCHANGED vars
    BY <1>2, <1>5, <2>6 DEF vars, events, app, stores, LinkPending, LinkCovered, NotYet,
       LinkAnnounced, LinkQueued, Working, Fresh
  <2>7. QED
    BY <1>3, <2>1, <2>2, <2>4, <2>5, <2>6 DEF Next, ExecutorStep
<1>6. QED
  BY <1>3, <1>4, <1>5

(* When nothing is in flight nothing is pending. *)
LEMMA LinksQuiet == LinksAccountedFor => QuietPortsCurrent
<1> SUFFICES ASSUME LinksAccountedFor, Quiet, "ipv6" \in Comps, NEW l \in links
             PROVE  L2NextHopRules(l) \subseteq flows
  BY DEF QuietPortsCurrent
<1>1. Elements(<<>>) = {}
  BY DEF Elements
<1>2. ~LinkPending(l)
  BY <1>1 DEF Quiet, Free, LinkPending, NotYet, LinkAnnounced, LinkQueued, Working
<1>3. QED
  BY <1>2 DEF LinksAccountedFor, LinkCovered, Quiet, Free

(* Where the configuration is known from the start and mastership stays,   *)
(* the next-hop rule of every link carries the port of the cable that is   *)
(* plugged now whenever nothing is in flight: the task that runs may hold  *)
(* links that are gone (Ipv6RoutingComponent.setUpL2NextHopRules iterates  *)
(* over what getDeviceEgressLinks returned), but a later one follows it.   *)
THEOREM PortsCurrent ==
    ASSUME EarlyConfig
    PROVE  Spec => []QuietPortsCurrent
<1>1. Init => Settled /\ LinksAccountedFor
  BY SettledInit, LinksInit
<1>2. TypeOK /\ Settled /\ LinksAccountedFor /\ [Next]_vars => Settled' /\ LinksAccountedFor'
  BY SettledNext, LinksNext
<1>3. Spec => []TypeOK
  BY Typing
<1>4. Spec => [](Settled /\ LinksAccountedFor)
  BY <1>1, <1>2, <1>3, PTL DEF Spec
<1>5. QED
  BY <1>4, LinksQuiet, PTL

-----------------------------------------------------------------------------
(* Hosts.  L2 bridging puts the location of a host it is told of into the  *)
(* unicast table, over the one the table has.  A location that is out of   *)
(* date may be in an event, in a task or in what the running task has read *)
(* of the store: each is followed by a later mention of the one the host   *)
(* has now, and until that one is in the table it is on its way there.     *)

\* Whatever of S is in the sequence has y behind it.
Superseded(s, S, y) == \A i \in DOMAIN s : s[i] \in S => \E j \in DOMAIN s : j > i /\ s[j] = y

Outdated(e) == {x \in LearnedHost : x.host = e.host /\ x.loc.dev = e.loc.dev /\ x # e}
OutdatedTasks(e) == {LearnHostTask(x) : x \in Outdated(e)}
Learned(e) == HostRules(e.host, e.loc) \subseteq flows

HostPosted(e) == e \in Elements(hostEvents)
HostQueued(e) == LearnHostTask(e) \in Elements(queue)

HostFollowed(e) ==
    /\ Superseded(hostEvents, Outdated(e), e)
    /\ HostPosted(e) \/ Superseded(queue, OutdatedTasks(e), LearnHostTask(e))
    /\ HostPosted(e) \/ HostQueued(e) \/ run.learn \cap Outdated(e) = {}

HostPending(e) ==
    \/ NotYet("l2") \/ HostPosted(e) \/ HostQueued(e)
    \/ SetUpAllTask("l2") \in Elements(queue) \/ Working("l2", e.loc.dev) \/ e \in run.learn

HostsSound ==
    /\ \A e \in hosts : e.loc.dev \in avail
    /\ \A k, e \in hosts : k.host = e.host => k = e

\* Only L2 bridging learns hosts, and not before it listens to them.
BridgeSound ==
    /\ run.learn # {} => run.comp = "l2"
    /\ run.comp = "l2" => run.links = {} /\ "l2" \in listening
    /\ \A t \in Elements(queue) : t.kind = "host" \/ t = SetUpAllTask("l2") => "l2" \in listening

HostsAccountedFor ==
    /\ HostsSound /\ BridgeSound
    /\ "l2" \in Comps =>
         \A e \in hosts : e.host \notin Movable => HostFollowed(e) /\ (HostPending(e) \/ Learned(e))

LEMMA SupersededGrows ==
    ASSUME NEW T, NEW s \in Seq(T), NEW t \in Seq(T), NEW S, NEW y,
           Superseded(s, S, y), Elements(t) \cap S = {}
    PROVE  Superseded(s \o t, S, y)
<1> DEFINE u == s \o t
<1>1. /\ Len(u) = Len(s) + Len(t) /\ Len(s) \in Nat /\ Len(t) \in Nat
      /\ DOMAIN u = 1..Len(u) /\ DOMAIN s = 1..Len(s)
      /\ \A i \in 1..Len(s) : u[i] = s[i]
      /\ \A i \in Len(s) + 1..Len(u) : u[i] = t[i - Len(s)]
  OBVIOUS
<1> HIDE DEF u
<1>2. ASSUME NEW i \in DOMAIN u, u[i] \in S PROVE \E j \in DOMAIN u : j > i /\ u[j] = y
  <2>1. CASE i \in 1..Len(s)
    BY <1>1, <1>2, <2>1 DEF Superseded
  <2>2. CASE i \notin 1..Len(s)
    <3>1. u[i] = t[i - Len(s)] /\ i - Len(s) \in 1..Len(t)
      BY <1>1, <2>2
    <3>2. u[i] \in Elements(t)
      BY <3>1 DEF Elements
    <3> QED BY <1>2, <3>2
  <2> QED BY <2>1, <2>2
<1> QED
  BY <1>2 DEF u, Superseded

LEMMA SupersededAnew ==
    ASSUME NEW T, NEW s \in Seq(T), NEW S, NEW y \in T, y \notin S
    PROVE  Superseded(Append(s, y), S, y)
<1> DEFINE u == Append(s, y)
<1>1. /\ Len(s) \in Nat /\ DOMAIN u = 1..Len(s) + 1 /\ u[Len(s) + 1] = y
  OBVIOUS
<1> HIDE DEF u
<1>2. ASSUME NEW i \in DOMAIN u, u[i] \in S PROVE \E j \in DOMAIN u : j > i /\ u[j] = y
  <2>1. i < Len(s) + 1 /\ Len(s) + 1 \in DOMAIN u
    BY <1>1, <1>2
  <2> QED BY <1>1, <2>1
<1> QED
  BY <1>2 DEF u, Superseded

\* What is left when the first element is taken, and what is then known of it.
LEMMA SupersededTaken ==
    ASSUME NEW T, NEW s \in Seq(T), s # <<>>, NEW S, NEW y, Superseded(s, S, y)
    PROVE  /\ Superseded(Tail(s), S, y)
           /\ Head(s) \in S => y \in Elements(Tail(s))
<1> DEFINE u == Tail(s)
<1>1. /\ Len(s) \in Nat /\ Len(s) >= 1 /\ Len(u) = Len(s) - 1 /\ DOMAIN u = 1..Len(u)
      /\ DOMAIN s = 1..Len(s) /\ s[1] = Head(s)
      /\ \A i \in 1..Len(u) : u[i] = s[i + 1]
  OBVIOUS
<1> HIDE DEF u
<1>2. ASSUME NEW i \in DOMAIN u, u[i] \in S PROVE \E j \in DOMAIN u : j > i /\ u[j] = y
  <2>1. i + 1 \in DOMAIN s /\ s[i + 1] \in S
    BY <1>1, <1>2
  <2>2. PICK j \in DOMAIN s : j > i + 1 /\ s[j] = y
    BY <2>1 DEF Superseded
  <2>3. j - 1 \in DOMAIN u /\ u[j - 1] = y /\ j - 1 > i
    BY <1>1, <1>2, <2>2
  <2> QED BY <2>3
<1>3. ASSUME Head(s) \in S PROVE y \in Elements(u)
  <2>1. PICK j \in DOMAIN s : j > 1 /\ s[j] = y
    BY <1>1, <1>3 DEF Superseded
  <2>2. j - 1 \in 1..Len(u) /\ u[j - 1] = y
    BY <1>1, <2>1
  <2> QED BY <2>2 DEF Elements
<1> QED
  BY <1>2, <1>3 DEF u, Superseded

\* A host's rule is lost only to another location of the host on that device.
LEMMA HostRuleKept ==
    ASSUME NEW e \in LearnedHost, Learned(e),
           \/ flows' = flows
           \/ SetsUp
           \/ InstallsLink
           \/ \E x \in LearnedHost \ Outdated(e) :
                 flows' = ApplyFlowRules(flows, HostRules(x.host, x.loc))
    PROVE  Learned(e)'
<1>1. CASE SetsUp
  <2>1. PICK b \in Comps, d \in Devices : flows' = ApplyFlowRules(flows, SetUpRules(b, d))
    BY <1>1 DEF SetsUp
  <2> QED
    BY <2>1, SetUpRulesNotUnicast DEF ApplyFlowRules, HostRules, NewRule, SameRule, Learned
<1>2. CASE InstallsLink
  <2>1. PICK l \in LinkSet : flows' = ApplyFlowRules(flows, L2NextHopRules(l))
    BY <1>2 DEF InstallsLink
  <2>2. e.host # l.dst
    BY ControllerAssumption DEF LearnedHost
  <2> QED
    BY <2>1, <2>2 DEF ApplyFlowRules, L2NextHopRules, HostRules, NewRule, SameRule, Learned
<1>3. ASSUME NEW x \in LearnedHost \ Outdated(e),
             flows' = ApplyFlowRules(flows, HostRules(x.host, x.loc))
      PROVE  Learned(e)'
  <2>1. x = e \/ x.host # e.host \/ x.loc.dev # e.loc.dev
    BY DEF Outdated
  <2> QED
    BY <1>3, <2>1 DEF ApplyFlowRules, HostRules, NewRule, SameRule, Learned
<1> QED
  BY <1>1, <1>2, <1>3 DEF Learned, HostRules

LEMMA HostsInit == Init => HostsAccountedFor
<1>1. Elements(<<>>) = {}
  BY DEF Elements
<1> QED
  BY <1>1 DEF Init, HostsAccountedFor, HostsSound, BridgeSound, Idle, Doing, None

LEMMA HostsSoundNext ==
    ASSUME TypeOK, HostsSound, [Next]_vars
    PROVE  HostsSound'
<1> USE DEF HostsSound
<1>1. CASE UNCHANGED <<avail, hosts>>
  BY <1>1
<1>2. CASE NetworkStep
  <2>1. ASSUME NEW d \in Devices, DeviceUp(d) \/ DeviceDown(d) PROVE HostsSound'
    <3>1. /\ hosts' \subseteq hosts
          /\ \A e \in hosts' : e.loc.dev \in avail'
      BY <2>1 DEF DeviceUp, DeviceDown
    <3> QED BY <3>1
  <2>2. ASSUME NEW e \in LearnedHost, HostAdded(e) \/ HostRemoved(e) PROVE HostsSound'
    BY <2>2 DEF HostAdded, HostRemoved
  <2>3. ASSUME NEW e \in LearnedHost, NEW to \in Locations, HostMoved(e, to) PROVE HostsSound'
    <3>1. /\ e \in hosts /\ hosts' = (hosts \ {e}) \cup {[e EXCEPT !.loc = to]}
          /\ to.dev \in avail /\ avail' = avail
      BY <2>3 DEF HostMoved
    <3>2. [e EXCEPT !.loc = to].host = e.host /\ [e EXCEPT !.loc = to].loc = to
      BY DEF LearnedHost
    <3> QED BY <3>1, <3>2
  <2> QED
    BY <1>1, <1>2, <2>1, <2>2, <2>3 DEF NetworkStep, LinkAdded, LinkRemoved, ConfigPushed,
       IfacesPushed, MastershipMoved
<1> QED
  BY <1>1, <1>2 DEF Next, DispatcherStep, DeviceEvent, DeviceEventDone, LinkEvent, HostEvent,
     ExecutorStep, StartSetUpAll, RunSetUpDevice, StartNextHops, RunLearnHost, SetUpOneDevice,
     InstallNextHop, LearnConnectedHost, LifecycleStep, Activate, TimerFires, vars, network

\* What the dispatcher puts into the queue: of hosts, those that have an event.
LEMMA DispatcherTasks ==
    ASSUME TypeOK, DispatcherStep
    PROVE  \E s \in Seq(Task) :
             /\ queue' = queue \o s
             /\ \A t \in Elements(s) : t # SetUpAllTask("l2")
             /\ \A t \in Elements(s) : t.kind = "host" => HostEvent /\ "l2" \in listening
<1>1. queue \in Seq(Task) /\ queue = queue \o <<>> /\ Elements(<<>>) = {} /\ <<>> \in Seq(Task)
  BY DEF TypeOK, Elements
<1>2. ASSUME NEW t \in Task, queue' = queue \o <<t>>, t # SetUpAllTask("l2"),
             t.kind = "host" => HostEvent /\ "l2" \in listening
      PROVE  \E s \in Seq(Task) :
             /\ queue' = queue \o s
             /\ \A x \in Elements(s) : x # SetUpAllTask("l2")
             /\ \A x \in Elements(s) : x.kind = "host" => HostEvent /\ "l2" \in listening
  <2>1. <<t>> \in Seq(Task) /\ Elements(<<t>>) = {t}
    BY ElementsOfSingleton
  <2> QED BY <1>2, <2>1
<1>3. CASE DeviceEvent
  <2>1. PICK e \in Event, c \in Comps :
          Enqueue(IF Relevant(c, e.dev) THEN <<SetUpDeviceTask(c, e.dev)>> ELSE <<>>)
    BY <1>3, EventDispatched
  <2>2. SetUpDeviceTask(c, e.dev) \in Task
    BY TasksAreTasks DEF Event
  <2> QED
    BY <1>1, <1>2, <2>1, <2>2 DEF Enqueue, SetUpDeviceTask, SetUpAllTask
<1>4. CASE DeviceEventDone
  BY <1>1, <1>4 DEF DeviceEventDone, app
<1>5. CASE LinkEvent
  <2> DEFINE s == NextHopsIfMaster(Head(linkEvents).src)
             t == NextHopsIfMaster(Head(linkEvents).dst)
  <2>1. Head(linkEvents).src \in Devices /\ Head(linkEvents).dst \in Devices
    BY <1>5, ControllerAssumption DEF LinkEvent, TypeOK
  <2>2. s \in Seq(Task) /\ t \in Seq(Task) /\ queue' = queue \o (s \o t)
    BY <1>5, <2>1, TasksAreTasks DEF NextHopsIfMaster, LinkEvent, Enqueue
  <2>3. \A x \in Elements(s) \cup Elements(t) : x.kind = "nexthops" /\ x # SetUpAllTask("l2")
    <3>1. ASSUME NEW d \in Devices, NEW x \in Elements(NextHopsIfMaster(d))
          PROVE  x.kind = "nexthops" /\ x # SetUpAllTask("l2")
      BY <1>1, <3>1, ElementsOfSingleton DEF NextHopsIfMaster, NextHopsTask, SetUpAllTask
    <3> QED BY <2>1, <3>1
  <2> HIDE DEF s, t
  <2>4. Elements(s \o t) = Elements(s) \cup Elements(t) /\ s \o t \in Seq(Task)
    BY <2>2, ElementsOfConcat
  <2> QED BY <2>2, <2>3, <2>4
<1>6. CASE HostEvent
  <2>1. Head(hostEvents) \in LearnedHost
    BY <1>6 DEF HostEvent, TypeOK
  <2>2. LearnHostTask(Head(hostEvents)) \in Task
    BY <2>1, TasksAreTasks
  <2> QED
    BY <1>1, <1>2, <1>6, <2>2 DEF HostEvent, Enqueue, LearnHostTask, SetUpAllTask
<1> QED
  BY <1>3, <1>4, <1>5, <1>6 DEF DispatcherStep

LEMMA BridgeSoundNext ==
    ASSUME TypeOK, BridgeSound, [Next]_vars
    PROVE  BridgeSound'
<1>1. ASSUME UNCHANGED run, listening \subseteq listening',
             \A t \in Elements(queue') \ Elements(queue) :
                t.kind = "host" \/ t = SetUpAllTask("l2") => "l2" \in listening
      PROVE  BridgeSound'
  BY <1>1 DEF BridgeSound
<1>2. CASE NetworkStep \/ UNCHANGED vars
  BY <1>2 DEF NetworkStep, DeviceUp, DeviceDown, LinkAdded, LinkRemoved, HostAdded, HostRemoved,
     HostMoved, ConfigPushed, IfacesPushed, MastershipMoved, vars, app, BridgeSound
<1>3. CASE DispatcherStep
  <2>1. UNCHANGED <<run, listening>>
    BY <1>3 DEF DispatcherStep, DeviceEvent, DeviceEventDone, LinkEvent, HostEvent, app
  <2>2. \E s \in Seq(Task) :
          /\ queue' = queue \o s
          /\ \A t \in Elements(s) : t.kind = "host" \/ t = SetUpAllTask("l2") => "l2" \in listening
    BY <1>3, DispatcherTasks
  <2>3. PICK s \in Seq(Task) :
          /\ queue' = queue \o s
          /\ \A t \in Elements(s) : t.kind = "host" \/ t = SetUpAllTask("l2") => "l2" \in listening
    BY <2>2
  <2>4. Elements(queue') = Elements(queue) \cup Elements(s)
    BY <2>3, ElementsOfConcat DEF TypeOK
  <2> QED BY <1>1, <2>1, <2>3, <2>4
<1>4. CASE LifecycleStep
  <2>1. ASSUME NEW c \in Comps, Activate(c) PROVE BridgeSound'
    BY <1>1, <2>1 DEF Activate
  <2>2. ASSUME NEW c \in Comps, TimerFires(c) PROVE BridgeSound'
    <3>1. Elements(queue') = Elements(queue) \cup {SetUpAllTask(c)}
      BY <2>2, ElementsOfAppend, TasksAreTasks DEF TimerFires, TypeOK
    <3>2. c \in listening /\ UNCHANGED <<run, listening>>
      BY <2>2 DEF TimerFires, TypeOK
    <3>3. SetUpAllTask(c).kind # "host" /\ (SetUpAllTask(c) = SetUpAllTask("l2") => c = "l2")
      BY DEF SetUpAllTask
    <3> QED BY <1>1, <3>1, <3>2, <3>3
  <2> QED BY <1>4, <2>1, <2>2 DEF LifecycleStep
<1>5. ASSUME NEW kind, Take(kind), UNCHANGED listening,
             \/ run' = Idle
             \/ \E S : run' = Doing("ipv6", {}, S, {})
             \/ /\ kind = "all" /\ run' = Doing(Head(queue).comp, avail, {}, {})
      PROVE  BridgeSound'
  <2>1. /\ Elements(queue) = {Head(queue)} \cup Elements(queue')
        /\ Head(queue) \in Task /\ Head(queue).kind = kind
    BY <1>5, QueueTaken
  <2>2. kind = "all" => Head(queue) = SetUpAllTask(Head(queue).comp)
    BY <2>1 DEF Task, SetUpAllTask
  <2>3. CASE kind = "all" /\ run' = Doing(Head(queue).comp, avail, {}, {})
    BY <1>5, <2>1, <2>2, <2>3 DEF BridgeSound, Doing
  <2> QED BY <1>5, <2>1, <2>3 DEF BridgeSound, Doing, Idle, None
<1>6. CASE StartSetUpAll \/ RunSetUpDevice \/ StartNextHops \/ RunLearnHost
  BY <1>5, <1>6 DEF StartSetUpAll, RunSetUpDevice, StartNextHops, RunLearnHost
<1>7. CASE SetUpOneDevice \/ InstallNextHop \/ LearnConnectedHost
  BY <1>7 DEF SetUpOneDevice, InstallNextHop, LearnConnectedHost, BridgeSound, Doing, Idle, None
<1> QED
  BY <1>2, <1>3, <1>4, <1>6, <1>7 DEF Next, ExecutorStep

-----------------------------------------------------------------------------
HostCovered(e) == HostFollowed(e) /\ (HostPending(e) \/ Learned(e))

\* Steps that leave the executor's thread and its stores alone.
LEMMA HostsPassed ==
    ASSUME TypeOK, NEW e, HostCovered(e), UNCHANGED <<hostEvents, run, flows>>,
           NotYet("l2") => NotYet("l2")' \/ SetUpAllTask("l2") \in Elements(queue'),
           NEW s \in Seq(Task), queue' = queue \o s, \A t \in Elements(s) : t.kind # "host"
    PROVE  HostCovered(e)'
<1>1. queue \in Seq(Task) /\ Elements(queue') = Elements(queue) \cup Elements(s)
  BY ElementsOfConcat DEF TypeOK
<1>2. Elements(s) \cap OutdatedTasks(e) = {}
  BY DEF OutdatedTasks, LearnHostTask
<1>3. Superseded(queue, OutdatedTasks(e), LearnHostTask(e))
        => Superseded(queue', OutdatedTasks(e), LearnHostTask(e))
  BY <1>1, <1>2, SupersededGrows
<1>4. HostFollowed(e)'
  BY <1>1, <1>3 DEF HostCovered, HostFollowed, HostPosted, HostQueued, Outdated, OutdatedTasks
<1>5. HostPending(e) => HostPending(e)'
  BY <1>1 DEF HostPending, HostPosted, HostQueued, Working
<1> QED
  BY <1>4, <1>5 DEF HostCovered, Learned

LEMMA HostsNetwork ==
    ASSUME TypeOK, NetworkStep, NEW e \in hosts', e.host \notin Movable,
           e \in hosts => HostCovered(e)
    PROVE  HostCovered(e)'
<1>1. UNCHANGED <<listening, timers, queue, run, flows>>
  BY DEF NetworkStep, DeviceUp, DeviceDown, LinkAdded, LinkRemoved, HostAdded, HostRemoved,
     HostMoved, ConfigPushed, IfacesPushed, MastershipMoved, app, stores
<1>2. CASE e \in hosts /\ UNCHANGED hostEvents
  BY <1>1, <1>2 DEF HostCovered, HostFollowed, HostPending, HostPosted, HostQueued, Working,
     NotYet, Learned, Outdated, OutdatedTasks, Superseded, Elements
<1>3. ASSUME NEW k \in LearnedHost, HostAdded(k) PROVE HostCovered(e)'
  <2>1. hostEvents \in Seq(LearnedHost) /\ hostEvents' = Append(hostEvents, k)
    BY <1>3 DEF HostAdded, TypeOK
  <2>2. Elements(hostEvents') = Elements(hostEvents) \cup {k}
    BY <2>1, ElementsOfAppend
  <2>3. CASE e = k
    <3>1. e \notin Outdated(e)
      BY DEF Outdated
    <3>2. Superseded(hostEvents', Outdated(e), e)
      BY <2>1, <2>3, <3>1, SupersededAnew
    <3> QED
      BY <2>2, <2>3, <3>2 DEF HostCovered, HostFollowed, HostPending, HostPosted, Outdated
  <2>4. CASE e # k
    <3>1. e \in hosts /\ k.host # e.host
      BY <1>3, <2>4 DEF HostAdded
    <3>2. Elements(<<k>>) \cap Outdated(e) = {} /\ hostEvents' = hostEvents \o <<k>>
      BY <2>1, <3>1, ElementsOfSingleton DEF Outdated
    <3>3. Superseded(hostEvents', Outdated(e), e)
      <4>1. <<k>> \in Seq(LearnedHost) /\ Superseded(hostEvents, Outdated(e), e)
        BY <3>1 DEF HostCovered, HostFollowed
      <4>2. Superseded(hostEvents \o <<k>>, Outdated(e), e)
        BY <2>1, <3>2, <4>1, SupersededGrows
      <4> QED BY <3>2, <4>2
    <3> QED
      BY <1>1, <2>2, <3>1, <3>3 DEF HostCovered, HostFollowed, HostPending, HostPosted,
         HostQueued, Working, NotYet, Learned, Outdated, OutdatedTasks
  <2> QED BY <2>3, <2>4
<1>4. ASSUME NEW k \in LearnedHost, NEW to \in Locations, HostMoved(k, to) PROVE HostCovered(e)'
  <2>1. [k EXCEPT !.loc = to].host \in Movable
    BY <1>4 DEF HostMoved, LearnedHost
  <2>2. e \in hosts /\ UNCHANGED hostEvents
    BY <1>4, <2>1 DEF HostMoved, events
  <2> QED BY <1>2, <2>2
<1>5. CASE hosts' \subseteq hosts /\ UNCHANGED hostEvents
  BY <1>2, <1>5
<1> QED
  BY <1>3, <1>4, <1>5 DEF NetworkStep, DeviceUp, DeviceDown, LinkAdded, LinkRemoved,
     HostRemoved, ConfigPushed, IfacesPushed, MastershipMoved, events

\* An event that is taken becomes a task, unless nobody listens to it yet.
LEMMA HostsDispatcher ==
    ASSUME TypeOK, master = Devices, BridgeSound, DispatcherStep, "l2" \in Comps,
           NEW e \in hosts, HostCovered(e)
    PROVE  HostCovered(e)'
<1>1. UNCHANGED <<listening, timers, run, flows>>
  BY DEF DispatcherStep, DeviceEvent, DeviceEventDone, LinkEvent, HostEvent, app, stores
<1>2. PICK s \in Seq(Task) :
         /\ queue' = queue \o s
         /\ \A t \in Elements(s) : t.kind = "host" => HostEvent /\ "l2" \in listening
  BY DispatcherTasks
<1>3. CASE ~HostEvent
  <2>1. UNCHANGED hostEvents
    BY <1>3 DEF DispatcherStep, DeviceEvent, DeviceEventDone, LinkEvent
  <2>2. NotYet("l2") => NotYet("l2")'
    BY <1>1 DEF NotYet
  <2> QED
    BY <1>1, <1>2, <1>3, <2>1, <2>2, HostsPassed
<1>4. CASE HostEvent
  <2> DEFINE h == Head(hostEvents)
  <2>1. hostEvents \in Seq(LearnedHost) /\ hostEvents # <<>> /\ hostEvents' = Tail(hostEvents)
    BY <1>4 DEF HostEvent, TypeOK
  <2>2. /\ Elements(hostEvents) = {h} \cup Elements(hostEvents')
        /\ h \in LearnedHost /\ h.loc.dev \in Devices /\ e \in LearnedHost
    <3>1. Elements(hostEvents) = {h} \cup Elements(hostEvents') /\ h \in LearnedHost
      BY <2>1, ElementsOfTail
    <3> QED BY <3>1, ControllerAssumption DEF TypeOK, LearnedHost
  <2>3. Superseded(hostEvents', Outdated(e), e) /\ (h \in Outdated(e) => HostPosted(e)')
    BY <2>1, SupersededTaken DEF HostCovered, HostFollowed, HostPosted
  <2>4. IF "l2" \in listening THEN queue' = queue \o <<LearnHostTask(h)>> ELSE queue' = queue
    BY <1>4, <2>2 DEF HostEvent, Enqueue, TypeOK
  <2>5. queue \in Seq(Task) /\ LearnHostTask(h) \in Task /\ LearnHostTask(e) \in Task
    BY <2>2, TasksAreTasks DEF TypeOK
  <2>6. Elements(queue \o <<LearnHostTask(h)>>) = Elements(queue) \cup {LearnHostTask(h)}
    <3>1. <<LearnHostTask(h)>> \in Seq(Task)
      BY <2>5
    <3>2. Elements(queue \o <<LearnHostTask(h)>>)
            = Elements(queue) \cup Elements(<<LearnHostTask(h)>>)
      BY <2>5, <3>1, ElementsOfConcat
    <3> QED BY <3>2, ElementsOfSingleton
  <2> HIDE DEF h
  <2>7. CASE HostPosted(e)'
    BY <2>3, <2>7 DEF HostCovered, HostFollowed, HostPending, Outdated
  <2>8. CASE ~HostPosted(e)' /\ "l2" \notin listening
    <3>1. \A t \in Elements(queue) : t.kind # "host"
      BY <2>8 DEF BridgeSound
    <3>2. Superseded(queue', OutdatedTasks(e), LearnHostTask(e))
      <4>1. queue' = queue /\ DOMAIN queue = 1..Len(queue)
        BY <2>4, <2>5, <2>8
      <4>2. \A i \in DOMAIN queue : queue[i] \notin OutdatedTasks(e)
        BY <3>1, <4>1 DEF Elements, OutdatedTasks, LearnHostTask
      <4> QED BY <4>1, <4>2 DEF Superseded
    <3>3. run'.learn = {}
      BY <1>1, <2>8 DEF BridgeSound
    <3> QED
      BY <1>1, <2>3, <2>8, <3>2, <3>3 DEF HostCovered, HostFollowed, HostPending, NotYet,
         Outdated, OutdatedTasks
  <2>9. CASE ~HostPosted(e)' /\ "l2" \in listening /\ h = e
    <3>1. HostQueued(e)'
      BY <2>4, <2>6, <2>9 DEF HostQueued
    <3>2. LearnHostTask(e) \notin OutdatedTasks(e)
      BY DEF OutdatedTasks, Outdated, LearnHostTask
    <3>3. queue' = Append(queue, LearnHostTask(e))
      BY <2>4, <2>5, <2>9
    <3>4. Superseded(queue', OutdatedTasks(e), LearnHostTask(e))
      BY <2>5, <3>2, <3>3, SupersededAnew
    <3> QED
      BY <2>3, <3>1, <3>4 DEF HostCovered, HostFollowed, HostPending, Outdated, OutdatedTasks
  <2>10. CASE ~HostPosted(e)' /\ "l2" \in listening /\ h # e
    <3>1. ~HostPosted(e) /\ h \notin Outdated(e)
      BY <2>2, <2>3, <2>10 DEF HostPosted
    <3>2. LearnHostTask(h) \notin OutdatedTasks(e)
      BY <3>1 DEF OutdatedTasks, LearnHostTask
    <3>3. Elements(<<LearnHostTask(h)>>) \cap OutdatedTasks(e) = {}
          /\ <<LearnHostTask(h)>> \in Seq(Task)
      BY <2>5, <3>2, ElementsOfSingleton
    <3>4. Superseded(queue', OutdatedTasks(e), LearnHostTask(e))
      BY <2>4, <2>5, <2>10, <3>1, <3>3, SupersededGrows DEF HostCovered, HostFollowed
    <3>5. HostQueued(e) => HostQueued(e)'
      BY <2>4, <2>6, <2>10 DEF HostQueued
    <3>6. HostFollowed(e)'
      BY <1>1, <2>3, <3>1, <3>4, <3>5 DEF HostCovered, HostFollowed, Outdated, OutdatedTasks
    <3>7. Elements(queue) \subseteq Elements(queue')
      BY <2>4, <2>6, <2>10
    <3>8. (HostPending(e) \/ Learned(e)) => (HostPending(e) \/ Learned(e))'
      BY <1>1, <3>1, <3>5, <3>7 DEF HostPending, Learned, NotYet, Working
    <3> QED BY <3>6, <3>8 DEF HostCovered
  <2> QED BY <2>7, <2>8, <2>9, <2>10
<1> QED
  BY <1>3, <1>4

LEMMA HostsLifecycle ==
    ASSUME TypeOK, LifecycleStep, NEW e, HostCovered(e)
    PROVE  HostCovered(e)'
<1>1. UNCHANGED <<hostEvents, run, flows>>
  BY DEF LifecycleStep, Activate, TimerFires, events, stores
<1>2. ASSUME NEW c \in Comps, Activate(c) PROVE HostCovered(e)'
  <2>1. queue' = queue \o <<>> /\ <<>> \in Seq(Task) /\ Elements(<<>>) = {}
    BY <1>2 DEF Activate, TypeOK, Elements
  <2>2. NotYet("l2") => NotYet("l2")'
    BY <1>2 DEF Activate, NotYet
  <2> QED
    BY <1>1, <2>1, <2>2, HostsPassed
<1>3. ASSUME NEW c \in Comps, TimerFires(c) PROVE HostCovered(e)'
  <2>1. SetUpAllTask(c) \in Task /\ SetUpAllTask(c).kind # "host"
    BY TasksAreTasks DEF SetUpAllTask
  <2>2. <<SetUpAllTask(c)>> \in Seq(Task) /\ Elements(<<SetUpAllTask(c)>>) = {SetUpAllTask(c)}
    BY <2>1, ElementsOfSingleton
  <2>3. queue \in Seq(Task) /\ queue' = queue \o <<SetUpAllTask(c)>>
    BY <1>3, <2>1 DEF TimerFires, TypeOK
  <2>4. SetUpAllTask(c) \in Elements(queue')
    <3>1. Elements(queue \o <<SetUpAllTask(c)>>)
            = Elements(queue) \cup Elements(<<SetUpAllTask(c)>>)
      BY <2>2, <2>3, ElementsOfConcat
    <3> QED BY <2>2, <2>3, <3>1
  <2>5. NotYet("l2") => NotYet("l2")' \/ SetUpAllTask("l2") \in Elements(queue')
    BY <1>3, <2>4 DEF TimerFires, NotYet
  <2> QED
    BY <1>1, <2>1, <2>2, <2>3, <2>5, HostsPassed
<1> QED
  BY <1>2, <1>3 DEF LifecycleStep


\* The executor takes a task: of the locations of a host the latest comes last.
LEMMA HostsTaken ==
    ASSUME TypeOK, HostsSound, NEW kind, Take(kind),
           StartSetUpAll \/ RunSetUpDevice \/ StartNextHops \/ RunLearnHost,
           NEW e \in hosts, HostCovered(e)
    PROVE  HostCovered(e)'
<1>1. UNCHANGED <<hostEvents, listening, timers>> /\ run'.learn = {}
  BY DEF StartSetUpAll, RunSetUpDevice, StartNextHops, RunLearnHost, events, Doing, Idle
<1>2. run.devs = {} /\ run.learn = {} /\ queue \in Seq(Task) /\ queue # <<>>
      /\ queue' = Tail(queue) /\ e \in LearnedHost
  BY DEF Take, Free, TypeOK
<1>3. /\ Elements(queue) = {Head(queue)} \cup Elements(queue')
      /\ Head(queue) \in Task /\ Head(queue).kind = kind
  BY QueueTaken
<1>4. \/ HostPosted(e)
      \/ /\ Superseded(queue', OutdatedTasks(e), LearnHostTask(e))
         /\ Head(queue) \in OutdatedTasks(e) => HostQueued(e)'
  BY <1>2, SupersededTaken DEF HostCovered, HostFollowed, HostQueued
<1>5. HostFollowed(e)'
  BY <1>1, <1>4 DEF HostCovered, HostFollowed, HostPosted, Outdated, OutdatedTasks
<1>6. CASE HostPosted(e) \/ NotYet("l2")
  BY <1>1, <1>5, <1>6 DEF HostPosted, NotYet, HostCovered, HostPending
<1>7. CASE SetUpAllTask("l2") \in Elements(queue)
  <2>1. CASE Head(queue) # SetUpAllTask("l2")
    BY <1>3, <1>5, <1>7, <2>1 DEF HostCovered, HostPending
  <2>2. CASE Head(queue) = SetUpAllTask("l2")
    <3>1. StartSetUpAll
      BY <2>2 DEF RunSetUpDevice, StartNextHops, RunLearnHost, Take, SetUpAllTask
    <3>2. run' = Doing("l2", avail, {}, {})
      BY <2>2, <3>1 DEF StartSetUpAll, SetUpAllTask
    <3> QED
      BY <1>5, <3>2 DEF Doing, Working, HostsSound, HostCovered, HostPending
  <2> QED BY <2>1, <2>2
<1>8. CASE RunLearnHost /\ ~HostPosted(e)
  <2>1. PICK x \in LearnedHost : Head(queue) = LearnHostTask(x)
    BY <1>3, <1>8 DEF RunLearnHost, Take, Task, LearnHostTask
  <2>2. flows' = ApplyFlowRules(flows, HostRules(x.host, x.loc))
    BY <1>8, <2>1 DEF RunLearnHost, LearnHostTask
  <2>3. CASE x = e
    BY <1>5, <2>2, <2>3 DEF HostCovered, Learned, ApplyFlowRules, HostRules
  <2>4. CASE x \in Outdated(e)
    <3>1. HostQueued(e)'
      BY <1>4, <1>8, <2>1, <2>4 DEF OutdatedTasks
    <3> QED BY <1>5, <3>1 DEF HostCovered, HostPending
  <2>5. CASE x # e /\ x \notin Outdated(e)
    <3>1. HostQueued(e) => HostQueued(e)'
      BY <1>3, <2>1, <2>5 DEF HostQueued, LearnHostTask
    <3>2. Learned(e) => Learned(e)'
      BY <1>2, <2>2, <2>5, HostRuleKept
    <3>3. CASE HostQueued(e) \/ Learned(e)
      BY <1>5, <3>1, <3>2, <3>3 DEF HostCovered, HostPending
    <3> QED
      BY <1>2, <1>6, <1>7, <3>3 DEF HostCovered, HostPending, Working
  <2> QED BY <2>3, <2>4, <2>5
<1>9. CASE ~RunLearnHost
  <2>1. Head(queue).kind # "host"
    BY <1>3, <1>9 DEF StartSetUpAll, RunSetUpDevice, StartNextHops, Take
  <2>2. HostQueued(e) => HostQueued(e)'
    BY <1>3, <2>1 DEF HostQueued, LearnHostTask
  <2>3. flows' = flows \/ SetsUp
    <3>1. CASE RunSetUpDevice
      <4>1. Head(queue).comp \in Comps /\ Head(queue).dev \in Devices
        BY <1>3, <3>1 DEF RunSetUpDevice, Take, Task
      <4> QED
        BY <3>1, <4>1 DEF RunSetUpDevice, SetUpDevice, SetsUp, stores
    <3> QED
      BY <1>9, <3>1 DEF StartSetUpAll, StartNextHops, stores
  <2>4. Learned(e) => Learned(e)'
    BY <1>2, <2>3, HostRuleKept
  <2>5. CASE HostQueued(e) \/ Learned(e)
    BY <1>5, <2>2, <2>4, <2>5 DEF HostCovered, HostPending
  <2> QED
    BY <1>2, <1>6, <1>7, <2>5 DEF HostCovered, HostPending, Working
<1> QED
  BY <1>6, <1>8, <1>9

LEMMA HostsWorked ==
    ASSUME TypeOK, master = Devices, HostsSound, BridgeSound,
           SetUpOneDevice \/ InstallNextHop \/ LearnConnectedHost,
           NEW e \in hosts, HostCovered(e)
    PROVE  HostCovered(e)'
<1>1. UNCHANGED <<hostEvents, listening, timers, queue>>
  BY DEF SetUpOneDevice, InstallNextHop, LearnConnectedHost, events
<1>2. e \in LearnedHost /\ e.loc.dev \in avail \cap master
  BY ControllerAssumption DEF TypeOK, HostsSound, LearnedHost
<1>3. ASSUME run'.learn \cap Outdated(e) = {}
             \/ HostPosted(e) \/ HostQueued(e)
      PROVE  HostFollowed(e)'
  BY <1>1, <1>3 DEF HostCovered, HostFollowed, HostPosted, HostQueued, Outdated, OutdatedTasks
<1>4. \/ HostPosted(e) \/ HostQueued(e)
      \/ NotYet("l2") \/ SetUpAllTask("l2") \in Elements(queue)
      => HostPending(e)'
  BY <1>1 DEF HostPending, HostPosted, HostQueued, NotYet
<1>5. CASE SetUpOneDevice
  <2>1. PICK d \in run.devs :
         \/ /\ d \notin avail \cap master
            /\ run' = Doing(run.comp, run.devs \ {d}, {}, {})
            /\ UNCHANGED stores
         \/ SetUpThrows(run.comp, d) /\ run' = Idle /\ UNCHANGED stores
         \/ /\ SetUpDevice(run.comp, d)
            /\ run'.comp = run.comp /\ run'.devs = run.devs \ {d}
            /\ run'.learn = IF run.comp = "l2" THEN ConnectedHosts(d) ELSE {}
    BY <1>5 DEF SetUpOneDevice, Doing
  <2>2. d \in Devices /\ run.comp \in Comps /\ run.learn = {}
    BY <1>5 DEF TypeOK, Running, SetUpOneDevice
  <2>3. run'.learn \subseteq hosts
    BY <2>1 DEF Doing, Idle, ConnectedHosts
  <2>4. HostFollowed(e)'
    BY <1>3, <2>3 DEF HostsSound, Outdated
  <2>5. flows' = flows \/ SetsUp
    BY <2>1, <2>2 DEF SetUpDevice, SetsUp, stores
  <2>6. Learned(e) => Learned(e)'
    BY <1>2, <2>5, HostRuleKept
  <2>7. CASE Working("l2", e.loc.dev)
    <3>1. ~SetUpThrows(run.comp, d) /\ run.comp = "l2"
      BY <2>7 DEF Working, SetUpThrows
    <3>2. CASE d = e.loc.dev
      BY <1>2, <2>1, <2>4, <3>1, <3>2 DEF ConnectedHosts, HostCovered, HostPending
    <3>3. CASE d # e.loc.dev
      BY <2>1, <2>4, <2>7, <3>1, <3>3 DEF Doing, Working, HostCovered, HostPending
    <3> QED BY <3>2, <3>3
  <2> QED
    BY <1>4, <2>2, <2>4, <2>6, <2>7 DEF HostCovered, HostPending
<1>6. CASE InstallNextHop
  <2>1. PICK l \in run.links :
          \/ run' = Idle /\ UNCHANGED flows
          \/ /\ flows' = ApplyFlowRules(flows, L2NextHopRules(l))
             /\ run' = Doing(run.comp, run.devs, run.links \ {l}, run.learn)
    BY <1>6 DEF InstallNextHop
  <2>2. l \in LinkSet /\ run.comp # "l2" /\ run.learn = {}
    BY <2>1 DEF TypeOK, Running, BridgeSound
  <2>3. HostFollowed(e)'
    BY <1>3, <2>1, <2>2 DEF Doing, Idle
  <2>4. Learned(e) => Learned(e)'
    BY <1>2, <2>1, <2>2, HostRuleKept DEF InstallsLink
  <2> QED
    BY <1>4, <2>2, <2>3, <2>4 DEF HostCovered, HostPending, Working
<1>7. CASE LearnConnectedHost
  <2>1. PICK x \in run.learn :
          /\ flows' = ApplyFlowRules(flows, HostRules(x.host, x.loc))
          /\ run' = Doing(run.comp, run.devs, run.links, run.learn \ {x})
    BY <1>7 DEF LearnConnectedHost
  <2>2. x \in LearnedHost
    BY DEF TypeOK, Running
  <2>3. HostFollowed(e)'
    BY <1>3, <2>1 DEF HostCovered, HostFollowed, Doing
  <2>4. CASE x = e
    BY <2>1, <2>3, <2>4 DEF HostCovered, Learned, ApplyFlowRules, HostRules
  <2>5. CASE x \in Outdated(e)
    BY <1>4, <2>3, <2>5 DEF HostCovered, HostFollowed
  <2>6. CASE x # e /\ x \notin Outdated(e)
    <3>1. Learned(e) => Learned(e)'
      BY <1>2, <2>1, <2>2, <2>6, HostRuleKept
    <3>2. e \in run.learn => e \in run'.learn
      BY <2>1, <2>6 DEF Doing
    <3>3. Working("l2", e.loc.dev) => Working("l2", e.loc.dev)'
      BY <2>1 DEF Doing, Working
    <3> QED
      BY <1>4, <2>3, <3>1, <3>2, <3>3 DEF HostCovered, HostPending
  <2> QED BY <2>4, <2>5, <2>6
<1> QED
  BY <1>5, <1>6, <1>7

LEMMA HostsNext ==
    ASSUME TypeOK, master = Devices, HostsAccountedFor, [Next]_vars
    PROVE  HostsAccountedFor'
<1>1. HostsSound /\ BridgeSound /\ HostsSound' /\ BridgeSound'
  BY HostsSoundNext, BridgeSoundNext DEF HostsAccountedFor
<1> SUFFICES ASSUME "l2" \in Comps, NEW e \in hosts', e.host \notin Movable
             PROVE  HostCovered(e)'
  BY <1>1 DEF HostsAccountedFor, HostCovered
<1>2. e \in hosts => HostCovered(e)
  BY DEF HostsAccountedFor, HostCovered
<1>3. CASE NetworkStep
  BY <1>2, <1>3, HostsNetwork
<1>4. NetworkStep \/ UNCHANGED hosts
  BY DEF Next, DispatcherStep, DeviceEvent, DeviceEventDone, LinkEvent, HostEvent,
     ExecutorStep, StartSetUpAll, RunSetUpDevice, StartNextHops, RunLearnHost, SetUpOneDevice,
     InstallNextHop, LearnConnectedHost, LifecycleStep, Activate, TimerFires, vars, network
<1>5. CASE e \in hosts
  <2>1. CASE DispatcherStep
    BY <1>1, <1>2, <1>5, <2>1, HostsDispatcher
  <2>2. CASE LifecycleStep
    BY <1>2, <1>5, <2>2, HostsLifecycle
  <2>3. ASSUME NEW kind, Take(kind), StartSetUpAll \/ RunSetUpDevice \/ StartNextHops \/ RunLearnHost
        PROVE  HostCovered(e)'
    BY <1>1, <1>2, <1>5, <2>3, HostsTaken
  <2>4. CASE StartSetUpAll \/ RunSetUpDevice \/ StartNextHops \/ RunLearnHost
    BY <2>3, <2>4 DEF StartSetUpAll, RunSetUpDevice, StartNextHops, RunLearnHost
  <2>5. CASE SetUpOneDevice \/ InstallNextHop \/ LearnConnectedHost
    BY <1>1, <1>2, <1>5, <2>5, HostsWorked
  <2>6. CASE UNCHANGED vars
    BY <1>2, <1>5, <2>6 DEF vars, events, app, stores, HostCovered, HostFollowed, HostPending,
       HostPosted, HostQueued, Working, NotYet, Learned, Outdated, OutdatedTasks
  <2>7. QED
    BY <1>3, <2>1, <2>2, <2>4, <2>5, <2>6 DEF Next, ExecutorStep
<1>6. QED
  BY <1>3, <1>4, <1>5

LEMMA MasterStays ==
    ASSUME Roaming = {}, master = Devices, [Next]_vars
    PROVE  master' = Devices
  BY DEF Next, NetworkStep, DeviceUp, DeviceDown, LinkAdded, LinkRemoved, HostAdded, HostRemoved,
     HostMoved, ConfigPushed, IfacesPushed, MastershipMoved, DispatcherStep, DeviceEvent,
     DeviceEventDone, LinkEvent, HostEvent, ExecutorStep, StartSetUpAll, RunSetUpDevice,
     StartNextHops, RunLearnHost, SetUpOneDevice, InstallNextHop, LearnConnectedHost,
     LifecycleStep, Activate, TimerFires, vars, network

LEMMA HostsQuiet == HostsAccountedFor => QuietHostsLearned
<1> SUFFICES ASSUME HostsAccountedFor, Quiet, "l2" \in Comps,
                    NEW e \in hosts, e.host \notin Movable
             PROVE  Learned(e)
  BY DEF QuietHostsLearned, Learned
<1>1. Elements(<<>>) = {}
  BY DEF Elements
<1>2. ~HostPending(e)
  BY <1>1 DEF Quiet, Free, HostPending, HostPosted, HostQueued, NotYet, Working
<1>3. QED
  BY <1>2 DEF HostsAccountedFor

(* Where mastership stays, every host that has not moved is in the unicast *)
(* table of its device with its port whenever nothing is in flight.  The   *)
(* location L2BridgingComponent.learnHost writes is the one of the event,  *)
(* and may have been forgotten with the device and found again elsewhere   *)
(* since; setUpAllDevices may have read it before that too.  Configuration *)
(* may come at any time.                                                   *)
THEOREM HostsLearned ==
    ASSUME Roaming = {}
    PROVE  Spec => []QuietHostsLearned
<1>1. Init => master = Devices /\ HostsAccountedFor
  BY HostsInit DEF Init
<1>2. TypeOK /\ master = Devices /\ HostsAccountedFor /\ [Next]_vars
        => (master = Devices)' /\ HostsAccountedFor'
  BY MasterStays, HostsNext
<1>3. Spec => []TypeOK
  BY Typing
<1>4. Spec => [](master = Devices /\ HostsAccountedFor)
  BY <1>1, <1>2, <1>3, PTL DEF Spec
<1>5. QED
  BY <1>4, HostsQuiet, PTL

-----------------------------------------------------------------------------
(* A device that has come up since it was configured and listened to needs *)
(* no other set-up than the one its event asks for: that task throws       *)
(* nothing, and what is lost with an exception in another one is not       *)
(* counted on.                                                             *)

Heard(c, d) == Announced(c, d) \/ SetUpDeviceTask(c, d) \in Elements(queue)
Bounced(c, d) ==
    /\ d \in config \cap ifaces \cap master /\ c \in listening
    /\ d \in avail => Heard(c, d) \/ DeviceReady(c, d)

LEMMA BouncedNetwork ==
    ASSUME TypeOK, NetworkStep, NEW c \in Comps, NEW d \in avail',
           d \in avail => Heard(c, d)
    PROVE  Heard(c, d)'
<1>1. ASSUME NEW x \in Devices, DeviceUp(x) PROVE Heard(c, d)'
  <2>1. Elements(devEvents') = Elements(devEvents) \cup {[dev |-> x, to |-> Comps]}
    BY <1>1, EventPosted DEF DeviceUp
  <2>2. CASE d = x
    <3>1. PICK e : e = [dev |-> x, to |-> Comps]
      OBVIOUS
    <3>2. e \in Elements(devEvents') /\ e.dev = d /\ c \in e.to
      BY <2>1, <2>2, <3>1
    <3> QED BY <3>2 DEF Heard, Announced
  <2>3. CASE d # x
    BY <1>1, <2>1, <2>3 DEF DeviceUp, app, Heard, Announced
  <2> QED BY <2>2, <2>3
<1>2. ASSUME NEW x \in Devices, DeviceDown(x) PROVE Heard(c, d)'
  <2>1. Elements(devEvents) \subseteq Elements(devEvents')
    BY <1>2, EventPosted DEF DeviceDown
  <2> QED BY <1>2, <2>1 DEF DeviceDown, app, Heard, Announced
<1>3. CASE UNCHANGED <<avail, devEvents, app>>
  BY <1>3 DEF app, Heard, Announced
<1> QED
  BY <1>1, <1>2, <1>3 DEF NetworkStep, LinkAdded, LinkRemoved, HostAdded, HostRemoved,
     HostMoved, ConfigPushed, IfacesPushed, MastershipMoved, events

LEMMA BouncedDispatcher ==
    ASSUME TypeOK, DispatcherStep, NEW c \in Comps, NEW d \in avail, d \in master,
           c \in listening, Heard(c, d)
    PROVE  Heard(c, d)'
<1>1. Elements(queue) \subseteq Elements(queue')
  BY DispatcherQueues
<1>2. CASE Announced(c, d)
  <2>1. PICK g \in Elements(devEvents) : g.dev = d /\ c \in g.to
    BY <1>2 DEF Announced
  <2>2. CASE UNCHANGED devEvents
    BY <1>2, <2>2 DEF Heard, Announced
  <2>3. CASE DeviceEvent
    <3>1. PICK e \in Event, f \in Event, b \in Comps :
             /\ f.dev = e.dev /\ f.to = e.to \ {b}
             /\ \E rest : /\ Elements(devEvents) = {e} \cup rest
                          /\ Elements(devEvents') = {f} \cup rest
             /\ Enqueue(IF Relevant(b, e.dev) THEN <<SetUpDeviceTask(b, e.dev)>> ELSE <<>>)
      BY <2>3, EventDispatched
    <3>2. CASE g \in Elements(devEvents') \/ (g = e /\ c # b)
      BY <2>1, <3>1, <3>2 DEF Heard, Announced
    <3>3. CASE g = e /\ c = b
      <4>1. Enqueue(<<SetUpDeviceTask(c, d)>>)
        BY <2>1, <3>1, <3>3 DEF Relevant
      <4>2. <<SetUpDeviceTask(c, d)>> \in Seq(Task)
        BY TasksAreTasks DEF TypeOK
      <4>3. Elements(queue') = Elements(queue) \cup Elements(<<SetUpDeviceTask(c, d)>>)
        BY <4>1, <4>2, QueueGrows
      <4> QED BY <4>3, ElementsOfSingleton DEF Heard
    <3> QED BY <2>1, <3>1, <3>2, <3>3
  <2>4. CASE DeviceEventDone
    <3>1. devEvents \in Seq(Event) /\ devEvents # <<>> /\ devEvents' = Tail(devEvents)
      BY <2>4 DEF DeviceEventDone, TypeOK, Event
    <3>2. Elements(devEvents) = {Head(devEvents)} \cup Elements(devEvents')
      BY <3>1, ElementsOfTail
    <3>3. g \in Elements(devEvents')
      BY <2>1, <2>4, <3>2 DEF DeviceEventDone
    <3> QED BY <2>1, <3>3 DEF Heard, Announced
  <2> QED
    BY <2>2, <2>3, <2>4 DEF DispatcherStep, LinkEvent, HostEvent
<1> QED
  BY <1>1, <1>2 DEF Heard

LEMMA BouncedExecutor ==
    ASSUME TypeOK, ExecutorStep, NEW c \in Comps, NEW d \in config \cap ifaces, Heard(c, d)
    PROVE  Heard(c, d)' \/ DeviceReady(c, d)'
<1>1. UNCHANGED <<devEvents, ifaces>>
  BY DEF ExecutorStep, StartSetUpAll, RunSetUpDevice, StartNextHops, RunLearnHost,
     SetUpOneDevice, InstallNextHop, LearnConnectedHost, network, events
<1>2. CASE UNCHANGED queue
  BY <1>1, <1>2 DEF Heard, Announced
<1>3. ASSUME NEW kind, Take(kind), Head(queue) # SetUpDeviceTask(c, d)
      PROVE  Heard(c, d)'
  BY <1>1, <1>3, QueueTaken DEF Heard, Announced
<1>4. CASE RunSetUpDevice /\ Head(queue) = SetUpDeviceTask(c, d)
  <2>1. SetUpDevice(c, d)
    BY <1>4 DEF RunSetUpDevice, SetUpThrows, SetUpDeviceTask
  <2> QED BY <1>1, <2>1, SetUpMakesReady
<1>5. CASE StartSetUpAll \/ StartNextHops \/ RunLearnHost
  BY <1>3, <1>5 DEF StartSetUpAll, StartNextHops, RunLearnHost, Take, SetUpDeviceTask
<1> QED
  BY <1>2, <1>3, <1>4, <1>5 DEF ExecutorStep, RunSetUpDevice, SetUpOneDevice, InstallNextHop,
     LearnConnectedHost

LEMMA BouncedNext ==
    ASSUME TypeOK, [Next]_vars, NEW c \in Comps, NEW d \in Devices \ Roaming, Bounced(c, d)
    PROVE  Bounced(c, d)'
<1>1. d \in (config \cap ifaces \cap master)' /\ c \in listening'
  BY DEF Bounced, Next, NetworkStep, DeviceUp, DeviceDown, LinkAdded, LinkRemoved, HostAdded,
     HostRemoved, HostMoved, ConfigPushed, IfacesPushed, MastershipMoved, DispatcherStep,
     DeviceEvent, DeviceEventDone, LinkEvent, HostEvent, ExecutorStep, StartSetUpAll,
     RunSetUpDevice, StartNextHops, RunLearnHost, SetUpOneDevice, InstallNextHop,
     LearnConnectedHost, LifecycleStep, Activate, TimerFires, vars, network, app
<1> SUFFICES ASSUME d \in avail', ~DeviceReady(c, d)' PROVE Heard(c, d)'
  BY <1>1 DEF Bounced
<1>2. ~DeviceReady(c, d)
  BY <1>1, ReadyStays DEF Bounced
<1>3. d \in avail => Heard(c, d)
  BY <1>2 DEF Bounced
<1>4. CASE NetworkStep
  BY <1>3, <1>4, BouncedNetwork
<1>5. NetworkStep \/ UNCHANGED avail
  BY DEF Next, DispatcherStep, DeviceEvent, DeviceEventDone, LinkEvent, HostEvent,
     ExecutorStep, StartSetUpAll, RunSetUpDevice, StartNextHops, RunLearnHost, SetUpOneDevice,
     InstallNextHop, LearnConnectedHost, LifecycleStep, Activate, TimerFires, vars, network
<1>6. CASE UNCHANGED avail
  <2>1. d \in avail /\ Heard(c, d)
    BY <1>3, <1>6
  <2>2. CASE DispatcherStep
    BY <2>1, <2>2, BouncedDispatcher DEF Bounced
  <2>3. CASE ExecutorStep
    BY <2>1, <2>3, BouncedExecutor DEF Bounced
  <2>4. CASE LifecycleStep
    <3>1. UNCHANGED devEvents
      BY <2>4 DEF LifecycleStep, Activate, TimerFires, events
    <3>2. Elements(queue) \subseteq Elements(queue')
      <4>1. ASSUME NEW b \in Comps, TimerFires(b)
            PROVE  Elements(queue') = Elements(queue) \cup {SetUpAllTask(b)}
        BY <4>1, ElementsOfAppend, TasksAreTasks DEF TimerFires, TypeOK
      <4> QED BY <2>4, <4>1 DEF LifecycleStep, Activate
    <3> QED BY <2>1, <3>1, <3>2 DEF Heard, Announced
  <2>5. CASE UNCHANGED vars
    BY <2>1, <2>5 DEF vars, events, app, Heard, Announced
  <2> QED
    BY <1>4, <2>2, <2>3, <2>4, <2>5 DEF Next
<1> QED
  BY <1>4, <1>5, <1>6

(* Whenever a device whose mastership stays is down with its configuration *)
(* and interfaces known and a component listening, it has that component's *)
(* rules from then on whenever nothing is in flight and it is up: the      *)
(* event of its return is enough, whatever was lost before with the        *)
(* exceptions that a late configuration causes (the executor swallows      *)
(* them), and whatever is lost later for other devices.                    *)
THEOREM BouncesRepair == Spec => BounceRepairs
<1>1. ASSUME NEW c \in Comps, NEW d \in Devices \ Roaming
      PROVE  Spec => [](/\ d \notin avail /\ d \in config \cap ifaces /\ c \in listening
                        => [](Quiet /\ d \in avail => DeviceReady(c, d)))
  <2>1. Init => d \in master
    BY DEF Init
  <2>2. d \in master /\ [Next]_vars => (d \in master)'
    BY DEF Next, NetworkStep, DeviceUp, DeviceDown, LinkAdded, LinkRemoved, HostAdded,
       HostRemoved, HostMoved, ConfigPushed, IfacesPushed, MastershipMoved, DispatcherStep,
       DeviceEvent, DeviceEventDone, LinkEvent, HostEvent, ExecutorStep, StartSetUpAll,
       RunSetUpDevice, StartNextHops, RunLearnHost, SetUpOneDevice, InstallNextHop,
       LearnConnectedHost, LifecycleStep, Activate, TimerFires, vars, network
  <2>3. Spec => []TypeOK
    BY Typing
  <2>4. d \in master /\ d \notin avail /\ d \in config \cap ifaces /\ c \in listening
          => Bounced(c, d)
    BY DEF Bounced
  <2>5. TypeOK /\ Bounced(c, d) /\ [Next]_vars => Bounced(c, d)'
    BY BouncedNext
  <2>6. Bounced(c, d) => (Quiet /\ d \in avail => DeviceReady(c, d))
    BY DEF Bounced, Heard, Announced, Quiet, Elements
  <2> QED
    BY <2>1, <2>2, <2>3, <2>4, <2>5, <2>6, PTL DEF Spec
<1> QED
  BY <1>1 DEF BounceRepairs

-----------------------------------------------------------------------------
(* A link that has come since its source's neighbours were configured and  *)
(* IPv6 routing listened needs no other task than the one its event asks   *)
(* for: what the running task holds are the links of one device, so the    *)
(* exceptions of others do not end it.                                     *)

OneSource == \A k, l \in run.links : k.src = l.src
NextHopsHeard(l) == LinkAnnounced(l) \/ NextHopsTask(l.src) \in Elements(queue)
Replugged(l) ==
    /\ l.src \in master /\ NeighboursConfigured(l.src) /\ "ipv6" \in listening
    /\ l \in links => NextHopsHeard(l) \/ LinkCovered(l)

LEMMA OneSourceNext ==
    ASSUME OneSource, [Next]_vars
    PROVE  OneSource'
<1>1. CASE UNCHANGED run
  BY <1>1 DEF OneSource
<1>2. CASE ExecutorStep
  BY <1>2 DEF ExecutorStep, StartSetUpAll, RunSetUpDevice, StartNextHops, RunLearnHost,
     SetUpOneDevice, InstallNextHop, LearnConnectedHost, OneSource, Doing, Idle, EgressLinks
<1> QED
  BY <1>1, <1>2 DEF Next, NetworkStep, DeviceUp, DeviceDown, LinkAdded, LinkRemoved, HostAdded,
     HostRemoved, HostMoved, ConfigPushed, IfacesPushed, MastershipMoved, DispatcherStep,
     DeviceEvent, DeviceEventDone, LinkEvent, HostEvent, LifecycleStep, Activate, TimerFires,
     vars, app

(* Steps of the network: the link is announced again. *)
LEMMA RepluggedNetwork ==
    ASSUME TypeOK, NetworkStep, NEW l \in links',
           l \in links => NextHopsHeard(l) \/ LinkCovered(l)
    PROVE  NextHopsHeard(l)' \/ LinkCovered(l)'
<1>1. UNCHANGED <<app, stores>>
  BY DEF NetworkStep, DeviceUp, DeviceDown, LinkAdded, LinkRemoved, HostAdded, HostRemoved,
     HostMoved, ConfigPushed, IfacesPushed, MastershipMoved
<1>2. ASSUME l \in links, Elements(linkEvents) \subseteq Elements(linkEvents')
      PROVE  NextHopsHeard(l)' \/ LinkCovered(l)'
  BY <1>1, <1>2 DEF app, stores, NextHopsHeard, LinkCovered, LinkAnnounced, Fresh
<1>3. ASSUME NEW k \in LinkSet, LinkAdded(k) PROVE NextHopsHeard(l)' \/ LinkCovered(l)'
  <2>1. linkEvents \in Seq(LinkSet) /\ linkEvents' = Append(linkEvents, k)
    BY <1>3 DEF TypeOK, LinkAdded
  <2>2. Elements(linkEvents') = Elements(linkEvents) \cup {k}
    BY <2>1, ElementsOfAppend
  <2>3. l = k \/ l \in links
    BY <1>3 DEF LinkAdded
  <2>4. CASE l = k
    BY <2>2, <2>4 DEF NextHopsHeard, LinkAnnounced
  <2> QED
    BY <1>2, <2>2, <2>3, <2>4
<1>4. CASE links' \subseteq links /\ UNCHANGED linkEvents
  BY <1>2, <1>4
<1> QED
  BY <1>3, <1>4 DEF NetworkStep, DeviceUp, DeviceDown, LinkRemoved, HostAdded, HostRemoved,
     HostMoved, ConfigPushed, IfacesPushed, MastershipMoved, events

(* Steps of the dispatcher: the announcement becomes a task. *)
LEMMA RepluggedDispatcher ==
    ASSUME TypeOK, DispatcherStep, NEW l, l.src \in master, "ipv6" \in listening,
           NextHopsHeard(l) \/ LinkCovered(l)
    PROVE  NextHopsHeard(l)' \/ LinkCovered(l)'
<1>1. UNCHANGED <<run, stores>>
  BY DEF DispatcherStep, DeviceEvent, DeviceEventDone, LinkEvent, HostEvent, app
<1>2. Elements(queue) \subseteq Elements(queue')
  BY DispatcherQueues
<1>3. CASE LinkCovered(l)
  BY <1>1, <1>3 DEF LinkCovered, Fresh, stores
<1>4. CASE NextHopsTask(l.src) \in Elements(queue)
  BY <1>2, <1>4 DEF NextHopsHeard
<1>5. CASE LinkAnnounced(l) /\ UNCHANGED linkEvents
  BY <1>5 DEF LinkAnnounced, NextHopsHeard
<1>6. CASE LinkAnnounced(l) /\ LinkEvent
  <2>1. linkEvents \in Seq(LinkSet) /\ linkEvents # <<>> /\ linkEvents' = Tail(linkEvents)
    BY <1>6 DEF LinkEvent, TypeOK
  <2>2. Elements(linkEvents) = {Head(linkEvents)} \cup Elements(linkEvents')
    BY <2>1, ElementsOfTail
  <2>3. CASE Head(linkEvents).src = l.src
    <3> DEFINE s == NextHopsIfMaster(Head(linkEvents).src)
               t == NextHopsIfMaster(Head(linkEvents).dst)
    <3>1. Head(linkEvents).src \in Devices /\ Head(linkEvents).dst \in Devices
      BY <2>1, ControllerAssumption
    <3>2. s \in Seq(Task) /\ t \in Seq(Task) /\ Enqueue(s \o t)
      BY <1>6, <3>1, TasksAreTasks DEF NextHopsIfMaster, LinkEvent
    <3>3. s = <<NextHopsTask(l.src)>>
      BY <2>3 DEF NextHopsIfMaster
    <3> HIDE DEF s, t
    <3>4. Elements(s \o t) = Elements(s) \cup Elements(t) /\ s \o t \in Seq(Task)
      BY <3>2, ElementsOfConcat
    <3>5. Elements(queue') = Elements(queue) \cup Elements(s \o t)
      BY <3>2, <3>4, QueueGrows
    <3> QED
      BY <3>3, <3>4, <3>5, ElementsOfSingleton DEF NextHopsHeard
  <2>4. CASE Head(linkEvents).src # l.src
    BY <1>6, <2>2, <2>4 DEF LinkAnnounced, NextHopsHeard
  <2> QED
    BY <2>3, <2>4
<1> QED
  BY <1>3, <1>4, <1>5, <1>6 DEF NextHopsHeard, DispatcherStep, DeviceEvent, DeviceEventDone,
     HostEvent

(* The executor takes a task: that of the link reads it among the links of *)
(* its source now; no other one undoes what is there.                      *)
LEMMA RepluggedTaken ==
    ASSUME TypeOK, LinksSound, NEW kind, Take(kind),
           StartSetUpAll \/ RunSetUpDevice \/ StartNextHops \/ RunLearnHost,
           NEW l \in links, NextHopsHeard(l) \/ LinkCovered(l)
    PROVE  NextHopsHeard(l)' \/ LinkCovered(l)'
<1>1. UNCHANGED <<links, linkEvents>>
  BY DEF StartSetUpAll, RunSetUpDevice, StartNextHops, RunLearnHost, network, events
<1>2. run.links = {} /\ l \in LinkSet
  BY DEF Take, Free, TypeOK
<1>3. /\ Elements(queue) = {Head(queue)} \cup Elements(queue')
      /\ Head(queue) \in Task /\ Head(queue).kind = kind
  BY QueueTaken
<1>4. Fresh(l)'
  <2>1. run'.links \subseteq links
    BY DEF StartSetUpAll, RunSetUpDevice, StartNextHops, RunLearnHost, Doing, Idle, EgressLinks
  <2> QED
    BY <2>1 DEF Fresh, LinksSound
<1>5. CASE LinkAnnounced(l)
  BY <1>1, <1>5 DEF LinkAnnounced, NextHopsHeard
<1>6. CASE NextHopsTask(l.src) \in Elements(queue)
  <2>1. CASE Head(queue) # NextHopsTask(l.src)
    BY <1>3, <1>6, <2>1 DEF NextHopsHeard
  <2>2. CASE Head(queue) = NextHopsTask(l.src)
    <3>1. StartNextHops
      BY <2>2 DEF StartSetUpAll, RunSetUpDevice, RunLearnHost, Take, NextHopsTask
    <3>2. run' = Doing("ipv6", {}, EgressLinks(l.src), {})
      BY <2>2, <3>1 DEF StartNextHops, NextHopsTask
    <3>3. l \in run'.links
      BY <3>2 DEF Doing, EgressLinks
    <3> QED
      BY <1>4, <3>3 DEF LinkCovered
  <2> QED
    BY <2>1, <2>2
<1>7. CASE LinkCovered(l)
  <2>1. L2NextHopRules(l) \subseteq flows
    BY <1>2, <1>7 DEF LinkCovered
  <2>2. CASE RunSetUpDevice
    <3>1. Head(queue).comp \in Comps /\ Head(queue).dev \in Devices
      BY <1>3, <2>2 DEF RunSetUpDevice, Take, Task
    <3>2. flows' = flows \/ SetsUp
      BY <2>2, <3>1 DEF RunSetUpDevice, SetUpDevice, SetsUp, stores
    <3> QED
      BY <1>2, <1>4, <2>1, <3>2, NextHopRuleKept DEF LinkCovered, L2NextHopRules
  <2>3. CASE RunLearnHost
    <3>1. Head(queue).learned \in LearnedHost
      BY <1>3, <2>3 DEF RunLearnHost, Take, Task
    <3>2. LearnsHost
      BY <2>3, <3>1 DEF RunLearnHost, LearnsHost
    <3> QED
      BY <1>2, <1>4, <2>1, <3>2, NextHopRuleKept DEF LinkCovered, L2NextHopRules
  <2>4. CASE StartSetUpAll \/ StartNextHops
    BY <1>4, <2>1, <2>4 DEF StartSetUpAll, StartNextHops, stores, LinkCovered, L2NextHopRules
  <2> QED
    BY <2>2, <2>3, <2>4
<1> QED
  BY <1>5, <1>6, <1>7 DEF NextHopsHeard

(* The executor goes on with its task, or loses it with an exception: not  *)
(* while it holds the link.                                                *)
LEMMA RepluggedWorked ==
    ASSUME TypeOK, LinksSound, OneSource,
           SetUpOneDevice \/ InstallNextHop \/ LearnConnectedHost,
           NEW l \in links, NeighboursConfigured(l.src), NextHopsHeard(l) \/ LinkCovered(l)
    PROVE  NextHopsHeard(l)' \/ LinkCovered(l)'
<1>1. UNCHANGED <<links, linkEvents, queue>>
  BY DEF SetUpOneDevice, InstallNextHop, LearnConnectedHost, network, events
<1>2. l \in LinkSet
  BY DEF TypeOK
<1>3. CASE NextHopsHeard(l)
  BY <1>1, <1>3 DEF NextHopsHeard, LinkAnnounced
<1>4. CASE LinkCovered(l) /\ SetUpOneDevice
  <2>1. PICK x \in run.devs :
          /\ UNCHANGED stores \/ SetUpDevice(run.comp, x)
          /\ run'.links \subseteq links
    BY <1>4 DEF SetUpOneDevice, Doing, Idle, EgressLinks
  <2>2. x \in Devices /\ run.comp \in Comps
    BY <2>1 DEF TypeOK, Running
  <2>3. Fresh(l)'
    BY <2>1 DEF Fresh, LinksSound
  <2>4. L2NextHopRules(l) \subseteq flows
    BY <1>4 DEF LinkCovered, SetUpOneDevice
  <2>5. flows' = flows \/ SetsUp
    BY <2>1, <2>2 DEF SetUpDevice, SetsUp, stores
  <2> QED
    BY <1>2, <2>3, <2>4, <2>5, NextHopRuleKept DEF LinkCovered, L2NextHopRules
<1>5. CASE LinkCovered(l) /\ InstallNextHop
  <2>1. PICK k \in run.links :
          \/ k.dst \notin config /\ run'.links = {} /\ flows' = flows
          \/ /\ flows' = ApplyFlowRules(flows, L2NextHopRules(k))
             /\ run'.links = run.links \ {k}
    BY <1>5 DEF InstallNextHop, Doing, Idle
  <2>2. k \in LinkSet /\ Fresh(l)
    BY <1>5, <2>1 DEF TypeOK, Running, LinkCovered
  <2>3. Fresh(l)'
    BY <2>1, <2>2 DEF Fresh
  <2>4. CASE L2NextHopRules(l) \subseteq flows
    <3>1. k.src = l.src /\ k.dst = l.dst => k = l
      BY <2>1, <2>2 DEF Fresh
    <3>2. L2NextHopRules(l) \subseteq flows'
      BY <1>2, <2>1, <2>2, <2>4, <3>1, NextHopRuleKept
    <3> QED
      BY <2>3, <3>2 DEF LinkCovered, L2NextHopRules
  <2>5. CASE l \in run.links
    <3>1. k.dst \in config
      BY <2>1, <2>2, <2>5 DEF OneSource, NeighboursConfigured
    <3>2. CASE k = l
      BY <2>1, <2>3, <3>1, <3>2 DEF LinkCovered, ApplyFlowRules, L2NextHopRules
    <3>3. CASE k # l
      BY <2>1, <2>3, <2>5, <3>1, <3>3 DEF LinkCovered
    <3> QED
      BY <3>2, <3>3
  <2> QED
    BY <1>5, <2>4, <2>5 DEF LinkCovered
<1>6. CASE LinkCovered(l) /\ LearnConnectedHost
  <2>1. LearnsHost /\ run'.links = run.links
    BY <1>6 DEF LearnConnectedHost, LearnsHost, Doing, TypeOK, Running
  <2>2. Fresh(l)'
    BY <1>6, <2>1 DEF LinkCovered, Fresh
  <2>3. CASE L2NextHopRules(l) \subseteq flows
    BY <1>2, <2>1, <2>2, <2>3, NextHopRuleKept DEF LinkCovered, L2NextHopRules
  <2>4. CASE l \in run.links
    BY <2>1, <2>2, <2>4 DEF LinkCovered
  <2> QED
    BY <1>6, <2>3, <2>4 DEF LinkCovered
<1> QED
  BY <1>3, <1>4, <1>5, <1>6

LEMMA RepluggedNext ==
    ASSUME TypeOK, LinksSound, OneSource, [Next]_vars,
           NEW l \in LinkSet, l.src \notin Roaming, Replugged(l)
    PROVE  Replugged(l)'
<1>1. master \ Roaming \subseteq master' /\ config \subseteq config' /\ listening \subseteq listening'
  BY DEF Next, NetworkStep, DeviceUp, DeviceDown, LinkAdded, LinkRemoved, HostAdded,
     HostRemoved, HostMoved, ConfigPushed, IfacesPushed, MastershipMoved, DispatcherStep,
     DeviceEvent, DeviceEventDone, LinkEvent, HostEvent, ExecutorStep, StartSetUpAll,
     RunSetUpDevice, StartNextHops, RunLearnHost, SetUpOneDevice, InstallNextHop,
     LearnConnectedHost, LifecycleStep, Activate, TimerFires, vars, network, app
<1>2. (l.src \in master)' /\ NeighboursConfigured(l.src)' /\ ("ipv6" \in listening)'
  BY <1>1 DEF Replugged, NeighboursConfigured
<1> SUFFICES ASSUME l \in links' PROVE NextHopsHeard(l)' \/ LinkCovered(l)'
  BY <1>2 DEF Replugged
<1>3. CASE NetworkStep
  BY <1>3, RepluggedNetwork DEF Replugged
<1>4. NetworkStep \/ UNCHANGED links
  BY DEF Next, DispatcherStep, DeviceEvent, DeviceEventDone, LinkEvent, HostEvent,
     ExecutorStep, StartSetUpAll, RunSetUpDevice, StartNextHops, RunLearnHost, SetUpOneDevice,
     InstallNextHop, LearnConnectedHost, LifecycleStep, Activate, TimerFires, vars, network
<1>5. CASE UNCHANGED links
  <2>1. l \in links /\ (NextHopsHeard(l) \/ LinkCovered(l))
    BY <1>5 DEF Replugged
  <2>2. CASE DispatcherStep
    BY <2>1, <2>2, RepluggedDispatcher DEF Replugged
  <2>3. ASSUME NEW kind, Take(kind), StartSetUpAll \/ RunSetUpDevice \/ StartNextHops \/ RunLearnHost
        PROVE  NextHopsHeard(l)' \/ LinkCovered(l)'
    BY <2>1, <2>3, RepluggedTaken
  <2>4. CASE StartSetUpAll \/ RunSetUpDevice \/ StartNextHops \/ RunLearnHost
    BY <2>3, <2>4 DEF StartSetUpAll, RunSetUpDevice, StartNextHops, RunLearnHost
  <2>5. CASE SetUpOneDevice \/ InstallNextHop \/ LearnConnectedHost
    BY <2>1, <2>5, RepluggedWorked DEF Replugged
  <2>6. CASE LifecycleStep
    <3>1. UNCHANGED <<linkEvents, run, stores>>
      BY <2>6 DEF LifecycleStep, Activate, TimerFires, events
    <3>2. Elements(queue) \subseteq Elements(queue')
      <4>1. ASSUME NEW b \in Comps, TimerFires(b)
            PROVE  Elements(queue') = Elements(queue) \cup {SetUpAllTask(b)}
        BY <4>1, ElementsOfAppend, TasksAreTasks DEF TimerFires, TypeOK
      <4> QED BY <2>6, <4>1 DEF LifecycleStep, Activate
    <3> QED
      BY <2>1, <3>1, <3>2 DEF NextHopsHeard, LinkAnnounced, LinkCovered, Fresh, stores
  <2>7. CASE UNCHANGED vars
    BY <2>1, <2>7 DEF vars, events, app, stores, NextHopsHeard, LinkAnnounced, LinkCovered, Fresh
  <2> QED
    BY <1>3, <2>2, <2>4, <2>5, <2>6, <2>7 DEF Next, ExecutorStep
<1> QED
  BY <1>3, <1>4, <1>5

(* Whenever a link is not there, every neighbour of its source configured  *)
(* and IPv6 routing listening, its next-hop rule has the port of the cable *)
(* from then on whenever nothing is in flight and the link is there: one   *)
(* LINK_ADDED is enough, whatever next hops were lost before to a          *)
(* neighbour without configuration (getMyStationMac throws in the lambda   *)
(* of setUpL2NextHopRules), and whatever set-up is lost later for others.  *)
THEOREM ReplugsRepair == Spec => ReplugRepairs
<1>1. ASSUME NEW l \in {k \in LinkSet : k.src \notin Roaming}
      PROVE  Spec => [](/\ l \notin links /\ NeighboursConfigured(l.src) /\ "ipv6" \in listening
                        => [](Quiet /\ l \in links => L2NextHopRules(l) \subseteq flows))
  <2> DEFINE Ground == LinksSound /\ OneSource /\ l.src \in master
  <2>1. l \in LinkSet /\ l.src \in Devices \ Roaming
    BY ControllerAssumption
  <2>2. Init => Ground
    BY <2>1 DEF Init, LinksSound, OneSource, Idle, Doing
  <2>3. l.src \in master /\ [Next]_vars => (l.src \in master)'
    BY <2>1 DEF Next, NetworkStep, DeviceUp, DeviceDown, LinkAdded, LinkRemoved, HostAdded,
       HostRemoved, HostMoved, ConfigPushed, IfacesPushed, MastershipMoved, DispatcherStep,
       DeviceEvent, DeviceEventDone, LinkEvent, HostEvent, ExecutorStep, StartSetUpAll,
       RunSetUpDevice, StartNextHops, RunLearnHost, SetUpOneDevice, InstallNextHop,
       LearnConnectedHost, LifecycleStep, Activate, TimerFires, vars, network
  <2>4. TypeOK /\ Ground /\ [Next]_vars => Ground'
    BY <2>3, LinksSoundNext, OneSourceNext
  <2>5. Spec => []TypeOK
    BY Typing
  <2>6. Ground /\ l \notin links /\ NeighboursConfigured(l.src) /\ "ipv6" \in listening
          => Replugged(l)
    BY DEF Replugged
  <2>7. TypeOK /\ Ground /\ Replugged(l) /\ [Next]_vars => Replugged(l)'
    BY <2>1, RepluggedNext
  <2>8. Replugged(l) => (Quiet /\ l \in links => L2NextHopRules(l) \subseteq flows)
    BY DEF Replugged, NextHopsHeard, LinkAnnounced, LinkCovered, Quiet, Free, Elements
  <2> HIDE DEF Ground
  <2> QED
    BY <2>2, <2>4, <2>5, <2>6, <2>7, <2>8, PTL DEF Spec
<1> QED
  BY <1>1 DEF ReplugRepairs
=============================================================================
