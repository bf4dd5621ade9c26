---------------------------- MODULE PerioReports ----------------------------
(***************************************************************************)
(* Periodic usage reports of the UPF: the perio server                      *)
(* (upf/internal/forwarder/perio/server.go), its ticker goroutines, and the *)
(* main loop of the PFCP server, which adds and removes usage reporting     *)
(* rules (URRs) and sends the reports.  The three block on each other       *)
(* through two bounded channels and a stop signal.                          *)
(***************************************************************************)
EXTENDS Naturals, FiniteSets, Sequences

CONSTANTS
  Seids,         \* sessions
  Urrs,          \* usage reporting rules: a session and an identity of its own
  Periods,       \* measurement periods
  Tickers,       \* ticker goroutines: bounds how many can run at once
  EvtLen,        \* EVENT_CHANNEL_LEN of the perio server
  ReportLen,     \* REPORT_CHANNEL_LEN of the PFCP server
  OnePerPeriod,  \* no two sessions measure over the same period
  SlowTicks,     \* a period is longer than it takes to deal with one tick
  FewRequests,   \* the perio server keeps up with the requests of the SMF
  None

SeidOf(u) == u[1]

ASSUME PerioAssumption ==
  /\ Urrs \subseteq Seids \X Nat
  /\ EvtLen \in Nat \ {0} /\ ReportLen \in Nat \ {0}
  /\ OnePerPeriod \in BOOLEAN /\ SlowTicks \in BOOLEAN /\ FewRequests \in BOOLEAN
  /\ None \notin Periods /\ None \notin Tickers

Events == [type : {"ADD"}, urr : Urrs, period : Periods]
            \cup [type : {"DEL"}, urr : Urrs]
            \cup [type : {"TIMEOUT"}, period : Periods]
Reports == [seid : Seids, urrs : SUBSET Urrs, period : Periods]

VARIABLES
  urrs,      \* the period of every URR in the kernel, None when it is not there
  todo,      \* events the main loop is about to send
  evtCh,     \* events for the perio server
  group,     \* perioList: the URRs of the group of each period
  ticker,    \* the ticker of the group, None when there is no group
  goroutine, \* what each ticker goroutine does, and its period
  stopping,  \* the ticker the perio server waits for in stopTicker
  left,      \* reports of the last query the perio server has still to send
  srCh       \* reports for the main loop

vars == <<urrs, todo, evtCh, group, ticker, goroutine, stopping, left, srCh>>
server == <<group, ticker, stopping, left>>

Off == [at |-> "off", period |-> None]

Init ==
  /\ urrs = [u \in Urrs |-> None]
  /\ todo = {} /\ evtCh = << >> /\ srCh = << >> /\ left = {}
  /\ group = [p \in Periods |-> {}]
  /\ ticker = [p \in Periods |-> None]
  /\ goroutine = [t \in Tickers |-> Off]
  /\ stopping = None

-----------------------------------------------------------------------------
(***************************************************************************)
(* The main loop of the PFCP server.  It sends an event for every URR       *)
(* created or removed, and turns to nothing else until all are sent.        *)
(***************************************************************************)
\* Requests that outrun the perio server fill evtCh: a ticker goroutine that
\* waits to send can then no longer take its stop signal, and all stop.
KeepsUp == FewRequests => \A i \in DOMAIN evtCh : evtCh[i].type = "TIMEOUT"

\* The URRs of a request may share a period with those of their own session.
\* The SMF gives all its sessions one configured period, so this leaves out two
\* sessions that are measured at the same time.
PeriodFree(s, p) ==
  OnePerPeriod => \A u \in Urrs : urrs[u] = p => SeidOf(u) = s

CreateURR(u, p) ==
  /\ todo = {} /\ KeepsUp
  /\ urrs[u] = None
  /\ PeriodFree(SeidOf(u), p)
  /\ ticker[p] # None \/ \E t \in Tickers : goroutine[t] = Off
  /\ todo' = {[type |-> "ADD", urr |-> u, period |-> p]}
  /\ UNCHANGED <<urrs, evtCh, goroutine, srCh, server>>

\* A modification removes some URRs, a deletion all of a session, a new
\* association all of them.
RemoveURRs(S) ==
  /\ todo = {} /\ KeepsUp
  /\ S # {}
  /\ \A u \in S : urrs[u] # None
  /\ \/ Cardinality({SeidOf(u) : u \in S}) = 1
     \/ S = {u \in Urrs : urrs[u] # None}
  /\ todo' = {[type |-> "DEL", urr |-> u] : u \in S}
  /\ UNCHANGED <<urrs, evtCh, goroutine, srCh, server>>

\* AddPeriodReportTimer and DelPeriodReportTimer, then the kernel follows.
SendEvent(e) ==
  /\ e \in todo /\ Len(evtCh) < EvtLen
  /\ evtCh' = Append(evtCh, e)
  /\ todo' = todo \ {e}
  /\ urrs' = [urrs EXCEPT ![e.urr] = IF e.type = "ADD" THEN e.period ELSE None]
  /\ UNCHANGED <<goroutine, srCh, server>>

ServeReport ==
  /\ todo = {} /\ srCh # << >>
  /\ srCh' = Tail(srCh)
  /\ UNCHANGED <<urrs, todo, evtCh, goroutine, server>>

-----------------------------------------------------------------------------
(***************************************************************************)
(* The ticker goroutines: newTicker.                                        *)
(***************************************************************************)
\* Nothing of an earlier tick of period p is left.
Settled(p) ==
  /\ \A i \in DOMAIN evtCh : evtCh[i] # [type |-> "TIMEOUT", period |-> p]
  /\ \A x \in left : x.period # p
  /\ \A i \in DOMAIN srCh : srCh[i].period # p

Tick(t) ==
  /\ goroutine[t].at = "waiting"
  /\ SlowTicks => Settled(goroutine[t].period)
  /\ goroutine' = [goroutine EXCEPT ![t].at = "sending"]
  /\ UNCHANGED <<urrs, todo, evtCh, srCh, server>>

\* Mutant: the goroutine ends after its first tick.
SendTickOnce(t) ==
  /\ goroutine[t].at = "sending" /\ Len(evtCh) < EvtLen
  /\ evtCh' = Append(evtCh, [type |-> "TIMEOUT", period |-> goroutine[t].period])
  /\ goroutine' = [goroutine EXCEPT ![t] = Off]
  /\ UNCHANGED <<urrs, todo, srCh, server>>

\* Mutant: the goroutine does not wait for room in the channel.
SendTickFull(t) ==
  /\ goroutine[t].at = "sending"
  /\ evtCh' = Append(evtCh, [type |-> "TIMEOUT", period |-> goroutine[t].period])
  /\ goroutine' = [goroutine EXCEPT ![t].at = "waiting"]
  /\ UNCHANGED <<urrs, todo, srCh, server>>

SendTick(t) ==
  /\ goroutine[t].at = "sending" /\ Len(evtCh) < EvtLen
  /\ evtCh' = Append(evtCh, [type |-> "TIMEOUT", period |-> goroutine[t].period])
  /\ goroutine' = [goroutine EXCEPT ![t].at = "waiting"]
  /\ UNCHANGED <<urrs, todo, srCh, server>>

-----------------------------------------------------------------------------
(***************************************************************************)
(* The perio server: Serve.                                                 *)
(***************************************************************************)
Idle == stopping = None /\ left = {}

Receive(e) ==
  /\ Idle /\ evtCh # << >> /\ e = Head(evtCh)
  /\ evtCh' = Tail(evtCh)

\* Mutant: a URR is entered only together with a new ticker.
HandleAddFirst(e) ==
  /\ Receive(e) /\ e.type = "ADD"
  /\ IF ticker[e.period] # None
       THEN UNCHANGED <<group, ticker, goroutine>>
       ELSE \E t \in Tickers :
              /\ goroutine[t] = Off
              /\ group' = [group EXCEPT ![e.period] = {e.urr}]
              /\ ticker' = [ticker EXCEPT ![e.period] = t]
              /\ goroutine' = [goroutine EXCEPT ![t] = [at |-> "waiting", period |-> e.period]]
  /\ UNCHANGED <<urrs, todo, stopping, left, srCh>>

HandleAdd(e) ==
  /\ Receive(e) /\ e.type = "ADD"
  /\ group' = [group EXCEPT ![e.period] = @ \cup {e.urr}]
  /\ IF ticker[e.period] # None
       THEN UNCHANGED <<ticker, goroutine>>
       ELSE \E t \in Tickers :
              /\ goroutine[t] = Off
              /\ ticker' = [ticker EXCEPT ![e.period] = t]
              /\ goroutine' = [goroutine EXCEPT ![t] = [at |-> "waiting", period |-> e.period]]
  /\ UNCHANGED <<urrs, todo, stopping, left, srCh>>

\* The group the URR is found in: any, when there are several.
HasUrr(p, u) == ticker[p] # None /\ u \in group[p]

\* Mutant: the ticker of the group is not stopped.
LeaveGroupTicking(p, u) ==
  LET rest == group[p] \ {u}
      gone == \A v \in rest : SeidOf(v) # SeidOf(u)
  IN /\ group' = [group EXCEPT ![p] = IF gone THEN {} ELSE rest]
     /\ ticker' = [ticker EXCEPT ![p] = IF gone THEN None ELSE @]
     /\ UNCHANGED stopping

\* The ticker is stopped when the group is empty; the group is forgotten as
\* soon as the session of u has no URR left in it.
LeaveGroup(p, u) ==
  LET rest == group[p] \ {u}
      gone == \A v \in rest : SeidOf(v) # SeidOf(u)
  IN /\ stopping' = IF rest = {} THEN ticker[p] ELSE None
     /\ group' = [group EXCEPT ![p] = IF gone THEN {} ELSE rest]
     /\ ticker' = [ticker EXCEPT ![p] = IF gone THEN None ELSE @]

HandleDel(e) ==
  /\ Receive(e) /\ e.type = "DEL"
  /\ \/ \E p \in Periods : HasUrr(p, e.urr) /\ LeaveGroup(p, e.urr)
     \/ /\ \A p \in Periods : ~HasUrr(p, e.urr)
        /\ UNCHANGED <<group, ticker, stopping>>
  /\ UNCHANGED <<urrs, todo, goroutine, left, srCh>>

\* The ticker goroutine takes the signal of stopTicker, and ends.
TickerStops(t) ==
  /\ stopping = t /\ t \in Tickers
  /\ goroutine[t].at = "waiting"
  /\ goroutine' = [goroutine EXCEPT ![t] = Off]
  /\ stopping' = None
  /\ UNCHANGED <<urrs, todo, evtCh, group, ticker, left, srCh>>

\* psQueryURR: the URRs of the group the kernel still knows, by session.
Queried(p) ==
  LET known == {u \in group[p] : urrs[u] # None}
  IN {[seid |-> s, urrs |-> {u \in known : SeidOf(u) = s}, period |-> p] :
        s \in {SeidOf(u) : u \in known}}

HandleTimeout(e) ==
  /\ Receive(e) /\ e.type = "TIMEOUT"
  /\ left' = IF ticker[e.period] = None THEN {} ELSE Queried(e.period)
  /\ UNCHANGED <<urrs, todo, group, ticker, goroutine, stopping, srCh>>

\* Mutant: the server does not get on to the next report.
NotifySessReportAgain(x) ==
  /\ x \in left /\ Len(srCh) < ReportLen
  /\ srCh' = Append(srCh, x)
  /\ UNCHANGED <<urrs, todo, evtCh, group, ticker, goroutine, stopping, left>>

NotifySessReport(x) ==
  /\ x \in left /\ Len(srCh) < ReportLen
  /\ srCh' = Append(srCh, x)
  /\ left' = left \ {x}
  /\ UNCHANGED <<urrs, todo, evtCh, group, ticker, goroutine, stopping>>

Main == \/ \E u \in Urrs, p \in Periods : CreateURR(u, p)
        \/ \E S \in SUBSET Urrs : RemoveURRs(S)
        \/ \E e \in todo : SendEvent(e)
        \/ ServeReport
Ticker(t) == Tick(t) \/ SendTick(t) \/ TickerStops(t)
Serve == \/ \E i \in DOMAIN evtCh \cap {1} :
              HandleAdd(evtCh[i]) \/ HandleDel(evtCh[i]) \/ HandleTimeout(evtCh[i])
         \/ \E x \in left : NotifySessReport(x)

Next == Main \/ Serve \/ \E t \in Tickers : Ticker(t)

\* Every goroutine is scheduled; the select of the main loop takes a report
\* that waits sooner or later, however many requests there are.
Fairness == /\ WF_vars(\E e \in todo : SendEvent(e)) /\ SF_vars(ServeReport)
            /\ WF_vars(Serve)
            /\ \A t \in Tickers : WF_vars(Ticker(t))

Spec == Init /\ [][Next]_vars /\ Fairness

-----------------------------------------------------------------------------
\* Types, and the sizes of the two channels.
TypeOK ==
  /\ urrs \in [Urrs -> Periods \cup {None}]
  /\ todo \subseteq Events
  /\ evtCh \in Seq(Events) /\ Len(evtCh) <= EvtLen
  /\ group \in [Periods -> SUBSET Urrs]
  /\ ticker \in [Periods -> Tickers \cup {None}]
  /\ goroutine \in [Tickers -> {Off} \cup [at : {"waiting", "sending"}, period : Periods]]
  /\ stopping \in Tickers \cup {None}
  /\ left \subseteq Reports
  /\ srCh \in Seq(Reports) /\ Len(srCh) <= ReportLen

\* Once the events about a URR are dealt with, the URR is in the group of its
\* period and in no other, and no group holds a URR that was removed: "Stop
\* ticker if no more PERIO URR" (server.go), and not before.
Settles(u) == /\ \A e \in todo : e.urr # u
              /\ \A i \in DOMAIN evtCh : evtCh[i].type = "TIMEOUT" \/ evtCh[i].urr # u
GroupsCurrent ==
  stopping = None =>
    \A u \in Urrs : Settles(u) => \A p \in Periods : HasUrr(p, u) <=> urrs[u] = p

\* A period has one ticker goroutine, which is that of its group; one that
\* belongs to no group is the one being stopped (newTicker, stopTicker).
OneTicker ==
  /\ \A t \in Tickers : goroutine[t] # Off =>
       ticker[goroutine[t].period] = t \/ stopping = t
  /\ \A p \in Periods : ticker[p] # None =>
       goroutine[ticker[p]].at # "off" /\ goroutine[ticker[p]].period = p

\* The main loop, which waits on a full evtCh, always gets on.
MainGetsThrough == todo # {} ~> todo = {}

\* A periodic URR is reported again and again until it is removed.
Reported ==
  \A u \in Urrs :
    urrs[u] # None ~> (urrs[u] = None \/ \E i \in DOMAIN srCh : u \in srCh[i].urrs)
=============================================================================
