----------------------------- MODULE PerioProofs -----------------------------
(***************************************************************************)
(* Theorems about PerioReports for any sessions, URRs, periods, tickers and *)
(* channel sizes.                                                           *)
(***************************************************************************)
EXTENDS PerioReports, SequenceTheorems, TLAPS

-----------------------------------------------------------------------------
(* The two ends of a channel. *)

LEMMA TailOf ==
  ASSUME NEW S, NEW s \in Seq(S), s # << >>
  PROVE  /\ Tail(s) \in Seq(S) /\ Len(Tail(s)) = Len(s) - 1
         /\ Head(s) \in S /\ Head(s) = s[1] /\ 1 \in DOMAIN s
         /\ DOMAIN Tail(s) = 1 .. Len(s) - 1
         /\ \A i \in 1 .. Len(s) - 1 : Tail(s)[i] = s[i + 1]
<1>1. Len(s) \in Nat /\ DOMAIN s = 1 .. Len(s) /\ Len(s) # 0
  OBVIOUS
<1>2. /\ Head(s) \in S /\ Tail(s) \in Seq(S) /\ Len(Tail(s)) = Len(s) - 1
      /\ \A i \in 1 .. Len(Tail(s)) : Tail(s)[i] = s[i + 1]
  BY HeadTailProperties
<1>3. Head(s) = s[1] /\ 1 \in DOMAIN s
  BY <1>1
<1>4. DOMAIN Tail(s) = 1 .. Len(s) - 1
  BY <1>1, <1>2
<1>5. QED
  BY <1>1, <1>2, <1>3, <1>4

LEMMA AppendOf ==
  ASSUME NEW S, NEW s \in Seq(S), NEW e \in S
  PROVE  /\ Append(s, e) \in Seq(S) /\ Len(Append(s, e)) = Len(s) + 1
         /\ DOMAIN s = 1 .. Len(s) /\ Len(s) \in Nat
         /\ DOMAIN Append(s, e) = 1 .. Len(s) + 1
         /\ \A i \in 1 .. Len(s) : Append(s, e)[i] = s[i]
         /\ Append(s, e)[Len(s) + 1] = e
<1>1. Len(s) \in Nat /\ DOMAIN s = 1 .. Len(s)
  OBVIOUS
<1>2. /\ Append(s, e) \in Seq(S) /\ Len(Append(s, e)) = Len(s) + 1
      /\ \A i \in 1 .. Len(s) : Append(s, e)[i] = s[i]
      /\ Append(s, e)[Len(s) + 1] = e
  BY AppendProperties
<1>3. DOMAIN Append(s, e) = 1 .. Len(s) + 1
  BY <1>1, <1>2
<1>4. QED
  BY <1>1, <1>2, <1>3

-----------------------------------------------------------------------------
(* Types. *)
LEMMA TypeInit == Init => TypeOK
  BY PerioAssumption DEF Init, TypeOK, Off

(* What is taken from evtCh, and what is left. *)
LEMMA Received ==
  ASSUME TypeOK, NEW e, Receive(e)
  PROVE  e \in Events /\ evtCh' \in Seq(Events) /\ Len(evtCh') <= EvtLen
<1>1. /\ evtCh \in Seq(Events) /\ evtCh # << >> /\ e = Head(evtCh)
      /\ evtCh' = Tail(evtCh) /\ Len(evtCh) <= EvtLen
  BY DEF TypeOK, Receive
<1>2. Len(evtCh) \in Nat /\ EvtLen \in Nat
  BY <1>1, PerioAssumption
<1>3. QED
  BY <1>1, <1>2, TailOf

LEMMA Sent ==
  ASSUME TypeOK, NEW e \in Events, Len(evtCh) < EvtLen, evtCh' = Append(evtCh, e)
  PROVE  evtCh' \in Seq(Events) /\ Len(evtCh') <= EvtLen
<1>1. evtCh \in Seq(Events) /\ EvtLen \in Nat
  BY PerioAssumption DEF TypeOK
<1>2. QED
  BY <1>1, AppendOf

LEMMA EventTypes ==
  ASSUME NEW e \in Events
  PROVE  /\ e.type \in {"ADD", "DEL"} => e.urr \in Urrs
         /\ e.type \in {"ADD", "TIMEOUT"} => e.period \in Periods
         /\ e.type \in {"ADD", "DEL", "TIMEOUT"}
  BY DEF Events

LEMMA TypeMain == ASSUME TypeOK, Main PROVE TypeOK'
<1>1. ASSUME NEW u \in Urrs, NEW p \in Periods, CreateURR(u, p) PROVE TypeOK'
  BY <1>1 DEF CreateURR, TypeOK, server, Events
<1>2. ASSUME NEW S \in SUBSET Urrs, RemoveURRs(S) PROVE TypeOK'
  BY <1>2 DEF RemoveURRs, TypeOK, server, Events
<1>3. ASSUME NEW e \in todo, SendEvent(e) PROVE TypeOK'
  <2>1. evtCh' \in Seq(Events) /\ Len(evtCh') <= EvtLen
    BY <1>3, Sent DEF SendEvent, TypeOK
  <2>2. urrs' \in [Urrs -> Periods \cup {None}]
    BY <1>3, EventTypes DEF SendEvent, TypeOK
  <2>3. QED
    BY <1>3, <2>1, <2>2 DEF SendEvent, TypeOK, server
<1>4. CASE ServeReport
  <2>1. srCh \in Seq(Reports) /\ srCh # << >> /\ Len(srCh) <= ReportLen /\ srCh' = Tail(srCh)
    BY <1>4 DEF ServeReport, TypeOK
  <2>2. Len(srCh) \in Nat /\ ReportLen \in Nat
    BY <2>1, PerioAssumption
  <2>3. srCh' \in Seq(Reports) /\ Len(srCh') <= ReportLen
    BY <2>1, <2>2, TailOf
  <2>4. QED
    BY <1>4, <2>3 DEF ServeReport, TypeOK, server
<1>5. QED
  BY <1>1, <1>2, <1>3, <1>4 DEF Main

LEMMA TypeTicker == ASSUME TypeOK, NEW t \in Tickers, Ticker(t) PROVE TypeOK'
<1>0. goroutine[t] = Off \/ goroutine[t] \in [at : {"waiting", "sending"}, period : Periods]
  BY DEF TypeOK
<1>1. CASE Tick(t)
  <2>1. goroutine' \in [Tickers -> {Off} \cup [at : {"waiting", "sending"}, period : Periods]]
    BY <1>0, <1>1 DEF Tick, TypeOK, Off
  <2>2. QED
    BY <1>1, <2>1 DEF Tick, TypeOK, server
<1>2. CASE SendTick(t)
  <2> DEFINE e == [type |-> "TIMEOUT", period |-> goroutine[t].period]
  <2>1. e \in Events
    BY <1>0, <1>2 DEF SendTick, Off, Events
  <2>2. evtCh' = Append(evtCh, e) /\ Len(evtCh) < EvtLen
    BY <1>2 DEF SendTick
  <2> HIDE DEF e
  <2>3. evtCh' \in Seq(Events) /\ Len(evtCh') <= EvtLen
    BY <2>1, <2>2, Sent
  <2>4. goroutine' \in [Tickers -> {Off} \cup [at : {"waiting", "sending"}, period : Periods]]
    BY <1>0, <1>2 DEF SendTick, TypeOK, Off
  <2>5. QED
    BY <1>2, <2>3, <2>4 DEF SendTick, TypeOK, server
<1>3. CASE TickerStops(t)
  BY <1>3 DEF TickerStops, TypeOK
<1>4. QED
  BY <1>1, <1>2, <1>3 DEF Ticker

LEMMA TypeServe == ASSUME TypeOK, Serve PROVE TypeOK'
<1>1. ASSUME NEW e, HandleAdd(e) PROVE TypeOK'
  <2>1. e \in Events /\ evtCh' \in Seq(Events) /\ Len(evtCh') <= EvtLen /\ e.type = "ADD"
    BY <1>1, Received DEF HandleAdd
  <2>2. e.urr \in Urrs /\ e.period \in Periods
    BY <2>1, EventTypes
  <2>3. group' \in [Periods -> SUBSET Urrs]
    BY <1>1, <2>2 DEF HandleAdd, TypeOK
  <2>4. /\ ticker' \in [Periods -> Tickers \cup {None}]
        /\ goroutine' \in [Tickers -> {Off} \cup [at : {"waiting", "sending"}, period : Periods]]
    <3>1. CASE ticker' = ticker /\ goroutine' = goroutine
      BY <3>1 DEF TypeOK
    <3>2. ASSUME NEW t \in Tickers, ticker' = [ticker EXCEPT ![e.period] = t],
                 goroutine' = [goroutine EXCEPT ![t] = [at |-> "waiting", period |-> e.period]]
          PROVE  /\ ticker' \in [Periods -> Tickers \cup {None}]
                 /\ goroutine' \in [Tickers -> {Off} \cup [at : {"waiting", "sending"}, period : Periods]]
      BY <2>2, <3>2 DEF TypeOK
    <3>3. QED
      BY <1>1, <3>1, <3>2 DEF HandleAdd
  <2>5. QED
    BY <1>1, <2>1, <2>3, <2>4 DEF HandleAdd, TypeOK
<1>2. ASSUME NEW e, HandleDel(e) PROVE TypeOK'
  <2>1. evtCh' \in Seq(Events) /\ Len(evtCh') <= EvtLen
    BY <1>2, Received DEF HandleDel
  <2>2. /\ group' \in [Periods -> SUBSET Urrs] /\ ticker' \in [Periods -> Tickers \cup {None}]
        /\ stopping' \in Tickers \cup {None}
    BY <1>2 DEF HandleDel, LeaveGroup, TypeOK
  <2>3. QED
    BY <1>2, <2>1, <2>2 DEF HandleDel, TypeOK
<1>3. ASSUME NEW e, HandleTimeout(e) PROVE TypeOK'
  <2>1. e \in Events /\ evtCh' \in Seq(Events) /\ Len(evtCh') <= EvtLen /\ e.type = "TIMEOUT"
    BY <1>3, Received DEF HandleTimeout
  <2>2. e.period \in Periods
    BY <2>1, EventTypes
  <2>3. Queried(e.period) \subseteq Reports
    BY <2>2, PerioAssumption DEF Queried, Reports, TypeOK, SeidOf
  <2>4. QED
    BY <1>3, <2>1, <2>3 DEF HandleTimeout, TypeOK
<1>4. ASSUME NEW x \in left, NotifySessReport(x) PROVE TypeOK'
  <2>1. x \in Reports /\ srCh \in Seq(Reports) /\ Len(srCh) < ReportLen /\ ReportLen \in Nat
    BY <1>4, PerioAssumption DEF NotifySessReport, TypeOK
  <2>2. srCh' \in Seq(Reports) /\ Len(srCh') <= ReportLen
    BY <1>4, <2>1, AppendOf DEF NotifySessReport
  <2>3. QED
    BY <1>4, <2>2 DEF NotifySessReport, TypeOK
<1>5. QED
  BY <1>1, <1>2, <1>3, <1>4 DEF Serve

LEMMA TypeNext == TypeOK /\ [Next]_vars => TypeOK'
<1>1. ASSUME TypeOK, UNCHANGED vars PROVE TypeOK'
  BY <1>1 DEF vars, TypeOK
<1>2. QED
  BY <1>1, TypeMain, TypeTicker, TypeServe DEF Next

(* Neither channel ever holds more than it has room for, and every ticker,  *)
(* group and report is of its type (EVENT_CHANNEL_LEN, REPORT_CHANNEL_LEN). *)
THEOREM Typing == Spec => []TypeOK
  BY TypeInit, TypeNext, PTL DEF Spec

-----------------------------------------------------------------------------
(* Groups and tickers.  A URR is followed through the event channel: it is  *)
(* at position i of period p when event i enters it into the group of p,    *)
(* and at position 0 when it is in that group already.                      *)
Add(u, p) == [type |-> "ADD", urr |-> u, period |-> p]
Del(u) == [type |-> "DEL", urr |-> u]

AddAt(i, u, p) == i \in DOMAIN evtCh /\ evtCh[i] = Add(u, p)
DelAt(j, u) == j \in DOMAIN evtCh /\ evtCh[j] = Del(u)
At(i, u, p) == (i = 0 /\ u \in group[p]) \/ AddAt(i, u, p)
DelBetween(i, k, u) == \E j \in Nat : i < j /\ j < k /\ DelAt(j, u)

\* One of two entries has to go before the other one comes.
Clash(u, p, v, q) == u = v \/ (p = q /\ SeidOf(u) # SeidOf(v))

\* A URR that the kernel does not have, or has with another period, is
\* removed by an event that is still to come.
Leaving == \A u \in Urrs, p \in Periods, i \in Nat :
             At(i, u, p) /\ urrs[u] # p => \E j \in Nat : i < j /\ DelAt(j, u)

\* Between two entries that clash, the first is removed.
Apart == \A u, v \in Urrs, p, q \in Periods, i, k \in Nat :
           i < k /\ At(i, u, p) /\ At(k, v, q) /\ Clash(u, p, v, q) => DelBetween(i, k, u)

\* A URR that the kernel has is entered, and not removed after that.
Entered == \A u \in Urrs, p \in Periods :
             urrs[u] = p => \E i \in Nat : At(i, u, p) /\ \A j \in Nat : DelAt(j, u) => j <= i

\* A group has the URRs of one session, and a URR is in one group.
Alone == \A u, v \in Urrs, p, q \in Periods :
           u \in group[p] /\ v \in group[q] =>
             (u = v => p = q) /\ (p = q => SeidOf(u) = SeidOf(v))

Grouped == Leaving /\ Apart /\ Entered /\ Alone

\* The request under way enters a URR that clashes with none the kernel has.
Requested ==
  /\ \A e \in todo : e.type \in {"ADD", "DEL"}
  /\ \A e \in todo : e.type = "ADD" =>
       /\ todo = {e} /\ urrs[e.urr] = None
       /\ \A u \in Urrs : urrs[u] = e.period => SeidOf(u) = SeidOf(e.urr)

LEMMA EventKinds ==
  /\ \A u, v, p, q : Add(u, p) = Add(v, q) => u = v /\ p = q
  /\ \A u, v : Del(u) = Del(v) => u = v
  /\ \A u, v, p : Add(u, p) # Del(v)
  /\ \A e \in Events : /\ e.type = "ADD" => e = Add(e.urr, e.period)
                       /\ e.type = "DEL" => e = Del(e.urr)
                       /\ e.type = "TIMEOUT" => \A u, p : e # Add(u, p) /\ e # Del(u)
<1>1. \A u, v, p, q : Add(u, p) = Add(v, q) => u = v /\ p = q
  BY DEF Add
<1>2. \A u, v : Del(u) = Del(v) => u = v
  BY DEF Del
<1>3. \A u, v, p : Add(u, p).type = "ADD" /\ Del(v).type = "DEL"
  BY DEF Add, Del
<1>4. ASSUME NEW e \in Events
      PROVE  /\ e.type = "ADD" => e = Add(e.urr, e.period)
             /\ e.type = "DEL" => e = Del(e.urr)
  BY DEF Events, Add, Del
<1>5. QED
  BY <1>1, <1>2, <1>3, <1>4

(* Positions when the server takes an event, and when one is sent.          *)
LEMMA Shifted ==
  ASSUME TypeOK, evtCh # << >>, evtCh' = Tail(evtCh)
  PROVE  /\ \A i \in Nat : \A u, p : AddAt(i, u, p)' <=> i > 0 /\ AddAt(i + 1, u, p)
         /\ \A j \in Nat : \A u : DelAt(j, u)' <=> j > 0 /\ DelAt(j + 1, u)
         /\ \A u, p : ~AddAt(0, u, p) /\ (AddAt(1, u, p) <=> Head(evtCh) = Add(u, p))
         /\ \A u : ~DelAt(0, u) /\ (DelAt(1, u) <=> Head(evtCh) = Del(u))
<1>1. evtCh \in Seq(Events)
  BY DEF TypeOK
<1>2. /\ Head(evtCh) = evtCh[1] /\ 1 \in DOMAIN evtCh
      /\ DOMAIN Tail(evtCh) = 1 .. Len(evtCh) - 1
      /\ \A i \in 1 .. Len(evtCh) - 1 : Tail(evtCh)[i] = evtCh[i + 1]
  BY <1>1, TailOf
<1>3. DOMAIN evtCh = 1 .. Len(evtCh) /\ Len(evtCh) \in Nat
  BY <1>1
<1>4. \A i \in Nat : i \in DOMAIN Tail(evtCh) <=> i > 0 /\ i + 1 \in DOMAIN evtCh
  BY <1>2, <1>3
<1>5. \A i \in DOMAIN Tail(evtCh) : Tail(evtCh)[i] = evtCh[i + 1]
  BY <1>2
<1>6. 0 \notin DOMAIN evtCh
  BY <1>3
<1>7. QED
  BY <1>2, <1>4, <1>5, <1>6 DEF AddAt, DelAt

LEMMA Extended ==
  ASSUME TypeOK, NEW e \in Events, evtCh' = Append(evtCh, e)
  PROVE  /\ Len(evtCh) \in Nat
         /\ \A i, u, p : AddAt(i, u, p)' <=> AddAt(i, u, p) \/ (i = Len(evtCh) + 1 /\ e = Add(u, p))
         /\ \A j, u : DelAt(j, u)' <=> DelAt(j, u) \/ (j = Len(evtCh) + 1 /\ e = Del(u))
         /\ \A i, u, p : At(i, u, p) => i <= Len(evtCh)
         /\ \A j, u : DelAt(j, u) => j \in Nat /\ j <= Len(evtCh)
<1>1. evtCh \in Seq(Events)
  BY DEF TypeOK
<1>2. /\ DOMAIN evtCh = 1 .. Len(evtCh) /\ Len(evtCh) \in Nat
      /\ DOMAIN Append(evtCh, e) = 1 .. Len(evtCh) + 1
      /\ \A i \in 1 .. Len(evtCh) : Append(evtCh, e)[i] = evtCh[i]
      /\ Append(evtCh, e)[Len(evtCh) + 1] = e
  BY <1>1, AppendOf
<1>3. \A i : i \in DOMAIN Append(evtCh, e) <=> i \in DOMAIN evtCh \/ i = Len(evtCh) + 1
  BY <1>2
<1>4. Len(evtCh) + 1 \notin DOMAIN evtCh
  BY <1>2
<1>5. \A i \in DOMAIN evtCh : i \in Nat /\ i <= Len(evtCh)
  BY <1>2
<1>6. QED
  BY <1>2, <1>3, <1>4, <1>5 DEF AddAt, DelAt, At

LEMMA GroupedKept ==
  ASSUME Grouped, urrs' = urrs, group' = group,
         \A i, u, p : AddAt(i, u, p)' <=> AddAt(i, u, p),
         \A j, u : DelAt(j, u)' <=> DelAt(j, u)
  PROVE  Grouped'
<1>1. \A i, u, p : At(i, u, p)' <=> At(i, u, p)
  BY DEF At
<1>2. QED
  BY <1>1 DEF Grouped, Leaving, Apart, Entered, Alone, DelBetween

(* A URR enters the end of the channel. *)
LEMMA GroupedSentAdd ==
  ASSUME TypeOK, Grouped, Requested, NEW e \in todo, SendEvent(e), e.type = "ADD"
  PROVE  Grouped'
<1> DEFINE n == Len(evtCh) + 1
           v == e.urr
           q == e.period
<1>0. e \in Events /\ v \in Urrs /\ q \in Periods /\ e = Add(v, q)
  BY EventTypes, EventKinds DEF TypeOK
<1>1. evtCh' = Append(evtCh, e) /\ group' = group
  BY DEF SendEvent, server
<1>2. /\ n \in Nat
      /\ \A i, u, p : At(i, u, p)' <=> At(i, u, p) \/ (i = n /\ u = v /\ p = q)
      /\ \A j, u : DelAt(j, u)' <=> DelAt(j, u)
      /\ \A i, u, p : At(i, u, p) => i <= Len(evtCh)
      /\ \A j, u : DelAt(j, u) => j \in Nat /\ j < n
  BY <1>0, <1>1, Extended, EventKinds DEF At
<1>3. \A i \in Nat : \A u, p : At(i, u, p) => i < n
  BY <1>0, <1>1, <1>2, Extended
<1>4. urrs' = [urrs EXCEPT ![v] = q]
  BY DEF SendEvent
<1>5. urrs[v] = None /\ \A u \in Urrs : urrs[u] = q => SeidOf(u) = SeidOf(v)
  BY DEF Requested
<1>6. urrs \in [Urrs -> Periods \cup {None}]
  BY DEF TypeOK
<1> HIDE DEF n, v, q
<1>7. Leaving'
  <2> SUFFICES ASSUME NEW u \in Urrs, NEW p \in Periods, NEW i \in Nat,
                      At(i, u, p)', urrs'[u] # p
               PROVE  \E j \in Nat : i < j /\ DelAt(j, u)'
    BY DEF Leaving
  <2>1. At(i, u, p)
    BY <1>0, <1>2, <1>4, <1>6
  <2>2. urrs[u] # p
    BY <1>0, <1>4, <1>5, <1>6, PerioAssumption
  <2>3. PICK j \in Nat : i < j /\ DelAt(j, u)
    BY <2>1, <2>2 DEF Grouped, Leaving
  <2>4. QED
    BY <1>2, <2>3
<1>8. Apart'
  <2> SUFFICES ASSUME NEW u \in Urrs, NEW w \in Urrs, NEW p \in Periods, NEW r \in Periods,
                      NEW i \in Nat, NEW k \in Nat, i < k,
                      At(i, u, p)', At(k, w, r)', Clash(u, p, w, r)
               PROVE  \E j \in Nat : i < j /\ j < k /\ DelAt(j, u)'
    BY DEF Apart, DelBetween, Clash
  <2>1. At(i, u, p)
    BY <1>2, <1>3
  <2>2. CASE At(k, w, r)
    <3>1. DelBetween(i, k, u)
      BY <2>1, <2>2 DEF Grouped, Apart
    <3>2. QED
      BY <1>2, <3>1 DEF DelBetween
  <2>3. CASE k = n /\ w = v /\ r = q
    <3>1. urrs[u] # p
      BY <1>5, <2>3, PerioAssumption DEF Clash
    <3>2. PICK j \in Nat : i < j /\ DelAt(j, u)
      BY <2>1, <3>1 DEF Grouped, Leaving
    <3>3. QED
      BY <1>2, <2>3, <3>2
  <2>4. QED
    BY <1>2, <2>2, <2>3
<1>9. Entered'
  <2> SUFFICES ASSUME NEW u \in Urrs, NEW p \in Periods, urrs'[u] = p
               PROVE  \E i \in Nat : At(i, u, p)' /\ \A j \in Nat : DelAt(j, u)' => j <= i
    BY DEF Entered
  <2>1. CASE u = v
    <3>1. p = q
      BY <1>0, <1>4, <1>6, <2>1
    <3>2. PICK m \in Nat : m = n
      BY <1>2
    <3>3. At(m, u, p)'
      BY <1>2, <2>1, <3>1, <3>2
    <3>4. \A j \in Nat : DelAt(j, u)' => j <= m
      BY <1>2, <3>2
    <3>5. QED
      BY <3>3, <3>4
  <2>2. CASE u # v
    <3>1. urrs[u] = p
      BY <1>4, <1>6, <2>2
    <3>2. PICK i \in Nat : At(i, u, p) /\ \A j \in Nat : DelAt(j, u) => j <= i
      BY <3>1 DEF Grouped, Entered
    <3>3. QED
      BY <1>2, <3>2
  <2>3. QED
    BY <2>1, <2>2
<1>10. Alone'
  BY <1>1 DEF Grouped, Alone
<1>11. QED
  BY <1>7, <1>8, <1>9, <1>10 DEF Grouped

LEMMA GroupedSentDel ==
  ASSUME TypeOK, Grouped, NEW e \in todo, SendEvent(e), e.type = "DEL"
  PROVE  Grouped'
<1> DEFINE n == Len(evtCh) + 1
           v == e.urr
<1>0. e \in Events /\ v \in Urrs /\ e = Del(v)
  BY EventTypes, EventKinds DEF TypeOK
<1>1. evtCh' = Append(evtCh, e) /\ group' = group
  BY DEF SendEvent, server
<1>2. /\ n \in Nat
      /\ \A i, u, p : At(i, u, p)' <=> At(i, u, p)
      /\ \A j, u : DelAt(j, u)' <=> DelAt(j, u) \/ (j = n /\ u = v)
  BY <1>0, <1>1, Extended, EventKinds DEF At
<1>3. \A i \in Nat : \A u, p : At(i, u, p) => i < n
  BY <1>0, <1>1, <1>2, Extended
<1>4. urrs' = [urrs EXCEPT ![v] = None]
  BY DEF SendEvent
<1>6. urrs \in [Urrs -> Periods \cup {None}]
  BY DEF TypeOK
<1> HIDE DEF n, v
<1>7. Leaving'
  <2> SUFFICES ASSUME NEW u \in Urrs, NEW p \in Periods, NEW i \in Nat,
                      At(i, u, p)', urrs'[u] # p
               PROVE  \E j \in Nat : i < j /\ DelAt(j, u)'
    BY DEF Leaving
  <2>1. At(i, u, p)
    BY <1>2
  <2>2. CASE u = v
    BY <1>2, <1>3, <2>1, <2>2
  <2>3. CASE u # v
    <3>1. urrs[u] # p
      BY <1>4, <1>6, <2>3
    <3>2. PICK j \in Nat : i < j /\ DelAt(j, u)
      BY <2>1, <3>1 DEF Grouped, Leaving
    <3>3. QED
      BY <1>2, <3>2
  <2>4. QED
    BY <2>2, <2>3
<1>8. Apart'
  BY <1>2 DEF Grouped, Apart, DelBetween
<1>9. Entered'
  <2> SUFFICES ASSUME NEW u \in Urrs, NEW p \in Periods, urrs'[u] = p
               PROVE  \E i \in Nat : At(i, u, p)' /\ \A j \in Nat : DelAt(j, u)' => j <= i
    BY DEF Entered
  <2>1. u # v /\ urrs[u] = p
    BY <1>0, <1>4, <1>6, PerioAssumption
  <2>2. PICK i \in Nat : At(i, u, p) /\ \A j \in Nat : DelAt(j, u) => j <= i
    BY <2>1 DEF Grouped, Entered
  <2>3. QED
    BY <1>2, <2>1, <2>2
<1>10. Alone'
  BY <1>1 DEF Grouped, Alone
<1>11. QED
  BY <1>7, <1>8, <1>9, <1>10 DEF Grouped

(* The server takes an event that enters URRs, or none.                     *)
LEMMA GroupedTaken ==
  ASSUME TypeOK, Grouped, evtCh # << >>, evtCh' = Tail(evtCh), urrs' = urrs,
         \A u : ~DelAt(1, u),
         \A u \in Urrs, p \in Periods : u \in group'[p] <=> u \in group[p] \/ AddAt(1, u, p)
  PROVE  Grouped'
<1>1. /\ \A i \in Nat : \A u, p : AddAt(i, u, p)' <=> i > 0 /\ AddAt(i + 1, u, p)
      /\ \A j \in Nat : \A u : DelAt(j, u)' <=> j > 0 /\ DelAt(j + 1, u)
      /\ \A u, p : ~AddAt(0, u, p)
  BY Shifted
<1>2. \A i \in Nat, u \in Urrs, p \in Periods :
         At(i, u, p)' <=> IF i = 0 THEN At(0, u, p) \/ At(1, u, p) ELSE At(i + 1, u, p)
  BY <1>1 DEF At
<1>3. \A j \in Nat : \A u : DelAt(j, u) => j = 0 \/ (j - 1 \in Nat /\ j - 1 > 0 /\ DelAt(j - 1, u)')
  <2> SUFFICES ASSUME NEW j \in Nat, NEW u, DelAt(j, u), j # 0
               PROVE  j - 1 \in Nat /\ j - 1 > 0 /\ DelAt(j - 1, u)'
    OBVIOUS
  <2>1. j # 1 /\ j - 1 \in Nat /\ j - 1 > 0 /\ j - 1 + 1 = j
    OBVIOUS
  <2>2. QED
    BY <1>1, <2>1
<1>4. Leaving'
  <2> SUFFICES ASSUME NEW u \in Urrs, NEW p \in Periods, NEW i \in Nat,
                      At(i, u, p)', urrs[u] # p
               PROVE  \E j \in Nat : i < j /\ DelAt(j, u)'
    BY DEF Leaving
  <2>0. IF i = 0 THEN At(0, u, p) \/ At(1, u, p) ELSE At(i + 1, u, p)
    BY <1>2
  <2>1. \E m \in Nat : At(m, u, p) /\ (m = i + 1 \/ (i = 0 /\ m = 0))
    BY <2>0
  <2>2. PICK m \in Nat : At(m, u, p) /\ (m = i + 1 \/ (i = 0 /\ m = 0))
    BY <2>1
  <2>3. PICK j \in Nat : m < j /\ DelAt(j, u)
    BY <2>2 DEF Grouped, Leaving
  <2>4. j - 1 \in Nat /\ j - 1 > 0 /\ DelAt(j - 1, u)'
    BY <1>3, <2>3
  <2>5. i < j - 1
    BY <2>2, <2>3, <2>4
  <2>6. QED
    BY <2>4, <2>5
<1>5. Apart'
  <2> SUFFICES ASSUME NEW u \in Urrs, NEW v \in Urrs, NEW p \in Periods, NEW q \in Periods,
                      NEW i \in Nat, NEW k \in Nat, i < k,
                      At(i, u, p)', At(k, v, q)', Clash(u, p, v, q)
               PROVE  \E j \in Nat : i < j /\ j < k /\ DelAt(j, u)'
    BY DEF Apart, DelBetween, Clash
  <2>0. IF i = 0 THEN At(0, u, p) \/ At(1, u, p) ELSE At(i + 1, u, p)
    BY <1>2
  <2>1. PICK m \in Nat : At(m, u, p) /\ (m = i + 1 \/ (i = 0 /\ m = 0))
    BY <2>0
  <2>2. At(k + 1, v, q) /\ k + 1 \in Nat /\ m < k + 1
    BY <1>2, <2>1
  <2>3. DelBetween(m, k + 1, u)
    BY <2>1, <2>2 DEF Grouped, Apart
  <2>4. PICK j \in Nat : m < j /\ j < k + 1 /\ DelAt(j, u)
    BY <2>3 DEF DelBetween
  <2>5. j - 1 \in Nat /\ j - 1 > 0 /\ DelAt(j - 1, u)'
    BY <1>3, <2>4
  <2>6. i < j - 1 /\ j - 1 < k
    BY <2>1, <2>4, <2>5
  <2>7. QED
    BY <2>5, <2>6
<1>6. Entered'
  <2> SUFFICES ASSUME NEW u \in Urrs, NEW p \in Periods, urrs[u] = p
               PROVE  \E i \in Nat : At(i, u, p)' /\ \A j \in Nat : DelAt(j, u)' => j <= i
    BY DEF Entered
  <2>1. PICK i \in Nat : At(i, u, p) /\ \A j \in Nat : DelAt(j, u) => j <= i
    BY DEF Grouped, Entered
  <2>2. \A j \in Nat : DelAt(j, u)' => j > 0 /\ j + 1 <= i
    BY <1>1, <2>1
  <2>3. CASE i \in {0, 1}
    <3>1. At(0, u, p)'
      BY <1>2, <2>1, <2>3
    <3>2. \A j \in Nat : ~DelAt(j, u)'
      BY <2>2, <2>3
    <3>3. QED
      BY <3>1, <3>2
  <2>4. CASE i > 1
    <3>1. i - 1 \in Nat /\ i - 1 # 0 /\ i - 1 + 1 = i
      BY <2>4
    <3>2. At(i - 1, u, p)'
      BY <1>2, <2>1, <3>1
    <3>3. \A j \in Nat : DelAt(j, u)' => j <= i - 1
      BY <2>2
    <3>4. QED
      BY <3>1, <3>2, <3>3
  <2>5. QED
    BY <2>3, <2>4
<1>7. Alone'
  <2>1. \A u \in Urrs, p \in Periods : u \in group'[p] => At(0, u, p) \/ At(1, u, p)
    BY DEF At
  <2>2. ASSUME NEW u \in Urrs, NEW v \in Urrs, NEW p \in Periods, NEW q \in Periods,
               At(0, u, p), At(1, v, q)
        PROVE  ~Clash(u, p, v, q)
    <3>1. Clash(u, p, v, q) => DelBetween(0, 1, u)
      BY <2>2 DEF Grouped, Apart
    <3>2. ~DelBetween(0, 1, u)
      BY DEF DelBetween
    <3>3. QED
      BY <3>1, <3>2
  <2>3. ASSUME NEW u \in Urrs, NEW v \in Urrs, NEW p \in Periods, NEW q \in Periods,
               At(1, u, p), At(1, v, q)
        PROVE  u = v /\ p = q
    BY <2>3, EventKinds DEF At, AddAt
  <2>4. ASSUME NEW u \in Urrs, NEW v \in Urrs, NEW p \in Periods, NEW q \in Periods,
               At(0, u, p), At(0, v, q)
        PROVE  (u = v => p = q) /\ (p = q => SeidOf(u) = SeidOf(v))
    BY <1>1, <2>4 DEF At, Grouped, Alone
  <2>5. QED
    BY <2>1, <2>2, <2>3, <2>4 DEF Alone, Clash
<1>8. QED
  BY <1>4, <1>5, <1>6, <1>7 DEF Grouped

(* The server takes an event that removes v.                                *)
LEMMA GroupedRemoved ==
  ASSUME TypeOK, Grouped, evtCh # << >>, evtCh' = Tail(evtCh), urrs' = urrs,
         NEW v, \A u : DelAt(1, u) <=> u = v, \A u, p : ~AddAt(1, u, p),
         \A u \in Urrs, p \in Periods : u \in group'[p] <=> u \in group[p] /\ u # v
  PROVE  Grouped'
<1>1. /\ \A i \in Nat : \A u, p : AddAt(i, u, p)' <=> i > 0 /\ AddAt(i + 1, u, p)
      /\ \A j \in Nat : \A u : DelAt(j, u)' <=> j > 0 /\ DelAt(j + 1, u)
      /\ \A u, p : ~AddAt(0, u, p)
  BY Shifted
<1>2. \A i \in Nat, u \in Urrs, p \in Periods :
         At(i, u, p)' <=> IF i = 0 THEN At(0, u, p) /\ u # v ELSE At(i + 1, u, p)
  BY <1>1 DEF At
<1>3. \A j \in Nat : \A u : DelAt(j, u) =>
         j = 0 \/ (j = 1 /\ u = v) \/ (j - 1 \in Nat /\ j - 1 > 0 /\ DelAt(j - 1, u)')
  <2> SUFFICES ASSUME NEW j \in Nat, NEW u, DelAt(j, u), j # 0, j # 1
               PROVE  j - 1 \in Nat /\ j - 1 > 0 /\ DelAt(j - 1, u)'
    OBVIOUS
  <2>1. j - 1 \in Nat /\ j - 1 > 0 /\ j - 1 + 1 = j
    OBVIOUS
  <2>2. QED
    BY <1>1, <2>1
<1>4. Leaving'
  <2> SUFFICES ASSUME NEW u \in Urrs, NEW p \in Periods, NEW i \in Nat,
                      At(i, u, p)', urrs[u] # p
               PROVE  \E j \in Nat : i < j /\ DelAt(j, u)'
    BY DEF Leaving
  <2>0. IF i = 0 THEN At(0, u, p) /\ u # v ELSE At(i + 1, u, p)
    BY <1>2
  <2>1. PICK m \in Nat : At(m, u, p) /\ ((m = i + 1 /\ i > 0) \/ (i = 0 /\ m = 0 /\ u # v))
    BY <2>0
  <2>2. PICK j \in Nat : m < j /\ DelAt(j, u)
    BY <2>1 DEF Grouped, Leaving
  <2>3. j # 0 /\ ~(j = 1 /\ u = v)
    BY <2>1, <2>2
  <2>4. j - 1 \in Nat /\ j - 1 > 0 /\ DelAt(j - 1, u)'
    BY <1>3, <2>2, <2>3
  <2>5. i < j - 1
    BY <2>1, <2>2, <2>4
  <2>6. QED
    BY <2>4, <2>5
<1>5. Apart'
  <2> SUFFICES ASSUME NEW u \in Urrs, NEW w \in Urrs, NEW p \in Periods, NEW q \in Periods,
                      NEW i \in Nat, NEW k \in Nat, i < k,
                      At(i, u, p)', At(k, w, q)', Clash(u, p, w, q)
               PROVE  \E j \in Nat : i < j /\ j < k /\ DelAt(j, u)'
    BY DEF Apart, DelBetween, Clash
  <2>0. IF i = 0 THEN At(0, u, p) /\ u # v ELSE At(i + 1, u, p)
    BY <1>2
  <2>1. PICK m \in Nat : At(m, u, p) /\ ((m = i + 1 /\ i > 0) \/ (i = 0 /\ m = 0 /\ u # v))
    BY <2>0
  <2>2. At(k + 1, w, q) /\ k + 1 \in Nat /\ m < k + 1
    BY <1>2, <2>1
  <2>3. DelBetween(m, k + 1, u)
    BY <2>1, <2>2 DEF Grouped, Apart
  <2>4. PICK j \in Nat : m < j /\ j < k + 1 /\ DelAt(j, u)
    BY <2>3 DEF DelBetween
  <2>5. j - 1 \in Nat /\ j - 1 > 0 /\ DelAt(j - 1, u)'
    BY <1>3, <2>1, <2>4
  <2>6. i < j - 1 /\ j - 1 < k
    BY <2>1, <2>4, <2>5
  <2>7. QED
    BY <2>5, <2>6
<1>6. Entered'
  <2> SUFFICES ASSUME NEW u \in Urrs, NEW p \in Periods, urrs[u] = p
               PROVE  \E i \in Nat : At(i, u, p)' /\ \A j \in Nat : DelAt(j, u)' => j <= i
    BY DEF Entered
  <2>1. PICK i \in Nat : At(i, u, p) /\ \A j \in Nat : DelAt(j, u) => j <= i
    BY DEF Grouped, Entered
  <2>2. ASSUME NEW j \in Nat, DelAt(j, u)' PROVE j > 0 /\ j + 1 <= i
    <3>1. j > 0 /\ DelAt(j + 1, u) /\ j + 1 \in Nat
      BY <1>1, <2>2
    <3>2. QED
      BY <2>1, <3>1
  <2>3. i # 1
    BY <2>1 DEF At
  <2>4. CASE i = 0
    <3>1. u # v
      BY <2>1, <2>4
    <3>2. QED
      BY <1>2, <2>1, <2>2, <2>4, <3>1
  <2>5. CASE i > 1
    <3>1. i - 1 \in Nat /\ i - 1 # 0 /\ i - 1 + 1 = i
      BY <2>5
    <3>2. At(i - 1, u, p)'
      BY <1>2, <2>1, <3>1
    <3>3. \A j \in Nat : DelAt(j, u)' => j <= i - 1
      BY <2>2
    <3>4. QED
      BY <3>1, <3>2, <3>3
  <2>6. QED
    BY <2>3, <2>4, <2>5
<1>7. Alone'
  BY DEF Grouped, Alone
<1>8. QED
  BY <1>4, <1>5, <1>6, <1>7 DEF Grouped

-----------------------------------------------------------------------------
(* The tickers, as long as no two sessions share a period.                  *)
Ticking ==
  /\ OneTicker
  /\ \A p \in Periods : ticker[p] = None => group[p] = {}
  /\ stopping # None => \A p \in Periods : ticker[p] # stopping

PerioInv == TypeOK /\ Requested /\ Grouped /\ Ticking

LEMMA PerioInit == Init => PerioInv
<1> SUFFICES ASSUME Init PROVE PerioInv
  OBVIOUS
<1>1. \A i, u, p : ~AddAt(i, u, p)
  BY DEF Init, AddAt
<1>2. \A u \in Urrs, p \in Periods : \A i \in Nat : ~At(i, u, p)
  BY <1>1 DEF Init, At
<1>3. \A u \in Urrs, p \in Periods : urrs[u] # p /\ u \notin group[p]
  BY PerioAssumption DEF Init
<1>4. Grouped
  BY <1>2, <1>3 DEF Grouped, Leaving, Apart, Entered, Alone
<1>5. Ticking
  BY PerioAssumption DEF Init, Ticking, OneTicker
<1>6. Requested
  BY DEF Init, Requested
<1>7. QED
  BY <1>4, <1>5, <1>6, TypeInit DEF PerioInv

LEMMA TickingKept ==
  ASSUME Ticking, UNCHANGED <<group, ticker, stopping>>,
         \A t \in Tickers : goroutine'[t] # Off <=> goroutine[t] # Off,
         \A t \in Tickers : goroutine'[t].period = goroutine[t].period,
         \A t \in Tickers : goroutine'[t].at = "off" <=> goroutine[t].at = "off",
         TypeOK
  PROVE  Ticking'
  BY PerioAssumption DEF Ticking, OneTicker, TypeOK

LEMMA PerioMain ==
  ASSUME OnePerPeriod, PerioInv, Main
  PROVE  (Requested /\ Grouped /\ Ticking)'
<1>1. ASSUME NEW u \in Urrs, NEW p \in Periods, CreateURR(u, p)
      PROVE  (Requested /\ Grouped /\ Ticking)'
  <2> DEFINE e == [type |-> "ADD", urr |-> u, period |-> p]
  <2>1. todo' = {e} /\ e.urr = u /\ e.period = p /\ e.type = "ADD"
    BY <1>1 DEF CreateURR
  <2>2. urrs' = urrs /\ urrs[u] = None
    BY <1>1 DEF CreateURR
  <2>3. \A v \in Urrs : urrs[v] = p => SeidOf(v) = SeidOf(u)
    BY <1>1 DEF CreateURR, PeriodFree
  <2> HIDE DEF e
  <2>4. Requested'
    BY <2>1, <2>2, <2>3 DEF Requested
  <2>5. Grouped'
    BY <1>1, <2>2, GroupedKept DEF CreateURR, server, AddAt, DelAt, PerioInv
  <2>6. Ticking'
    BY <1>1, TickingKept DEF CreateURR, server, PerioInv
  <2>7. QED
    BY <2>4, <2>5, <2>6
<1>2. ASSUME NEW S \in SUBSET Urrs, RemoveURRs(S)
      PROVE  (Requested /\ Grouped /\ Ticking)'
  <2>1. \A e \in todo' : e.type = "DEL"
    BY <1>2 DEF RemoveURRs
  <2>2. Requested'
    BY <2>1 DEF Requested
  <2>3. Grouped'
    BY <1>2, GroupedKept DEF RemoveURRs, server, AddAt, DelAt, PerioInv
  <2>4. Ticking'
    BY <1>2, TickingKept DEF RemoveURRs, server, PerioInv
  <2>5. QED
    BY <2>2, <2>3, <2>4
<1>3. ASSUME NEW e \in todo, SendEvent(e)
      PROVE  (Requested /\ Grouped /\ Ticking)'
  <2>1. e.type \in {"ADD", "DEL"}
    BY DEF Requested, PerioInv
  <2>2. Requested'
    BY <1>3 DEF Requested, PerioInv, SendEvent
  <2>3. Grouped'
    BY <1>3, <2>1, GroupedSentAdd, GroupedSentDel DEF PerioInv
  <2>4. Ticking'
    BY <1>3, TickingKept DEF SendEvent, server, PerioInv
  <2>5. QED
    BY <2>2, <2>3, <2>4
<1>4. CASE ServeReport
  <2>1. Requested'
    BY <1>4 DEF ServeReport, Requested, PerioInv
  <2>2. Grouped'
    BY <1>4, GroupedKept DEF ServeReport, server, AddAt, DelAt, PerioInv
  <2>3. Ticking'
    BY <1>4, TickingKept DEF ServeReport, server, PerioInv
  <2>4. QED
    BY <2>1, <2>2, <2>3
<1>5. QED
  BY <1>1, <1>2, <1>3, <1>4 DEF Main

LEMMA PerioTicker ==
  ASSUME PerioInv, NEW t \in Tickers, Ticker(t)
  PROVE  (Requested /\ Grouped /\ Ticking)'
<1>0. TypeOK /\ Requested /\ Grouped /\ Ticking
  BY DEF PerioInv
<1>1. goroutine[t] = Off \/ goroutine[t] \in [at : {"waiting", "sending"}, period : Periods]
  BY <1>0 DEF TypeOK
<1>2. CASE Tick(t)
  <2>1. Requested'
    BY <1>0, <1>2 DEF Tick, Requested
  <2>2. Grouped'
    BY <1>0, <1>2, GroupedKept DEF Tick, server, AddAt, DelAt
  <2>3. goroutine[t].at = "waiting" /\ goroutine' = [goroutine EXCEPT ![t].at = "sending"]
    BY <1>2 DEF Tick
  <2>4. /\ \A s \in Tickers : goroutine'[s] # Off <=> goroutine[s] # Off
        /\ \A s \in Tickers : goroutine'[s].period = goroutine[s].period
        /\ \A s \in Tickers : goroutine'[s].at = "off" <=> goroutine[s].at = "off"
    BY <1>0, <1>1, <2>3 DEF TypeOK, Off
  <2>5. Ticking'
    BY <1>0, <1>2, <2>4, TickingKept DEF Tick, server
  <2>6. QED
    BY <2>1, <2>2, <2>5
<1>3. CASE SendTick(t)
  <2> DEFINE e == [type |-> "TIMEOUT", period |-> goroutine[t].period]
  <2>1. goroutine[t].at = "sending" /\ goroutine' = [goroutine EXCEPT ![t].at = "waiting"]
    BY <1>3 DEF SendTick
  <2>2. e \in Events /\ e.type = "TIMEOUT"
    BY <1>1, <2>1 DEF Off, Events
  <2>3. evtCh' = Append(evtCh, e) /\ urrs' = urrs /\ group' = group
    BY <1>3 DEF SendTick, server
  <2> HIDE DEF e
  <2>4. \A u, p : e # Add(u, p) /\ e # Del(u)
    BY <2>2, EventKinds
  <2>5. /\ \A i, u, p : AddAt(i, u, p)' <=> AddAt(i, u, p)
        /\ \A j, u : DelAt(j, u)' <=> DelAt(j, u)
    BY <1>0, <2>2, <2>3, <2>4, Extended
  <2>6. Grouped'
    BY <1>0, <2>3, <2>5, GroupedKept
  <2>7. /\ \A s \in Tickers : goroutine'[s] # Off <=> goroutine[s] # Off
        /\ \A s \in Tickers : goroutine'[s].period = goroutine[s].period
        /\ \A s \in Tickers : goroutine'[s].at = "off" <=> goroutine[s].at = "off"
    BY <1>0, <1>1, <2>1 DEF TypeOK, Off
  <2>8. Ticking'
    BY <1>0, <1>3, <2>7, TickingKept DEF SendTick, server
  <2>9. Requested'
    BY <1>0, <1>3 DEF SendTick, Requested
  <2>10. QED
    BY <2>6, <2>8, <2>9
<1>4. CASE TickerStops(t)
  <2>1. Requested'
    BY <1>0, <1>4 DEF TickerStops, Requested
  <2>2. Grouped'
    BY <1>0, <1>4, GroupedKept DEF TickerStops, AddAt, DelAt
  <2>3. /\ stopping = t /\ stopping' = None /\ ticker' = ticker /\ group' = group
        /\ goroutine' = [goroutine EXCEPT ![t] = Off] /\ t # None
    BY <1>4, PerioAssumption DEF TickerStops
  <2>4. goroutine'[t] = Off /\ \A s \in Tickers : s # t => goroutine'[s] = goroutine[s]
    BY <1>0, <2>3 DEF TypeOK
  <2>5. \A p \in Periods : ticker[p] # t /\ ticker[p] \in Tickers \cup {None}
    BY <1>0, <2>3 DEF Ticking, TypeOK
  <2>6. OneTicker'
    BY <1>0, <2>3, <2>4, <2>5 DEF Ticking, OneTicker
  <2>7. Ticking'
    BY <1>0, <2>3, <2>6 DEF Ticking
  <2>8. QED
    BY <2>1, <2>2, <2>7
<1>5. QED
  BY <1>2, <1>3, <1>4 DEF Ticker

(* What the server has in hand is what was first in the channel.            *)
LEMMA First ==
  ASSUME TypeOK, NEW e, Receive(e)
  PROVE  /\ evtCh # << >> /\ evtCh' = Tail(evtCh) /\ stopping = None /\ e \in Events
         /\ \A u, p : AddAt(1, u, p) <=> e = Add(u, p)
         /\ \A u : DelAt(1, u) <=> e = Del(u)
<1>1. evtCh # << >> /\ evtCh' = Tail(evtCh) /\ stopping = None /\ e = Head(evtCh)
  BY DEF Receive, Idle
<1>2. e \in Events
  BY Received
<1>3. QED
  BY <1>1, <1>2, Shifted

LEMMA PerioAdd ==
  ASSUME PerioInv, NEW e, HandleAdd(e)
  PROVE  Grouped' /\ Ticking'
<1> DEFINE v == e.urr
           q == e.period
<1>0. TypeOK /\ Grouped /\ Ticking
  BY DEF PerioInv
<1>1. /\ Receive(e) /\ e.type = "ADD" /\ urrs' = urrs /\ stopping' = stopping
      /\ group' = [group EXCEPT ![q] = @ \cup {v}]
  BY DEF HandleAdd
<1>2. /\ evtCh # << >> /\ evtCh' = Tail(evtCh) /\ stopping = None /\ e \in Events
      /\ \A u, p : AddAt(1, u, p) <=> e = Add(u, p)
      /\ \A u : DelAt(1, u) <=> e = Del(u)
  BY <1>0, <1>1, First
<1>3. v \in Urrs /\ q \in Periods /\ e = Add(v, q)
  BY <1>1, <1>2, EventTypes, EventKinds
<1>3a. \/ ticker[q] # None /\ ticker' = ticker /\ goroutine' = goroutine
       \/ /\ ticker[q] = None
          /\ \E t \in Tickers :
               /\ goroutine[t] = Off
               /\ ticker' = [ticker EXCEPT ![q] = t]
               /\ goroutine' = [goroutine EXCEPT ![t] = [at |-> "waiting", period |-> q]]
  BY DEF HandleAdd
<1> HIDE DEF v, q
<1>4. \A u, p : AddAt(1, u, p) <=> u = v /\ p = q
  BY <1>2, <1>3, EventKinds
<1>5. \A u : ~DelAt(1, u)
  BY <1>2, <1>3, EventKinds
<1>6. \A u \in Urrs, p \in Periods : u \in group'[p] <=> u \in group[p] \/ (u = v /\ p = q)
  BY <1>0, <1>1, <1>3 DEF TypeOK
<1>7. Grouped'
  BY <1>0, <1>1, <1>2, <1>4, <1>5, <1>6, GroupedTaken
<1>8. CASE ticker[q] # None /\ ticker' = ticker /\ goroutine' = goroutine
  <2>1. \A p \in Periods : p # q => group'[p] = group[p]
    BY <1>0, <1>1 DEF TypeOK
  <2>2. OneTicker'
    BY <1>0, <1>1, <1>8 DEF Ticking, OneTicker
  <2>3. QED
    BY <1>0, <1>1, <1>2, <1>7, <1>8, <2>1, <2>2 DEF Ticking
<1>9. ASSUME ticker[q] = None, NEW t \in Tickers, goroutine[t] = Off,
             ticker' = [ticker EXCEPT ![q] = t],
             goroutine' = [goroutine EXCEPT ![t] = [at |-> "waiting", period |-> q]]
      PROVE  Ticking'
  <2>1. \A p \in Periods : p # q => group'[p] = group[p] /\ ticker'[p] = ticker[p]
    BY <1>0, <1>1, <1>9 DEF TypeOK
  <2>2. ticker'[q] = t /\ t # None
    BY <1>0, <1>3, <1>9, PerioAssumption DEF TypeOK
  <2>3. /\ goroutine'[t] = [at |-> "waiting", period |-> q]
        /\ \A s \in Tickers : s # t => goroutine'[s] = goroutine[s]
    BY <1>0, <1>9 DEF TypeOK
  <2>4. \A p \in Periods : ticker[p] \in Tickers \cup {None} /\ ticker[p] # t
    BY <1>0, <1>9, <2>2 DEF Ticking, OneTicker, Off, TypeOK
  <2>5. ASSUME NEW s \in Tickers, goroutine'[s] # Off
        PROVE  ticker'[goroutine'[s].period] = s \/ stopping' = s
    <3>1. CASE s = t
      BY <2>2, <2>3, <3>1
    <3>2. CASE s # t
      <4>1. ticker[goroutine[s].period] = s /\ goroutine'[s] = goroutine[s] /\ s # None
        BY <1>0, <1>2, <2>3, <2>5, <3>2, PerioAssumption DEF Ticking, OneTicker
      <4>2. goroutine[s].period \in Periods /\ goroutine[s].period # q
        BY <1>0, <1>9, <2>5, <4>1 DEF TypeOK
      <4>3. QED
        BY <2>1, <4>1, <4>2
    <3>3. QED
      BY <3>1, <3>2
  <2>6. ASSUME NEW p \in Periods, ticker'[p] # None
        PROVE  goroutine'[ticker'[p]].at # "off" /\ goroutine'[ticker'[p]].period = p
    <3>1. CASE p = q
      BY <2>2, <2>3, <3>1
    <3>2. CASE p # q
      BY <1>0, <2>1, <2>3, <2>4, <2>6, <3>2 DEF Ticking, OneTicker
    <3>3. QED
      BY <3>1, <3>2
  <2>7. OneTicker'
    BY <2>5, <2>6 DEF OneTicker
  <2>8. QED
    BY <1>0, <1>1, <1>2, <2>1, <2>2, <2>7 DEF Ticking
<1>10. QED
  BY <1>3a, <1>7, <1>8, <1>9

(* The group the URR leaves is that of one session, so that it is forgotten *)
(* exactly when it is empty, and its ticker is stopped exactly then.        *)
LEMMA Leaves ==
  ASSUME PerioInv, NEW p \in Periods, NEW v \in Urrs, HasUrr(p, v), LeaveGroup(p, v)
  PROVE  /\ \A u \in Urrs, q \in Periods : u \in group'[q] <=> u \in group[q] /\ u # v
         /\ \/ stopping' = None /\ ticker' = ticker
            \/ /\ stopping' = ticker[p] /\ ticker' = [ticker EXCEPT ![p] = None]
               /\ group'[p] = {}
<1> DEFINE rest == group[p] \ {v}
           gone == \A w \in rest : SeidOf(w) # SeidOf(v)
<1>0. TypeOK /\ Alone /\ v \in group[p] /\ group[p] \subseteq Urrs
  BY DEF PerioInv, Grouped, HasUrr, TypeOK
<1>1. \A w \in rest : SeidOf(w) = SeidOf(v)
  BY <1>0 DEF Alone
<1>2. gone <=> rest = {}
  BY <1>1
<1>3. /\ stopping' = IF rest = {} THEN ticker[p] ELSE None
      /\ group' = [group EXCEPT ![p] = IF gone THEN {} ELSE rest]
      /\ ticker' = [ticker EXCEPT ![p] = IF gone THEN None ELSE @]
  BY DEF LeaveGroup
<1> HIDE DEF gone
<1>4. group' = [group EXCEPT ![p] = rest]
  BY <1>2, <1>3
<1>5. group \in [Periods -> SUBSET Urrs] /\ ticker \in [Periods -> Tickers \cup {None}]
  BY <1>0 DEF TypeOK
<1>6. \A q \in Periods : q # p => v \notin group[q]
  BY <1>0 DEF Alone
<1>7. \A u \in Urrs, q \in Periods : u \in group'[q] <=> u \in group[q] /\ u # v
  BY <1>4, <1>5, <1>6
<1>8. CASE rest = {}
  BY <1>2, <1>3, <1>4, <1>5, <1>7, <1>8
<1>9. CASE rest # {}
  <2>1. ticker' = ticker
    BY <1>2, <1>3, <1>5, <1>9
  <2>2. QED
    BY <1>3, <1>7, <1>9, <2>1
<1>10. QED
  BY <1>8, <1>9

LEMMA PerioDel ==
  ASSUME PerioInv, NEW e, HandleDel(e)
  PROVE  Grouped' /\ Ticking'
<1> DEFINE v == e.urr
<1>0. TypeOK /\ Grouped /\ Ticking
  BY DEF PerioInv
<1>1. Receive(e) /\ e.type = "DEL" /\ urrs' = urrs /\ goroutine' = goroutine
  BY DEF HandleDel
<1>2. /\ evtCh # << >> /\ evtCh' = Tail(evtCh) /\ stopping = None /\ e \in Events
      /\ \A u, p : AddAt(1, u, p) <=> e = Add(u, p)
      /\ \A u : DelAt(1, u) <=> e = Del(u)
  BY <1>0, <1>1, First
<1>3. v \in Urrs /\ e = Del(v)
  BY <1>1, <1>2, EventTypes, EventKinds
<1>3a. \/ \E p \in Periods : HasUrr(p, v) /\ LeaveGroup(p, v)
       \/ /\ \A p \in Periods : ~HasUrr(p, v)
          /\ group' = group /\ ticker' = ticker /\ stopping' = stopping
  BY DEF HandleDel
<1> HIDE DEF v
<1>4. /\ \A u : DelAt(1, u) <=> u = v
      /\ \A u, p : ~AddAt(1, u, p)
  BY <1>2, <1>3, EventKinds
<1>5. ASSUME \A u \in Urrs, p \in Periods : u \in group'[p] <=> u \in group[p] /\ u # v
      PROVE  Grouped'
  BY <1>0, <1>1, <1>2, <1>4, <1>5, GroupedRemoved
<1>6. CASE /\ \A p \in Periods : ~HasUrr(p, v)
           /\ group' = group /\ ticker' = ticker /\ stopping' = stopping
  <2>1. \A p \in Periods : v \notin group[p]
    BY <1>0, <1>6 DEF HasUrr, Ticking
  <2>2. Grouped'
    BY <1>5, <1>6, <2>1
  <2>3. Ticking'
    BY <1>0, <1>1, <1>6 DEF Ticking, OneTicker
  <2>4. QED
    BY <2>2, <2>3
<1>7. ASSUME NEW p \in Periods, HasUrr(p, v), LeaveGroup(p, v)
      PROVE  Grouped' /\ Ticking'
  <2>1. /\ \A u \in Urrs, q \in Periods : u \in group'[q] <=> u \in group[q] /\ u # v
        /\ \/ stopping' = None /\ ticker' = ticker
           \/ /\ stopping' = ticker[p] /\ ticker' = [ticker EXCEPT ![p] = None]
              /\ group'[p] = {}
    BY <1>3, <1>7, Leaves
  <2>2. Grouped'
    BY <1>5, <2>1
  <2>3. \A q \in Periods : group[q] = {} => group'[q] = {}
    <3>1. \A q \in Periods : group'[q] \subseteq Urrs
      BY <1>7 DEF LeaveGroup, PerioInv, TypeOK
    <3>2. QED
      BY <2>1, <3>1
  <2>4. CASE stopping' = None /\ ticker' = ticker
    <3>1. OneTicker'
      BY <1>0, <1>1, <1>2, <2>4, PerioAssumption DEF Ticking, OneTicker
    <3>2. QED
      BY <1>0, <2>2, <2>3, <2>4, <3>1 DEF Ticking
  <2>5. CASE /\ stopping' = ticker[p] /\ ticker' = [ticker EXCEPT ![p] = None]
             /\ group'[p] = {}
    <3>1. /\ ticker'[p] = None /\ \A q \in Periods : q # p => ticker'[q] = ticker[q]
      BY <1>0, <2>5 DEF TypeOK
    <3>2. ticker[p] # None
      BY <1>7 DEF HasUrr
    <3>3. \A q \in Periods : ticker[q] # None => goroutine[ticker[q]].period = q
      BY <1>0 DEF Ticking, OneTicker
    <3>4. \A q \in Periods : ticker'[q] # stopping'
      BY <2>5, <3>1, <3>2, <3>3
    <3>5. ASSUME NEW s \in Tickers, goroutine[s] # Off
          PROVE  ticker'[goroutine[s].period] = s \/ stopping' = s
      <4>1. ticker[goroutine[s].period] = s /\ goroutine[s].period \in Periods
        BY <1>0, <1>2, <3>5, PerioAssumption DEF Ticking, OneTicker, TypeOK
      <4>2. QED
        BY <2>5, <3>1, <4>1
    <3>6. OneTicker'
      BY <1>0, <1>1, <3>1, <3>5 DEF Ticking, OneTicker
    <3>7. QED
      BY <1>0, <2>2, <2>3, <2>5, <3>1, <3>4, <3>6 DEF Ticking
  <2>6. QED
    BY <2>1, <2>4, <2>5
<1>8. QED
  BY <1>3a, <1>6, <1>7

LEMMA PerioServe ==
  ASSUME PerioInv, Serve
  PROVE  (Requested /\ Grouped /\ Ticking)'
<1>0. TypeOK /\ Requested /\ Grouped /\ Ticking
  BY DEF PerioInv
<1>1. ASSUME NEW e, HandleAdd(e) PROVE (Requested /\ Grouped /\ Ticking)'
  <2>1. Requested'
    BY <1>0, <1>1 DEF HandleAdd, Requested
  <2>2. QED
    BY <1>1, <2>1, PerioAdd
<1>2. ASSUME NEW e, HandleDel(e) PROVE (Requested /\ Grouped /\ Ticking)'
  <2>1. Requested'
    BY <1>0, <1>2 DEF HandleDel, Requested
  <2>2. QED
    BY <1>2, <2>1, PerioDel
<1>3. ASSUME NEW e, HandleTimeout(e) PROVE (Requested /\ Grouped /\ Ticking)'
  <2>1. /\ Receive(e) /\ e.type = "TIMEOUT" /\ urrs' = urrs /\ todo' = todo
        /\ UNCHANGED <<group, ticker, goroutine, stopping>>
    BY <1>3 DEF HandleTimeout
  <2>2. /\ evtCh # << >> /\ evtCh' = Tail(evtCh) /\ e \in Events
        /\ \A u, p : AddAt(1, u, p) <=> e = Add(u, p)
        /\ \A u : DelAt(1, u) <=> e = Del(u)
    BY <1>0, <2>1, First
  <2>3. \A u, p : ~AddAt(1, u, p) /\ ~DelAt(1, u)
    BY <2>1, <2>2, EventKinds
  <2>4. Grouped'
    BY <1>0, <2>1, <2>2, <2>3, GroupedTaken
  <2>5. Requested'
    BY <1>0, <2>1 DEF Requested
  <2>6. Ticking'
    BY <1>0, <2>1 DEF Ticking, OneTicker
  <2>7. QED
    BY <2>4, <2>5, <2>6
<1>4. ASSUME NEW x \in left, NotifySessReport(x) PROVE (Requested /\ Grouped /\ Ticking)'
  <2>1. Requested'
    BY <1>0, <1>4 DEF NotifySessReport, Requested
  <2>2. Grouped'
    BY <1>0, <1>4, GroupedKept DEF NotifySessReport, AddAt, DelAt
  <2>3. Ticking'
    BY <1>0, <1>4 DEF NotifySessReport, Ticking, OneTicker
  <2>4. QED
    BY <2>1, <2>2, <2>3
<1>5. QED
  BY <1>1, <1>2, <1>3, <1>4 DEF Serve

LEMMA PerioNext == OnePerPeriod /\ PerioInv /\ [Next]_vars => PerioInv'
<1> SUFFICES ASSUME OnePerPeriod, PerioInv, [Next]_vars PROVE PerioInv'
  OBVIOUS
<1>1. TypeOK'
  BY TypeNext DEF PerioInv
<1>2. CASE UNCHANGED vars
  <2>1. TypeOK /\ Requested /\ Grouped /\ Ticking
    BY DEF PerioInv
  <2>2. Requested' /\ Ticking'
    BY <1>2, <2>1 DEF vars, Requested, Ticking, OneTicker
  <2>3. Grouped'
    BY <1>2, <2>1, GroupedKept DEF vars, AddAt, DelAt
  <2>4. QED
    BY <1>1, <2>2, <2>3 DEF PerioInv
<1>3. CASE Next
  <2>1. (Requested /\ Grouped /\ Ticking)'
    BY <1>3, PerioMain, PerioTicker, PerioServe DEF Next
  <2>2. QED
    BY <1>1, <2>1 DEF PerioInv
<1>4. QED
  BY <1>2, <1>3

LEMMA Current == PerioInv => GroupsCurrent
<1> SUFFICES ASSUME PerioInv, NEW u \in Urrs, Settles(u), NEW p \in Periods
             PROVE  HasUrr(p, u) <=> urrs[u] = p
  BY DEF GroupsCurrent
<1>0. Leaving /\ Entered /\ Ticking
  BY DEF PerioInv, Grouped
<1>1. \A i \in DOMAIN evtCh : evtCh[i].type = "TIMEOUT" \/ evtCh[i].urr # u
  BY DEF Settles
<1>2. \A i : ~AddAt(i, u, p) /\ ~DelAt(i, u)
  BY <1>1 DEF AddAt, DelAt, Add, Del
<1>3. HasUrr(p, u) => urrs[u] = p
  <2>1. HasUrr(p, u) => At(0, u, p)
    BY DEF HasUrr, At
  <2>2. QED
    BY <1>0, <1>2, <2>1 DEF Leaving
<1>4. urrs[u] = p => HasUrr(p, u)
  <2> SUFFICES ASSUME urrs[u] = p PROVE HasUrr(p, u)
    OBVIOUS
  <2>1. PICK i \in Nat : At(i, u, p)
    BY <1>0 DEF Entered
  <2>2. u \in group[p]
    BY <1>2, <2>1 DEF At
  <2>3. QED
    BY <1>0, <2>2 DEF HasUrr, Ticking
<1>5. QED
  BY <1>3, <1>4

LEMMA PerioSafe == ASSUME OnePerPeriod PROVE Spec => []PerioInv
  BY PerioInit, PerioNext, PTL DEF Spec

(* As long as no two sessions measure over the same period, every ticker    *)
(* goroutine that runs is that of the group of its period, or the one that  *)
(* stopTicker waits for: none is left behind, and none is started twice     *)
(* (newTicker and stopTicker, server.go).                                   *)
THEOREM TickersSingle == ASSUME OnePerPeriod PROVE Spec => []OneTicker
<1>1. PerioInv => OneTicker
  BY DEF PerioInv, Ticking
<1>2. QED
  BY <1>1, PerioSafe, PTL

(* Under the same assumption, a URR whose events are dealt with is in the   *)
(* group of the period the kernel has it with, and in no other, whatever    *)
(* the order of requests, ticks and reports (addPeriodReportTimer,          *)
(* delPeriodReportTimer, server.go).                                        *)
THEOREM GroupsFollow == ASSUME OnePerPeriod PROVE Spec => []GroupsCurrent
  BY Current, PerioSafe, PTL
=============================================================================
