---------------------------- MODULE RadioProofs ----------------------------
(* Theorems about RadioLink.                                                *)
EXTENDS RadioLink, FiniteSetTheorems, SequenceTheorems, TLAPS

\* Messages of a type have every wider one.
LEMMA SeqWider ==
    ASSUME NEW S, NEW T, S \subseteq T, NEW s \in Seq(S)
    PROVE  s \in Seq(T)
OBVIOUS

\* What is appended to a queue, and what is left of it, has the type of the queue.
LEMMA AppendTyped ==
    ASSUME NEW S, NEW s \in Seq(S), NEW x \in S
    PROVE  Append(s, x) \in Seq(S)
OBVIOUS

LEMMA TailTyped ==
    ASSUME NEW S, NEW s \in Seq(S), s # <<>>
    PROVE  Tail(s) \in Seq(S) /\ Head(s) \in S
OBVIOUS

\* A finite set as a sequence has every element.
LEMMA SetToSeqElements ==
    ASSUME NEW S, IsFiniteSet(S)
    PROVE  /\ SetToSeq(S) \in Seq(S)
           /\ \A x \in S : \E i \in DOMAIN SetToSeq(S) : SetToSeq(S)[i] = x
<1> DEFINE n == Cardinality(S)
           f == SetToSeq(S)
<1>1. n \in Nat /\ ExistsBijection(1..n, S)
  BY FS_CardinalityType
<1>2. PICK h : h \in Bijection(1..n, S)
  BY <1>1 DEF ExistsBijection
<1>3. h \in [1..n -> S] /\ IsInjective(h)
  BY <1>2 DEF Bijection, Injection, IsInjective
<1>4. f \in [1..n -> S] /\ IsInjective(f)
  BY <1>3 DEF SetToSeq
<1>5. f \in Injection(1..n, S)
  BY <1>4 DEF Injection, IsInjective
<1>6. IsFiniteSet(1..n) /\ Cardinality(1..n) = n
  BY <1>1, FS_Interval
<1>7. f \in Surjection(1..n, S)
  BY <1>5, <1>6, FS_Injection
<1>8. f \in Seq(S) /\ DOMAIN f = 1..n
  BY <1>1, <1>4
<1> QED
  BY <1>7, <1>8 DEF Surjection

\* So the signals of the cells that are gone are all told, and nothing else.
LEMMA LostSignals ==
    ASSUME IsFiniteSet(Gnbs), DOMAIN cells \subseteq Gnbs,
           NEW gone \in SUBSET (DOMAIN cells)
    PROVE  LET told == SetToSeq({Signal(cells[g].id, Lost) : g \in gone}) IN
           /\ told \in Seq({Signal(cells[g].id, Lost) : g \in gone})
           /\ \A g \in gone : \E i \in DOMAIN told : told[i] = Signal(cells[g].id, Lost)
<1> DEFINE T == {Signal(cells[g].id, Lost) : g \in gone}
           f == [g \in gone |-> Signal(cells[g].id, Lost)]
<1>1. IsFiniteSet(gone)
  BY FS_Subset
<1>2. f \in Surjection(gone, T)
  BY DEF Surjection
<1>3. IsFiniteSet(T)
  BY <1>1, <1>2, FS_Surjection
<1> QED
  BY <1>3, SetToSeqElements

\* The strongest of the candidates is one of them.
LEMMA SelectedIsCandidate ==
    ASSUME TypeOK, Candidates # {}
    PROVE  SelectedCell \in Candidates
<1>1. \A c \in Candidates : desc[c].dbm \in MinDbm..0
  BY DEF Candidates, TypeOK, RrcTypes
<1>2. \A c \in Candidates : desc[c].dbm \in Int /\ 0 - desc[c].dbm \in Nat
  BY <1>1 DEF MinDbm
<1> DEFINE T == {0 - desc[c].dbm : c \in Candidates}
<1>3. T \subseteq Nat /\ T # {}
  BY <1>2
<1>4. \E x \in T : \A y \in T : ~(<<y, x>> \in OpToRel(<, Nat))
  <2> HIDE DEF T
  <2> QED BY <1>3, WFMin, NatLessThanWellFounded, Zenon
<1>5. PICK x \in T : \A y \in T : ~(y < x)
  BY <1>3, <1>4, Zenon DEF OpToRel
<1>6. PICK c \in Candidates : x = 0 - desc[c].dbm
  BY <1>5
<1>7. \A d \in Candidates : desc[d].dbm <= desc[c].dbm
  <2> SUFFICES ASSUME NEW d \in Candidates PROVE desc[d].dbm <= desc[c].dbm
    OBVIOUS
  <2>1. ~(0 - desc[d].dbm < 0 - desc[c].dbm)
    BY <1>5, <1>6
  <2> QED BY <1>2, <2>1
<1> QED
  BY <1>7 DEF SelectedCell
-----------------------------------------------------------------------------
(* Types.                                                                   *)

\* More cells or a newer number make the messages' types wider.
LEMMA MessagesWider ==
    ASSUME UdpTypes, lastCell' \in Nat, lastCell <= lastCell', sti' \in Nat, sti <= sti'
    PROVE  ToRrc \subseteq ToRrc' /\ FromRrc \subseteq FromRrc' /\ Datagrams \subseteq Datagrams'
BY DEF UdpTypes, ToRrc, FromRrc, Datagrams, Lost, MinDbm

LEMMA MessagesSame ==
    ASSUME UNCHANGED <<lastCell, sti>>
    PROVE  UNCHANGED <<ToRrc, FromRrc, Datagrams>>
BY DEF ToRrc, FromRrc, Datagrams

\* The parts of the type invariant read few variables each.
LEMMA UdpKept ==
    ASSUME UdpTypes, UNCHANGED <<sti, lastCell, serving, cells>>
    PROVE  UdpTypes'
BY DEF UdpTypes
LEMMA RrcKept ==
    ASSUME RrcTypes, UNCHANGED <<sti, lastCell, up, down, desc, current, rrc, initialNas>>
    PROVE  RrcTypes'
BY MessagesSame DEF RrcTypes
LEMMA NasKept ==
    ASSUME NasTypes, UNCHANGED <<toRrc, toNas, mm, cm, waited>>
    PROVE  NasTypes'
BY DEF NasTypes
LEMMA AirKept ==
    ASSUME AirTypes, UNCHANGED <<sti, lastCell, link, outages, toGnb, toUe>>
    PROVE  AirTypes'
BY MessagesSame DEF AirTypes
LEMMA GnbKept ==
    ASSUME GnbTypes, UNCHANGED <<sti, announced, ids, ues, ctx>>
    PROVE  GnbTypes'
BY DEF GnbTypes

LEMMA SelectionTyped ==
    ASSUME TypeOK, PerformCellSelection
    PROVE  TypeOK'
<1> USE DEF PerformCellSelection, airVars, gnbVars
<1>1. SelectedCell \in DOMAIN desc \cup {0}
  BY SelectedIsCandidate DEF SelectedCell, Candidates
<1>2. ToCell(SelectedCell, "ASSIGN_CURRENT_CELL", FALSE) \in FromRrc
  BY <1>1 DEF TypeOK, UdpTypes, RrcTypes, ToCell, FromRrc, Uplinks
<1>3. down' \in Seq(FromRrc)
  BY <1>2, AppendTyped DEF TypeOK, RrcTypes
<1>4. RrcTypes'
  BY <1>1, <1>3, MessagesSame DEF TypeOK, RrcTypes
<1>5. NasTypes'
  BY AppendTyped DEF TypeOK, NasTypes, Events
<1> QED
  BY <1>4, <1>5, UdpKept, AirKept, GnbKept DEF TypeOK

LEMMA NasReceiveTyped ==
    ASSUME TypeOK, NasReceive
    PROVE  TypeOK'
<1> USE DEF NasReceive, airVars, gnbVars
<1>1. toNas' \in Seq(Events)
  BY TailTyped DEF TypeOK, NasTypes
<1>2. /\ mm' \in {"DEREGISTERED", "REGISTRATION_INITIATED", "REGISTERED",
                  "SERVICE_REQUEST_INITIATED"}
      /\ cm' \in {"IDLE", "CONNECTED"} /\ waited' \in BOOLEAN
  BY DEF TypeOK, NasTypes, Aborted, ActiveCellChanged
<1>3. NasTypes'
  BY <1>1, <1>2 DEF TypeOK, NasTypes
<1> QED
  BY <1>3, UdpKept, RrcKept, AirKept, GnbKept DEF TypeOK

LEMMA ProceduresTyped ==
    ASSUME TypeOK, Procedures
    PROVE  TypeOK'
<1> USE DEF Procedures, SendInitialRegistration, SendServiceRequest, Initiate,
            RegistrationExpires, ServiceRequestExpires, airVars, gnbVars
<1>1. NasTypes'
  BY AppendTyped DEF TypeOK, NasTypes
<1> QED
  BY <1>1, UdpKept, RrcKept, AirKept, GnbKept DEF TypeOK

LEMMA RrcFromNasTyped ==
    ASSUME TypeOK, RrcFromNas
    PROVE  TypeOK'
<1> USE DEF RrcFromNas, airVars, gnbVars
<1>1. toRrc' \in Seq({"UPLINK_NAS", "LOCAL_RELEASE"})
  BY TailTyped DEF TypeOK, NasTypes
<1>2. ToCell(0, "RESET_STI", FALSE) \in FromRrc
  BY DEF TypeOK, UdpTypes, ToCell, FromRrc
<1>3. /\ ToCell(current, "SETUP_REQUEST", rrc # "IDLE") \in FromRrc
      /\ ToCell(current, "INFORMATION_TRANSFER", rrc # "IDLE") \in FromRrc
  BY DEF TypeOK, UdpTypes, RrcTypes, ToCell, FromRrc, Uplinks
<1>4. PICK x \in FromRrc : down' = down \/ down' = Append(down, x)
  <2>1. CASE LocalReleaseConnection
    BY <1>2, <2>1 DEF LocalReleaseConnection
  <2>2. CASE DeliverUplinkNas
    <3>1. CASE rrc = "IDLE"
      BY <1>3, <2>2, <3>1 DEF DeliverUplinkNas
    <3>2. CASE rrc # "IDLE"
      BY <1>3, <2>2, <3>2 DEF DeliverUplinkNas
    <3> QED BY <3>1, <3>2
  <2> QED BY <2>1, <2>2
<1>41. down' \in Seq(FromRrc)
  <2>1. down \in Seq(FromRrc)
    BY DEF TypeOK, RrcTypes
  <2> QED BY <1>4, <2>1, AppendTyped
<1>5. RrcTypes'
  BY <1>41, MessagesSame DEF TypeOK, RrcTypes, DeliverUplinkNas, LocalReleaseConnection
<1>6. toNas' \in Seq(Events)
  BY AppendTyped DEF TypeOK, NasTypes, Events, DeliverUplinkNas, LocalReleaseConnection
<1>7. NasTypes'
  BY <1>1, <1>6 DEF TypeOK, NasTypes
<1> QED
  BY <1>5, <1>7, UdpKept, AirKept, GnbKept DEF TypeOK

LEMMA CellLostTyped ==
    ASSUME TypeOK, NEW c, CellLost(c), UNCHANGED lastCell
    PROVE  /\ desc' \in [DOMAIN desc' -> [dbm : MinDbm..0, si : BOOLEAN]]
           /\ DOMAIN desc' \subseteq 1..lastCell' /\ current' \in DOMAIN desc' \cup {0}
           /\ toNas' \in Seq(Events) /\ rrc' \in {"IDLE", "CONNECTED"}
<1> USE DEF CellLost, Removed, Restrict
<1>1. toNas' \in Seq(Events)
  <2>1. "RADIO_LINK_FAILURE" \in Events /\ "ACTIVE_CELL_CHANGED" \in Events
    BY DEF Events
  <2> QED BY <2>1, AppendTyped DEF TypeOK, NasTypes
<1> QED
  BY <1>1 DEF TypeOK, RrcTypes

LEMMA SignalTyped ==
    ASSUME TypeOK, NEW c \in 1..lastCell, NEW dbm \in Lost..0, SignalChanged(c, dbm),
           UNCHANGED lastCell
    PROVE  /\ desc' \in [DOMAIN desc' -> [dbm : MinDbm..0, si : BOOLEAN]]
           /\ DOMAIN desc' \subseteq 1..lastCell' /\ current' \in DOMAIN desc' \cup {0}
           /\ toNas' \in Seq(Events) /\ rrc' \in {"IDLE", "CONNECTED"}
           /\ down' = down /\ initialNas' = initialNas
<1> USE DEF SignalChanged
<1>1. CASE dbm < MinDbm /\ c \in DOMAIN desc /\ CellLost(c)
  BY <1>1, CellLostTyped
<1>2. CASE dbm < MinDbm /\ c \notin DOMAIN desc /\ UNCHANGED <<desc, current, rrc, toNas>>
  BY <1>2 DEF TypeOK, RrcTypes, NasTypes
<1>3. CASE /\ dbm >= MinDbm
           /\ desc' = Put(desc, c, [dbm |-> dbm, si |-> c \in DOMAIN desc /\ desc[c].si])
           /\ UNCHANGED <<current, rrc, toNas>>
  BY <1>3 DEF TypeOK, RrcTypes, NasTypes, Put, Lost, MinDbm
<1> QED
  BY <1>1, <1>2, <1>3

LEMMA DownlinkTyped ==
    ASSUME TypeOK, NEW c \in 1..lastCell, NEW type \in Downlinks, HandleDownlinkRrc(c, type),
           UNCHANGED lastCell
    PROVE  /\ desc' \in [DOMAIN desc' -> [dbm : MinDbm..0, si : BOOLEAN]]
           /\ DOMAIN desc' \subseteq 1..lastCell' /\ current' \in DOMAIN desc' \cup {0}
           /\ toNas' \in Seq(Events) /\ rrc' \in {"IDLE", "CONNECTED"}
           /\ down' \in Seq(FromRrc) /\ initialNas' \in BOOLEAN
<1> USE DEF HandleDownlinkRrc, ReceiveRrcSetup, ReceiveRrcRelease
<1>1. DOMAIN desc' = DOMAIN desc /\ current' = current
  BY DEF TypeOK, RrcTypes
<1>2. desc' \in [DOMAIN desc' -> [dbm : MinDbm..0, si : BOOLEAN]]
  BY DEF TypeOK, RrcTypes
<1>3. toNas' \in Seq(Events)
  <2>1. {"RRC_CONNECTION_SETUP", "RRC_CONNECTION_RELEASE", "ACCEPT"} \subseteq Events
    BY DEF Events
  <2> QED BY <2>1, AppendTyped DEF TypeOK, NasTypes
<1>4. down' \in Seq(FromRrc)
  <2>1. ToCell(current, "SETUP_COMPLETE", initialNas) \in FromRrc
    BY DEF TypeOK, UdpTypes, RrcTypes, ToCell, FromRrc, Uplinks
  <2>2. down \in Seq(FromRrc)
    BY DEF TypeOK, RrcTypes
  <2>3. down' = down \/ down' = Append(down, ToCell(current, "SETUP_COMPLETE", initialNas))
    OBVIOUS
  <2> QED BY <2>1, <2>2, <2>3, AppendTyped
<1>5. rrc' \in {"IDLE", "CONNECTED"} /\ initialNas' \in BOOLEAN
  BY DEF TypeOK, RrcTypes
<1> QED
  BY <1>1, <1>2, <1>3, <1>4, <1>5 DEF TypeOK, RrcTypes

LEMMA RrcFromRlsTyped ==
    ASSUME TypeOK, RrcFromRls
    PROVE  TypeOK'
<1> USE DEF RrcFromRls, airVars, gnbVars
<1>1. Head(up) \in ToRrc /\ up' \in Seq(ToRrc)
  BY TailTyped DEF TypeOK, RrcTypes
<1>2. /\ Head(up).cell \in 1..lastCell /\ Head(up).dbm \in Lost..0
      /\ Head(up).type # "SIGNAL" => Head(up).type \in Downlinks
  BY <1>1 DEF ToRrc
<1>3. /\ desc' \in [DOMAIN desc' -> [dbm : MinDbm..0, si : BOOLEAN]]
      /\ DOMAIN desc' \subseteq 1..lastCell' /\ current' \in DOMAIN desc' \cup {0}
      /\ toNas' \in Seq(Events) /\ rrc' \in {"IDLE", "CONNECTED"}
      /\ down' \in Seq(FromRrc) /\ initialNas' \in BOOLEAN
  <2>1. CASE SignalChanged(Head(up).cell, Head(up).dbm)
    BY <1>2, <2>1, SignalTyped DEF TypeOK, RrcTypes
  <2>2. CASE Head(up).type # "SIGNAL" /\ HandleDownlinkRrc(Head(up).cell, Head(up).type)
    BY <1>2, <2>2, DownlinkTyped
  <2> QED BY <2>1, <2>2
<1>4. RrcTypes'
  BY <1>1, <1>3, MessagesSame DEF TypeOK, RrcTypes
<1>5. NasTypes'
  BY <1>3 DEF TypeOK, NasTypes
<1> QED
  BY <1>4, <1>5, UdpKept, AirKept, GnbKept DEF TypeOK

LEMMA SendTyped ==
    ASSUME TypeOK, UeSend
    PROVE  TypeOK'
<1> DEFINE m == Head(down)
<1> USE DEF UeSend, gnbVars
<1>1. m \in FromRrc /\ down' \in Seq(FromRrc)
  BY TailTyped DEF TypeOK, RrcTypes
<1>2. m.cell \in 0..lastCell /\ m.nas \in BOOLEAN /\ sti' \in Nat \ {0} /\ sti <= sti'
  BY <1>1 DEF FromRrc, TypeOK, UdpTypes
<1>3. UdpTypes'
  BY <1>2 DEF TypeOK, UdpTypes
<1>4. /\ ToRrc \subseteq ToRrc' /\ FromRrc \subseteq FromRrc' /\ Datagrams \subseteq Datagrams'
  BY <1>2, MessagesWider DEF TypeOK, UdpTypes
<1>5. RrcTypes'
  <2>1. up' \in Seq(ToRrc') /\ down' \in Seq(FromRrc')
    BY <1>1, <1>4, SeqWider DEF TypeOK, RrcTypes
  <2> QED BY <2>1 DEF TypeOK, RrcTypes
<1>6. AirTypes'
  <2>1. ASSUME NEW g \in Gnbs PROVE toGnb'[g] \in Seq(Datagrams')
    <3>1. toGnb[g] \in Seq(Datagrams')
      BY <1>4, SeqWider DEF TypeOK, AirTypes
    <3>2. CASE toGnb'[g] = toGnb[g]
      BY <3>1, <3>2
    <3>3. CASE /\ m.type \notin {"RESET_STI", "ASSIGN_CURRENT_CELL"}
               /\ toGnb'[g] = Append(toGnb[g], Uplink(m.type, m.nas))
      <4>1. Uplink(m.type, m.nas) \in Datagrams
        BY <1>1, <1>2, <3>3 DEF FromRrc, Uplink, Datagrams, TypeOK, UdpTypes
      <4> QED BY <1>4, <3>1, <3>3, <4>1, AppendTyped
    <3> QED BY <3>2, <3>3
  <2> QED BY <2>1 DEF TypeOK, AirTypes
<1>7. NasTypes'
  BY NasKept DEF TypeOK
<1>8. GnbTypes'
  BY <1>2 DEF TypeOK, GnbTypes, UdpTypes
<1> QED
  BY <1>3, <1>5, <1>6, <1>7, <1>8 DEF TypeOK

LEMMA StrengthTyped ==
    ASSUME NEW d \in Int, d < 0, d >= MinDbm
    PROVE  d \in Strengths
BY DEF Strengths, MinDbm

\* A cell that is heard keeps its id.
LEMMA CellTyped ==
    ASSUME NEW S, NEW D, NEW A, NEW old \in [id : S, dbm : D, age : A], NEW d, NEW a
    PROVE  [old EXCEPT !.dbm = d, !.age = a] \in [id : S, dbm : {d}, age : {a}]
OBVIOUS

LEMMA ReceiveTyped ==
    ASSUME TypeOK, SignalAssumption, NEW g \in Gnbs, UeReceive(g),
           "ACK" \in Range(toUe[g]) => Dbm[g] >= MinDbm
    PROVE  TypeOK'
<1> DEFINE msg == Head(toUe[g])
<1> USE DEF UeReceive, gnbVars
<1>1. toUe[g] \in Seq(Downlinks \cup {"ACK"}) /\ toUe[g] # <<>>
  BY DEF TypeOK, AirTypes
<1>2. msg \in Downlinks \cup {"ACK"} /\ msg \in Range(toUe[g])
      /\ Tail(toUe[g]) \in Seq(Downlinks \cup {"ACK"})
  BY <1>1, TailTyped DEF Range
<1>3. /\ UdpTypes' /\ lastCell' \in Nat /\ lastCell <= lastCell' /\ UNCHANGED sti
      /\ up' \in Seq(ToRrc')
  <2>1. CASE msg = "ACK" /\ HeartbeatAck(g)
    <3> DEFINE old == IF g \in DOMAIN cells THEN cells[g]
                      ELSE [id |-> lastCell + 1, dbm |-> 0, age |-> 0]
    <3>1. Dbm[g] \in Strengths
      <4>1. Dbm[g] \in Int /\ Dbm[g] < 0 /\ Dbm[g] >= MinDbm
        BY <1>2, <2>1 DEF SignalAssumption
      <4> QED BY <4>1, StrengthTyped
    <3>2. lastCell' \in Nat /\ lastCell <= lastCell'
      BY <2>1 DEF HeartbeatAck, TypeOK, UdpTypes
    <3>3. old.id \in 1..lastCell'
      BY <2>1 DEF HeartbeatAck, TypeOK, UdpTypes
    <3>4. [old EXCEPT !.dbm = Dbm[g], !.age = 0] \in [id : 1..lastCell', dbm : Strengths, age : 0..2]
      <4>1. CASE g \in DOMAIN cells
        <5>1. cells[g] \in [id : 1..lastCell, dbm : Strengths, age : 0..2] /\ old = cells[g]
          BY <4>1 DEF TypeOK, UdpTypes
        <5>2. cells[g] \in [id : {old.id}, dbm : Strengths, age : 0..2]
          BY <5>1
        <5> HIDE DEF old
        <5>3. [old EXCEPT !.dbm = Dbm[g], !.age = 0] \in [id : {old.id}, dbm : {Dbm[g]}, age : {0}]
          BY <5>1, <5>2, CellTyped
        <5> QED BY <3>1, <3>3, <5>3
      <4>2. CASE g \notin DOMAIN cells
        <5>1. old \in [id : {old.id}, dbm : {0}, age : {0}]
          BY <4>2
        <5> HIDE DEF old
        <5>2. [old EXCEPT !.dbm = Dbm[g], !.age = 0] \in [id : {old.id}, dbm : {Dbm[g]}, age : {0}]
          BY <5>1, CellTyped
        <5> QED BY <3>1, <3>3, <5>2
      <4> QED BY <4>1, <4>2
    <3>5. \A h \in DOMAIN cells : cells[h] \in [id : 1..lastCell', dbm : Strengths, age : 0..2]
      BY <3>2 DEF TypeOK, UdpTypes
    <3>6. cells' = Put(cells, g, [old EXCEPT !.dbm = Dbm[g], !.age = 0])
      BY <2>1 DEF HeartbeatAck
    <3>7. DOMAIN cells' = DOMAIN cells \cup {g}
          /\ \A h \in DOMAIN cells' : cells'[h] \in [id : 1..lastCell', dbm : Strengths, age : 0..2]
      BY <3>4, <3>5, <3>6 DEF Put
    <3>8. cells' \in [DOMAIN cells' -> [id : 1..lastCell', dbm : Strengths, age : 0..2]]
      <4>1. cells' = [h \in DOMAIN cells' |-> cells'[h]]
        BY <3>6 DEF Put
      <4> HIDE DEF old
      <4> QED BY <3>7, <4>1
    <3>9. UdpTypes'
      BY <3>2, <3>7, <3>8 DEF TypeOK, UdpTypes
    <3>10. Signal(old.id, Dbm[g]) \in ToRrc'
      BY <3>1, <3>3 DEF Signal, ToRrc, Strengths, Lost, MinDbm
    <3>11. up \in Seq(ToRrc')
      BY <3>2, MessagesWider, SeqWider DEF TypeOK, RrcTypes, UdpTypes
    <3>12. up' = up \/ up' = Append(up, Signal(old.id, Dbm[g]))
      BY <2>1 DEF HeartbeatAck
    <3> QED BY <3>2, <3>9, <3>10, <3>11, <3>12, AppendTyped
  <2>2. CASE /\ msg # "ACK" /\ g \in DOMAIN cells /\ up' = Append(up, Pdu(cells[g].id, msg))
             /\ UNCHANGED <<cells, lastCell>>
    <3>1. Pdu(cells[g].id, msg) \in ToRrc
      BY <1>2, <2>2 DEF Pdu, ToRrc, TypeOK, UdpTypes, Lost, MinDbm
    <3>2. up' \in Seq(ToRrc)
      BY <2>2, <3>1, AppendTyped DEF TypeOK, RrcTypes
    <3>3. UdpTypes'
      BY <2>2, UdpKept DEF TypeOK
    <3> QED BY <2>2, <3>2, <3>3, MessagesSame DEF TypeOK, UdpTypes
  <2>3. CASE UNCHANGED <<cells, lastCell, up>>
    <3>1. UdpTypes'
      BY <2>3, UdpKept DEF TypeOK
    <3> QED BY <2>3, <3>1, MessagesSame DEF TypeOK, UdpTypes, RrcTypes
  <2> QED BY <2>1, <2>2, <2>3
<1>4. FromRrc \subseteq FromRrc' /\ UNCHANGED Datagrams
  BY <1>3, MessagesWider DEF TypeOK, UdpTypes, Datagrams
<1>5. RrcTypes'
  <2>1. down' \in Seq(FromRrc')
    BY <1>4, SeqWider DEF TypeOK, RrcTypes
  <2>2. DOMAIN desc' \subseteq 1..lastCell'
    BY <1>3 DEF TypeOK, RrcTypes, UdpTypes
  <2> QED BY <1>3, <2>1, <2>2 DEF TypeOK, RrcTypes
<1>6. AirTypes'
  BY <1>2, <1>4 DEF TypeOK, AirTypes
<1> QED
  BY <1>3, <1>5, <1>6, NasKept, GnbKept DEF TypeOK

LEMMA AnswerTyped ==
    ASSUME NEW S, NEW a \in S, NEW b \in S
    PROVE  <<>> \in Seq(S) /\ <<a>> \in Seq(S) /\ <<a, b>> \in Seq(S)
OBVIOUS

LEMMA HeartbeatTyped ==
    ASSUME TypeOK, SignalAssumption, UeHeartbeat
    PROVE  TypeOK'
<1> USE DEF UeHeartbeat
<1>1. PICK gone \in SUBSET (DOMAIN cells) :
          /\ {g \in DOMAIN cells : MustBeLost(AgedCells[g].age)} \subseteq gone
          /\ HeartbeatCycle(gone)
  OBVIOUS
<1>2. UdpTypes'
  <2>1. /\ DOMAIN cells' = DOMAIN cells \ gone
        /\ cells' = [g \in DOMAIN cells' |-> [cells[g] EXCEPT !.age = @ + 1]]
    BY <1>1 DEF HeartbeatCycle, AgedCells, Removed, Restrict
  <2>2. ASSUME NEW g \in DOMAIN cells'
        PROVE  [cells[g] EXCEPT !.age = @ + 1] \in [id : 1..lastCell, dbm : Strengths, age : 0..2]
    <3>1. g \in DOMAIN cells /\ g \notin gone
      BY <2>1
    <3>2. cells[g] \in [id : 1..lastCell, dbm : Strengths, age : 0..2]
      BY <3>1 DEF TypeOK, UdpTypes
    <3>3. ~(AgedCells[g].age >= 3)
      BY <1>1, <3>1 DEF MustBeLost
    <3>4. cells[g].age + 1 \in 0..2
      BY <3>1, <3>2, <3>3 DEF AgedCells
    <3> QED BY <3>2, <3>4
  <2>3. cells' \in [DOMAIN cells' -> [id : 1..lastCell, dbm : Strengths, age : 0..2]]
    BY <2>1, <2>2
  <2> QED BY <2>1, <2>3 DEF TypeOK, UdpTypes
<1>3. RrcTypes'
  <2> DEFINE T == {Signal(cells[g].id, Lost) : g \in gone}
  <2>1. T \subseteq ToRrc
    BY DEF TypeOK, UdpTypes, Signal, ToRrc, Lost, MinDbm
  <2>2. SetToSeq(T) \in Seq(T)
    BY LostSignals DEF TypeOK, UdpTypes, SignalAssumption
  <2>3. SetToSeq(T) \in Seq(ToRrc)
    <3> HIDE DEF T
    <3> QED BY <2>1, <2>2, SeqWider
  <2>4. up' \in Seq(ToRrc)
    <3>1. up' = up \o SetToSeq(T) /\ up \in Seq(ToRrc)
      BY <1>1 DEF HeartbeatCycle, TypeOK, RrcTypes
    <3> HIDE DEF T
    <3> QED BY <2>3, <3>1
  <2> QED BY <2>4, MessagesSame DEF TypeOK, RrcTypes
<1>4. NasTypes'
  BY DEF TypeOK, NasTypes
<1>5. AirTypes'
  <2>1. ASSUME NEW g \in Gnbs PROVE toUe'[g] \in Seq(Downlinks \cup {"ACK"})
    <3>1. toUe'[g] \in {<<>>, <<"ACK">>, <<"ACK", "SI">>, <<"SI", "ACK">>}
      BY DEF ReceiveHeartbeat, Answers
    <3>2. "ACK" \in Downlinks \cup {"ACK"} /\ "SI" \in Downlinks \cup {"ACK"}
      BY DEF Downlinks
    <3> HIDE DEF Downlinks
    <3> QED BY <3>1, <3>2, AnswerTyped
  <2>2. toUe' \in [Gnbs -> Seq(Downlinks \cup {"ACK"})]
    <3>1. toUe' = [g \in Gnbs |-> toUe'[g]]
      BY DEF ReceiveHeartbeat
    <3> QED BY <2>1, <3>1
  <2> QED BY <2>2, MessagesSame DEF TypeOK, AirTypes
<1>6. GnbTypes'
  <2> USE DEF ReceiveHeartbeat
  <2>1. DOMAIN ids' = Gnbs /\ DOMAIN ues' = Gnbs /\ DOMAIN ctx' = Gnbs
    BY DEF TypeOK, GnbTypes
  <2>2. ASSUME NEW g \in Gnbs
        PROVE  /\ DOMAIN ids'[g] \subseteq 1..sti /\ ids'[g] \in [DOMAIN ids'[g] -> Nat]
               /\ DOMAIN ues'[g] \subseteq Range(ids'[g])
               /\ ues'[g] \in [DOMAIN ues'[g] -> 0..3]
               /\ Range(ids[g]) \subseteq Range(ids'[g])
    <3>1. UeId(g) \in Nat
      <4>1. IsFiniteSet(DOMAIN ids[g])
        <5>1. IsFiniteSet(1..sti)
          <6>1. 1 \in Int /\ sti \in Int
            BY DEF TypeOK, UdpTypes
          <6> HIDE DEF UeHeartbeat
          <6> QED BY <6>1, FS_Interval
        <5>2. DOMAIN ids[g] \in SUBSET (1..sti)
          BY DEF TypeOK, GnbTypes
        <5> HIDE DEF UeHeartbeat
        <5> QED BY <5>1, <5>2, FS_Subset
      <4> QED BY <4>1, FS_CardinalityType DEF UeId, TypeOK, GnbTypes
    <3>2. /\ DOMAIN ids[g] \subseteq 1..sti /\ ids[g] \in [DOMAIN ids[g] -> Nat]
          /\ DOMAIN ues[g] \subseteq Range(ids[g]) /\ sti \in 1..sti
          /\ ues[g] \in [DOMAIN ues[g] -> 0..3]
          /\ \A u \in DOMAIN ues[g] : ues[g][u] < 3
      BY DEF TypeOK, GnbTypes, UdpTypes
    <3>3. AgedUes(g) \in [DOMAIN ues[g] -> 0..3]
      BY <3>2 DEF AgedUes
    <3>4. CASE Hears(g)
      <4>1. /\ ids'[g] = Put(ids[g], sti, UeId(g))
            /\ ues'[g] = Put(AgedUes(g), UeId(g), 0)
        BY <3>4
      <4>2. /\ DOMAIN ids'[g] = DOMAIN ids[g] \cup {sti} /\ ids'[g][sti] = UeId(g)
            /\ \A t \in DOMAIN ids[g] : ids'[g][t] = ids[g][t]
            /\ ids'[g] \in [DOMAIN ids'[g] -> Nat]
        BY <3>1, <3>2, <4>1 DEF Put, UeId
      <4>3. Range(ids[g]) \subseteq Range(ids'[g]) /\ UeId(g) \in Range(ids'[g])
        BY <4>2 DEF Range
      <4>4. DOMAIN ues'[g] = DOMAIN ues[g] \cup {UeId(g)} /\ ues'[g] \in [DOMAIN ues'[g] -> 0..3]
        BY <3>3, <4>1 DEF Put
      <4> QED BY <3>2, <4>2, <4>3, <4>4
    <3>5. CASE ~Hears(g)
      BY <3>2, <3>3, <3>5
    <3> QED BY <3>4, <3>5
  <2>3. \A g \in Gnbs : DOMAIN ctx'[g] \subseteq Range(ids'[g])
    BY <2>2 DEF TypeOK, GnbTypes
  <2> QED BY <2>1, <2>2, <2>3 DEF TypeOK, GnbTypes
<1> QED
  BY <1>2, <1>3, <1>4, <1>5, <1>6 DEF TypeOK

\* What a gNB does with its contexts and what it sends the UE.
LEMMA SentTyped ==
    ASSUME AirTypes, NEW g \in Gnbs, NEW u, NEW msg \in Downlinks, SendTo(g, u, msg)
    PROVE  toUe' \in [Gnbs -> Seq(Downlinks \cup {"ACK"})]
<1>1. ASSUME NEW h \in Gnbs PROVE toUe'[h] \in Seq(Downlinks \cup {"ACK"})
  <2>1. toUe[h] \in Seq(Downlinks \cup {"ACK"})
    BY DEF AirTypes
  <2>2. toUe'[h] = toUe[h] \/ toUe'[h] = Append(toUe[h], msg)
    BY DEF SendTo, AirTypes
  <2> QED BY <2>1, <2>2, AppendTyped
<1>2. toUe' = [h \in Gnbs |-> toUe'[h]]
  BY DEF SendTo, AirTypes
<1> QED
  BY <1>1, <1>2

LEMMA ContextTyped ==
    ASSUME GnbTypes, NEW g \in Gnbs, NEW u \in Range(ids[g]), NEW st \in {"SETUP", "ASKED", "SERVED"},
           \/ ctx' = [ctx EXCEPT ![g] = Put(@, u, st)]
           \/ u \in DOMAIN ctx[g] /\ ctx' = [ctx EXCEPT ![g][u] = st]
           \/ ctx' = [ctx EXCEPT ![g] = Removed(@, {u})]
           \/ ctx' = ctx,
           UNCHANGED <<sti, announced, ids, ues>>
    PROVE  GnbTypes'
<1>1. DOMAIN ctx' = Gnbs
  BY DEF GnbTypes
<1>2. ASSUME NEW h \in Gnbs
      PROVE  /\ DOMAIN ctx'[h] \subseteq Range(ids[h])
             /\ ctx'[h] \in [DOMAIN ctx'[h] -> {"SETUP", "ASKED", "SERVED"}]
  <2>1. DOMAIN ctx[h] \subseteq Range(ids[h])
        /\ ctx[h] \in [DOMAIN ctx[h] -> {"SETUP", "ASKED", "SERVED"}]
    BY DEF GnbTypes
  <2>2. CASE ctx'[h] = ctx[h]
    BY <2>1, <2>2
  <2>3. CASE ctx'[h] = Put(ctx[h], u, st) /\ h = g
    BY <2>1, <2>3 DEF Put
  <2>4. CASE ctx'[h] = [ctx[h] EXCEPT ![u] = st] /\ h = g
    BY <2>1, <2>4
  <2>5. CASE ctx'[h] = Removed(ctx[h], {u}) /\ h = g
    BY <2>1, <2>5 DEF Removed, Restrict
  <2> QED BY <2>2, <2>3, <2>4, <2>5 DEF GnbTypes
<1> QED
  BY <1>1, <1>2 DEF GnbTypes

LEMMA GnbReceiveTyped ==
    ASSUME TypeOK, NEW g \in Gnbs, GnbReceive(g)
    PROVE  TypeOK'
<1> DEFINE m == Head(toGnb[g])
<1> USE DEF GnbReceive, ueVars
<1>1. /\ UNCHANGED <<sti, lastCell>> /\ UdpTypes' /\ RrcTypes' /\ NasTypes'
  BY UdpKept, RrcKept, NasKept DEF TypeOK
<1>2. toGnb' \in [Gnbs -> Seq(Datagrams)]
  BY TailTyped DEF TypeOK, AirTypes
<1>3. CASE UNCHANGED <<ctx, toUe>>
  <2>1. AirTypes'
    BY <1>1, <1>2, <1>3, MessagesSame DEF TypeOK, AirTypes
  <2> QED BY <1>1, <1>3, <2>1, GnbKept DEF TypeOK
<1>4. CASE m.sti \in DOMAIN ids[g] /\ ReceiveSetupRequest(g, ids[g][m.sti]) /\ ~UNCHANGED <<ctx, toUe>>
  <2> DEFINE u == ids[g][m.sti]
  <2>1. u \in Range(ids[g]) /\ ctx' = [ctx EXCEPT ![g] = Put(@, u, "SETUP")] /\ SendTo(g, u, "SETUP")
    BY <1>4 DEF ReceiveSetupRequest, Range
  <2>2. AirTypes'
    <3>1. toUe' \in [Gnbs -> Seq(Downlinks \cup {"ACK"})]
      BY <2>1, SentTyped DEF TypeOK, Downlinks
    <3> QED BY <1>1, <1>2, <3>1, MessagesSame DEF TypeOK, AirTypes
  <2>3. GnbTypes'
    <3> HIDE DEF u
    <3> QED BY <2>1, ContextTyped DEF TypeOK
  <2> QED BY <1>1, <2>2, <2>3 DEF TypeOK
<1>5. CASE /\ m.sti \in DOMAIN ids[g]
           /\ \/ ReceiveSetupComplete(g, ids[g][m.sti])
              \/ ReceiveInformationTransfer(g, ids[g][m.sti])
  <2> DEFINE u == ids[g][m.sti]
  <2>1. u \in Range(ids[g])
    BY <1>5 DEF Range
  <2>2. toUe' = toUe
        /\ (ctx' = ctx \/ (u \in DOMAIN ctx[g] /\ ctx' = [ctx EXCEPT ![g][u] = "ASKED"]))
    BY <1>5 DEF ReceiveSetupComplete, ReceiveInformationTransfer
  <2>3. AirTypes'
    BY <1>1, <1>2, <2>2, MessagesSame DEF TypeOK, AirTypes
  <2>4. GnbTypes'
    <3> HIDE DEF u
    <3> QED BY <2>1, <2>2, ContextTyped DEF TypeOK
  <2> QED BY <1>1, <2>3, <2>4 DEF TypeOK
<1> QED
  BY <1>3, <1>4, <1>5

LEMMA LossTyped ==
    ASSUME TypeOK, NEW g \in Gnbs, NEW u, GnbLosesUe(g, u)
    PROVE  TypeOK'
<1> USE DEF GnbLosesUe, ueVars, airVars
<1>1. GnbTypes'
  <2>1. DOMAIN ues' = Gnbs
    BY DEF TypeOK, GnbTypes
  <2>2. ASSUME NEW h \in Gnbs
        PROVE  DOMAIN ues'[h] \subseteq Range(ids[h]) /\ ues'[h] \in [DOMAIN ues'[h] -> 0..3]
    BY DEF TypeOK, GnbTypes, Removed, Restrict
  <2> QED BY <2>1, <2>2 DEF TypeOK, GnbTypes
<1> QED
  BY <1>1, UdpKept, RrcKept, NasKept, AirKept DEF TypeOK

LEMMA BroadcastTyped ==
    ASSUME TypeOK, NEW g \in Gnbs, Broadcast(g)
    PROVE  TypeOK'
<1> USE DEF Broadcast, ueVars
<1>1. toUe' \in [Gnbs -> Seq(Downlinks \cup {"ACK"})]
  <2>1. "SI" \in Downlinks \cup {"ACK"} /\ toUe[g] \in Seq(Downlinks \cup {"ACK"})
    BY DEF TypeOK, AirTypes, Downlinks
  <2>2. Append(toUe[g], "SI") \in Seq(Downlinks \cup {"ACK"})
    BY <2>1, AppendTyped
  <2>3. toUe \in [Gnbs -> Seq(Downlinks \cup {"ACK"})]
        /\ toUe' = [toUe EXCEPT ![g] = Append(toUe[g], "SI")]
    BY DEF TypeOK, AirTypes
  <2> HIDE DEF Broadcast
  <2> QED BY <2>2, <2>3
<1>2. AirTypes'
  BY <1>1, MessagesSame DEF TypeOK, AirTypes
<1>3. GnbTypes'
  BY DEF TypeOK, GnbTypes
<1> QED
  BY <1>2, <1>3, UdpKept, RrcKept, NasKept DEF TypeOK

LEMMA AmfTyped ==
    ASSUME TypeOK, NEW g \in Gnbs, NEW u \in DOMAIN ctx[g],
           AmfAccepts(g, u) \/ AmfGivesUp(g, u) \/ AmfReleases(g, u)
    PROVE  TypeOK'
<1> USE DEF AmfAccepts, AmfGivesUp, AmfReleases, ReleaseContext, ueVars
<1>1. PICK msg \in Downlinks : SendTo(g, u, msg)
  BY DEF Downlinks
<1>2. toUe' \in [Gnbs -> Seq(Downlinks \cup {"ACK"})]
  BY <1>1, SentTyped DEF TypeOK
<1>3. AirTypes'
  BY <1>2, MessagesSame DEF TypeOK, AirTypes
<1>4. u \in Range(ids[g])
  BY DEF TypeOK, GnbTypes
<1>5. GnbTypes'
  BY <1>4, ContextTyped DEF TypeOK
<1> QED
  BY <1>3, <1>5, UdpKept, RrcKept, NasKept DEF TypeOK

LEMMA LinkTyped ==
    ASSUME TypeOK, BoundAssumption, NEW g \in Gnbs, LinkDown(g) \/ LinkUp(g)
    PROVE  TypeOK'
<1> USE DEF LinkDown, LinkUp, ueVars, gnbVars
<1>1. /\ toGnb' \in [Gnbs -> Seq(Datagrams)]
      /\ toUe' \in [Gnbs -> Seq(Downlinks \cup {"ACK"})]
  <2>1. <<>> \in Seq(Datagrams) /\ <<>> \in Seq(Downlinks \cup {"ACK"})
    OBVIOUS
  <2> QED BY <2>1 DEF TypeOK, AirTypes
<1>2. link' \subseteq Gnbs /\ outages' \in 0..MaxOutages
  BY DEF TypeOK, AirTypes, BoundAssumption
<1>3. AirTypes'
  BY <1>1, <1>2, MessagesSame DEF TypeOK, AirTypes
<1> QED
  BY <1>3, UdpKept, RrcKept, NasKept, GnbKept DEF TypeOK

-----------------------------------------------------------------------------
(* Type correctness.  The strength the UE keeps of a cell is the one of its *)
(* gNB, and only a gNB that hears the UE answers its heartbeats.            *)
Audible ==
    /\ \A g \in Gnbs : "ACK" \in Range(toUe[g]) => Dbm[g] >= MinDbm
    /\ \A g \in DOMAIN cells : cells[g].dbm = Dbm[g] /\ Dbm[g] >= MinDbm

LEMMA AppendRange ==
    ASSUME NEW S, NEW s \in Seq(S), NEW x
    PROVE  Range(Append(s, x)) = Range(s) \cup {x}
<1>1. /\ DOMAIN Append(s, x) = 1..Len(s) + 1 /\ DOMAIN s = 1..Len(s) /\ Len(s) \in Nat
      /\ \A i \in 1..Len(s) : Append(s, x)[i] = s[i]
      /\ Append(s, x)[Len(s) + 1] = x
  OBVIOUS
<1> QED
  BY <1>1 DEF Range

LEMMA TailRange ==
    ASSUME NEW S, NEW s \in Seq(S), s # <<>>
    PROVE  Range(Tail(s)) \subseteq Range(s) /\ Head(s) \in Range(s)
<1>1. /\ DOMAIN Tail(s) = 1..Len(s) - 1 /\ DOMAIN s = 1..Len(s) /\ Len(s) \in Nat \ {0}
      /\ \A i \in 1..Len(s) - 1 : Tail(s)[i] = s[i + 1]
      /\ Head(s) = s[1]
  OBVIOUS
<1> QED
  BY <1>1 DEF Range

\* What a step adds to the datagrams to the UE: a heartbeat replaces none.
LEMMA DatagramsAdded ==
    ASSUME TypeOK, [Next]_vars, ~UeHeartbeat, NEW g \in Gnbs
    PROVE  Range(toUe'[g]) \subseteq Range(toUe[g]) \cup Downlinks
<1>0. toUe[g] \in Seq(Downlinks \cup {"ACK"}) /\ toUe \in [Gnbs -> Seq(Downlinks \cup {"ACK"})]
  BY DEF TypeOK, AirTypes
<1>1. ASSUME NEW h \in Gnbs, NEW u, NEW msg \in Downlinks, SendTo(h, u, msg)
      PROVE  Range(toUe'[g]) \subseteq Range(toUe[g]) \cup Downlinks
  <2>1. toUe'[g] = toUe[g] \/ toUe'[g] = Append(toUe[g], msg)
    BY <1>0, <1>1 DEF SendTo
  <2>2. Range(Append(toUe[g], msg)) = Range(toUe[g]) \cup {msg}
    BY <1>0, AppendRange
  <2> QED BY <2>1, <2>2
<1>2. CASE UNCHANGED toUe
  BY <1>2
<1>3. CASE \E h \in Gnbs : UeReceive(h)
  <2>1. toUe'[g] = toUe[g] \/ (toUe[g] # <<>> /\ toUe'[g] = Tail(toUe[g]))
    BY <1>0, <1>3 DEF UeReceive
  <2> QED BY <1>0, <2>1, TailRange
<1>4. CASE \E h \in Gnbs : GnbReceive(h)
  <2>1. UNCHANGED toUe \/ \E h \in Gnbs : \E u : SendTo(h, u, "SETUP")
    BY <1>4 DEF GnbReceive, ReceiveSetupRequest, ReceiveSetupComplete, ReceiveInformationTransfer
  <2> QED BY <1>1, <1>2, <2>1 DEF Downlinks
<1>5. CASE Broadcasts
  <2>1. toUe'[g] = toUe[g] \/ toUe'[g] = Append(toUe[g], "SI")
    BY <1>0, <1>5 DEF Broadcasts, Broadcast
  <2>2. Range(Append(toUe[g], "SI")) = Range(toUe[g]) \cup {"SI"}
    BY <1>0, AppendRange
  <2> QED BY <2>1, <2>2 DEF Downlinks
<1>6. CASE Answer \/ Release
  <2>1. \E h \in Gnbs : \E u : SendTo(h, u, "ACCEPT") \/ SendTo(h, u, "RELEASE")
    BY <1>6 DEF Answer, Release, AmfAccepts, AmfGivesUp, AmfReleases, ReleaseContext
  <2> QED BY <1>1, <2>1 DEF Downlinks
<1>7. CASE Outage
  <2>1. toUe'[g] = toUe[g] \/ toUe'[g] = <<>>
    BY <1>0, <1>7 DEF Outage, LinkDown
  <2>2. Range(<<>>) = {}
    BY DEF Range
  <2> QED BY <2>1, <2>2
<1>8. CASE Repair \/ Losses \/ Procedures \/ PerformCellSelection
  <2>1. UNCHANGED toUe
    BY <1>8 DEF Repair, LinkUp, Losses, GnbLosesUe, Procedures, SendInitialRegistration,
       SendServiceRequest, Initiate, RegistrationExpires, ServiceRequestExpires,
       PerformCellSelection, airVars
  <2> QED BY <2>1
<1>9. CASE UeSend \/ RrcFromRls \/ RrcFromNas \/ NasReceive \/ UNCHANGED vars
  <2>1. UNCHANGED toUe
    BY <1>9 DEF UeSend, RrcFromRls, RrcFromNas, NasReceive, airVars, vars
  <2> QED BY <2>1
<1> QED
  BY <1>3, <1>4, <1>5, <1>6, <1>7, <1>8, <1>9 DEF Next, Handle

\* What a step does to the cells.
LEMMA CellsKept ==
    ASSUME [Next]_vars, ~UeHeartbeat, \A g \in Gnbs : ~UeReceive(g)
    PROVE  UNCHANGED <<cells, lastCell>>
<1>1. CASE UeSend \/ RrcFromRls \/ RrcFromNas \/ NasReceive \/ UNCHANGED vars
  BY <1>1 DEF UeSend, RrcFromRls, RrcFromNas, NasReceive, vars, ueVars
<1>2. CASE PerformCellSelection \/ Procedures
  BY <1>2 DEF Procedures, SendInitialRegistration, SendServiceRequest, Initiate,
     RegistrationExpires, ServiceRequestExpires, PerformCellSelection
<1>3. CASE \/ \E g \in Gnbs : GnbReceive(g)
           \/ Losses \/ Broadcasts \/ Answer \/ Release \/ Outage \/ Repair
  BY <1>3 DEF GnbReceive, Losses, GnbLosesUe, Broadcasts, Broadcast, Answer, Release,
     AmfAccepts, AmfGivesUp, AmfReleases, ReleaseContext, Outage, LinkDown, Repair, LinkUp, ueVars
<1> QED
  BY <1>1, <1>2, <1>3 DEF Next, Handle

\* A cell that is heard again keeps its id; a new one gets the next.
LEMMA CellHeard ==
    ASSUME TypeOK, NEW g \in Gnbs, HeartbeatAck(g)
    PROVE  /\ DOMAIN cells' = DOMAIN cells \cup {g}
           /\ cells'[g].id = IF g \in DOMAIN cells THEN cells[g].id ELSE lastCell + 1
           /\ cells'[g].dbm = Dbm[g] /\ cells'[g].age = 0
           /\ \A h \in DOMAIN cells \ {g} : cells'[h] = cells[h]
<1>1. /\ DOMAIN cells' = DOMAIN cells \cup {g}
      /\ \A h \in DOMAIN cells \ {g} : cells'[h] = cells[h]
  BY DEF HeartbeatAck, Put
<1>2. CASE g \in DOMAIN cells
  <2>1. cells[g] \in [id : {cells[g].id}, dbm : Strengths, age : 0..2]
    BY <1>2 DEF TypeOK, UdpTypes
  <2>2. cells'[g] = [cells[g] EXCEPT !.dbm = Dbm[g], !.age = 0]
    BY <1>2 DEF HeartbeatAck, Put
  <2>3. cells'[g] \in [id : {cells[g].id}, dbm : {Dbm[g]}, age : {0}]
    BY <2>1, <2>2, CellTyped
  <2> QED BY <1>1, <1>2, <2>3
<1>3. CASE g \notin DOMAIN cells
  <2> DEFINE old == [id |-> lastCell + 1, dbm |-> 0, age |-> 0]
  <2>1. old \in [id : {lastCell + 1}, dbm : {0}, age : {0}]
    OBVIOUS
  <2>2. cells'[g] = [old EXCEPT !.dbm = Dbm[g], !.age = 0]
    BY <1>3 DEF HeartbeatAck, Put
  <2> HIDE DEF old
  <2>3. cells'[g] \in [id : {lastCell + 1}, dbm : {Dbm[g]}, age : {0}]
    BY <2>1, <2>2, CellTyped
  <2> QED BY <1>1, <1>3, <2>3
<1> QED
  BY <1>2, <1>3

\* A heartbeat drops the cells it reports lost and makes the others older.
LEMMA CellsAged ==
    ASSUME TypeOK, NEW gone \in SUBSET (DOMAIN cells), HeartbeatCycle(gone)
    PROVE  /\ DOMAIN cells' = DOMAIN cells \ gone
           /\ \A g \in DOMAIN cells' : cells'[g].id = cells[g].id /\ cells'[g].dbm = cells[g].dbm
<1>1. /\ DOMAIN cells' = DOMAIN cells \ gone
      /\ \A g \in DOMAIN cells' : cells'[g] = [cells[g] EXCEPT !.age = @ + 1]
  BY DEF HeartbeatCycle, AgedCells, Removed, Restrict
<1>2. \A g \in DOMAIN cells : cells[g] \in [id : 1..lastCell, dbm : Strengths, age : 0..2]
  BY DEF TypeOK, UdpTypes
<1> QED
  BY <1>1, <1>2

LEMMA AudibleStep ==
    ASSUME TypeOK, Audible, [Next]_vars
    PROVE  Audible'
<1>1. CASE UeHeartbeat
  <2>1. PICK gone \in SUBSET (DOMAIN cells) : HeartbeatCycle(gone)
    BY <1>1 DEF UeHeartbeat
  <2>2. \A g \in DOMAIN cells' : cells'[g].dbm = Dbm[g] /\ Dbm[g] >= MinDbm
    BY <2>1, CellsAged DEF Audible
  <2>3. ASSUME NEW g \in Gnbs, "ACK" \in Range(toUe'[g]) PROVE Dbm[g] >= MinDbm
    <3>1. toUe'[g] \in Answers(g)
      BY <1>1 DEF UeHeartbeat, ReceiveHeartbeat
    <3> QED BY <2>3, <3>1 DEF Answers, Hears, Range
  <2> QED BY <2>2, <2>3 DEF Audible
<1>2. CASE ~UeHeartbeat
  <2>1. \A g \in Gnbs : "ACK" \in Range(toUe'[g]) => Dbm[g] >= MinDbm
    BY <1>2, DatagramsAdded DEF Audible, Downlinks
  <2>2. CASE UNCHANGED cells
    BY <2>1, <2>2 DEF Audible
  <2>3. CASE \E g \in Gnbs : UeReceive(g)
    <3>1. PICK g \in Gnbs : UeReceive(g)
      BY <2>3
    <3>2. CASE UNCHANGED cells
      BY <2>1, <3>2 DEF Audible
    <3>3. CASE Head(toUe[g]) = "ACK" /\ HeartbeatAck(g)
      <4>1. "ACK" \in Range(toUe[g])
        BY <3>1, <3>3, TailRange DEF UeReceive, TypeOK, AirTypes
      <4> QED BY <2>1, <3>3, <4>1, CellHeard DEF Audible
    <3> QED BY <3>1, <3>2, <3>3 DEF UeReceive
  <2> QED BY <1>2, <2>2, <2>3, CellsKept
<1> QED
  BY <1>1, <1>2

LEMMA TypesStep ==
    ASSUME SignalAssumption, BoundAssumption, TypeOK, Audible, [Next]_vars
    PROVE  TypeOK'
<1>1. CASE UNCHANGED vars
  <2>1. UNCHANGED <<ueVars, airVars, gnbVars>>
    BY <1>1 DEF vars
  <2> QED BY <2>1, UdpKept, RrcKept, NasKept, AirKept, GnbKept
          DEF TypeOK, ueVars, airVars, gnbVars
<1>2. CASE Handle
  BY <1>2, SendTyped, RrcFromRlsTyped, RrcFromNasTyped, NasReceiveTyped, ReceiveTyped,
     GnbReceiveTyped DEF Handle, Audible
<1>3. CASE UeHeartbeat
  BY <1>3, HeartbeatTyped
<1>4. CASE PerformCellSelection
  BY <1>4, SelectionTyped
<1>5. CASE Procedures
  BY <1>5, ProceduresTyped
<1>6. CASE Losses \/ Broadcasts
  BY <1>6, LossTyped, BroadcastTyped DEF Losses, Broadcasts
<1>7. CASE Answer \/ Release
  BY <1>7, AmfTyped DEF Answer, Release
<1>8. CASE Outage \/ Repair
  <2>1. PICK g \in Gnbs : LinkDown(g) \/ LinkUp(g)
    BY <1>8 DEF Outage, Repair, LinkDown, TypeOK, AirTypes
  <2> QED BY <2>1, LinkTyped
<1> QED
  BY <1>1, <1>2, <1>3, <1>4, <1>5, <1>6, <1>7, <1>8 DEF Next

LEMMA TypesInit ==
    ASSUME SignalAssumption, BoundAssumption, Init
    PROVE  TypeOK /\ Audible
<1> USE DEF Init
<1>1. \A S : <<>> \in Seq(S)
  OBVIOUS
<1>2. UdpTypes
  BY DEF UdpTypes
<1>3. RrcTypes
  <2>1. up \in Seq(ToRrc) /\ down \in Seq(FromRrc)
    BY <1>1
  <2>2. DOMAIN desc = {} /\ desc \in [DOMAIN desc -> [dbm : MinDbm..0, si : BOOLEAN]]
    OBVIOUS
  <2> QED BY <2>1, <2>2 DEF RrcTypes
<1>4. NasTypes
  BY <1>1 DEF NasTypes
<1>5. AirTypes
  BY <1>1 DEF AirTypes, BoundAssumption
<1>6. GnbTypes
  BY DEF GnbTypes
<1>7. Audible
  BY DEF Audible, Range
<1> QED
  BY <1>2, <1>3, <1>4, <1>5, <1>6, <1>7 DEF TypeOK

\* In every reachable state each variable has its type, however many gNBs there
\* are and however often their links fail.
THEOREM Typing == Spec => []TypeOK
<1>1. Init => TypeOK /\ Audible
  BY TypesInit, SignalAssumption, BoundAssumption
<1>2. TypeOK /\ Audible /\ [Next]_vars => (TypeOK /\ Audible)'
  BY TypesStep, AudibleStep, SignalAssumption, BoundAssumption
<1> QED
  BY <1>1, <1>2, PTL DEF Spec

-----------------------------------------------------------------------------
(* The cells the udp task hears and those RRC knows.  What RRC has not been *)
(* told of a cell yet is in the queue up, and the last of it is the truth.  *)
SignalOf(c, i) == up[i].type = "SIGNAL" /\ up[i].cell = c
LastSignal(c, i) == SignalOf(c, i) /\ \A j \in DOMAIN up : j > i => ~SignalOf(c, j)

\* Two gNBs never have the same cell id.
CellsDistinct ==
    \A g \in DOMAIN cells : \A h \in DOMAIN cells : cells[g].id = cells[h].id => g = h
\* A cell that is reported lost does not come back under the same id.
LostIsGone ==
    \A i \in DOMAIN up :
        up[i].type = "SIGNAL" /\ up[i].dbm < MinDbm => up[i].cell \notin CellIds
CellsTold ==
    \A c \in 1..lastCell : \A i \in DOMAIN up :
        LastSignal(c, i) => (up[i].dbm >= MinDbm <=> c \in CellIds)
CellsInv == CellsDistinct /\ LostIsGone /\ CellsTold /\ CellsAgree

LEMMA CellsSame ==
    ASSUME CellsInv, UNCHANGED <<cells, lastCell, up, desc>>
    PROVE  CellsInv'
<1>1. CellIds' = CellIds /\ \A c, i : LastSignal(c, i)' <=> LastSignal(c, i)
  BY DEF CellIds, LastSignal, SignalOf
<1>2. CellsDistinct' /\ LostIsGone'
  BY <1>1 DEF CellsInv, CellsDistinct, LostIsGone
<1>3. CellsTold' /\ CellsAgree'
  BY <1>1 DEF CellsInv, CellsTold, CellsAgree
<1> QED
  BY <1>2, <1>3 DEF CellsInv

LEMMA UpTyped ==
    ASSUME TypeOK
    PROVE  \A i \in DOMAIN up : up[i].cell \in 1..lastCell /\ up[i].dbm \in Lost..0
<1>1. up \in Seq(ToRrc)
  BY DEF TypeOK, RrcTypes
<1>2. \A i \in DOMAIN up : up[i] \in ToRrc
  BY <1>1
<1> QED
  BY <1>2 DEF ToRrc

\* What a longer queue says.
LEMMA UpAppended ==
    ASSUME TypeOK, NEW x, up' = Append(up, x)
    PROVE  /\ Len(up) \in Nat /\ DOMAIN up = 1..Len(up) /\ DOMAIN up' = 1..Len(up) + 1
           /\ \A i \in 1..Len(up) : up'[i] = up[i]
           /\ up'[Len(up) + 1] = x
<1>1. up \in Seq(ToRrc)
  BY DEF TypeOK, RrcTypes
<1> QED
  BY <1>1

LEMMA CellsNew ==
    ASSUME TypeOK, CellsInv, Audible, NEW g \in Gnbs, g \notin DOMAIN cells, HeartbeatAck(g),
           Dbm[g] \in Int, Dbm[g] >= MinDbm, Dbm[g] < 0, UNCHANGED desc
    PROVE  CellsInv'
<1> DEFINE n == lastCell + 1
<1>1. lastCell \in Nat /\ lastCell' = n /\ up' = Append(up, Signal(n, Dbm[g]))
  BY DEF HeartbeatAck, TypeOK, UdpTypes
<1>11. /\ DOMAIN cells' = DOMAIN cells \cup {g} /\ cells'[g].id = n
       /\ \A h \in DOMAIN cells : h # g /\ cells'[h].id = cells[h].id
  BY CellHeard
<1>12. \A h \in DOMAIN cells : cells[h].id \in 1..lastCell
  BY DEF TypeOK, UdpTypes
<1>2. CellIds \subseteq 1..lastCell /\ CellIds' = CellIds \cup {n}
  BY <1>11, <1>12 DEF CellIds
<1>3. CellsDistinct'
  BY <1>1, <1>11, <1>12 DEF CellsInv, CellsDistinct
<1>4. /\ Len(up) \in Nat /\ DOMAIN up = 1..Len(up) /\ DOMAIN up' = 1..Len(up) + 1
      /\ \A i \in 1..Len(up) : up'[i] = up[i]
      /\ up'[Len(up) + 1] = [type |-> "SIGNAL", cell |-> n, dbm |-> Dbm[g]]
  BY <1>1, UpAppended DEF Signal
<1>5. \A i \in 1..Len(up) : up[i].cell \in 1..lastCell
  BY <1>4, UpTyped
<1>6. LostIsGone'
  <2> SUFFICES ASSUME NEW i \in DOMAIN up', up'[i].type = "SIGNAL", up'[i].dbm < MinDbm
               PROVE  up'[i].cell \notin CellIds'
    BY DEF LostIsGone
  <2>1. i # Len(up) + 1
    BY <1>4 DEF MinDbm
  <2>2. i \in 1..Len(up) /\ up'[i] = up[i]
    BY <1>4, <2>1
  <2>3. up[i].cell \notin CellIds /\ up[i].cell # n
    BY <1>1, <1>4, <1>5, <2>2 DEF CellsInv, LostIsGone
  <2> QED BY <1>2, <2>2, <2>3
<1>7. ASSUME NEW c \in 1..lastCell', NEW i \in DOMAIN up', LastSignal(c, i)'
      PROVE  up'[i].dbm >= MinDbm <=> c \in CellIds'
  <2>1. CASE i = Len(up) + 1
    BY <1>2, <1>4, <1>7, <2>1 DEF LastSignal, SignalOf
  <2>2. CASE i # Len(up) + 1
    <3>1. i \in 1..Len(up) /\ up'[i] = up[i] /\ up[i].cell = c /\ c # n
      BY <1>1, <1>4, <1>5, <1>7, <2>2 DEF LastSignal, SignalOf
    <3>2. LastSignal(c, i)
      BY <1>4, <1>7, <3>1 DEF LastSignal, SignalOf
    <3> QED BY <1>1, <1>2, <1>4, <3>1, <3>2 DEF CellsInv, CellsTold
  <2> QED BY <2>1, <2>2
<1>8. ASSUME NEW c \in 1..lastCell',
             \A i \in DOMAIN up' : up'[i].type = "SIGNAL" => up'[i].cell # c
      PROVE  c \in DOMAIN desc' <=> c \in CellIds'
  <2>1. c # n /\ c \in 1..lastCell
    BY <1>1, <1>4, <1>8
  <2>2. \A i \in DOMAIN up : up[i].type = "SIGNAL" => up[i].cell # c
    BY <1>4, <1>8
  <2> QED BY <1>2, <2>1, <2>2 DEF CellsInv, CellsAgree
<1> QED
  BY <1>3, <1>6, <1>7, <1>8 DEF CellsInv, CellsTold, CellsAgree

\* Messages that are no signals change nothing.
LEMMA CellsPdu ==
    ASSUME TypeOK, CellsInv, NEW x, x.type # "SIGNAL", up' = Append(up, x),
           UNCHANGED <<cells, lastCell, desc>>
    PROVE  CellsInv'
<1>1. CellIds' = CellIds /\ lastCell' = lastCell /\ desc' = desc
  BY DEF CellIds
<1>2. /\ Len(up) \in Nat /\ DOMAIN up = 1..Len(up) /\ DOMAIN up' = 1..Len(up) + 1
      /\ \A i \in 1..Len(up) : up'[i] = up[i]
      /\ up'[Len(up) + 1] = x
  BY UpAppended
<1>3. CellsDistinct'
  BY DEF CellsInv, CellsDistinct
<1>4. LostIsGone'
  BY <1>1, <1>2 DEF CellsInv, LostIsGone
<1>5. ASSUME NEW c \in 1..lastCell', NEW i \in DOMAIN up', LastSignal(c, i)'
      PROVE  i \in DOMAIN up /\ up'[i] = up[i] /\ LastSignal(c, i)
  BY <1>2, <1>5 DEF LastSignal, SignalOf
<1>6. CellsTold'
  BY <1>1, <1>5 DEF CellsInv, CellsTold
<1>7. ASSUME NEW c, \A i \in DOMAIN up' : up'[i].type = "SIGNAL" => up'[i].cell # c
      PROVE  \A i \in DOMAIN up : up[i].type = "SIGNAL" => up[i].cell # c
  BY <1>2, <1>7
<1>8. CellsAgree'
  BY <1>1, <1>7 DEF CellsInv, CellsAgree
<1> QED
  BY <1>3, <1>4, <1>6, <1>8 DEF CellsInv

LEMMA CellsReceive ==
    ASSUME TypeOK, SignalAssumption, Audible, CellsInv, NEW g \in Gnbs, UeReceive(g)
    PROVE  CellsInv'
<1> DEFINE msg == Head(toUe[g])
<1>1. desc' = desc /\ msg \in Downlinks \cup {"ACK"} /\ msg \in Range(toUe[g])
  BY TailRange, TailTyped DEF UeReceive, TypeOK, AirTypes
<1>2. CASE msg = "ACK" /\ HeartbeatAck(g)
  <2>1. Dbm[g] >= MinDbm /\ Dbm[g] < 0 /\ Dbm[g] \in Int
    BY <1>1, <1>2 DEF Audible, SignalAssumption
  <2>2. CASE g \notin DOMAIN cells
    BY <1>1, <1>2, <2>1, <2>2, CellsNew
  <2>3. CASE g \in DOMAIN cells
    <3>1. cells[g].dbm = Dbm[g]
      BY <2>3 DEF Audible
    <3>2. lastCell' = lastCell /\ up' = up
      BY <1>2, <2>3, <3>1 DEF HeartbeatAck
    <3>3. DOMAIN cells' = DOMAIN cells /\ \A h \in DOMAIN cells : cells'[h].id = cells[h].id
      BY <1>2, <2>3, CellHeard
    <3>4. CellIds' = CellIds
      BY <3>3 DEF CellIds
    <3>5. \A c, i : LastSignal(c, i)' <=> LastSignal(c, i)
      BY <3>2 DEF LastSignal, SignalOf
    <3>6. CellsDistinct' /\ LostIsGone'
      BY <3>2, <3>3, <3>4 DEF CellsInv, CellsDistinct, LostIsGone
    <3>7. CellsTold' /\ CellsAgree'
      BY <1>1, <3>2, <3>4, <3>5 DEF CellsInv, CellsTold, CellsAgree
    <3> QED BY <3>6, <3>7 DEF CellsInv
  <2> QED BY <2>2, <2>3
<1>3. CASE /\ msg # "ACK" /\ g \in DOMAIN cells /\ up' = Append(up, Pdu(cells[g].id, msg))
           /\ UNCHANGED <<cells, lastCell>>
  <2>1. Pdu(cells[g].id, msg).type # "SIGNAL"
    BY <1>1, <1>3 DEF Pdu, Downlinks
  <2> QED BY <1>1, <1>3, <2>1, CellsPdu
<1>4. CASE UNCHANGED <<cells, lastCell, up>>
  BY <1>1, <1>4, CellsSame
<1> QED
  BY <1>2, <1>3, <1>4 DEF UeReceive

LEMMA CellsHeartbeat ==
    ASSUME TypeOK, SignalAssumption, CellsInv, UeHeartbeat
    PROVE  CellsInv'
<1>1. PICK gone \in SUBSET (DOMAIN cells) : HeartbeatCycle(gone)
  BY DEF UeHeartbeat
<1>2. desc' = desc /\ lastCell' = lastCell
  BY DEF UeHeartbeat
<1> DEFINE T == {Signal(cells[g].id, Lost) : g \in gone}
           told == SetToSeq(T)
           n == Len(up)
           dead == {cells[g].id : g \in gone}
<1>3. /\ told \in Seq(T)
      /\ \A g \in gone : \E i \in DOMAIN told : told[i] = Signal(cells[g].id, Lost)
  BY LostSignals DEF TypeOK, UdpTypes, SignalAssumption
<1>4. /\ DOMAIN told = 1..Len(told) /\ Len(told) \in Nat
      /\ \A i \in DOMAIN told : \E g \in gone : told[i] = Signal(cells[g].id, Lost)
  <2>1. \A i \in DOMAIN told : told[i] \in T
    <3> HIDE DEF T, told
    <3> QED BY <1>3
  <2>2. DOMAIN told = 1..Len(told) /\ Len(told) \in Nat
    <3> HIDE DEF T, told
    <3> QED BY <1>3
  <2> QED BY <2>1, <2>2
<1>5. /\ n \in Nat /\ DOMAIN up = 1..n /\ DOMAIN up' = 1..n + Len(told)
      /\ \A i \in 1..n : up'[i] = up[i]
      /\ \A i \in 1..Len(told) : up'[n + i] = told[i]
  <2>1. up' = up \o told /\ up \in Seq(ToRrc)
    BY <1>1 DEF HeartbeatCycle, TypeOK, RrcTypes
  <2> HIDE DEF told
  <2> QED BY <1>3, <2>1
<1>6. /\ DOMAIN cells' = DOMAIN cells \ gone
      /\ \A g \in DOMAIN cells' : cells'[g].id = cells[g].id
  BY <1>1, CellsAged
<1> HIDE DEF told, T
<1>7. CellIds' = CellIds \ dead
  <2>1. \A g \in DOMAIN cells : \A h \in gone : cells[g].id = cells[h].id => g = h
    BY DEF CellsInv, CellsDistinct
  <2> QED BY <1>6, <2>1 DEF CellIds
<1>8. \A i \in 1..Len(told) :
          up'[n + i].type = "SIGNAL" /\ up'[n + i].dbm = Lost /\ up'[n + i].cell \in dead
  <2> SUFFICES ASSUME NEW i \in 1..Len(told)
               PROVE  up'[n + i].type = "SIGNAL" /\ up'[n + i].dbm = Lost /\ up'[n + i].cell \in dead
    OBVIOUS
  <2>1. PICK g \in gone : told[i] = Signal(cells[g].id, Lost)
    BY <1>4
  <2>2. up'[n + i] = Signal(cells[g].id, Lost)
    BY <1>5, <2>1
  <2> QED BY <2>2 DEF Signal
<1>9. \A c \in dead : \E i \in 1..Len(told) : up'[n + i].type = "SIGNAL" /\ up'[n + i].cell = c
  <2> SUFFICES ASSUME NEW g \in gone
               PROVE  \E i \in 1..Len(told) : up'[n + i].type = "SIGNAL" /\ up'[n + i].cell = cells[g].id
    OBVIOUS
  <2>1. PICK i \in DOMAIN told : told[i] = Signal(cells[g].id, Lost)
    BY <1>3
  <2>2. i \in 1..Len(told) /\ up'[n + i] = Signal(cells[g].id, Lost)
    BY <1>4, <1>5, <2>1
  <2>3. Signal(cells[g].id, Lost).type = "SIGNAL" /\ Signal(cells[g].id, Lost).cell = cells[g].id
    BY DEF Signal
  <2> QED BY <2>2, <2>3
<1> HIDE DEF dead
<1>10. CellsDistinct'
  BY <1>6 DEF CellsInv, CellsDistinct
<1>11. \A i \in DOMAIN up' : i \in 1..n \/ \E j \in 1..Len(told) : i = n + j
  <2> SUFFICES ASSUME NEW i \in DOMAIN up', i \notin 1..n PROVE i - n \in 1..Len(told) /\ i = n + (i - n)
    OBVIOUS
  <2> QED BY <1>4, <1>5
<1>12. LostIsGone'
  BY <1>5, <1>7, <1>8, <1>11 DEF CellsInv, LostIsGone
<1>13. ASSUME NEW c \in 1..lastCell', NEW i \in DOMAIN up', LastSignal(c, i)'
       PROVE  up'[i].dbm >= MinDbm <=> c \in CellIds'
  <2>1. CASE c \in dead
    <3>1. PICK k \in 1..Len(told) : up'[n + k].type = "SIGNAL" /\ up'[n + k].cell = c
      BY <1>9, <2>1
    <3>2. n + k \in DOMAIN up' /\ ~(n + k > i)
      BY <1>4, <1>5, <1>13, <3>1 DEF LastSignal, SignalOf
    <3>3. PICK j \in 1..Len(told) : i = n + j
      BY <1>4, <1>5, <1>11, <3>2
    <3>4. up'[i].dbm = Lost
      BY <1>8, <3>3
    <3> QED BY <1>7, <2>1, <3>4 DEF Lost, MinDbm
  <2>2. CASE c \notin dead
    <3>1. i \in 1..n
      BY <1>8, <1>11, <1>13, <2>2 DEF LastSignal, SignalOf
    <3>2. LastSignal(c, i)
      BY <1>4, <1>5, <1>13, <3>1 DEF LastSignal, SignalOf
    <3> QED BY <1>2, <1>5, <1>7, <2>2, <3>1, <3>2 DEF CellsInv, CellsTold
  <2> QED BY <2>1, <2>2
<1>14. ASSUME NEW c \in 1..lastCell',
              \A i \in DOMAIN up' : up'[i].type = "SIGNAL" => up'[i].cell # c
       PROVE  c \in DOMAIN desc' <=> c \in CellIds'
  <2>1. c \notin dead
    <3> SUFFICES ASSUME c \in dead PROVE FALSE
      OBVIOUS
    <3>1. PICK k \in 1..Len(told) : up'[n + k].type = "SIGNAL" /\ up'[n + k].cell = c
      BY <1>9
    <3>2. n + k \in DOMAIN up'
      BY <1>4, <1>5
    <3> QED BY <1>14, <3>1, <3>2
  <2>2. \A i \in DOMAIN up : up[i].type = "SIGNAL" => up[i].cell # c
    BY <1>4, <1>5, <1>14
  <2> QED BY <1>2, <1>7, <2>1, <2>2 DEF CellsInv, CellsAgree
<1> QED
  BY <1>10, <1>12, <1>13, <1>14 DEF CellsInv, CellsTold, CellsAgree

\* RRC takes a message off the queue; a signal decides whether it knows the cell.
LEMMA CellsRrc ==
    ASSUME TypeOK, CellsInv, RrcFromRls
    PROVE  CellsInv'
<1> DEFINE m == Head(up)
           n == Len(up)
<1>1. /\ n \in Nat \ {0} /\ DOMAIN up = 1..n /\ DOMAIN up' = 1..n - 1 /\ m = up[1]
      /\ \A i \in 1..n - 1 : up'[i] = up[i + 1]
  <2>1. up \in Seq(ToRrc) /\ up # <<>> /\ up' = Tail(up)
    BY DEF RrcFromRls, TypeOK, RrcTypes
  <2> QED BY <2>1
<1>2. UNCHANGED <<cells, lastCell>> /\ CellIds' = CellIds
  BY DEF RrcFromRls, CellIds
<1>3. m.type = "SIGNAL" => (m.cell \in DOMAIN desc' <=> m.dbm >= MinDbm)
  <2>1. m.type = "SIGNAL" => SignalChanged(m.cell, m.dbm)
    BY DEF RrcFromRls, HandleDownlinkRrc, Downlinks
  <2>2. m.dbm \in Lost..0
    BY <1>1, UpTyped
  <2>3. CASE m.dbm >= MinDbm /\ SignalChanged(m.cell, m.dbm)
    <3>1. ~(m.dbm < MinDbm)
      BY <2>2, <2>3 DEF Lost, MinDbm
    <3> QED BY <2>3, <3>1 DEF SignalChanged, Put
  <2>4. CASE ~(m.dbm >= MinDbm) /\ SignalChanged(m.cell, m.dbm)
    BY <2>4 DEF SignalChanged, CellLost, Removed, Restrict
  <2> QED BY <2>1, <2>3, <2>4
<1>4. ASSUME NEW c, m.type = "SIGNAL" => m.cell # c
      PROVE  c \in DOMAIN desc' <=> c \in DOMAIN desc
  <2>1. CASE m.type = "SIGNAL" /\ SignalChanged(m.cell, m.dbm)
    BY <1>4, <2>1 DEF SignalChanged, CellLost, Put, Removed, Restrict
  <2>2. CASE m.type # "SIGNAL" /\ HandleDownlinkRrc(m.cell, m.type)
    BY <2>2 DEF HandleDownlinkRrc, ReceiveRrcSetup, ReceiveRrcRelease, TypeOK, RrcTypes
  <2> QED BY <1>4, <2>1, <2>2 DEF RrcFromRls
<1> HIDE DEF m, n
<1>5. CellsDistinct'
  BY <1>2 DEF CellsInv, CellsDistinct
<1>6. LostIsGone'
  BY <1>1, <1>2 DEF CellsInv, LostIsGone
<1>7. ASSUME NEW c \in 1..lastCell', NEW i \in DOMAIN up', LastSignal(c, i)'
      PROVE  up'[i].dbm >= MinDbm <=> c \in CellIds'
  <2>1. i + 1 \in DOMAIN up /\ up'[i] = up[i + 1]
    BY <1>1
  <2>2. ASSUME NEW j \in DOMAIN up, j > i + 1, SignalOf(c, j) PROVE FALSE
    <3>1. j - 1 \in DOMAIN up' /\ j - 1 > i /\ up'[j - 1] = up[j]
      BY <1>1, <2>1, <2>2
    <3> QED BY <1>7, <2>2, <3>1 DEF LastSignal, SignalOf
  <2>3. LastSignal(c, i + 1)
    BY <1>7, <2>1, <2>2 DEF LastSignal, SignalOf
  <2> QED BY <1>2, <2>1, <2>3 DEF CellsInv, CellsTold
<1>8. ASSUME NEW c \in 1..lastCell',
             \A i \in DOMAIN up' : up'[i].type = "SIGNAL" => up'[i].cell # c
      PROVE  c \in DOMAIN desc' <=> c \in CellIds'
  <2>1. ASSUME NEW j \in DOMAIN up, j > 1, up[j].type = "SIGNAL" PROVE up[j].cell # c
    <3>1. j - 1 \in DOMAIN up' /\ up'[j - 1] = up[j]
      BY <1>1, <2>1
    <3> QED BY <1>8, <2>1, <3>1
  <2>2. CASE m.type = "SIGNAL" /\ m.cell = c
    <3>1. 1 \in DOMAIN up /\ LastSignal(c, 1)
      BY <1>1, <2>1, <2>2 DEF LastSignal, SignalOf
    <3> QED BY <1>1, <1>2, <1>3, <2>2, <3>1 DEF CellsInv, CellsTold
  <2>3. CASE ~(m.type = "SIGNAL" /\ m.cell = c)
    <3>1. \A j \in DOMAIN up : up[j].type = "SIGNAL" => up[j].cell # c
      BY <1>1, <2>1, <2>3
    <3> QED BY <1>2, <1>4, <2>3, <3>1 DEF CellsInv, CellsAgree
  <2> QED BY <2>2, <2>3
<1> QED
  BY <1>5, <1>6, <1>7, <1>8 DEF CellsInv, CellsTold, CellsAgree

\* Nobody else touches the cells, their queue or what RRC knows of them.
LEMMA CellsOthers ==
    ASSUME [Next]_vars, ~UeHeartbeat, ~RrcFromRls, \A g \in Gnbs : ~UeReceive(g)
    PROVE  UNCHANGED <<cells, lastCell, up, desc>>
<1>1. CASE UeSend \/ RrcFromNas \/ NasReceive \/ UNCHANGED vars
  BY <1>1 DEF UeSend, RrcFromNas, NasReceive, vars, ueVars
<1>2. CASE PerformCellSelection \/ Procedures
  BY <1>2 DEF Procedures, SendInitialRegistration, SendServiceRequest, Initiate,
     RegistrationExpires, ServiceRequestExpires, PerformCellSelection
<1>3. CASE \/ \E g \in Gnbs : GnbReceive(g)
           \/ Losses \/ Broadcasts \/ Answer \/ Release \/ Outage \/ Repair
  BY <1>3 DEF GnbReceive, Losses, GnbLosesUe, Broadcasts, Broadcast, Answer, Release,
     AmfAccepts, AmfGivesUp, AmfReleases, ReleaseContext, Outage, LinkDown, Repair, LinkUp, ueVars
<1> QED
  BY <1>1, <1>2, <1>3 DEF Next, Handle

LEMMA CellsStep ==
    ASSUME SignalAssumption, TypeOK, Audible, CellsInv, [Next]_vars
    PROVE  CellsInv'
BY CellsReceive, CellsHeartbeat, CellsRrc, CellsOthers, CellsSame

LEMMA CellsInit ==
    ASSUME Init
    PROVE  CellsInv
BY DEF Init, CellsInv, CellsDistinct, LostIsGone, CellsTold, CellsAgree, CellIds, LastSignal

\* However heartbeats are answered, lost or late, RRC knows the cells that the udp
\* task hears but for those it has not been told of yet: no cell stays behind.
THEOREM CellsConsistent == Spec => []CellsAgree
<1>1. Init => TypeOK /\ Audible /\ CellsInv
  BY TypesInit, CellsInit, SignalAssumption, BoundAssumption
<1>2. TypeOK /\ Audible /\ CellsInv /\ [Next]_vars => (TypeOK /\ Audible /\ CellsInv)'
  BY TypesStep, AudibleStep, CellsStep, SignalAssumption, BoundAssumption
<1>3. CellsInv => CellsAgree
  BY DEF CellsInv
<1> QED
  BY <1>1, <1>2, <1>3, PTL DEF Spec

-----------------------------------------------------------------------------
(* The serving cell.  The last order under way to the ctl task, or else the *)
(* cell it has, is the one RRC camps on or one that will not be heard again. *)
Assigns(i) == down[i].type = "ASSIGN_CURRENT_CELL"
LastAssigns(i) == Assigns(i) /\ \A j \in DOMAIN down : j > i => ~Assigns(j)
Fits(c) == c = current \/ c \notin CellIds
ServingTold ==
    /\ \A i \in DOMAIN down : LastAssigns(i) => Fits(down[i].cell)
    /\ (\A i \in DOMAIN down : ~Assigns(i)) => Fits(serving)

\* A cell id that is gone stays so.
LEMMA CellIdsGone ==
    ASSUME TypeOK, [Next]_vars, NEW c \in 0..lastCell, c \notin CellIds
    PROVE  c \notin CellIds'
<1>1. CASE UeHeartbeat
  <2>1. PICK gone \in SUBSET (DOMAIN cells) : HeartbeatCycle(gone)
    BY <1>1 DEF UeHeartbeat
  <2>2. \A g \in DOMAIN cells' : g \in DOMAIN cells /\ cells'[g].id = cells[g].id
    BY <2>1, CellsAged
  <2> QED BY <2>2 DEF CellIds
<1>2. CASE \E g \in Gnbs : UeReceive(g)
  <2>1. PICK g \in Gnbs : UeReceive(g)
    BY <1>2
  <2>2. CASE HeartbeatAck(g)
    <3>1. lastCell + 1 # c
      BY DEF TypeOK, UdpTypes
    <3>2. ASSUME NEW h \in DOMAIN cells'
          PROVE  \/ cells'[h].id = lastCell + 1
                 \/ h \in DOMAIN cells /\ cells'[h].id = cells[h].id
      <4>1. CASE h = g
        BY <2>2, <4>1, CellHeard
      <4>2. CASE h # g
        BY <2>2, <4>2, CellHeard
      <4> QED BY <4>1, <4>2
    <3> QED BY <3>1, <3>2 DEF CellIds
  <2>3. CASE UNCHANGED cells
    BY <2>3 DEF CellIds
  <2> QED BY <2>1, <2>2, <2>3 DEF UeReceive
<1>3. CASE ~UeHeartbeat /\ \A g \in Gnbs : ~UeReceive(g)
  BY <1>3, CellsKept DEF CellIds
<1> QED
  BY <1>1, <1>2, <1>3

\* If RRC's cell changes other than by a selection, the old one is gone.
LEMMA CurrentLeft ==
    ASSUME TypeOK, CellsInv, [Next]_vars, ~PerformCellSelection, current' # current
    PROVE  current \notin CellIds /\ RrcFromRls
<1>1. CASE RrcFromRls
  <2>1. /\ SignalChanged(Head(up).cell, Head(up).dbm) /\ Head(up).type = "SIGNAL"
        /\ Head(up).cell = current /\ Head(up).dbm < MinDbm
    BY <1>1 DEF RrcFromRls, SignalChanged, CellLost, HandleDownlinkRrc, ReceiveRrcSetup,
       ReceiveRrcRelease
  <2>2. 1 \in DOMAIN up /\ Head(up) = up[1]
    <3>1. up \in Seq(ToRrc) /\ up # <<>>
      BY <1>1 DEF RrcFromRls, TypeOK, RrcTypes
    <3> QED BY <3>1
  <2> QED BY <1>1, <2>1, <2>2 DEF CellsInv, LostIsGone
<1>2. CASE UeSend \/ RrcFromNas \/ NasReceive \/ UNCHANGED vars
  BY <1>2 DEF UeSend, RrcFromNas, NasReceive, vars, ueVars
<1>3. CASE UeHeartbeat \/ Procedures
  BY <1>3 DEF Procedures, SendInitialRegistration, SendServiceRequest, Initiate,
     RegistrationExpires, ServiceRequestExpires, UeHeartbeat
<1>4. CASE \/ \E g \in Gnbs : GnbReceive(g) \/ UeReceive(g)
           \/ Losses \/ Broadcasts \/ Answer \/ Release \/ Outage \/ Repair
  BY <1>4 DEF GnbReceive, UeReceive, Losses, GnbLosesUe, Broadcasts, Broadcast, Answer, Release,
     AmfAccepts, AmfGivesUp, AmfReleases, ReleaseContext, Outage, LinkDown, Repair, LinkUp, ueVars
<1> QED
  BY <1>1, <1>2, <1>3, <1>4 DEF Next, Handle

\* What fits goes on fitting as long as RRC selects no other cell.
LEMMA FitsKept ==
    ASSUME TypeOK, CellsInv, [Next]_vars, ~PerformCellSelection, NEW c \in 0..lastCell, Fits(c)
    PROVE  Fits(c)'
<1>1. CASE c \notin CellIds
  BY <1>1, CellIdsGone DEF Fits
<1>2. CASE c = current /\ current' = current
  BY <1>2 DEF Fits
<1>3. CASE c = current /\ current' # current
  BY <1>3, CurrentLeft, CellIdsGone DEF Fits
<1> QED
  BY <1>1, <1>2, <1>3 DEF Fits

\* The queue to the ctl task: who adds to it and who takes from it.
LEMMA DownStep ==
    ASSUME TypeOK, [Next]_vars
    PROVE  \/ UNCHANGED <<down, serving>>
           \/ PerformCellSelection
           \/ UeSend
           \/ /\ UNCHANGED serving
              /\ \E x \in FromRrc : x.type # "ASSIGN_CURRENT_CELL" /\ down' = Append(down, x)
<1>1. CASE RrcFromRls
  <2>1. CASE down' = down
    BY <1>1, <2>1 DEF RrcFromRls
  <2>2. CASE down' # down
    <3>1. down' = Append(down, ToCell(current, "SETUP_COMPLETE", initialNas))
      BY <1>1, <2>2 DEF RrcFromRls, SignalChanged, HandleDownlinkRrc, ReceiveRrcSetup,
         ReceiveRrcRelease
    <3>2. /\ ToCell(current, "SETUP_COMPLETE", initialNas) \in FromRrc
          /\ ToCell(current, "SETUP_COMPLETE", initialNas).type # "ASSIGN_CURRENT_CELL"
      BY DEF TypeOK, UdpTypes, RrcTypes, ToCell, FromRrc, Uplinks
    <3> QED BY <1>1, <3>1, <3>2 DEF RrcFromRls
  <2> QED BY <2>1, <2>2
<1>2. CASE RrcFromNas
  <2>1. UNCHANGED serving
    BY <1>2 DEF RrcFromNas
  <2>2. CASE LocalReleaseConnection
    <3>1. ToCell(0, "RESET_STI", FALSE) \in FromRrc
          /\ ToCell(0, "RESET_STI", FALSE).type # "ASSIGN_CURRENT_CELL"
      BY DEF TypeOK, UdpTypes, ToCell, FromRrc
    <3> QED BY <2>1, <2>2, <3>1 DEF LocalReleaseConnection
  <2>3. CASE DeliverUplinkNas
    <3> DEFINE t == IF rrc = "IDLE" THEN "SETUP_REQUEST" ELSE "INFORMATION_TRANSFER"
               x == ToCell(current, t, rrc # "IDLE")
    <3>1. t \in Uplinks /\ t # "ASSIGN_CURRENT_CELL"
      BY DEF Uplinks
    <3>2. down' = down \/ down' = Append(down, x)
      BY <2>3 DEF DeliverUplinkNas
    <3>3. x \in FromRrc /\ x.type # "ASSIGN_CURRENT_CELL"
      <4> HIDE DEF t
      <4> QED BY <3>1 DEF TypeOK, UdpTypes, RrcTypes, ToCell, FromRrc
    <3> HIDE DEF x
    <3> QED BY <2>1, <3>2, <3>3
  <2> QED BY <1>2, <2>2, <2>3 DEF RrcFromNas
<1>3. CASE NasReceive \/ UNCHANGED vars
  BY <1>3 DEF NasReceive, vars, ueVars
<1>4. CASE UeHeartbeat \/ Procedures
  BY <1>4 DEF Procedures, SendInitialRegistration, SendServiceRequest, Initiate,
     RegistrationExpires, ServiceRequestExpires, UeHeartbeat
<1>5. CASE \/ \E g \in Gnbs : GnbReceive(g) \/ UeReceive(g)
           \/ Losses \/ Broadcasts \/ Answer \/ Release \/ Outage \/ Repair
  BY <1>5 DEF GnbReceive, UeReceive, Losses, GnbLosesUe, Broadcasts, Broadcast, Answer, Release,
     AmfAccepts, AmfGivesUp, AmfReleases, ReleaseContext, Outage, LinkDown, Repair, LinkUp, ueVars
<1> QED
  BY <1>1, <1>2, <1>3, <1>4, <1>5 DEF Next, Handle

LEMMA DownAppended ==
    ASSUME TypeOK, NEW x, down' = Append(down, x)
    PROVE  /\ Len(down) \in Nat /\ DOMAIN down = 1..Len(down) /\ DOMAIN down' = 1..Len(down) + 1
           /\ \A i \in 1..Len(down) : down'[i] = down[i]
           /\ down'[Len(down) + 1] = x
<1>1. down \in Seq(FromRrc)
  BY DEF TypeOK, RrcTypes
<1> QED
  BY <1>1

LEMMA DownTyped ==
    ASSUME TypeOK
    PROVE  \A i \in DOMAIN down : down[i] \in FromRrc /\ down[i].cell \in 0..lastCell
<1>1. down \in Seq(FromRrc)
  BY DEF TypeOK, RrcTypes
<1>2. \A i \in DOMAIN down : down[i] \in FromRrc
  BY <1>1
<1> QED
  BY <1>2 DEF FromRrc

LEMMA ServingStep ==
    ASSUME TypeOK, CellsInv, ServingTold, [Next]_vars
    PROVE  ServingTold'
<1> DEFINE n == Len(down)
<1>0. serving \in 0..lastCell
  BY DEF TypeOK, UdpTypes
<1>1. CASE PerformCellSelection
  <2> DEFINE x == ToCell(SelectedCell, "ASSIGN_CURRENT_CELL", FALSE)
  <2>1. down' = Append(down, x) /\ current' = x.cell /\ x.type = "ASSIGN_CURRENT_CELL"
    BY <1>1 DEF PerformCellSelection, ToCell
  <2> HIDE DEF x
  <2>2. /\ n \in Nat /\ DOMAIN down' = 1..n + 1 /\ down'[n + 1] = x
    BY <2>1, DownAppended
  <2>3. ASSUME NEW i \in DOMAIN down', LastAssigns(i)' PROVE i = n + 1
    BY <2>1, <2>2, <2>3 DEF LastAssigns, Assigns
  <2>4. ~(\A i \in DOMAIN down' : ~Assigns(i)')
    BY <2>1, <2>2 DEF Assigns
  <2> QED BY <2>1, <2>2, <2>3, <2>4 DEF ServingTold, Fits
<1>2. CASE ~PerformCellSelection /\ UNCHANGED <<down, serving>>
  <2>1. ASSUME NEW i \in DOMAIN down', LastAssigns(i)' PROVE Fits(down[i].cell)'
    <3>1. LastAssigns(i) /\ i \in DOMAIN down
      BY <1>2, <2>1 DEF LastAssigns, Assigns
    <3>2. Fits(down[i].cell) /\ down[i].cell \in 0..lastCell /\ down'[i] = down[i]
      BY <1>2, <3>1, DownTyped DEF ServingTold
    <3> DEFINE c == down[i].cell
    <3>3. c \in 0..lastCell /\ Fits(c)
      BY <3>2
    <3> HIDE DEF c
    <3>4. c = current' \/ c \notin CellIds'
      BY <1>2, <3>3, FitsKept DEF Fits
    <3> QED BY <3>2, <3>4 DEF Fits, c
  <2>2. ASSUME \A i \in DOMAIN down' : ~Assigns(i)' PROVE Fits(serving)'
    <3>1. Fits(serving)
      BY <1>2, <2>2 DEF ServingTold, Assigns
    <3> QED BY <1>0, <1>2, <3>1, FitsKept DEF Fits
  <2> QED BY <2>1, <2>2 DEF ServingTold
<1>3. CASE /\ ~PerformCellSelection /\ UNCHANGED serving
           /\ \E x \in FromRrc : x.type # "ASSIGN_CURRENT_CELL" /\ down' = Append(down, x)
  <2>1. PICK x \in FromRrc : x.type # "ASSIGN_CURRENT_CELL" /\ down' = Append(down, x)
    BY <1>3
  <2>2. /\ n \in Nat /\ DOMAIN down = 1..n /\ DOMAIN down' = 1..n + 1 /\ down'[n + 1] = x
        /\ \A i \in 1..n : down'[i] = down[i]
    BY <2>1, DownAppended
  <2>3. ASSUME NEW i \in DOMAIN down', LastAssigns(i)' PROVE Fits(down[i].cell)'
    <3>1. i \in DOMAIN down /\ down'[i] = down[i]
      BY <2>1, <2>2, <2>3 DEF LastAssigns, Assigns
    <3>2. LastAssigns(i)
      BY <2>2, <2>3, <3>1 DEF LastAssigns, Assigns
    <3> DEFINE c == down[i].cell
    <3>3. c \in 0..lastCell /\ Fits(c)
      BY <3>1, <3>2, DownTyped DEF ServingTold
    <3> HIDE DEF c
    <3>4. c = current' \/ c \notin CellIds'
      BY <1>3, <3>3, FitsKept DEF Fits
    <3> QED BY <3>1, <3>4 DEF Fits, c
  <2>4. ASSUME \A i \in DOMAIN down' : ~Assigns(i)' PROVE Fits(serving)'
    <3>1. \A i \in DOMAIN down : ~Assigns(i)
      BY <2>2, <2>4 DEF Assigns
    <3>2. Fits(serving)
      BY <3>1 DEF ServingTold
    <3> QED BY <1>0, <1>3, <3>2, FitsKept DEF Fits
  <2> QED BY <2>3, <2>4 DEF ServingTold
<1>4. CASE UeSend /\ ~PerformCellSelection
  <2>1. /\ n \in Nat \ {0} /\ DOMAIN down = 1..n /\ DOMAIN down' = 1..n - 1
        /\ Head(down) = down[1] /\ \A i \in 1..n - 1 : down'[i] = down[i + 1]
    <3>1. down \in Seq(FromRrc) /\ down # <<>> /\ down' = Tail(down)
      BY <1>4 DEF UeSend, TypeOK, RrcTypes
    <3> QED BY <3>1
  <2>2. ASSUME NEW j \in DOMAIN down, j > 1
        PROVE  j - 1 \in DOMAIN down' /\ down'[j - 1] = down[j]
    BY <2>1, <2>2
  <2>3. ASSUME NEW i \in DOMAIN down', LastAssigns(i)' PROVE Fits(down[i].cell)'
    <3>1. i + 1 \in DOMAIN down /\ down'[i] = down[i + 1]
      BY <2>1
    <3>2. LastAssigns(i + 1)
      <4>1. ASSUME NEW j \in DOMAIN down, j > i + 1, Assigns(j) PROVE FALSE
        <5>1. j - 1 \in DOMAIN down' /\ down'[j - 1] = down[j] /\ j - 1 > i
          BY <2>1, <2>2, <4>1
        <5> QED BY <2>3, <4>1, <5>1 DEF LastAssigns, Assigns
      <4> QED BY <2>3, <3>1, <4>1 DEF LastAssigns, Assigns
    <3> DEFINE c == down[i + 1].cell
    <3>3. c \in 0..lastCell /\ Fits(c)
      BY <3>1, <3>2, DownTyped DEF ServingTold
    <3> HIDE DEF c
    <3>4. c = current' \/ c \notin CellIds'
      BY <1>4, <3>3, FitsKept DEF Fits
    <3> QED BY <3>1, <3>4 DEF Fits, c
  <2>4. ASSUME \A i \in DOMAIN down' : ~Assigns(i)' PROVE Fits(serving)'
    <3>1. \A j \in DOMAIN down : j > 1 => ~Assigns(j)
      BY <2>2, <2>4 DEF Assigns
    <3>2. serving' = IF Assigns(1) THEN down[1].cell ELSE serving
      BY <1>4, <2>1 DEF UeSend, Assigns
    <3>3. Fits(serving') /\ serving' \in 0..lastCell
      <4>1. 1 \in DOMAIN down
        BY <2>1
      <4>2. CASE Assigns(1)
        BY <3>1, <3>2, <4>1, <4>2, DownTyped DEF ServingTold, LastAssigns
      <4>3. CASE ~Assigns(1)
        <5>1. \A i \in DOMAIN down : ~Assigns(i)
          BY <2>1, <3>1, <4>3
        <5> QED BY <1>0, <3>2, <4>3, <5>1 DEF ServingTold
      <4> QED BY <4>2, <4>3
    <3>4. PICK c \in 0..lastCell : c = serving'
      BY <3>3
    <3>5. c = current' \/ c \notin CellIds'
      BY <1>4, <3>3, <3>4, FitsKept DEF Fits
    <3> QED BY <3>4, <3>5 DEF Fits
  <2> QED BY <2>3, <2>4 DEF ServingTold
<1> QED
  BY <1>1, <1>2, <1>3, <1>4, DownStep

LEMMA ServingInit ==
    ASSUME Init
    PROVE  ServingTold
BY DEF Init, ServingTold, Fits

\* Once its queue is empty the ctl task serves the cell RRC camps on, or one that
\* is gone for good: what RRC sends never goes to a third cell.
THEOREM ServingFollows == Spec => []ServingIsCurrent
<1>1. Init => TypeOK /\ Audible /\ CellsInv /\ ServingTold
  BY TypesInit, CellsInit, ServingInit, SignalAssumption, BoundAssumption
<1>2. TypeOK /\ Audible /\ CellsInv /\ ServingTold /\ [Next]_vars
        => (TypeOK /\ Audible /\ CellsInv /\ ServingTold)'
  BY TypesStep, AudibleStep, CellsStep, ServingStep, SignalAssumption, BoundAssumption
<1>3. ServingTold => ServingIsCurrent
  BY DEF ServingTold, ServingIsCurrent, Fits
<1> QED
  BY <1>1, <1>2, <1>3, PTL DEF Spec

=============================================================================
