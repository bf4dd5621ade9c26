----------------------------- MODULE RadioLink -----------------------------
(***************************************************************************)
(* The simulated radio link of UERANSIM: one UE, the gNBs of its search     *)
(* space, and what the link carries.  Every task of the UE and of the gNB   *)
(* is a thread with a FIFO queue of its own.  The UE's udp task keeps the   *)
(* cells it hears, its RRC task chooses one and connects to it, its NAS     *)
(* task starts registrations and service requests; a gNB knows a UE by the  *)
(* random number (sti) in its heartbeats.  No message is acknowledged.      *)
(* The relay tasks (ctl, rls) only pass messages on in order: the UE's are  *)
(* the queues up and down, the gNB's are part of the step that receives.    *)
(***************************************************************************)
EXTENDS Integers, Sequences, FiniteSets, SequencesExt, Functions

CONSTANTS Gnbs,        \* the gNBs of the search space
          Dbm,         \* the strength of each gNB's signal at the UE
          Shaky,       \* the gNBs whose link may go down
          MaxOutages,  \* bound: how often it does
          \* TRUE: a link may fail while a gNB serves the registered UE
          OutagesWhileServed

ASSUME SignalAssumption ==
    IsFiniteSet(Gnbs) /\ Dbm \in [Gnbs -> Int] /\ \A g \in Gnbs : Dbm[g] < 0
ASSUME BoundAssumption == MaxOutages \in Nat /\ OutagesWhileServed \in BOOLEAN

VARIABLES sti,         \* the UE's number, 1, 2, ... standing for random values
          cells,       \* UE udp task: gNB |-> [id, dbm, age]
          lastCell,    \* UE udp task: m_cellIdCounter
          up,          \* messages from the UE's udp task to RRC
          down,        \* messages from RRC to the UE's rls and ctl tasks
          serving,     \* UE ctl task: m_servingCell
          desc,        \* UE RRC: m_cellDesc, cell id |-> [dbm, si]
          current,     \* shared context: the cell the UE camps on, 0 is none
          rrc,         \* UE RRC: m_state
          initialNas,  \* UE RRC: m_initialNasPdu is not empty
          toRrc,       \* messages from NAS to RRC
          toNas,       \* messages from RRC to NAS
          mm, cm,      \* UE NAS: m_mmState, m_cmState
          waited,      \* UE NAS: a timer of some heartbeats may have fired
          link,        \* the gNBs the UE has a link to
          outages,     \* how often a link went down
          toGnb, toUe, \* datagrams in flight
          ids,         \* gNB: m_stiToUe
          ues,         \* gNB: m_ueMap, UE id |-> heartbeats since lastSeen
          ctx,         \* gNB: RRC and NGAP contexts, UE id |-> state
          announced    \* the gNBs that broadcast since the last heartbeat

ueVars  == <<sti, cells, lastCell, up, down, serving, desc, current, rrc,
             initialNas, toRrc, toNas, mm, cm, waited>>
airVars == <<link, outages, toGnb, toUe>>
gnbVars == <<ids, ues, ctx, announced>>
vars == <<ueVars, airVars, gnbVars>>

MinDbm == -120         \* below it a cell is out of reach (MIN_ALLOWED_DBM)
Lost == MinDbm - 1     \* the strength reported for a lost cell (INT32_MIN)
CellIds == {cells[g].id : g \in DOMAIN cells}
GnbOf(c) == CHOOSE g \in DOMAIN cells : cells[g].id = c

Uplink(t, n) == [type |-> t, sti |-> sti, nas |-> n]
ToCell(c, t, n) == [type |-> t, cell |-> c, nas |-> n]
Signal(c, d) == [type |-> "SIGNAL", cell |-> c, dbm |-> d]
Pdu(c, t) == [type |-> t, cell |-> c, dbm |-> 0]

Removed(f, S) == Restrict(f, DOMAIN f \ S)
Put(f, x, v) == [y \in DOMAIN f \cup {x} |-> IF y = x THEN v ELSE f[y]]

\* No message is on its way.
Settled ==
    /\ up = <<>> /\ down = <<>> /\ toRrc = <<>> /\ toNas = <<>>
    /\ \A g \in Gnbs : toGnb[g] = <<>> /\ toUe[g] = <<>>

Init ==
    /\ sti = 1 /\ cells = <<>> /\ lastCell = 0
    /\ up = <<>> /\ down = <<>> /\ serving = 0
    /\ desc = <<>> /\ current = 0 /\ rrc = "IDLE" /\ initialNas = FALSE
    /\ toRrc = <<>> /\ toNas = <<>>
    /\ mm = "DEREGISTERED" /\ cm = "IDLE" /\ waited = TRUE
    /\ link = Gnbs /\ outages = 0
    /\ toGnb = [g \in Gnbs |-> <<>>] /\ toUe = [g \in Gnbs |-> <<>>]
    /\ ids = [g \in Gnbs |-> <<>>] /\ ues = [g \in Gnbs |-> <<>>]
    /\ ctx = [g \in Gnbs |-> <<>>] /\ announced = {}

-----------------------------------------------------------------------------
(* The UE's udp task.  A cycle takes 1001 to 1200 ms and the threshold is   *)
(* 2000 ms: a cell not heard since the last cycle but one may be lost, one  *)
(* not heard for three cycles is.  A second is long for the tasks: what is  *)
(* on its way is handled before the next heartbeat (Settled), and a gNB's   *)
(* own cycle, as long, has dropped what is older than three heartbeats.     *)
AgedCells == [g \in DOMAIN cells |-> [cells[g] EXCEPT !.age = @ + 1]]

MayBeLost(age) == age >= 2
MustBeLost(age) == age >= 3

HeartbeatCycle(gone) ==
    /\ cells' = Removed(AgedCells, gone)
    /\ up' = up \o SetToSeq({Signal(cells[g].id, Lost) : g \in gone})

\* What a gNB makes of a heartbeat: an unknown sti gets the next UE id; the
\* system information is broadcast by another thread than the one that answers.
Hears(g) == g \in link /\ Dbm[g] >= MinDbm
UeId(g) == IF sti \in DOMAIN ids[g] THEN ids[g][sti] ELSE Cardinality(DOMAIN ids[g]) + 1
AgedUes(g) == [u \in DOMAIN ues[g] |-> ues[g][u] + 1]
Answers(g) ==
    IF ~Hears(g) THEN {<<>>}
    ELSE IF sti \in DOMAIN ids[g] THEN {<<"ACK">>} ELSE {<<"ACK", "SI">>, <<"SI", "ACK">>}

ReceiveHeartbeat ==
    /\ ids' = [g \in Gnbs |-> IF Hears(g) THEN Put(ids[g], sti, UeId(g)) ELSE ids[g]]
    /\ ues' = [g \in Gnbs |-> IF Hears(g) THEN Put(AgedUes(g), UeId(g), 0)
                                           ELSE AgedUes(g)]
    /\ toUe' \in {f \in [Gnbs -> UNION {Answers(g) : g \in Gnbs}] :
                    \A g \in Gnbs : f[g] \in Answers(g)}

\* Nothing is under way when the heartbeat leaves, so it is received first.
UeHeartbeat ==
    /\ Settled
    /\ \A g \in Gnbs : \A u \in DOMAIN ues[g] : ues[g][u] < 3
    /\ \E gone \in SUBSET {g \in DOMAIN cells : MayBeLost(AgedCells[g].age)} :
          /\ {g \in DOMAIN cells : MustBeLost(AgedCells[g].age)} \subseteq gone
          /\ HeartbeatCycle(gone)
    /\ ReceiveHeartbeat
    /\ announced' = {} /\ waited' = TRUE
    /\ UNCHANGED <<sti, lastCell, down, serving, desc, current, rrc, initialNas,
                   toRrc, toNas, mm, cm, link, outages, toGnb, ctx>>

\* Mutant of HeartbeatAck: the counter of the cell ids stands still.
HeartbeatAckUncounted(g) ==
    /\ cells' = Put(cells, g, [id |-> IF g \in DOMAIN cells THEN cells[g].id
                                      ELSE lastCell + 1,
                               dbm |-> Dbm[g], age |-> 0])
    /\ up' = IF g \in DOMAIN cells /\ cells[g].dbm = Dbm[g] THEN up
             ELSE Append(up, Signal(cells'[g].id, Dbm[g]))
    /\ UNCHANGED lastCell

\* A heartbeat's answer: a new cell gets the next id; RRC is told when the
\* strength is not the one it had.
HeartbeatAck(g) ==
    LET old == IF g \in DOMAIN cells THEN cells[g]
               ELSE [id |-> lastCell + 1, dbm |-> 0, age |-> 0] IN
    /\ cells' = Put(cells, g, [old EXCEPT !.dbm = Dbm[g], !.age = 0])
    /\ lastCell' = IF g \in DOMAIN cells THEN lastCell ELSE lastCell + 1
    /\ up' = IF old.dbm # Dbm[g] THEN Append(up, Signal(old.id, Dbm[g])) ELSE up

UeReceive(g) ==
    /\ toUe[g] # <<>>
    /\ toUe' = [toUe EXCEPT ![g] = Tail(@)]
    /\ LET msg == Head(toUe[g]) IN
       \/ msg = "ACK" /\ HeartbeatAck(g)
       \/ /\ msg # "ACK" /\ g \in DOMAIN cells
          /\ up' = Append(up, Pdu(cells[g].id, msg))
          /\ UNCHANGED <<cells, lastCell>>
       \/ msg # "ACK" /\ g \notin DOMAIN cells /\ UNCHANGED <<cells, lastCell, up>>
    /\ UNCHANGED <<sti, down, serving, desc, current, rrc, initialNas, toRrc,
                   toNas, mm, cm, waited, link, outages, toGnb, gnbVars>>

\* What RRC hands down: a new sti, the serving cell, or a message for a cell,
\* which is sent if the udp task still knows that cell.
UeSend ==
    /\ down # <<>>
    /\ down' = Tail(down)
    /\ LET m == Head(down) IN
       /\ sti' = IF m.type = "RESET_STI" THEN sti + 1 ELSE sti
       /\ serving' = IF m.type = "ASSIGN_CURRENT_CELL" THEN m.cell ELSE serving
       /\ LET sent == {g \in link \cap DOMAIN cells :
                          /\ m.type \notin {"RESET_STI", "ASSIGN_CURRENT_CELL"}
                          /\ cells[g].id = m.cell} IN
          toGnb' = [g \in Gnbs |-> IF g \in sent
                                   THEN Append(toGnb[g], Uplink(m.type, m.nas))
                                   ELSE toGnb[g]]
    /\ UNCHANGED <<cells, lastCell, up, desc, current, rrc, initialNas, toRrc,
                   toNas, mm, cm, waited, link, outages, toUe, gnbVars>>

-----------------------------------------------------------------------------
(* The UE's RRC task.                                                       *)

\* Mutant of CellLost: RRC leaves the cell but keeps its description.
CellLostKept(c) ==
    /\ IF c = current
       THEN /\ current' = 0 /\ rrc' = "IDLE"
            /\ toNas' = Append(toNas, IF rrc # "IDLE" THEN "RADIO_LINK_FAILURE"
                                      ELSE "ACTIVE_CELL_CHANGED")
       ELSE UNCHANGED <<current, rrc, toNas>>
    /\ UNCHANGED desc

\* The cell is lost: RRC leaves it, and NAS is told of a radio link failure or
\* of the change of cell.
CellLost(c) ==
    /\ desc' = Removed(desc, {c})
    /\ IF c = current
       THEN /\ current' = 0 /\ rrc' = "IDLE"
            /\ toNas' = Append(toNas, IF rrc # "IDLE" THEN "RADIO_LINK_FAILURE"
                                      ELSE "ACTIVE_CELL_CHANGED")
       ELSE UNCHANGED <<current, rrc, toNas>>

SignalChanged(c, dbm) ==
    /\ \/ dbm >= MinDbm
          /\ desc' = Put(desc, c, [dbm |-> dbm,
                                   si |-> c \in DOMAIN desc /\ desc[c].si])
          /\ UNCHANGED <<current, rrc, toNas>>
       \/ dbm < MinDbm /\ c \in DOMAIN desc /\ CellLost(c)
       \/ dbm < MinDbm /\ c \notin DOMAIN desc
          /\ UNCHANGED <<desc, current, rrc, toNas>>
    /\ UNCHANGED <<down, initialNas>>

\* The answer to a setup request completes the setup; nothing checks that a
\* request is outstanding.
ReceiveRrcSetup ==
    /\ down' = Append(down, ToCell(current, "SETUP_COMPLETE", initialNas))
    /\ initialNas' = FALSE /\ rrc' = "CONNECTED"
    /\ toNas' = Append(toNas, "RRC_CONNECTION_SETUP")
    /\ UNCHANGED <<desc, current>>

\* Mutant of ReceiveRrcRelease: NAS is told, RRC's state is left.
ReceiveRrcReleaseKept ==
    /\ toNas' = Append(toNas, "RRC_CONNECTION_RELEASE")
    /\ UNCHANGED <<rrc, down, initialNas, desc, current>>

ReceiveRrcRelease ==
    /\ rrc' = "IDLE"
    /\ toNas' = Append(toNas, "RRC_CONNECTION_RELEASE")
    /\ UNCHANGED <<down, initialNas, desc, current>>

HandleDownlinkRrc(c, type) ==
    \/ /\ type = "SI" /\ c \in DOMAIN desc
       /\ desc' = [desc EXCEPT ![c].si = TRUE]
       /\ UNCHANGED <<down, initialNas, current, rrc, toNas>>
    \/ type = "SETUP" /\ c \in DOMAIN desc /\ c = current /\ ReceiveRrcSetup
    \/ type = "RELEASE" /\ c \in DOMAIN desc /\ c = current /\ ReceiveRrcRelease
    \/ /\ type = "ACCEPT" /\ c \in DOMAIN desc /\ c = current
       /\ toNas' = Append(toNas, "ACCEPT")
       /\ UNCHANGED <<down, initialNas, desc, current, rrc>>
    \/ /\ c \notin DOMAIN desc \/ (type # "SI" /\ c # current)
       /\ UNCHANGED <<down, initialNas, desc, current, rrc, toNas>>

RrcFromRls ==
    /\ up # <<>>
    /\ up' = Tail(up)
    /\ LET m == Head(up) IN
       \/ m.type = "SIGNAL" /\ SignalChanged(m.cell, m.dbm)
       \/ m.type # "SIGNAL" /\ HandleDownlinkRrc(m.cell, m.type)
    /\ UNCHANGED <<sti, cells, lastCell, serving, toRrc, mm, cm, waited, airVars,
                   gnbVars>>

\* A NAS message: dropped without a cell, a setup request while idle, an
\* information transfer while connected.
DeliverUplinkNas ==
    /\ down' = IF current = 0 THEN down
               ELSE Append(down, ToCell(current,
                              IF rrc = "IDLE" THEN "SETUP_REQUEST"
                              ELSE "INFORMATION_TRANSFER", rrc # "IDLE"))
    /\ initialNas' = (initialNas \/ (current # 0 /\ rrc = "IDLE"))
    /\ UNCHANGED <<rrc, toNas>>

\* Mutant of LocalReleaseConnection: the UE keeps its number.
LocalReleaseConnectionSameSti ==
    /\ rrc' = "IDLE"
    /\ toNas' = Append(toNas, "RRC_CONNECTION_RELEASE")
    /\ UNCHANGED <<down, initialNas>>

LocalReleaseConnection ==
    /\ rrc' = "IDLE"
    /\ down' = Append(down, ToCell(0, "RESET_STI", FALSE))
    /\ toNas' = Append(toNas, "RRC_CONNECTION_RELEASE")
    /\ UNCHANGED initialNas

RrcFromNas ==
    /\ toRrc # <<>>
    /\ toRrc' = Tail(toRrc)
    /\ \/ Head(toRrc) = "UPLINK_NAS" /\ DeliverUplinkNas
       \/ Head(toRrc) = "LOCAL_RELEASE" /\ LocalReleaseConnection
    /\ UNCHANGED <<sti, cells, lastCell, up, serving, desc, current, mm, cm,
                   waited, airVars, gnbVars>>

\* The strongest of the cells whose system information is known, 0 for none.
Candidates == {c \in DOMAIN desc : desc[c].si}
SelectedCell ==
    IF Candidates = {} THEN 0
    ELSE CHOOSE c \in Candidates : \A d \in Candidates : desc[d].dbm <= desc[c].dbm

\* Mutant of PerformCellSelection: the ctl task is not told of a cell that
\* replaces another one.
PerformCellSelectionUnassigned ==
    /\ rrc = "IDLE" /\ SelectedCell # current
    /\ current' = SelectedCell
    /\ down' = IF current # 0 THEN down
               ELSE Append(down, ToCell(SelectedCell, "ASSIGN_CURRENT_CELL", FALSE))
    /\ toNas' = Append(toNas, "ACTIVE_CELL_CHANGED")
    /\ UNCHANGED <<sti, cells, lastCell, up, serving, desc, rrc, initialNas,
                   toRrc, mm, cm, waited, airVars, gnbVars>>

\* The cycle of an idle UE; one that leaves the cell as it is does nothing.
PerformCellSelection ==
    /\ rrc = "IDLE" /\ SelectedCell # current
    /\ current' = SelectedCell
    /\ down' = Append(down, ToCell(SelectedCell, "ASSIGN_CURRENT_CELL", FALSE))
    /\ toNas' = Append(toNas, "ACTIVE_CELL_CHANGED")
    /\ UNCHANGED <<sti, cells, lastCell, up, serving, desc, rrc, initialNas,
                   toRrc, mm, cm, waited, airVars, gnbVars>>

-----------------------------------------------------------------------------
(* The UE's NAS task.  "INITIATED" ends a state in which a procedure runs   *)
(* and its timer with it: T3510 for a registration, T3517 for a service     *)
(* request, 15 s each.                                                      *)

\* A registration whose connection goes is given up, to be tried again after
\* T3511, or at once after a radio link failure; a service request is not.
Aborted == IF mm = "REGISTRATION_INITIATED" /\ cm = "CONNECTED"
           THEN "DEREGISTERED" ELSE mm

\* The cell changed under a procedure that has no connection yet: the code
\* calls it a thing that should never happen, and gives the procedure up.
ActiveCellChanged ==
    IF cm = "CONNECTED" \/ mm \in {"REGISTERED", "DEREGISTERED"} THEN mm
    ELSE "DEREGISTERED"

NasReceive ==
    /\ toNas # <<>>
    /\ toNas' = Tail(toNas)
    /\ LET m == Head(toNas) IN
       \/ /\ m = "RRC_CONNECTION_SETUP"
          /\ cm' = "CONNECTED" /\ UNCHANGED <<mm, waited>>
       \/ /\ m \in {"RRC_CONNECTION_RELEASE", "RADIO_LINK_FAILURE"}
          /\ cm' = "IDLE" /\ mm' = Aborted
          /\ waited' = IF mm' # mm THEN m = "RADIO_LINK_FAILURE" ELSE waited
       \/ /\ m = "ACTIVE_CELL_CHANGED"
          /\ mm' = ActiveCellChanged
          /\ waited' = (waited \/ (mm' = "DEREGISTERED" /\ cm = "IDLE"))
          /\ UNCHANGED cm
       \/ /\ m = "ACCEPT"
          /\ mm' = IF mm = "DEREGISTERED" THEN mm ELSE "REGISTERED"
          /\ UNCHANGED <<cm, waited>>
    /\ UNCHANGED <<sti, cells, lastCell, up, down, serving, desc, current, rrc,
                   initialNas, toRrc, airVars, gnbVars>>

Initiate(procedure) ==
    /\ current # 0
    /\ mm' = procedure /\ waited' = FALSE
    /\ toRrc' = Append(toRrc, "UPLINK_NAS")
    /\ UNCHANGED <<sti, cells, lastCell, up, down, serving, desc, current, rrc,
                   initialNas, toNas, cm, airVars, gnbVars>>

SendInitialRegistration ==
    mm = "DEREGISTERED" /\ waited /\ Initiate("REGISTRATION_INITIATED")

SendServiceRequest ==
    mm = "REGISTERED" /\ cm = "IDLE" /\ Initiate("SERVICE_REQUEST_INITIATED")

\* The gNB serves the UE under this id, and the UE answers what it is sent.
Answering(g, u) ==
    /\ rrc = "CONNECTED" /\ g \in link /\ current \in CellIds
    /\ GnbOf(current) = g
    /\ sti \in DOMAIN ids[g] /\ ids[g][sti] = u

\* 15 s are long after the last message of the exchange, if it failed, and long
\* enough to lose a cell or a UE that is out of reach.
Unanswered ==
    /\ Settled /\ waited
    /\ \A g \in DOMAIN cells : cells[g].age = 0
    /\ \A g \in Gnbs : \A u \in DOMAIN ues[g] : ues[g][u] = 0
    /\ \A g \in Gnbs : \A u \in DOMAIN ctx[g] :
          ctx[g][u] = "ASKED" => ~Answering(g, u)

\* T3510: the registration is given up and the connection released locally;
\* the next attempt comes after T3511, when a heartbeat has been sent.
RegistrationExpires ==
    /\ mm = "REGISTRATION_INITIATED" /\ Unanswered
    /\ mm' = "DEREGISTERED" /\ waited' = FALSE
    /\ toRrc' = Append(toRrc, "LOCAL_RELEASE")
    /\ UNCHANGED <<sti, cells, lastCell, up, down, serving, desc, current, rrc,
                   initialNas, toNas, cm, airVars, gnbVars>>

\* T3517: the service request is given up, the connection is left alone.
ServiceRequestExpires ==
    /\ mm = "SERVICE_REQUEST_INITIATED" /\ Unanswered
    /\ mm' = "REGISTERED"
    /\ UNCHANGED <<sti, cells, lastCell, up, down, serving, desc, current, rrc,
                   initialNas, toRrc, toNas, cm, waited, airVars, gnbVars>>

-----------------------------------------------------------------------------
(* The gNB, but for the heartbeats.  A message whose sti it does not know is *)
(* dropped.                                                                 *)

\* A message to a UE id leaves if the udp task knows the id.
SendTo(g, u, msg) ==
    toUe' = IF g \in link /\ u \in DOMAIN ues[g]
            THEN [toUe EXCEPT ![g] = Append(@, msg)] ELSE toUe

\* Mutant of ReceiveSetupRequest: a UE id that has a context gets another one.
ReceiveSetupRequestAgain(g, u) ==
    ctx' = [ctx EXCEPT ![g] = Put(@, u, "SETUP")] /\ SendTo(g, u, "SETUP")

\* A setup request makes an RRC context unless the UE id has one.
ReceiveSetupRequest(g, u) ==
    IF u \in DOMAIN ctx[g] THEN UNCHANGED <<ctx, toUe>>
    ELSE ctx' = [ctx EXCEPT ![g] = Put(@, u, "SETUP")] /\ SendTo(g, u, "SETUP")

\* The first NAS message of a context makes the NGAP context and goes to the AMF.
ReceiveSetupComplete(g, u) ==
    /\ ctx' = IF u \in DOMAIN ctx[g] /\ ctx[g][u] = "SETUP"
              THEN [ctx EXCEPT ![g][u] = "ASKED"] ELSE ctx
    /\ UNCHANGED toUe

ReceiveInformationTransfer(g, u) ==
    /\ ctx' = IF u \in DOMAIN ctx[g] /\ ctx[g][u] # "SETUP"
              THEN [ctx EXCEPT ![g][u] = "ASKED"] ELSE ctx
    /\ UNCHANGED toUe

GnbReceive(g) ==
    /\ toGnb[g] # <<>>
    /\ toGnb' = [toGnb EXCEPT ![g] = Tail(@)]
    /\ LET m == Head(toGnb[g])
           known == m.sti \in DOMAIN ids[g] IN
       \/ /\ m.type = "SETUP_REQUEST" /\ known
          /\ ReceiveSetupRequest(g, ids[g][m.sti])
       \/ /\ m.type = "SETUP_COMPLETE" /\ known
          /\ ReceiveSetupComplete(g, ids[g][m.sti])
       \/ /\ m.type = "INFORMATION_TRANSFER" /\ known
          /\ ReceiveInformationTransfer(g, ids[g][m.sti])
       \/ ~known /\ UNCHANGED <<toUe, ctx>>
    /\ UNCHANGED <<ueVars, link, outages, ids, ues, announced>>

\* The gNB's cycle loses a UE.  The number under which it looks for the sti is
\* never set, so the sti keeps its id, and nobody is told but the log.
GnbLosesUe(g, u) ==
    /\ u \in DOMAIN ues[g] /\ MayBeLost(ues[g][u])
    /\ ues' = [ues EXCEPT ![g] = Removed(@, {u})]
    /\ UNCHANGED <<ueVars, airVars, ids, ctx, announced>>

\* The timer's broadcast; to a UE that has the system information it says
\* nothing new.
Broadcast(g) ==
    /\ g \notin announced /\ g \in link /\ DOMAIN ues[g] # {}
    /\ g \in DOMAIN cells
    /\ cells[g].id \in DOMAIN desc => ~desc[cells[g].id].si
    /\ announced' = announced \cup {g}
    /\ toUe' = [toUe EXCEPT ![g] = Append(@, "SI")]
    /\ UNCHANGED <<ueVars, link, outages, toGnb, ids, ues, ctx>>

\* No answer to a heartbeat is missing at the UE.
Heard(g) == cells[g].age = 0 \/ "ACK" \in Range(toUe[g])

\* The AMF accepts what a UE asked that answers its messages.
AmfAccepts(g, u) ==
    /\ u \in DOMAIN ctx[g] /\ ctx[g][u] = "ASKED" /\ Answering(g, u)
    /\ OutagesWhileServed \/ Heard(g)
    /\ ctx' = [ctx EXCEPT ![g][u] = "SERVED"]
    /\ SendTo(g, u, "ACCEPT")
    /\ UNCHANGED <<ueVars, link, outages, toGnb, ids, ues, announced>>

\* The gNB's part of a release: the contexts go, the UE is told, if the gNB has
\* not lost it.  A UE id the UE does not go by any more is lost before the AMF's
\* patience ends.
ReleaseContext(g, u) ==
    /\ u \in DOMAIN ues[g] => sti \in DOMAIN ids[g] /\ ids[g][sti] = u
    /\ ctx' = [ctx EXCEPT ![g] = Removed(@, {u})]
    /\ SendTo(g, u, "RELEASE")
    /\ UNCHANGED <<ueVars, link, outages, toGnb, ids, ues, announced>>

AmfReleases(g, u) ==
    /\ u \in DOMAIN ctx[g] /\ ctx[g][u] = "SERVED" /\ Settled
    /\ OutagesWhileServed \/ u \in DOMAIN ues[g]
    /\ ReleaseContext(g, u)

\* The AMF gives up a UE that does not answer.
AmfGivesUp(g, u) ==
    /\ u \in DOMAIN ctx[g] /\ ctx[g][u] = "ASKED" /\ ~Answering(g, u)
    /\ ReleaseContext(g, u)

-----------------------------------------------------------------------------
(* The radio: a link that fails loses what it carries.                      *)

AcceptUnderWay ==
    \/ "ACCEPT" \in Range(toNas) \/ \E g \in Gnbs : "ACCEPT" \in Range(toUe[g])
    \/ \E i \in DOMAIN up : up[i].type = "ACCEPT"

\* Nothing a gNB keeps of the registered UE can go stale.
NotServed ==
    \/ /\ mm \in {"DEREGISTERED", "REGISTRATION_INITIATED"}
       /\ \A g \in Gnbs : \A u \in DOMAIN ctx[g] : ctx[g][u] # "SERVED"
       /\ ~AcceptUnderWay
    \/ /\ mm = "REGISTERED" /\ cm = "IDLE" /\ rrc = "IDLE" /\ Settled
       /\ \A g \in Gnbs : DOMAIN ctx[g] = {}

LinkDown(g) ==
    /\ g \in link /\ outages < MaxOutages
    /\ OutagesWhileServed \/ NotServed
    /\ link' = link \ {g} /\ outages' = outages + 1
    /\ toGnb' = [toGnb EXCEPT ![g] = <<>>] /\ toUe' = [toUe EXCEPT ![g] = <<>>]
    /\ UNCHANGED <<ueVars, gnbVars>>

LinkUp(g) ==
    /\ g \notin link
    /\ link' = link \cup {g}
    /\ UNCHANGED <<ueVars, outages, toGnb, toUe, gnbVars>>

Handle ==
    \/ UeSend \/ RrcFromRls \/ RrcFromNas \/ NasReceive
    \/ \E g \in Gnbs : UeReceive(g) \/ GnbReceive(g)
Procedures ==
    SendInitialRegistration \/ SendServiceRequest \/ RegistrationExpires
        \/ ServiceRequestExpires
Losses == \E g \in Gnbs : \E u \in DOMAIN ues[g] : GnbLosesUe(g, u)
Broadcasts == \E g \in Gnbs : Broadcast(g)
Answer == \E g \in Gnbs : \E u \in DOMAIN ctx[g] : AmfAccepts(g, u) \/ AmfGivesUp(g, u)
Release == \E g \in Gnbs : \E u \in DOMAIN ctx[g] : AmfReleases(g, u)
Outage == \E g \in Shaky : LinkDown(g)
Repair == \E g \in Gnbs : LinkUp(g)

Next ==
    \/ Handle \/ UeHeartbeat \/ PerformCellSelection \/ Procedures
    \/ Losses \/ Broadcasts \/ Answer \/ Release \/ Outage \/ Repair

\* The tasks take what is in their queues and every timer fires; a link comes
\* back, the AMF answers, and there is something to send.  Nothing makes a link
\* fail or the AMF release.  T3510 and T3517 run for many heartbeats: they fire
\* although each heartbeat puts them off in the model.
Fairness ==
    /\ WF_vars(Handle) /\ WF_vars(UeHeartbeat) /\ WF_vars(PerformCellSelection)
    /\ WF_vars(SendInitialRegistration) /\ WF_vars(SendServiceRequest)
    /\ SF_vars(RegistrationExpires) /\ SF_vars(ServiceRequestExpires)
    /\ WF_vars(Losses) /\ WF_vars(Broadcasts) /\ WF_vars(Answer) /\ WF_vars(Repair)

Spec == Init /\ [][Next]_vars /\ Fairness

-----------------------------------------------------------------------------
\* What a gNB sends but for the answers to heartbeats, what a UE sends, and what
\* RRC tells NAS.
Downlinks == {"SI", "SETUP", "RELEASE", "ACCEPT"}
Uplinks == {"SETUP_REQUEST", "SETUP_COMPLETE", "INFORMATION_TRANSFER"}
Events == {"RRC_CONNECTION_SETUP", "RRC_CONNECTION_RELEASE", "RADIO_LINK_FAILURE",
           "ACTIVE_CELL_CHANGED", "ACCEPT"}
Strengths == MinDbm..(-1)
ToRrc == [type : Downlinks \cup {"SIGNAL"}, cell : 1..lastCell, dbm : Lost..0]
FromRrc == [type : Uplinks \cup {"RESET_STI", "ASSIGN_CURRENT_CELL"},
            cell : 0..lastCell, nas : BOOLEAN]
Datagrams == [type : Uplinks, sti : 1..sti, nas : BOOLEAN]

UdpTypes ==
    /\ sti \in Nat \ {0} /\ lastCell \in Nat /\ serving \in 0..lastCell
    /\ DOMAIN cells \subseteq Gnbs
    /\ cells \in [DOMAIN cells -> [id : 1..lastCell, dbm : Strengths, age : 0..2]]
RrcTypes ==
    /\ up \in Seq(ToRrc) /\ down \in Seq(FromRrc)
    /\ DOMAIN desc \subseteq 1..lastCell /\ current \in DOMAIN desc \cup {0}
    /\ desc \in [DOMAIN desc -> [dbm : MinDbm..0, si : BOOLEAN]]
    /\ rrc \in {"IDLE", "CONNECTED"} /\ initialNas \in BOOLEAN
NasTypes ==
    /\ toRrc \in Seq({"UPLINK_NAS", "LOCAL_RELEASE"}) /\ toNas \in Seq(Events)
    /\ mm \in {"DEREGISTERED", "REGISTRATION_INITIATED", "REGISTERED",
               "SERVICE_REQUEST_INITIATED"}
    /\ cm \in {"IDLE", "CONNECTED"} /\ waited \in BOOLEAN
AirTypes ==
    /\ link \subseteq Gnbs /\ outages \in 0..MaxOutages
    /\ toGnb \in [Gnbs -> Seq(Datagrams)] /\ toUe \in [Gnbs -> Seq(Downlinks \cup {"ACK"})]
GnbTypes ==
    /\ announced \subseteq Gnbs
    /\ DOMAIN ids = Gnbs /\ DOMAIN ues = Gnbs /\ DOMAIN ctx = Gnbs
    /\ \A g \in Gnbs :
          /\ DOMAIN ids[g] \subseteq 1..sti /\ ids[g] \in [DOMAIN ids[g] -> Nat]
          /\ DOMAIN ues[g] \subseteq Range(ids[g])
          /\ ues[g] \in [DOMAIN ues[g] -> 0..3]
          /\ DOMAIN ctx[g] \subseteq Range(ids[g])
          /\ ctx[g] \in [DOMAIN ctx[g] -> {"SETUP", "ASKED", "SERVED"}]

\* The types of the variables: what each task of the UE and of the gNB, and each
\* queue between them, may hold in each field.
TypeOK == UdpTypes /\ RrcTypes /\ NasTypes /\ AirTypes /\ GnbTypes

\* The cells RRC knows are those the udp task hears, but for the changes RRC has
\* not been told of yet: no cell stays behind in either.
CellsAgree ==
    \A c \in 1..lastCell :
        (\A i \in DOMAIN up : up[i].type = "SIGNAL" => up[i].cell # c)
            => (c \in DOMAIN desc <=> c \in CellIds)

\* When nothing is on its way to the ctl task, it serves the cell RRC camps on,
\* or a cell that is gone, to which it sends nothing.
ServingIsCurrent == down = <<>> => serving = current \/ serving \notin CellIds

\* A registered UE that is connected has an NGAP context at its gNB: what it
\* sends is passed on, and it can be released.
ConnectedIsServed ==
    Settled /\ rrc = "CONNECTED" /\ mm = "REGISTERED"
        => \E g \in Gnbs : \E u \in DOMAIN ctx[g] :
              Answering(g, u) /\ ctx[g][u] # "SETUP"

\* A setup is completed once for each NAS message: the one that completes it
\* carries the message.
SetupCarriesNas ==
    \A i \in DOMAIN down : down[i].type = "SETUP_COMPLETE" => down[i].nas

\* Unless the AMF releases the UE for ever, a procedure the UE starts ends with
\* the UE registered and connected, after whatever outages.
Reconnects ==
    \/ mm \in {"REGISTRATION_INITIATED", "SERVICE_REQUEST_INITIATED"}
         ~> mm = "REGISTERED" /\ cm = "CONNECTED"
    \/ []<><<Release>>_vars
=============================================================================
