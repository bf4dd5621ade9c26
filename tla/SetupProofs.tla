---------------------------- MODULE SetupProofs ----------------------------
(* Two theorems about RadioLink: every setup that is completed carries the   *)
(* NAS message it was asked for, and a registered UE that is connected is    *)
(* served by the gNB it is connected to.                                     *)
EXTENDS RadioProofs

-----------------------------------------------------------------------------
(* The invariant.  A setup is at most one message on its way round between   *)
(* the gNB that makes it and the UE (OneSetup), and the gNB waits for it.    *)
IsCell(c, g) == g \in DOMAIN cells /\ cells[g].id = c

\* The places a setup goes through, from the gNB to RRC and back.
Places == {"toUe", "up", "down", "toGnb"}
Token(g, k, i) ==
    \/ k = "toUe" /\ i \in DOMAIN toUe[g] /\ toUe[g][i] = "SETUP"
    \/ k = "up" /\ i \in DOMAIN up /\ up[i].type = "SETUP" /\ IsCell(up[i].cell, g)
    \/ k = "down" /\ i \in DOMAIN down /\ down[i].type = "SETUP_COMPLETE"
       /\ IsCell(down[i].cell, g)
    \/ k = "toGnb" /\ i \in DOMAIN toGnb[g] /\ toGnb[g][i].type = "SETUP_COMPLETE"
Pending(g) ==
    /\ sti \in DOMAIN ids[g] /\ ids[g][sti] \in DOMAIN ctx[g]
    /\ ctx[g][ids[g][sti]] = "SETUP"
OneSetup ==
    \A g \in Gnbs : \A k, l \in Places : \A i, j \in Nat :
        Token(g, k, i) => Pending(g) /\ (Token(g, l, j) => k = l /\ i = j)

\* A link that is down carries nothing to its gNB, what RRC has not read came
\* from cells that are heard, and what a gNB has not read has the UE's number.
Severed == \A g \in Gnbs : g \notin link => toGnb[g] = <<>>
PdusHeard == \A i \in DOMAIN up : up[i].type # "SIGNAL" => up[i].cell \in CellIds
OneNumber == \A g \in Gnbs : \A i \in DOMAIN toGnb[g] : toGnb[g][i].sti = sti

\* The number changes only while no setup is under way, asked for or made.
NoSetup ==
    /\ \A g \in Gnbs : toGnb[g] = <<>> /\ \A i \in DOMAIN toUe[g] : toUe[g][i] # "SETUP"
    /\ \A i \in DOMAIN up : up[i].type # "SETUP"
Releasing ==
    \A i \in DOMAIN toRrc : toRrc[i] = "LOCAL_RELEASE" =>
        /\ i = 1 /\ NoSetup
        /\ \A j \in DOMAIN down : down[j].type = "ASSIGN_CURRENT_CELL"
Renumbering ==
    \A i \in DOMAIN down : down[i].type = "RESET_STI" =>
        /\ NoSetup
        /\ \A j \in DOMAIN toRrc : toRrc[j] # "LOCAL_RELEASE"
        /\ \A j \in DOMAIN down :
              /\ j < i => down[j].type = "ASSIGN_CURRENT_CELL"
              /\ j > i => down[j].type # "RESET_STI"
              /\ down[j].type # "SETUP_COMPLETE"

\* No release overtakes a setup, or follows it.
SetupLast ==
    \A g \in Gnbs :
        /\ \A i, j \in DOMAIN toUe[g] : i < j /\ toUe[g][i] = "SETUP" => toUe[g][j] # "RELEASE"
        /\ \A i \in DOMAIN up : up[i].type = "SETUP" /\ IsCell(up[i].cell, g) =>
              /\ \A j \in DOMAIN toUe[g] : toUe[g][j] # "RELEASE"
              /\ \A j \in DOMAIN up : i < j /\ IsCell(up[j].cell, g) => up[j].type # "RELEASE"

\* While a setup is asked for or made, RRC has the NAS message it is for, or is
\* connected to a gNB that neither makes one for what it is still to read, as the
\* completion follows it, nor releases the UE.
Asking ==
    \/ \E i \in DOMAIN down : down[i].type = "SETUP_REQUEST"
    \/ \E i \in DOMAIN up : up[i].type = "SETUP"
    \/ \E g \in Gnbs : \/ \E i \in DOMAIN toGnb[g] : toGnb[g][i].type = "SETUP_REQUEST"
                       \/ \E i \in DOMAIN toUe[g] : toUe[g][i] = "SETUP"
Answered(g) ==
    /\ \A i \in DOMAIN down : down[i].type = "SETUP_REQUEST" /\ IsCell(down[i].cell, g)
          => \E j \in DOMAIN down : j > i /\ Token(g, "down", j)
    /\ \A i \in DOMAIN toGnb[g] : toGnb[g][i].type = "SETUP_REQUEST"
          => \/ \E j \in DOMAIN toGnb[g] : j > i /\ Token(g, "toGnb", j)
             \/ \E j \in DOMAIN down : Token(g, "down", j)
Quiet(g) ==
    /\ \A i \in DOMAIN toUe[g] : toUe[g][i] \notin {"RELEASE", "SETUP"}
    /\ \A i \in DOMAIN up : IsCell(up[i].cell, g) => up[i].type \notin {"RELEASE", "SETUP"}
Connected(g) == rrc = "CONNECTED" /\ IsCell(current, g) /\ Quiet(g) /\ Answered(g)
Kept == Asking => initialNas \/ \E g \in Gnbs : Connected(g)

SetupInv ==
    /\ OneSetup /\ Severed /\ PdusHeard /\ OneNumber /\ Releasing /\ Renumbering
    /\ SetupLast /\ Kept /\ SetupCarriesNas

-----------------------------------------------------------------------------
(* Queues.                                                                  *)
LEMMA Longer ==
    ASSUME NEW S, NEW s \in Seq(S), NEW x, NEW t, t = Append(s, x)
    PROVE  /\ Len(s) \in Nat /\ DOMAIN s = 1..Len(s) /\ DOMAIN t = 1..Len(s) + 1
           /\ \A i \in DOMAIN s : i \in DOMAIN t /\ t[i] = s[i]
           /\ t[Len(s) + 1] = x
OBVIOUS

LEMMA Shorter ==
    ASSUME NEW S, NEW s \in Seq(S), s # <<>>, NEW t, t = Tail(s)
    PROVE  /\ Len(s) \in Nat \ {0} /\ DOMAIN s = 1..Len(s) /\ DOMAIN t = 1..Len(s) - 1
           /\ \A i \in DOMAIN t : i + 1 \in DOMAIN s /\ t[i] = s[i + 1]
           /\ \A i \in DOMAIN s : i > 1 => i - 1 \in DOMAIN t /\ t[i - 1] = s[i]
           /\ 1 \in DOMAIN s /\ Head(s) = s[1]
OBVIOUS

LEMMA QueueTypes ==
    ASSUME TypeOK
    PROVE  /\ up \in Seq(ToRrc) /\ down \in Seq(FromRrc)
           /\ toRrc \in Seq({"UPLINK_NAS", "LOCAL_RELEASE"})
           /\ \A g \in Gnbs : /\ toGnb[g] \in Seq(Datagrams)
                              /\ toUe[g] \in Seq(Downlinks \cup {"ACK"})
BY DEF TypeOK, RrcTypes, NasTypes, AirTypes

LEMMA QueuePositions ==
    ASSUME TypeOK
    PROVE  /\ DOMAIN up \subseteq Nat /\ DOMAIN down \subseteq Nat /\ DOMAIN toRrc \subseteq Nat
           /\ \A g \in Gnbs : DOMAIN toGnb[g] \subseteq Nat /\ DOMAIN toUe[g] \subseteq Nat
           /\ DOMAIN <<>> = {}
<1>1. \A S : \A s \in Seq(S) : DOMAIN s \subseteq Nat
  OBVIOUS
<1>2. DOMAIN <<>> = {}
  OBVIOUS
<1> QED
  BY <1>1, <1>2, QueueTypes

-----------------------------------------------------------------------------
(* What the parts of the invariant read.                                    *)
LEMMA TokensSame ==
    ASSUME UNCHANGED <<toUe, up, down, toGnb, cells>>
    PROVE  \A g, k, i : Token(g, k, i)' <=> Token(g, k, i)
BY DEF Token, IsCell

\* Fewer setups under way, and a gNB that goes on waiting for those there are.
LEMMA OneSetupKept ==
    ASSUME OneSetup,
           \A g \in Gnbs : \A k \in Places : \A i \in Nat : Token(g, k, i)' => Token(g, k, i),
           \A g \in Gnbs : Pending(g) /\ (\E k \in Places : \E i \in Nat : Token(g, k, i))
               => Pending(g)'
    PROVE  OneSetup'
<1> SUFFICES ASSUME NEW g \in Gnbs, NEW k \in Places, NEW l \in Places, NEW i \in Nat,
                    NEW j \in Nat, Token(g, k, i)'
             PROVE  Pending(g)' /\ (Token(g, l, j)' => k = l /\ i = j)
  BY DEF OneSetup
<1>1. Token(g, k, i) /\ Pending(g)
  BY DEF OneSetup
<1> QED
  BY <1>1 DEF OneSetup

LEMMA PendingKept ==
    ASSUME NEW g, Pending(g), UNCHANGED <<sti, ids, ctx>>
    PROVE  Pending(g)'
BY DEF Pending

LEMMA PdusKept ==
    ASSUME PdusHeard, UNCHANGED <<up, cells>>
    PROVE  PdusHeard'
BY DEF PdusHeard, CellIds

LEMMA ReleaseKept ==
    ASSUME Releasing, Renumbering, UNCHANGED <<toRrc, down>>, NoSetup => NoSetup'
    PROVE  Releasing' /\ Renumbering'
BY DEF Releasing, Renumbering

LEMMA NoSetupKept ==
    ASSUME NoSetup, UNCHANGED <<toGnb, toUe, up>>
    PROVE  NoSetup'
BY DEF NoSetup

LEMMA SetupLastKept ==
    ASSUME SetupLast, UNCHANGED <<toUe, up, cells>>
    PROVE  SetupLast'
BY DEF SetupLast, IsCell

LEMMA KeptKept ==
    ASSUME Kept, Asking' => Asking, initialNas => initialNas',
           \A g \in Gnbs : Connected(g) /\ Asking => Connected(g)'
    PROVE  Kept'
BY DEF Kept

LEMMA QuietKept ==
    ASSUME NEW g, Quiet(g), UNCHANGED <<toUe, up, cells>>
    PROVE  Quiet(g)'
BY DEF Quiet, IsCell

LEMMA AnsweredKept ==
    ASSUME NEW g, Answered(g), UNCHANGED <<down, toGnb, cells>>
    PROVE  Answered(g)'
BY DEF Answered, IsCell, Token

LEMMA AskingSame ==
    ASSUME UNCHANGED <<down, up, toGnb, toUe>>
    PROVE  Asking' <=> Asking
BY DEF Asking

\* A step that touches nothing of this: the queue to RRC may grow by a message of
\* NAS, and a link may come back.
LEMMA SetupSame ==
    ASSUME TypeOK, SetupInv, link \subseteq link',
           UNCHANGED <<sti, cells, up, down, current, rrc, initialNas, toGnb, toUe, ids, ctx>>,
           toRrc' = toRrc \/ toRrc' = Append(toRrc, "UPLINK_NAS")
    PROVE  SetupInv'
<1>1. OneSetup'
  BY TokensSame, PendingKept, OneSetupKept DEF SetupInv
<1>2. Severed' /\ PdusHeard' /\ OneNumber' /\ SetupLast' /\ SetupCarriesNas'
  BY PdusKept, SetupLastKept DEF SetupInv, Severed, OneNumber, SetupCarriesNas
<1>3. Releasing' /\ Renumbering'
  <2>1. CASE toRrc' = toRrc
    BY <2>1, ReleaseKept, NoSetupKept DEF SetupInv
  <2>2. CASE toRrc' = Append(toRrc, "UPLINK_NAS")
    <3>1. \A i \in DOMAIN toRrc' : \/ i \in DOMAIN toRrc /\ toRrc'[i] = toRrc[i]
                                   \/ toRrc'[i] = "UPLINK_NAS"
      BY <2>2, QueueTypes, Longer
    <3> QED BY <3>1, NoSetupKept DEF SetupInv, Releasing, Renumbering
  <2> QED BY <2>1, <2>2
<1>4. \A g \in Gnbs : Connected(g) => Connected(g)'
  BY QuietKept, AnsweredKept DEF Connected, IsCell
<1>5. Kept'
  BY <1>4, AskingSame, KeptKept DEF SetupInv
<1> QED
  BY <1>1, <1>2, <1>3, <1>5 DEF SetupInv

LEMMA SetupInit ==
    ASSUME Init
    PROVE  SetupInv
<1> USE DEF Init
<1>1. OneSetup
  BY DEF OneSetup, Token
<1>2. Severed /\ PdusHeard /\ OneNumber /\ Releasing /\ Renumbering /\ SetupLast
  BY DEF Severed, PdusHeard, OneNumber, Releasing, Renumbering, SetupLast
<1>3. Kept /\ SetupCarriesNas
  BY DEF Kept, Asking, SetupCarriesNas
<1> QED
  BY <1>1, <1>2, <1>3 DEF SetupInv

\* Steps of others.
LEMMA SetupOthers ==
    ASSUME TypeOK, SetupInv,
           \/ NasReceive \/ Losses \/ Repair \/ ServiceRequestExpires
           \/ SendInitialRegistration \/ SendServiceRequest \/ UNCHANGED vars
    PROVE  SetupInv'
<1>1. link \subseteq link'
      /\ UNCHANGED <<sti, cells, up, down, current, rrc, initialNas, toGnb, toUe, ids, ctx>>
      /\ (toRrc' = toRrc \/ toRrc' = Append(toRrc, "UPLINK_NAS"))
  <2>1. CASE NasReceive \/ UNCHANGED vars
    BY <2>1 DEF NasReceive, vars, ueVars, airVars, gnbVars
  <2>2. CASE Losses \/ Repair
    BY <2>2 DEF Losses, GnbLosesUe, Repair, LinkUp, ueVars, airVars, gnbVars
  <2>3. CASE ServiceRequestExpires \/ SendInitialRegistration \/ SendServiceRequest
    BY <2>3 DEF ServiceRequestExpires, SendInitialRegistration, SendServiceRequest, Initiate,
       airVars, gnbVars
  <2> QED BY <2>1, <2>2, <2>3
<1> QED
  BY <1>1, SetupSame

\* T3510 expires when nothing is on its way.
LEMMA SetupExpires ==
    ASSUME TypeOK, SetupInv, RegistrationExpires
    PROVE  SetupInv'
<1>1. /\ Settled /\ toRrc' = Append(<<>>, "LOCAL_RELEASE")
      /\ UNCHANGED <<sti, cells, up, down, current, rrc, initialNas, toGnb, toUe, ids, ctx, link>>
  BY DEF RegistrationExpires, Unanswered, Settled, airVars, gnbVars
<1>2. up = <<>> /\ down = <<>> /\ \A g \in Gnbs : toGnb[g] = <<>> /\ toUe[g] = <<>>
  BY <1>1 DEF Settled
<1>3. NoSetup' /\ ~Asking'
  BY <1>1, <1>2 DEF NoSetup, Asking
<1>4. OneSetup'
  BY <1>1, TokensSame, PendingKept, OneSetupKept DEF SetupInv
<1>5. Severed' /\ PdusHeard' /\ OneNumber' /\ SetupLast' /\ SetupCarriesNas'
  BY <1>1, PdusKept, SetupLastKept DEF SetupInv, Severed, OneNumber, SetupCarriesNas
<1>6. Releasing' /\ Renumbering'
  <2>1. toRrc' = <<"LOCAL_RELEASE">> /\ DOMAIN toRrc' = {1}
    BY <1>1
  <2> QED BY <1>1, <1>2, <1>3, <2>1 DEF Releasing, Renumbering
<1>7. Kept'
  BY <1>3 DEF Kept
<1> QED
  BY <1>4, <1>5, <1>6, <1>7 DEF SetupInv

\* What a heartbeat puts on its way.
LEMMA HeartbeatSays ==
    ASSUME TypeOK, SignalAssumption, UeHeartbeat
    PROVE  /\ \A i \in DOMAIN up' : up'[i].type = "SIGNAL"
           /\ \A g \in Gnbs : \A i \in DOMAIN toUe'[g] : toUe'[g][i] \in {"ACK", "SI"}
<1>1. PICK gone \in SUBSET (DOMAIN cells) : HeartbeatCycle(gone)
  BY DEF UeHeartbeat
<1>2. \A i \in DOMAIN up' : up'[i].type = "SIGNAL"
  <2> DEFINE T == {Signal(cells[g].id, Lost) : g \in gone}
  <2>1. SetToSeq(T) \in Seq(T)
    BY LostSignals DEF TypeOK, UdpTypes, SignalAssumption
  <2>2. \A x \in T : x.type = "SIGNAL"
    BY DEF Signal
  <2>3. up' = <<>> \o SetToSeq(T)
    BY <1>1 DEF HeartbeatCycle, UeHeartbeat, Settled
  <2> HIDE DEF T
  <2>4. up' \in Seq(T)
    BY <2>1, <2>3
  <2>5. \A i \in DOMAIN up' : up'[i] \in T
    BY <2>4
  <2> QED BY <2>2, <2>5
<1>3. ASSUME NEW g \in Gnbs, NEW i \in DOMAIN toUe'[g] PROVE toUe'[g][i] \in {"ACK", "SI"}
  <2>1. toUe'[g] \in {<<>>, <<"ACK">>, <<"ACK", "SI">>, <<"SI", "ACK">>}
    BY DEF UeHeartbeat, ReceiveHeartbeat, Answers
  <2> QED BY <2>1
<1> QED
  BY <1>2, <1>3

\* A heartbeat leaves when nothing is on its way.
LEMMA SetupHeartbeat ==
    ASSUME TypeOK, SetupInv, SignalAssumption, UeHeartbeat
    PROVE  SetupInv'
<1>1. /\ up = <<>> /\ down = <<>> /\ toRrc = <<>> /\ \A g \in Gnbs : toGnb[g] = <<>>
      /\ UNCHANGED <<down, toRrc, toGnb, link>>
  BY DEF UeHeartbeat, Settled
<1>3. /\ \A i \in DOMAIN up' : up'[i].type = "SIGNAL"
      /\ \A g \in Gnbs : \A i \in DOMAIN toUe'[g] : toUe'[g][i] \in {"ACK", "SI"}
  BY HeartbeatSays
<1>5. NoSetup' /\ ~Asking'
  BY <1>1, <1>3 DEF NoSetup, Asking
<1>6. OneSetup'
  <2>1. DOMAIN down' = {} /\ \A g \in Gnbs : DOMAIN toGnb'[g] = {}
    BY <1>1
  <2>2. ASSUME NEW g \in Gnbs, NEW k, NEW i PROVE ~Token(g, k, i)'
    BY <1>3, <2>1 DEF Token
  <2> QED BY <2>2 DEF OneSetup
<1>7. Severed' /\ PdusHeard' /\ OneNumber'
  BY <1>1, <1>3 DEF Severed, PdusHeard, OneNumber
<1>8. Releasing' /\ Renumbering' /\ SetupCarriesNas'
  BY <1>1 DEF Releasing, Renumbering, SetupCarriesNas
<1>9. SetupLast'
  BY <1>3 DEF SetupLast
<1>10. Kept'
  BY <1>5 DEF Kept
<1> QED
  BY <1>6, <1>7, <1>8, <1>9, <1>10 DEF SetupInv

-----------------------------------------------------------------------------
(* What the gNBs send on their own: none of it is a setup, and a release goes *)
(* only to a UE that is not being set up.                                    *)
LEMMA SetupSent ==
    ASSUME TypeOK, SetupInv, NEW g \in Gnbs, NEW msg \in {"SI", "ACCEPT", "RELEASE"},
           \/ toUe' = toUe
           \/ /\ toUe' = [toUe EXCEPT ![g] = Append(@, msg)]
              /\ msg = "RELEASE" => ~Pending(g) /\ ~(Asking /\ Connected(g)),
           \A h \in Gnbs : Pending(h) => Pending(h)',
           UNCHANGED <<sti, cells, up, down, current, rrc, initialNas, toRrc, toGnb, link>>
    PROVE  SetupInv'
<1>1. ASSUME NEW h \in Gnbs
      PROVE  /\ \A i \in DOMAIN toUe'[h] :
                  \/ i \in DOMAIN toUe[h] /\ toUe'[h][i] = toUe[h][i]
                  \/ /\ h = g /\ toUe'[h][i] = msg /\ \A j \in DOMAIN toUe[h] : j < i
                     /\ msg = "RELEASE" => ~Pending(g) /\ ~(Asking /\ Connected(g))
  <2>1. CASE toUe'[h] = toUe[h]
    BY <2>1
  <2>2. CASE /\ h = g /\ toUe'[h] = Append(toUe[h], msg)
             /\ msg = "RELEASE" => ~Pending(g) /\ ~(Asking /\ Connected(g))
    <3> DEFINE n == Len(toUe[h])
    <3>1. /\ n \in Nat /\ DOMAIN toUe[h] = 1..n /\ DOMAIN toUe'[h] = 1..n + 1
          /\ \A i \in 1..n : toUe'[h][i] = toUe[h][i]
          /\ toUe'[h][n + 1] = msg
      BY <2>2, QueueTypes, Longer
    <3> HIDE DEF n
    <3> QED BY <2>2, <3>1
  <2> QED BY <2>1, <2>2 DEF TypeOK, AirTypes
<1>2. \A h \in Gnbs : \A k, i : Token(h, k, i)' => Token(h, k, i)
  BY <1>1 DEF Token, IsCell
<1>3. OneSetup'
  BY <1>2, OneSetupKept DEF SetupInv
<1>4. Severed' /\ PdusHeard' /\ OneNumber' /\ SetupCarriesNas'
  BY PdusKept DEF SetupInv, Severed, OneNumber, SetupCarriesNas
<1>5. NoSetup => NoSetup'
  BY <1>1 DEF NoSetup
<1>6. Releasing' /\ Renumbering'
  BY <1>5, ReleaseKept DEF SetupInv
<1>7. SetupLast'
  <2>1. ASSUME NEW h \in Gnbs, NEW i \in DOMAIN toUe'[h], NEW j \in DOMAIN toUe'[h],
               i < j, toUe'[h][i] = "SETUP", toUe'[h][j] = "RELEASE"
        PROVE  FALSE
    <3>1. i \in DOMAIN toUe[h] /\ toUe[h][i] = "SETUP" /\ i \in Nat
      BY <1>1, <2>1, QueuePositions
    <3>2. Token(h, "toUe", i) /\ Pending(h)
      BY <3>1 DEF Token, Places, SetupInv, OneSetup
    <3>3. j \in DOMAIN toUe[h] /\ toUe[h][j] = "RELEASE"
      BY <1>1, <2>1, <3>2
    <3> QED BY <2>1, <3>1, <3>3 DEF SetupInv, SetupLast
  <2>2. ASSUME NEW h \in Gnbs, NEW i \in DOMAIN up, up[i].type = "SETUP", IsCell(up[i].cell, h),
               NEW j \in DOMAIN toUe'[h], toUe'[h][j] = "RELEASE"
        PROVE  FALSE
    <3>1. Token(h, "up", i) /\ i \in Nat
      BY <2>2, QueuePositions DEF Token
    <3>2. Pending(h)
      BY <3>1 DEF SetupInv, OneSetup, Places
    <3>3. j \in DOMAIN toUe[h] /\ toUe[h][j] = "RELEASE"
      BY <1>1, <2>2, <3>2
    <3> QED BY <2>2, <3>3 DEF SetupInv, SetupLast
  <2> QED BY <2>1, <2>2 DEF SetupLast, SetupInv, IsCell
<1>8. Asking' => Asking
  BY <1>1 DEF Asking
<1>9. ASSUME NEW h \in Gnbs, Connected(h), Asking PROVE Connected(h)'
  <2>1. ASSUME NEW i \in DOMAIN toUe'[h] PROVE toUe'[h][i] \notin {"RELEASE", "SETUP"}
    BY <1>1, <1>9 DEF Connected, Quiet
  <2>2. Quiet(h)'
    BY <1>9, <2>1 DEF Connected, Quiet, IsCell
  <2> QED BY <1>9, <2>2, AnsweredKept DEF Connected, IsCell
<1>10. Kept'
  BY <1>8, <1>9, KeptKept DEF SetupInv
<1> QED
  BY <1>3, <1>4, <1>6, <1>7, <1>10 DEF SetupInv

\* A UE that is connected to a gNB answers it.
LEMMA ConnectedAnswers ==
    ASSUME CellsInv, NEW g \in Gnbs, Connected(g), g \in link, sti \in DOMAIN ids[g]
    PROVE  Answering(g, ids[g][sti])
<1>1. current \in CellIds /\ g \in DOMAIN cells /\ cells[g].id = current
  BY DEF Connected, IsCell, CellIds
<1>2. GnbOf(current) = g
  BY <1>1 DEF GnbOf, CellsInv, CellsDistinct
<1> QED
  BY <1>1, <1>2 DEF Answering, Connected

LEMMA SetupBroadcast ==
    ASSUME TypeOK, SetupInv, NEW g \in Gnbs, Broadcast(g)
    PROVE  SetupInv'
<1>1. /\ toUe' = [toUe EXCEPT ![g] = Append(@, "SI")]
      /\ UNCHANGED <<sti, cells, up, down, current, rrc, initialNas, toRrc, toGnb, link, ids, ctx>>
  BY DEF Broadcast, ueVars
<1> QED
  BY <1>1, PendingKept, SetupSent

LEMMA SetupAmf ==
    ASSUME TypeOK, CellsInv, SetupInv, NEW g \in Gnbs, NEW u \in DOMAIN ctx[g],
           AmfAccepts(g, u) \/ AmfGivesUp(g, u) \/ AmfReleases(g, u)
    PROVE  SetupInv'
<1>1. /\ UNCHANGED <<sti, cells, up, down, current, rrc, initialNas, toRrc, toGnb, link, ids>>
      /\ ctx[g][u] # "SETUP"
      /\ \/ ctx' = [ctx EXCEPT ![g][u] = "SERVED"]
         \/ ctx' = [ctx EXCEPT ![g] = Removed(@, {u})]
  BY DEF AmfAccepts, AmfGivesUp, AmfReleases, ReleaseContext, ueVars
<1>2. ASSUME NEW h \in Gnbs, Pending(h) PROVE Pending(h)'
  <2> DEFINE v == ids[h][sti]
  <2>1. v \in DOMAIN ctx[h] /\ ctx[h][v] = "SETUP" /\ (h = g => v # u)
    BY <1>1, <1>2 DEF Pending
  <2>2. v \in DOMAIN ctx'[h] /\ ctx'[h][v] = "SETUP"
    <3> HIDE DEF v
    <3>1. CASE ctx' = [ctx EXCEPT ![g][u] = "SERVED"]
      BY <2>1, <3>1 DEF TypeOK, GnbTypes
    <3>2. CASE ctx' = [ctx EXCEPT ![g] = Removed(@, {u})]
      BY <2>1, <3>2 DEF TypeOK, GnbTypes, Removed, Restrict
    <3> QED BY <1>1, <3>1, <3>2
  <2> QED BY <1>1, <1>2, <2>2 DEF Pending
<1>3. CASE AmfAccepts(g, u)
  <2>1. toUe' = toUe \/ toUe' = [toUe EXCEPT ![g] = Append(@, "ACCEPT")]
    BY <1>3 DEF AmfAccepts, SendTo
  <2> QED BY <1>1, <1>2, <2>1, SetupSent
<1>4. CASE AmfGivesUp(g, u) \/ AmfReleases(g, u)
  <2>1. \/ toUe' = toUe
        \/ /\ toUe' = [toUe EXCEPT ![g] = Append(@, "RELEASE")]
           /\ g \in link /\ u \in DOMAIN ues[g]
    BY <1>4 DEF AmfGivesUp, AmfReleases, ReleaseContext, SendTo
  <2>2. ASSUME g \in link, u \in DOMAIN ues[g]
        PROVE  ~Pending(g) /\ ~(Asking /\ Connected(g))
    <3>1. sti \in DOMAIN ids[g] /\ ids[g][sti] = u
      BY <1>4, <2>2 DEF AmfGivesUp, AmfReleases, ReleaseContext
    <3>2. ~Pending(g)
      BY <1>1, <3>1 DEF Pending
    <3>3. ~(Asking /\ Connected(g))
      <4>1. CASE AmfReleases(g, u)
        BY <4>1 DEF AmfReleases, Settled, Asking
      <4>2. CASE AmfGivesUp(g, u)
        BY <2>2, <3>1, <4>2, ConnectedAnswers DEF AmfGivesUp
      <4> QED BY <1>4, <4>1, <4>2
    <3> QED BY <3>2, <3>3
  <2> QED BY <1>1, <1>2, <2>1, <2>2, SetupSent
<1> QED
  BY <1>3, <1>4

-----------------------------------------------------------------------------
(* A link that goes down takes what it carries with it.                     *)
LEMMA SetupLinkDown ==
    ASSUME TypeOK, SetupInv, NEW g \in Gnbs, LinkDown(g)
    PROVE  SetupInv'
<1>1. /\ link' = link \ {g} /\ DOMAIN toGnb'[g] = {} /\ DOMAIN toUe'[g] = {} /\ toGnb'[g] = <<>>
      /\ \A h \in Gnbs \ {g} : toGnb'[h] = toGnb[h] /\ toUe'[h] = toUe[h]
      /\ UNCHANGED <<sti, cells, up, down, current, rrc, initialNas, toRrc, ids, ctx>>
  BY DEF LinkDown, TypeOK, AirTypes, ueVars, gnbVars
<1>2. ASSUME NEW h \in Gnbs, NEW k, NEW i, Token(h, k, i)' PROVE Token(h, k, i)
  BY <1>1, <1>2 DEF Token, IsCell
<1>3. OneSetup'
  BY <1>1, <1>2, PendingKept, OneSetupKept DEF SetupInv
<1>4. PdusHeard' /\ SetupCarriesNas'
  BY <1>1, PdusKept DEF SetupInv, SetupCarriesNas
<1>5. Severed' /\ OneNumber'
  BY <1>1 DEF SetupInv, Severed, OneNumber
<1>6. NoSetup => NoSetup'
  BY <1>1 DEF NoSetup
<1>7. Releasing' /\ Renumbering'
  BY <1>1, <1>6, ReleaseKept DEF SetupInv
<1>8. SetupLast'
  BY <1>1 DEF SetupInv, SetupLast, IsCell
<1>9. Asking' => Asking
  BY <1>1 DEF Asking
<1>10. ASSUME NEW h \in Gnbs, Connected(h) PROVE Connected(h)'
  <2>1. Quiet(h)'
    BY <1>1, <1>10 DEF Connected, Quiet, IsCell
  <2>2. Answered(h)'
    BY <1>1, <1>10 DEF Connected, Answered, IsCell, Token
  <2> QED BY <1>1, <1>10, <2>1, <2>2 DEF Connected, IsCell
<1>11. Kept'
  BY <1>1, <1>9, <1>10, KeptKept DEF SetupInv
<1> QED
  BY <1>3, <1>4, <1>5, <1>7, <1>8, <1>11 DEF SetupInv

-----------------------------------------------------------------------------
(* What a gNB makes of a message.                                           *)
LEMMA GnbTaken ==
    ASSUME TypeOK, NEW g \in Gnbs, toGnb[g] # <<>>, toGnb' = [toGnb EXCEPT ![g] = Tail(@)]
    PROVE  /\ \A h \in Gnbs \ {g} : toGnb'[h] = toGnb[h]
           /\ 1 \in DOMAIN toGnb[g] /\ Head(toGnb[g]) = toGnb[g][1]
           /\ \A i \in DOMAIN toGnb'[g] : i \in Nat \ {0} /\ i + 1 \in DOMAIN toGnb[g]
                                          /\ toGnb'[g][i] = toGnb[g][i + 1]
           /\ \A i \in DOMAIN toGnb[g] : i > 1 => i - 1 \in DOMAIN toGnb'[g]
                                                  /\ toGnb'[g][i - 1] = toGnb[g][i]
<1>1. toGnb[g] \in Seq(Datagrams) /\ toGnb'[g] = Tail(toGnb[g])
      /\ \A h \in Gnbs \ {g} : toGnb'[h] = toGnb[h]
  BY DEF TypeOK, AirTypes
<1>2. Len(toGnb[g]) \in Nat /\ DOMAIN toGnb'[g] = 1..Len(toGnb[g]) - 1
  BY <1>1, Shorter
<1> QED
  BY <1>1, <1>2, Shorter

\* It reads one and makes no setup; if it was a completion, none is under way.
LEMMA SetupPassed ==
    ASSUME TypeOK, SetupInv, NEW g \in Gnbs, toGnb[g] # <<>>,
           toGnb' = [toGnb EXCEPT ![g] = Tail(@)],
           UNCHANGED <<ueVars, link, ids, toUe>>,
           \A h \in Gnbs : Pending(h) => Pending(h)' \/ (h = g /\ Token(g, "toGnb", 1))
    PROVE  SetupInv'
<1>0. /\ \A h \in Gnbs \ {g} : toGnb'[h] = toGnb[h]
      /\ 1 \in DOMAIN toGnb[g]
      /\ \A i \in DOMAIN toGnb'[g] : i \in Nat \ {0} /\ i + 1 \in DOMAIN toGnb[g]
                                     /\ toGnb'[g][i] = toGnb[g][i + 1]
      /\ \A i \in DOMAIN toGnb[g] : i > 1 => i - 1 \in DOMAIN toGnb'[g]
                                             /\ toGnb'[g][i - 1] = toGnb[g][i]
      /\ UNCHANGED <<sti, cells, up, down, current, rrc, initialNas, toRrc>>
  BY GnbTaken DEF ueVars
<1>1. ASSUME NEW h \in Gnbs, NEW k \in Places, NEW i \in Nat, Token(h, k, i)'
      PROVE  \/ (h # g \/ k # "toGnb") /\ Token(h, k, i)
             \/ h = g /\ k = "toGnb" /\ i # 0 /\ Token(g, k, i + 1)
  <2>1. CASE h = g /\ k = "toGnb"
    BY <1>1, <2>1, <1>0 DEF Token, Places
  <2>2. CASE ~(h = g /\ k = "toGnb")
    BY <1>1, <2>2, <1>0 DEF Token, IsCell
  <2> QED BY <2>1, <2>2
<1>2. OneSetup'
  <2> SUFFICES ASSUME NEW h \in Gnbs, NEW k \in Places, NEW l \in Places, NEW i \in Nat,
                      NEW j \in Nat, Token(h, k, i)'
               PROVE  Pending(h)' /\ (Token(h, l, j)' => k = l /\ i = j)
    BY DEF OneSetup
  <2> DEFINE F(p, n) == IF h = g /\ p = "toGnb" THEN n + 1 ELSE n
  <2>1. Token(h, k, F(k, i)) /\ F(k, i) \in Nat
    BY <1>1
  <2>2. Token(h, l, j)' => Token(h, l, F(l, j)) /\ F(l, j) \in Nat
    BY <1>1
  <2>3. Pending(h) /\ (Token(h, l, j)' => k = l /\ F(k, i) = F(l, j))
    <3> HIDE DEF F
    <3> QED BY <2>1, <2>2 DEF SetupInv, OneSetup
  <2>4. ~(h = g /\ Token(g, "toGnb", 1))
    <3>1. ASSUME h = g, Token(g, "toGnb", 1) PROVE k = "toGnb" /\ F(k, i) = 1
      <4> HIDE DEF F
      <4> QED BY <2>1, <3>1 DEF SetupInv, OneSetup, Places
    <3>2. k = "toGnb" /\ h = g => i # 0
      BY <1>1
    <3> QED BY <3>1, <3>2
  <2> QED BY <2>3, <2>4
<1>3. PdusHeard' /\ SetupCarriesNas' /\ SetupLast'
  BY <1>0, PdusKept, SetupLastKept DEF SetupInv, SetupCarriesNas
<1>4. Severed'
  <2>1. g \in link
    BY DEF SetupInv, Severed
  <2> QED BY <2>1, <1>0 DEF SetupInv, Severed
<1>5. OneNumber'
  BY <1>0 DEF SetupInv, OneNumber
<1>6. Releasing' /\ Renumbering'
  <2>1. ~NoSetup
    BY DEF NoSetup
  <2> QED BY <1>0, <2>1, ReleaseKept DEF SetupInv
<1>7. Asking' => Asking
  <2>1. ASSUME NEW h \in Gnbs, NEW i \in DOMAIN toGnb'[h], toGnb'[h][i].type = "SETUP_REQUEST"
        PROVE  \E j \in DOMAIN toGnb[h] : toGnb[h][j].type = "SETUP_REQUEST"
    BY <2>1, <1>0
  <2> QED BY <1>0, <2>1 DEF Asking
<1>8. ASSUME NEW h \in Gnbs, Connected(h) PROVE Connected(h)'
  <2>1. Quiet(h)'
    BY <1>0, <1>8, QuietKept DEF Connected
  <2>2. Answered(h)'
    <3>1. CASE h # g
      BY <1>8, <3>1, <1>0 DEF Connected, Answered, IsCell, Token
    <3>2. CASE h = g
      <4>1. ASSUME NEW i \in DOMAIN toGnb'[g], toGnb'[g][i].type = "SETUP_REQUEST"
            PROVE  \/ \E j \in DOMAIN toGnb'[g] : j > i /\ Token(g, "toGnb", j)'
                   \/ \E j \in DOMAIN down' : Token(g, "down", j)'
        <5>1. i + 1 \in DOMAIN toGnb[g] /\ toGnb[g][i + 1].type = "SETUP_REQUEST" /\ i \in Nat
          BY <4>1, <1>0
        <5>2. CASE \E j \in DOMAIN down : Token(g, "down", j)
          BY <1>0, <5>2 DEF Token, IsCell
        <5>3. CASE \E j \in DOMAIN toGnb[g] : j > i + 1 /\ Token(g, "toGnb", j)
          <6>1. PICK j \in DOMAIN toGnb[g] : j > i + 1 /\ Token(g, "toGnb", j)
            BY <5>3
          <6>2. j \in Nat
            BY QueuePositions
          <6>3. j > 1 /\ j - 1 > i
            BY <5>1, <6>1, <6>2
          <6>4. j - 1 \in DOMAIN toGnb'[g] /\ toGnb'[g][j - 1] = toGnb[g][j]
            BY <1>0, <6>1, <6>3
          <6> QED BY <6>1, <6>3, <6>4 DEF Token
        <5> QED BY <1>8, <3>2, <5>1, <5>2, <5>3 DEF Connected, Answered
      <4> QED BY <1>0, <1>8, <3>2, <4>1 DEF Connected, Answered, IsCell, Token
    <3> QED BY <3>1, <3>2
  <2> QED BY <1>0, <1>8, <2>1, <2>2 DEF Connected, IsCell
<1>9. Kept'
  BY <1>0, <1>7, <1>8, KeptKept DEF SetupInv
<1> QED
  BY <1>2, <1>3, <1>4, <1>5, <1>6, <1>9 DEF SetupInv

\* It makes a setup: none was under way, and RRC is not connected to it.
LEMMA SetupMade ==
    ASSUME TypeOK, SetupInv, NEW g \in Gnbs, toGnb[g] # <<>>,
           toGnb' = [toGnb EXCEPT ![g] = Tail(@)],
           Head(toGnb[g]).type = "SETUP_REQUEST", sti \in DOMAIN ids[g],
           ids[g][sti] \notin DOMAIN ctx[g],
           ctx' = [ctx EXCEPT ![g] = Put(@, ids[g][sti], "SETUP")],
           SendTo(g, ids[g][sti], "SETUP"), UNCHANGED <<ueVars, link, ids>>
    PROVE  SetupInv'
<1> DEFINE n == Len(toUe[g])
<1>1. /\ \A h \in Gnbs \ {g} : toGnb'[h] = toGnb[h]
      /\ 1 \in DOMAIN toGnb[g] /\ toGnb[g][1].type = "SETUP_REQUEST"
      /\ \A i \in DOMAIN toGnb'[g] : i + 1 \in DOMAIN toGnb[g] /\ toGnb'[g][i] = toGnb[g][i + 1]
      /\ UNCHANGED <<sti, cells, up, down, current, rrc, initialNas, toRrc>>
  BY GnbTaken DEF ueVars
<1>2. /\ n \in Nat /\ \A h \in Gnbs \ {g} : toUe'[h] = toUe[h]
      /\ \A i \in DOMAIN toUe'[g] : \/ i \in DOMAIN toUe[g] /\ toUe'[g][i] = toUe[g][i]
                                    \/ /\ i = n + 1 /\ toUe'[g][i] = "SETUP"
                                       /\ \A j \in DOMAIN toUe'[g] : j <= i
  <2>1. CASE toUe' = toUe
    BY <2>1, QueueTypes
  <2>2. CASE toUe' = [toUe EXCEPT ![g] = Append(@, "SETUP")]
    <3>1. toUe'[g] = Append(toUe[g], "SETUP") /\ \A h \in Gnbs \ {g} : toUe'[h] = toUe[h]
      BY <2>2 DEF TypeOK, AirTypes
    <3>2. /\ n \in Nat /\ DOMAIN toUe[g] = 1..n /\ DOMAIN toUe'[g] = 1..n + 1
          /\ \A i \in 1..n : toUe'[g][i] = toUe[g][i]
          /\ toUe'[g][n + 1] = "SETUP"
      BY <3>1, QueueTypes, Longer
    <3> HIDE DEF n
    <3> QED BY <3>1, <3>2
  <2> QED BY <2>1, <2>2 DEF SendTo
<1> HIDE DEF n
<1>3. ~Pending(g) /\ Pending(g)'
  BY <1>1 DEF Pending, Put, TypeOK, GnbTypes
<1>4. \A k \in Places : \A i \in Nat : ~Token(g, k, i)
  BY <1>3 DEF SetupInv, OneSetup
<1>5. \A h \in Gnbs \ {g} : Pending(h)' <=> Pending(h)
  BY <1>1 DEF Pending, TypeOK, GnbTypes
<1>6. ASSUME NEW h \in Gnbs \ {g}, NEW k \in Places, NEW i \in Nat
      PROVE  Token(h, k, i)' <=> Token(h, k, i)
  BY <1>1, <1>2 DEF Token, IsCell
<1>7. ASSUME NEW k \in Places, NEW i \in Nat, Token(g, k, i)' PROVE k = "toUe" /\ i = n + 1
  <2>1. CASE k = "toUe"
    <3>1. ~(i \in DOMAIN toUe[g] /\ toUe[g][i] = "SETUP")
      BY <1>4, <2>1 DEF Token
    <3> QED BY <1>2, <1>7, <2>1, <3>1 DEF Token
  <2>2. CASE k = "up" \/ k = "down"
    BY <1>1, <1>4, <1>7, <2>2 DEF Token, IsCell
  <2>3. CASE k = "toGnb"
    <3>1. i + 1 \in Nat /\ Token(g, "toGnb", i + 1)
      BY <1>1, <1>7, <2>3 DEF Token
    <3> QED BY <1>4, <2>3, <3>1
  <2> QED BY <2>1, <2>2, <2>3 DEF Places
<1>8. OneSetup'
  <2> SUFFICES ASSUME NEW h \in Gnbs, NEW k \in Places, NEW l \in Places, NEW i \in Nat,
                      NEW j \in Nat, Token(h, k, i)'
               PROVE  Pending(h)' /\ (Token(h, l, j)' => k = l /\ i = j)
    BY DEF OneSetup
  <2>1. CASE h = g
    BY <1>3, <1>7, <2>1
  <2>2. CASE h # g
    BY <1>5, <1>6, <2>2 DEF SetupInv, OneSetup
  <2> QED BY <2>1, <2>2
<1>9. PdusHeard' /\ SetupCarriesNas'
  BY <1>1, PdusKept DEF SetupInv, SetupCarriesNas
<1>10. Severed' /\ OneNumber'
  <2>1. g \in link
    BY DEF SetupInv, Severed
  <2> QED BY <1>1, <2>1 DEF SetupInv, Severed, OneNumber
<1>11. Releasing' /\ Renumbering'
  <2>1. ~NoSetup
    BY DEF NoSetup
  <2> QED BY <1>1, <2>1, ReleaseKept DEF SetupInv
<1>12. SetupLast'
  <2>1. ASSUME NEW i \in DOMAIN toUe'[g], NEW j \in DOMAIN toUe'[g], i < j, toUe'[g][i] = "SETUP"
        PROVE  FALSE
    <3>1. i \in DOMAIN toUe[g] /\ toUe[g][i] = "SETUP"
      <4>1. i \in Nat /\ j \in Nat
        BY <2>1, QueuePositions, <1>2
      <4> QED BY <1>2, <2>1, <4>1
    <3> QED BY <1>4, <3>1, QueuePositions DEF Token, Places
  <2>2. ASSUME NEW i \in DOMAIN up, up[i].type = "SETUP", IsCell(up[i].cell, g) PROVE FALSE
    BY <1>4, <2>2, QueuePositions DEF Token, Places
  <2> QED BY <1>1, <1>2, <2>1, <2>2 DEF SetupInv, SetupLast, IsCell
<1>13. Asking
  BY <1>1 DEF Asking
<1>14. ~Connected(g)
  <2> SUFFICES ASSUME Answered(g) PROVE FALSE
    BY DEF Connected
  <2>1. \/ \E j \in DOMAIN toGnb[g] : Token(g, "toGnb", j)
        \/ \E j \in DOMAIN down : Token(g, "down", j)
    BY <1>1 DEF Answered
  <2> QED BY <1>4, <2>1, QueuePositions DEF Places
<1>15. ASSUME NEW h \in Gnbs, Connected(h) PROVE Connected(h)'
  <2>1. h \in Gnbs \ {g}
    BY <1>14, <1>15
  <2>2. Quiet(h)'
    BY <1>1, <1>2, <1>15, <2>1 DEF Connected, Quiet, IsCell
  <2>3. Answered(h)'
    BY <1>1, <1>15, <2>1 DEF Connected, Answered, IsCell, Token
  <2> QED BY <1>1, <1>15, <2>2, <2>3 DEF Connected, IsCell
<1>16. Kept'
  BY <1>1, <1>13, <1>15, KeptKept DEF SetupInv
<1> QED
  BY <1>8, <1>9, <1>10, <1>11, <1>12, <1>16 DEF SetupInv

LEMMA SetupGnb ==
    ASSUME TypeOK, SetupInv, NEW g \in Gnbs, GnbReceive(g)
    PROVE  SetupInv'
<1> DEFINE m == Head(toGnb[g])
           u == ids[g][sti]
<1>1. /\ toGnb[g] # <<>> /\ toGnb' = [toGnb EXCEPT ![g] = Tail(@)]
      /\ UNCHANGED <<ueVars, link, ids>>
  BY DEF GnbReceive
<1>2. m.sti = sti /\ 1 \in DOMAIN toGnb[g] /\ m = toGnb[g][1]
  <2>1. 1 \in DOMAIN toGnb[g] /\ m = toGnb[g][1]
    BY <1>1, GnbTaken
  <2>2. toGnb[g][1].sti = sti
    BY <2>1 DEF SetupInv, OneNumber
  <2> QED BY <2>1, <2>2
<1>3. sti' = sti
  BY <1>1 DEF ueVars
<1>4. CASE UNCHANGED <<ctx, toUe>>
  BY <1>1, <1>3, <1>4, PendingKept, SetupPassed
<1>5. CASE /\ m.type = "SETUP_REQUEST" /\ sti \in DOMAIN ids[g] /\ u \notin DOMAIN ctx[g]
           /\ ctx' = [ctx EXCEPT ![g] = Put(@, u, "SETUP")] /\ SendTo(g, u, "SETUP")
  BY <1>1, <1>5, SetupMade
<1>6. CASE /\ m.type \in {"SETUP_COMPLETE", "INFORMATION_TRANSFER"} /\ u \in DOMAIN ctx[g]
           /\ ctx' = [ctx EXCEPT ![g][u] = "ASKED"] /\ UNCHANGED toUe
           /\ m.type = "INFORMATION_TRANSFER" => ctx[g][u] # "SETUP"
  <2>1. ASSUME NEW h \in Gnbs, Pending(h)
        PROVE  Pending(h)' \/ (h = g /\ Token(g, "toGnb", 1))
    <3>1. CASE h = g
      <4>1. m.type = "SETUP_COMPLETE"
        BY <1>6, <2>1, <3>1 DEF Pending
      <4> QED BY <1>2, <3>1, <4>1 DEF Token
    <3>2. CASE h # g
      BY <1>1, <1>3, <1>6, <2>1, <3>2 DEF Pending, TypeOK, GnbTypes
    <3> QED BY <3>1, <3>2
  <2> QED BY <1>1, <1>6, <2>1, SetupPassed
<1> QED
  BY <1>2, <1>4, <1>5, <1>6 DEF GnbReceive, ReceiveSetupRequest, ReceiveSetupComplete,
     ReceiveInformationTransfer

-----------------------------------------------------------------------------
(* What the UE's udp task makes of a datagram.                              *)
LEMMA UeTaken ==
    ASSUME TypeOK, NEW g \in Gnbs, toUe[g] # <<>>, toUe' = [toUe EXCEPT ![g] = Tail(@)]
    PROVE  /\ \A h \in Gnbs \ {g} : toUe'[h] = toUe[h]
           /\ 1 \in DOMAIN toUe[g] /\ Head(toUe[g]) = toUe[g][1]
           /\ \A i \in DOMAIN toUe'[g] : i \in Nat \ {0} /\ i + 1 \in DOMAIN toUe[g]
                                          /\ toUe'[g][i] = toUe[g][i + 1]
<1>1. toUe[g] \in Seq(Downlinks \cup {"ACK"}) /\ toUe'[g] = Tail(toUe[g])
      /\ \A h \in Gnbs \ {g} : toUe'[h] = toUe[h]
  BY DEF TypeOK, AirTypes
<1>2. Len(toUe[g]) \in Nat /\ DOMAIN toUe'[g] = 1..Len(toUe[g]) - 1
  BY <1>1, Shorter
<1> QED
  BY <1>1, <1>2, Shorter

\* No id that is in a message, or that RRC knows, is given to another cell.
LEMMA CellsStay ==
    ASSUME TypeOK, NEW g \in Gnbs, HeartbeatAck(g) \/ UNCHANGED cells
    PROVE  /\ \A h : \A c \in 0..lastCell : IsCell(c, h)' <=> IsCell(c, h)
           /\ CellIds \subseteq CellIds'
<1>1. CASE UNCHANGED cells
  BY <1>1 DEF IsCell, CellIds
<1>2. CASE HeartbeatAck(g)
  <2>1. /\ DOMAIN cells' = DOMAIN cells \cup {g}
        /\ \A h \in DOMAIN cells : cells'[h].id = cells[h].id
        /\ g \notin DOMAIN cells => cells'[g].id = lastCell + 1
    <3>1. ASSUME NEW h \in DOMAIN cells PROVE cells'[h].id = cells[h].id
      BY <1>2, <3>1, CellHeard
    <3> QED BY <1>2, <3>1, CellHeard
  <2>2. \A c \in 0..lastCell : c # lastCell + 1
    BY DEF TypeOK, UdpTypes
  <2> QED BY <2>1, <2>2 DEF IsCell, CellIds
<1> QED
  BY <1>1, <1>2

\* What the udp task tells RRC: at most one message more, from the cell it hears.
UpGrows(g, n) ==
    /\ DOMAIN up = 1..n
    /\ \A i \in DOMAIN up : i \in DOMAIN up' /\ up'[i] = up[i] /\ up[i].cell \in 0..lastCell
    /\ \A i \in DOMAIN up' : i \in DOMAIN up \/ i = n + 1
    /\ n + 1 \in DOMAIN up' =>
          \/ up'[n + 1].type = "SIGNAL"
          \/ /\ Head(toUe[g]) # "ACK" /\ up'[n + 1].type = Head(toUe[g])
             /\ up'[n + 1].cell \in 0..lastCell /\ IsCell(up'[n + 1].cell, g)

LEMMA UpReceived ==
    ASSUME TypeOK, NEW g \in Gnbs, UeReceive(g)
    PROVE  \E n \in Nat : UpGrows(g, n)
<1> DEFINE msg == Head(toUe[g])
           n == Len(up)
<1>1. up \in Seq(ToRrc) /\ \A i \in DOMAIN up : up[i].cell \in 0..lastCell
  BY QueueTypes, UpTyped
<1>2. CASE UNCHANGED up
  <2>1. n \in Nat /\ DOMAIN up = 1..n /\ n + 1 \notin DOMAIN up
    BY <1>1
  <2> QED BY <1>1, <1>2, <2>1 DEF UpGrows
<1>3. CASE \E x : up' = Append(up, x) /\ x.type = "SIGNAL"
  <2>1. PICK x : up' = Append(up, x) /\ x.type = "SIGNAL"
    BY <1>3
  <2>2. /\ n \in Nat /\ DOMAIN up = 1..n /\ DOMAIN up' = 1..n + 1
        /\ \A i \in DOMAIN up : i \in DOMAIN up' /\ up'[i] = up[i]
        /\ up'[n + 1] = x
    BY <1>1, <2>1, Longer
  <2> HIDE DEF n
  <2> QED BY <1>1, <2>1, <2>2 DEF UpGrows
<1>4. CASE msg # "ACK" /\ g \in DOMAIN cells /\ up' = Append(up, Pdu(cells[g].id, msg))
  <2> DEFINE x == Pdu(cells[g].id, msg)
  <2>1. x.type = msg /\ x.cell = cells[g].id /\ x.cell \in 0..lastCell
    BY <1>4 DEF Pdu, TypeOK, UdpTypes
  <2> HIDE DEF x
  <2>2. up' = Append(up, x)
    BY <1>4 DEF x
  <2>3. /\ n \in Nat /\ DOMAIN up = 1..n /\ DOMAIN up' = 1..n + 1
        /\ \A i \in DOMAIN up : i \in DOMAIN up' /\ up'[i] = up[i]
        /\ up'[n + 1] = x
    BY <1>1, <2>2, Longer
  <2> HIDE DEF n
  <2> QED BY <1>1, <1>4, <2>1, <2>3 DEF IsCell, UpGrows
<1>5. \/ UNCHANGED up
      \/ \E x : up' = Append(up, x) /\ x.type = "SIGNAL"
      \/ msg # "ACK" /\ g \in DOMAIN cells /\ up' = Append(up, Pdu(cells[g].id, msg))
  BY DEF UeReceive, HeartbeatAck, Signal
<1> QED
  BY <1>2, <1>3, <1>4, <1>5

\* A message that RRC has of a cell comes from where the cell is, as before.
LEMMA PduReceived ==
    ASSUME TypeOK, CellsInv, NEW g \in Gnbs, UeReceive(g), NEW n \in Nat, UpGrows(g, n)
    PROVE  \A h, c : \A i \in DOMAIN up' :
             c = up'[i].cell /\ IsCell(c, h)' /\ up'[i].type # "SIGNAL" =>
               \/ i \in DOMAIN up /\ up'[i] = up[i] /\ IsCell(up[i].cell, h)
               \/ i = n + 1 /\ h = g /\ up'[i].type = toUe[g][1]
<1> USE DEF UpGrows
<1>1. \A h : \A c \in 0..lastCell : IsCell(c, h)' <=> IsCell(c, h)
  BY CellsStay DEF UeReceive
<1>2. Head(toUe[g]) = toUe[g][1]
  BY UeTaken DEF UeReceive
<1> SUFFICES ASSUME NEW h, NEW c, NEW i \in DOMAIN up', c = up'[i].cell, IsCell(c, h)',
                    up'[i].type # "SIGNAL"
             PROVE  \/ i \in DOMAIN up /\ up'[i] = up[i] /\ IsCell(up[i].cell, h)
                    \/ i = n + 1 /\ h = g /\ up'[i].type = toUe[g][1]
  OBVIOUS
<1>3. CASE i \in DOMAIN up
  <2>1. up'[i] = up[i] /\ c \in 0..lastCell
    BY <1>3
  <2>2. IsCell(c, h)
    BY <1>1, <2>1
  <2> QED BY <1>3, <2>1, <2>2
<1>4. CASE i = n + 1
  <2>1. up'[i].type = toUe[g][1] /\ c \in 0..lastCell /\ IsCell(c, g)
    BY <1>2, <1>4
  <2>2. IsCell(c, h)
    BY <1>1, <2>1
  <2>3. h = g
    BY <2>1, <2>2 DEF IsCell, CellsInv, CellsDistinct
  <2> QED BY <1>4, <2>1, <2>3
<1> QED
  BY <1>3, <1>4

LEMMA TokensReceived ==
    ASSUME TypeOK, CellsInv, NEW g \in Gnbs, UeReceive(g), NEW n \in Nat, UpGrows(g, n)
    PROVE  \A h \in Gnbs : \A k \in Places : \A i \in Nat : Token(h, k, i)' =>
             \/ k = "toUe" /\ h = g /\ i # 0 /\ Token(g, "toUe", i + 1)
             \/ k = "up" /\ i = n + 1 /\ h = g /\ Token(g, "toUe", 1)
             \/ (k # "toUe" \/ h # g) /\ (k # "up" \/ i # n + 1) /\ Token(h, k, i)
<1>0. \A h, c : \A i \in DOMAIN up' :
        c = up'[i].cell /\ IsCell(c, h)' /\ up'[i].type # "SIGNAL" =>
           \/ i \in DOMAIN up /\ up'[i] = up[i] /\ IsCell(up[i].cell, h)
           \/ i = n + 1 /\ h = g /\ up'[i].type = toUe[g][1]
  BY PduReceived
<1> USE DEF UpGrows
<1> DEFINE msg == Head(toUe[g])
<1>1. /\ toUe[g] # <<>> /\ toUe' = [toUe EXCEPT ![g] = Tail(@)]
      /\ UNCHANGED <<down, toGnb>>
  BY DEF UeReceive, gnbVars
<1>2. /\ \A h \in Gnbs \ {g} : toUe'[h] = toUe[h]
      /\ 1 \in DOMAIN toUe[g] /\ msg = toUe[g][1]
      /\ \A i \in DOMAIN toUe'[g] : i \in Nat \ {0} /\ i + 1 \in DOMAIN toUe[g]
                                     /\ toUe'[g][i] = toUe[g][i + 1]
  BY <1>1, UeTaken
<1>3. \A h : \A c \in 0..lastCell : IsCell(c, h)' <=> IsCell(c, h)
  BY CellsStay DEF UeReceive
<1>4. \A i \in DOMAIN down : down[i].cell \in 0..lastCell
  BY DownTyped
<1>5. ASSUME NEW h \in Gnbs, NEW k \in Places, NEW i \in Nat, Token(h, k, i)'
      PROVE  \/ k = "toUe" /\ h = g /\ i # 0 /\ Token(g, "toUe", i + 1)
             \/ k = "up" /\ i = n + 1 /\ h = g /\ Token(g, "toUe", 1)
             \/ (k # "toUe" \/ h # g) /\ (k # "up" \/ i # n + 1) /\ Token(h, k, i)
  <2>1. CASE k = "toUe"
    BY <1>2, <1>5, <2>1 DEF Token
  <2>2. CASE k = "up" /\ i = n + 1
    <3>1. n + 1 \in DOMAIN up' /\ up'[n + 1].type = "SETUP"
      BY <1>5, <2>2 DEF Token
    <3>2. PICK c : c = up'[n + 1].cell /\ IsCell(c, h)'
      BY <1>5, <2>2 DEF Token, IsCell
    <3>3. h = g /\ msg = "SETUP"
      <4>1. n + 1 \notin DOMAIN up
        OBVIOUS
      <4> QED BY <1>0, <1>2, <3>1, <3>2, <4>1
    <3> QED BY <1>2, <2>2, <3>3 DEF Token
  <2>3. CASE k = "up" /\ i # n + 1
    <3>1. i \in DOMAIN up /\ up'[i] = up[i] /\ up[i].cell \in 0..lastCell
      BY <1>5, <2>3 DEF Token
    <3>0. PICK c : c = up[i].cell
      OBVIOUS
    <3>2. up[i].type = "SETUP" /\ IsCell(c, h)'
      BY <1>5, <2>3, <3>0, <3>1 DEF Token, IsCell
    <3>3. c \in 0..lastCell /\ IsCell(c, h)
      BY <1>3, <3>0, <3>1, <3>2
    <3> QED BY <2>3, <3>0, <3>1, <3>2, <3>3 DEF Token
  <2>4. CASE k = "down"
    <3>1. i \in DOMAIN down /\ down[i].type = "SETUP_COMPLETE" /\ down[i].cell \in 0..lastCell
      BY <1>1, <1>4, <1>5, <2>4 DEF Token
    <3>0. PICK c : c = down[i].cell
      OBVIOUS
    <3>2. IsCell(c, h)'
      BY <1>1, <1>5, <2>4, <3>0, <3>1 DEF Token, IsCell
    <3>3. c \in 0..lastCell /\ IsCell(c, h)
      BY <1>3, <3>0, <3>1, <3>2
    <3> QED BY <2>4, <3>0, <3>1, <3>3 DEF Token
  <2>5. CASE k = "toGnb"
    BY <1>1, <1>5, <2>5 DEF Token
  <2> QED BY <2>1, <2>2, <2>3, <2>4, <2>5 DEF Places
<1> QED
  BY <1>5

LEMMA SetupReceived ==
    ASSUME TypeOK, CellsInv, SetupInv, NEW g \in Gnbs, UeReceive(g)
    PROVE  SetupInv'
<1> DEFINE msg == Head(toUe[g])
<1>1. /\ toUe[g] # <<>> /\ toUe' = [toUe EXCEPT ![g] = Tail(@)]
      /\ UNCHANGED <<sti, down, current, rrc, initialNas, toRrc, toGnb, link, ids, ctx>>
  BY DEF UeReceive, gnbVars
<1>2. /\ \A h \in Gnbs \ {g} : toUe'[h] = toUe[h]
      /\ 1 \in DOMAIN toUe[g] /\ msg = toUe[g][1]
      /\ \A i \in DOMAIN toUe'[g] : i \in Nat \ {0} /\ i + 1 \in DOMAIN toUe[g]
                                     /\ toUe'[g][i] = toUe[g][i + 1]
  BY <1>1, UeTaken
<1>3. /\ \A h : \A c \in 0..lastCell : IsCell(c, h)' <=> IsCell(c, h)
      /\ CellIds \subseteq CellIds'
  BY CellsStay DEF UeReceive
<1>4. PICK n \in Nat : UpGrows(g, n)
  BY UpReceived
<1> USE DEF UpGrows
<1>41. \A i \in DOMAIN down : down[i].cell \in 0..lastCell
  BY DownTyped
<1>42. current \in 0..lastCell
  BY DEF TypeOK, RrcTypes, UdpTypes
<1>6. \A h \in Gnbs : \A k \in Places : \A i \in Nat : Token(h, k, i)' =>
        \/ k = "toUe" /\ h = g /\ i # 0 /\ Token(g, "toUe", i + 1)
        \/ k = "up" /\ i = n + 1 /\ h = g /\ Token(g, "toUe", 1)
        \/ (k # "toUe" \/ h # g) /\ (k # "up" \/ i # n + 1) /\ Token(h, k, i)
  BY <1>4, TokensReceived
<1>7. OneSetup'
  <2> SUFFICES ASSUME NEW h \in Gnbs, NEW k \in Places, NEW l \in Places, NEW i \in Nat,
                      NEW j \in Nat, Token(h, k, i)'
               PROVE  Pending(h)' /\ (Token(h, l, j)' => k = l /\ i = j)
    BY DEF OneSetup
  <2> DEFINE moved(p, q) == p = "up" /\ q = n + 1
             place(p, q) == IF moved(p, q) THEN "toUe" ELSE p
             index(p, q) == IF moved(p, q) THEN 1
                            ELSE IF p = "toUe" /\ h = g THEN q + 1 ELSE q
  <2>1. ASSUME NEW p \in Places, NEW q \in Nat, Token(h, p, q)'
        PROVE  /\ Token(h, place(p, q), index(p, q))
               /\ place(p, q) \in Places /\ index(p, q) \in Nat
               /\ (moved(p, q) => h = g) /\ (p = "toUe" /\ h = g => q # 0)
    BY <1>6, <2>1 DEF Places
  <2>2. Pending(h) /\ (Token(h, l, j)' => place(k, i) = place(l, j) /\ index(k, i) = index(l, j))
    <3> HIDE DEF place, index, moved
    <3> QED BY <2>1 DEF SetupInv, OneSetup
  <2>3. ASSUME Token(h, l, j)' PROVE k = l /\ i = j
    BY <2>1, <2>2, <2>3
  <2> QED BY <1>1, <2>2, <2>3, PendingKept
<1>8. Severed' /\ OneNumber' /\ SetupCarriesNas'
  BY <1>1 DEF SetupInv, Severed, OneNumber, SetupCarriesNas
<1>9. PdusHeard'
  <2>1. ASSUME NEW i \in DOMAIN up', up'[i].type # "SIGNAL" PROVE up'[i].cell \in CellIds
    BY <1>4, <2>1 DEF SetupInv, PdusHeard, IsCell, CellIds
  <2> QED BY <1>3, <2>1 DEF PdusHeard
<1>10. NoSetup => NoSetup'
  <2> SUFFICES ASSUME NoSetup PROVE NoSetup'
    OBVIOUS
  <2>1. msg # "SETUP"
    BY <1>2 DEF NoSetup
  <2>2. \A h \in Gnbs : \A i \in DOMAIN toUe'[h] : toUe'[h][i] # "SETUP"
    BY <1>2 DEF NoSetup
  <2>3. \A i \in DOMAIN up' : up'[i].type # "SETUP"
    BY <1>4, <2>1 DEF NoSetup
  <2> QED BY <1>1, <2>2, <2>3 DEF NoSetup
<1>11. Releasing' /\ Renumbering'
  BY <1>1, <1>10, ReleaseKept DEF SetupInv
<1>12. \A h, c : \A i \in DOMAIN up' :
         c = up'[i].cell /\ IsCell(c, h)' /\ up'[i].type # "SIGNAL" =>
            \/ i \in DOMAIN up /\ up'[i] = up[i] /\ IsCell(up[i].cell, h)
            \/ i = n + 1 /\ h = g /\ up'[i].type = toUe[g][1]
  BY <1>4, PduReceived
<1>13. SetupLast'
  <2>1. ASSUME NEW h \in Gnbs, NEW i \in DOMAIN toUe'[h], NEW j \in DOMAIN toUe'[h],
               i < j, toUe'[h][i] = "SETUP"
        PROVE  toUe'[h][j] # "RELEASE"
    <3>1. CASE h # g
      BY <1>2, <2>1, <3>1 DEF SetupInv, SetupLast
    <3>2. CASE h = g
      <4>1. /\ i + 1 \in DOMAIN toUe[g] /\ j + 1 \in DOMAIN toUe[g] /\ i + 1 < j + 1
            /\ toUe'[g][i] = toUe[g][i + 1] /\ toUe'[g][j] = toUe[g][j + 1]
        BY <1>2, <2>1, <3>2
      <4> QED BY <2>1, <3>2, <4>1 DEF SetupInv, SetupLast
    <3> QED BY <3>1, <3>2
  <2>2. ASSUME NEW h \in Gnbs, NEW i \in DOMAIN up', up'[i].type = "SETUP", IsCell(up[i].cell, h)'
        PROVE  /\ \A j \in DOMAIN toUe'[h] : toUe'[h][j] # "RELEASE"
               /\ \A j \in DOMAIN up' : i < j /\ IsCell(up[j].cell, h)' => up'[j].type # "RELEASE"
    <3>0. PICK c : c = up'[i].cell /\ IsCell(c, h)'
      BY <2>2 DEF IsCell
    <3>1. \/ i \in DOMAIN up /\ up'[i] = up[i] /\ IsCell(up[i].cell, h)
          \/ i = n + 1 /\ h = g /\ toUe[g][1] = "SETUP"
      BY <1>12, <2>2, <3>0
    <3>2. CASE i \in DOMAIN up /\ up'[i] = up[i] /\ IsCell(up[i].cell, h)
      <4>1. \A j \in DOMAIN toUe[h] : toUe[h][j] # "RELEASE"
        BY <2>2, <3>2 DEF SetupInv, SetupLast
      <4>2. \A j \in DOMAIN toUe'[h] : toUe'[h][j] # "RELEASE"
        BY <1>2, <4>1
      <4>3. ASSUME NEW j \in DOMAIN up', i < j, IsCell(up[j].cell, h)', up'[j].type = "RELEASE"
            PROVE  FALSE
        <5>0. PICK d : d = up'[j].cell /\ IsCell(d, h)'
          BY <4>3 DEF IsCell
        <5>1. \/ j \in DOMAIN up /\ up'[j] = up[j] /\ IsCell(up[j].cell, h)
              \/ h = g /\ toUe[g][1] = "RELEASE"
          BY <1>12, <4>3, <5>0
        <5>2. toUe[g][1] # "RELEASE" \/ h # g
          BY <1>2, <4>1
        <5> QED BY <2>2, <3>2, <4>3, <5>1, <5>2 DEF SetupInv, SetupLast
      <4> QED BY <4>2, <4>3
    <3>3. CASE i = n + 1 /\ h = g /\ toUe[g][1] = "SETUP"
      <4>1. ASSUME NEW j \in DOMAIN toUe'[g] PROVE toUe'[g][j] # "RELEASE"
        <5>1. j + 1 \in DOMAIN toUe[g] /\ 1 < j + 1 /\ toUe'[g][j] = toUe[g][j + 1]
          BY <1>2, <4>1
        <5> QED BY <1>2, <3>3, <5>1 DEF SetupInv, SetupLast
      <4>2. \A j \in DOMAIN up' : ~(i < j)
        BY <1>4, <3>3
      <4> QED BY <3>3, <4>1, <4>2
    <3> QED BY <3>1, <3>2, <3>3
  <2> QED BY <2>1, <2>2 DEF SetupLast
<1>14. Asking' => Asking
  <2>1. ASSUME NEW h \in Gnbs, NEW i \in DOMAIN toUe'[h], toUe'[h][i] = "SETUP" PROVE Asking
    BY <1>2, <2>1 DEF Asking
  <2>2. ASSUME NEW i \in DOMAIN up', up'[i].type = "SETUP" PROVE Asking
    BY <1>2, <1>4, <2>2 DEF Asking
  <2> QED BY <1>1, <2>1, <2>2 DEF Asking
<1>15. ASSUME NEW h \in Gnbs, Connected(h) PROVE Connected(h)'
  <2>1. IsCell(current, h)'
    <3>0. PICK c : c = current
      OBVIOUS
    <3>1. IsCell(c, h)'
      BY <1>3, <1>42, <1>15, <3>0 DEF Connected
    <3> QED BY <1>1, <3>0, <3>1 DEF IsCell
  <2>2. Quiet(h)'
    <3>1. ASSUME NEW i \in DOMAIN toUe'[h] PROVE toUe'[h][i] \notin {"RELEASE", "SETUP"}
      BY <1>2, <1>15, <3>1 DEF Connected, Quiet
    <3>2. ASSUME NEW i \in DOMAIN up', IsCell(up[i].cell, h)', up'[i].type \in {"RELEASE", "SETUP"}
          PROVE  FALSE
      <4>0. PICK c : c = up'[i].cell /\ IsCell(c, h)'
        BY <3>2 DEF IsCell
      <4>1. \/ i \in DOMAIN up /\ up'[i] = up[i] /\ IsCell(up[i].cell, h)
            \/ h = g /\ toUe[g][1] \in {"RELEASE", "SETUP"}
        BY <1>12, <3>2, <4>0
      <4> QED BY <1>2, <1>15, <3>2, <4>1 DEF Connected, Quiet
    <3> QED BY <3>1, <3>2 DEF Quiet
  <2>3. ASSUME NEW i \in DOMAIN down PROVE IsCell(down[i].cell, h)' <=> IsCell(down[i].cell, h)
    <3>0. PICK c : c = down[i].cell
      OBVIOUS
    <3>1. IsCell(c, h)' <=> IsCell(c, h)
      BY <1>3, <1>41, <3>0
    <3> QED BY <1>1, <3>0, <3>1 DEF IsCell
  <2>4. Answered(h)'
    BY <1>1, <1>15, <2>3 DEF Connected, Answered, Token
  <2> QED BY <1>1, <1>15, <2>1, <2>2, <2>4 DEF Connected
<1>16. Kept'
  BY <1>1, <1>14, <1>15, KeptKept DEF SetupInv
<1> QED
  BY <1>7, <1>8, <1>9, <1>11, <1>13, <1>16 DEF SetupInv

-----------------------------------------------------------------------------
(* RRC.                                                                     *)

\* A cell is selected while idle.
LEMMA SetupSelection ==
    ASSUME TypeOK, SetupInv, PerformCellSelection
    PROVE  SetupInv'
<1> DEFINE n == Len(down)
<1>1. /\ rrc = "IDLE"
      /\ UNCHANGED <<sti, cells, up, rrc, initialNas, toRrc, toGnb, toUe, link, ids, ctx>>
  BY DEF PerformCellSelection, airVars, gnbVars
<1>2. /\ n \in Nat /\ DOMAIN down = 1..n /\ DOMAIN down' = 1..n + 1
      /\ \A i \in 1..n : down'[i] = down[i]
      /\ down'[n + 1].type = "ASSIGN_CURRENT_CELL"
  <2> DEFINE x == ToCell(SelectedCell, "ASSIGN_CURRENT_CELL", FALSE)
  <2>1. down' = Append(down, x) /\ x.type = "ASSIGN_CURRENT_CELL"
    BY DEF PerformCellSelection, ToCell
  <2> HIDE DEF x
  <2> QED BY <2>1, DownAppended
<1> HIDE DEF n
<1>3. ASSUME NEW g \in Gnbs, NEW k \in Places, NEW i \in Nat, Token(g, k, i)' PROVE Token(g, k, i)
  BY <1>1, <1>2, <1>3 DEF Token, IsCell
<1>4. OneSetup'
  BY <1>1, <1>3, PendingKept, OneSetupKept DEF SetupInv
<1>5. Severed' /\ PdusHeard' /\ OneNumber' /\ SetupLast'
  BY <1>1, PdusKept, SetupLastKept DEF SetupInv, Severed, OneNumber
<1>6. SetupCarriesNas'
  BY <1>2 DEF SetupInv, SetupCarriesNas
<1>7. Releasing'
  BY <1>1, <1>2, NoSetupKept DEF SetupInv, Releasing
<1>8. Renumbering'
  <2> SUFFICES ASSUME NEW i \in DOMAIN down', down'[i].type = "RESET_STI"
               PROVE  /\ NoSetup' /\ \A j \in DOMAIN toRrc : toRrc[j] # "LOCAL_RELEASE"
                      /\ \A j \in DOMAIN down' :
                            /\ j < i => down'[j].type = "ASSIGN_CURRENT_CELL"
                            /\ j > i => down'[j].type # "RESET_STI"
                            /\ down'[j].type # "SETUP_COMPLETE"
    BY <1>1 DEF Renumbering
  <2>1. i \in DOMAIN down /\ down[i].type = "RESET_STI" /\ i <= n
    BY <1>2
  <2>2. NoSetup /\ \A j \in DOMAIN toRrc : toRrc[j] # "LOCAL_RELEASE"
    BY <2>1 DEF SetupInv, Renumbering
  <2>3. ASSUME NEW j \in 1..n
        PROVE  /\ j < i => down'[j].type = "ASSIGN_CURRENT_CELL"
               /\ j > i => down'[j].type # "RESET_STI"
               /\ down'[j].type # "SETUP_COMPLETE"
    BY <1>2, <2>1 DEF SetupInv, Renumbering
  <2> QED BY <1>1, <1>2, <2>1, <2>2, <2>3, NoSetupKept
<1>9. Kept'
  <2>1. Asking' => Asking
    BY <1>1, <1>2 DEF Asking
  <2>2. \A g \in Gnbs : ~Connected(g)
    BY <1>1 DEF Connected
  <2> QED BY <1>1, <2>1, <2>2 DEF SetupInv, Kept
<1> QED
  BY <1>4, <1>5, <1>6, <1>7, <1>8, <1>9 DEF SetupInv

\* What NAS sends, and a local release, which finds no setup under way.
LEMMA SetupNas ==
    ASSUME TypeOK, SetupInv, RrcFromNas
    PROVE  SetupInv'
<1> DEFINE n == Len(down)
<1>1. /\ toRrc # <<>> /\ toRrc' = Tail(toRrc)
      /\ UNCHANGED <<sti, cells, up, current, toGnb, toUe, link, ids, ctx>>
  BY DEF RrcFromNas, airVars, gnbVars
<1>2. /\ 1 \in DOMAIN toRrc /\ Head(toRrc) = toRrc[1]
      /\ \A i \in DOMAIN toRrc' : i \in Nat \ {0} /\ i + 1 \in DOMAIN toRrc
                                  /\ toRrc'[i] = toRrc[i + 1]
  <2>1. DOMAIN toRrc' = 1..Len(toRrc) - 1 /\ Len(toRrc) \in Nat
    BY <1>1, QueueTypes, Shorter
  <2> QED BY <1>1, <2>1, QueueTypes, Shorter
<1>3. n \in Nat /\ DOMAIN down = 1..n
  BY QueueTypes
<1>4. \/ /\ Head(toRrc) = "UPLINK_NAS" /\ UNCHANGED <<down, rrc, initialNas>>
      \/ /\ Head(toRrc) = "UPLINK_NAS" /\ DOMAIN down' = 1..n + 1 /\ UNCHANGED rrc
         /\ \A i \in 1..n : down'[i] = down[i]
         /\ \/ down'[n + 1].type = "SETUP_REQUEST" /\ initialNas'
            \/ down'[n + 1].type = "INFORMATION_TRANSFER" /\ UNCHANGED initialNas
      \/ /\ Head(toRrc) = "LOCAL_RELEASE" /\ DOMAIN down' = 1..n + 1 /\ UNCHANGED initialNas
         /\ \A i \in 1..n : down'[i] = down[i]
         /\ down'[n + 1].type = "RESET_STI"
  <2>1. CASE Head(toRrc) = "LOCAL_RELEASE" /\ LocalReleaseConnection
    <3> DEFINE x == ToCell(0, "RESET_STI", FALSE)
    <3>1. down' = Append(down, x) /\ x.type = "RESET_STI" /\ UNCHANGED initialNas
      BY <2>1 DEF LocalReleaseConnection, ToCell
    <3> HIDE DEF x
    <3> QED BY <2>1, <3>1, DownAppended
  <2>2. CASE Head(toRrc) = "UPLINK_NAS" /\ DeliverUplinkNas /\ current = 0
    BY <2>2 DEF DeliverUplinkNas, TypeOK, RrcTypes
  <2>3. CASE Head(toRrc) = "UPLINK_NAS" /\ DeliverUplinkNas /\ current # 0
    <3> DEFINE t == IF rrc = "IDLE" THEN "SETUP_REQUEST" ELSE "INFORMATION_TRANSFER"
               x == ToCell(current, t, rrc # "IDLE")
    <3>1. down' = Append(down, x) /\ UNCHANGED rrc /\ x.type = t
      BY <2>3 DEF DeliverUplinkNas, ToCell
    <3>2. \/ t = "SETUP_REQUEST" /\ initialNas'
          \/ t = "INFORMATION_TRANSFER" /\ UNCHANGED initialNas
      BY <2>3 DEF DeliverUplinkNas, TypeOK, RrcTypes
    <3> HIDE DEF x, t
    <3> QED BY <2>3, <3>1, <3>2, DownAppended
  <2> QED BY <2>1, <2>2, <2>3 DEF RrcFromNas
<1> HIDE DEF n
<1>5. \A i \in DOMAIN toRrc' : toRrc'[i] # "LOCAL_RELEASE"
  <2> SUFFICES ASSUME NEW i \in DOMAIN toRrc', toRrc'[i] = "LOCAL_RELEASE" PROVE FALSE
    OBVIOUS
  <2>1. i + 1 = 1 /\ i \in Nat \ {0}
    BY <1>2 DEF SetupInv, Releasing
  <2> QED BY <2>1
<1>6. ASSUME NEW g \in Gnbs, NEW k \in Places, NEW i \in Nat, Token(g, k, i)' PROVE Token(g, k, i)
  BY <1>1, <1>3, <1>4, <1>6 DEF Token, IsCell
<1>7. OneSetup'
  BY <1>1, <1>6, PendingKept, OneSetupKept DEF SetupInv
<1>8. Severed' /\ PdusHeard' /\ OneNumber' /\ SetupLast'
  BY <1>1, PdusKept, SetupLastKept DEF SetupInv, Severed, OneNumber
<1>9. SetupCarriesNas'
  BY <1>3, <1>4 DEF SetupInv, SetupCarriesNas
<1>10. Releasing'
  BY <1>5 DEF Releasing
<1>11. CASE Head(toRrc) = "LOCAL_RELEASE"
  <2>1. NoSetup /\ \A j \in 1..n : down[j].type = "ASSIGN_CURRENT_CELL"
    BY <1>2, <1>3, <1>11 DEF SetupInv, Releasing
  <2>2. NoSetup'
    BY <1>1, <2>1, NoSetupKept
  <2>3. /\ DOMAIN down' = 1..n + 1 /\ \A j \in 1..n : down'[j].type = "ASSIGN_CURRENT_CELL"
        /\ down'[n + 1].type = "RESET_STI"
    BY <1>4, <1>11, <2>1
  <2>4. Renumbering'
    BY <1>3, <1>5, <2>2, <2>3 DEF Renumbering
  <2>5. ~Asking'
    <3>1. /\ \A i \in DOMAIN up' : up'[i].type # "SETUP"
          /\ \A g \in Gnbs : \A i \in DOMAIN toUe'[g] : toUe'[g][i] # "SETUP"
          /\ \A g \in Gnbs : DOMAIN toGnb'[g] = {}
      BY <2>2, QueuePositions DEF NoSetup
    <3>2. \A i \in DOMAIN down' : down'[i].type # "SETUP_REQUEST"
      BY <1>3, <2>3
    <3> QED BY <3>1, <3>2 DEF Asking
  <2>6. Kept'
    BY <2>5 DEF Kept
  <2> QED BY <1>7, <1>8, <1>9, <1>10, <2>4, <2>6 DEF SetupInv
<1>12. CASE Head(toRrc) = "UPLINK_NAS"
  <2>1. Renumbering'
    <3> SUFFICES ASSUME NEW i \in DOMAIN down', down'[i].type = "RESET_STI"
                 PROVE  /\ NoSetup'
                        /\ \A j \in DOMAIN down' :
                              /\ j < i => down'[j].type = "ASSIGN_CURRENT_CELL"
                              /\ j > i => down'[j].type # "RESET_STI"
                              /\ down'[j].type # "SETUP_COMPLETE"
      BY <1>5 DEF Renumbering
    <3>1. i \in DOMAIN down /\ down[i].type = "RESET_STI" /\ i <= n
      BY <1>3, <1>4, <1>12
    <3>2. NoSetup
      BY <3>1 DEF SetupInv, Renumbering
    <3>3. ASSUME NEW j \in 1..n
          PROVE  /\ j < i => down'[j].type = "ASSIGN_CURRENT_CELL"
                 /\ j > i => down'[j].type # "RESET_STI"
                 /\ down'[j].type # "SETUP_COMPLETE"
      <4>1. down'[j] = down[j]
        BY <1>4, <1>12
      <4> QED BY <1>3, <3>1, <4>1 DEF SetupInv, Renumbering
    <3>4. ASSUME NEW j \in DOMAIN down', j \notin 1..n
          PROVE  j > i /\ down'[j].type \notin {"RESET_STI", "SETUP_COMPLETE"}
      BY <1>3, <1>4, <1>12, <3>1, <3>4
    <3> QED BY <1>1, <3>1, <3>2, <3>3, <3>4, <1>3, NoSetupKept
  <2>2. Kept'
    <3>1. CASE initialNas'
      BY <3>1 DEF Kept
    <3>2. CASE ~initialNas'
      <4>1. /\ UNCHANGED <<rrc, initialNas>>
            /\ \A i \in 1..n : i \in DOMAIN down' /\ down'[i] = down[i]
            /\ \A i \in DOMAIN down' : i \in 1..n \/ down'[i].type = "INFORMATION_TRANSFER"
        BY <1>3, <1>4, <1>12, <3>2
      <4>2. Asking' => Asking
        BY <1>1, <1>3, <4>1 DEF Asking
      <4>3. ASSUME NEW g \in Gnbs, Connected(g) PROVE Connected(g)'
        <5>1. Quiet(g)'
          BY <1>1, <4>3, QuietKept DEF Connected
        <5>2. \A j \in DOMAIN down : Token(g, "down", j) => j \in DOMAIN down' /\ Token(g, "down", j)'
          BY <1>1, <1>3, <4>1 DEF Token, IsCell
        <5>3. ASSUME NEW i \in DOMAIN down', down'[i].type = "SETUP_REQUEST", IsCell(down[i].cell, g)'
              PROVE  \E j \in DOMAIN down' : j > i /\ Token(g, "down", j)'
          <6>1. i \in DOMAIN down /\ down[i].type = "SETUP_REQUEST" /\ IsCell(down[i].cell, g)
            BY <1>1, <1>3, <4>1, <5>3 DEF IsCell
          <6> QED BY <4>3, <5>2, <6>1 DEF Connected, Answered
        <5>4. ASSUME NEW i \in DOMAIN toGnb'[g], toGnb'[g][i].type = "SETUP_REQUEST"
              PROVE  \/ \E j \in DOMAIN toGnb'[g] : j > i /\ Token(g, "toGnb", j)'
                     \/ \E j \in DOMAIN down' : Token(g, "down", j)'
          <6>1. \A j : Token(g, "toGnb", j)' <=> Token(g, "toGnb", j)
            BY <1>1 DEF Token
          <6> QED BY <1>1, <4>3, <5>2, <5>4, <6>1 DEF Connected, Answered
        <5>5. Answered(g)'
          BY <5>3, <5>4 DEF Answered
        <5> QED BY <1>1, <4>1, <4>3, <5>1, <5>5 DEF Connected, IsCell
      <4> QED BY <4>1, <4>2, <4>3, KeptKept DEF SetupInv
    <3> QED BY <3>1, <3>2
  <2> QED BY <1>7, <1>8, <1>9, <1>10, <2>1, <2>2 DEF SetupInv
<1> QED
  BY <1>4, <1>11, <1>12

\* What RRC makes of what the cells send: a setup it completes carries the message.
LEMMA SetupRls ==
    ASSUME TypeOK, CellsInv, SetupInv, RrcFromRls
    PROVE  SetupInv'
<1> DEFINE m == Head(up)
           n == Len(down)
           made == /\ m.type = "SETUP" /\ m.cell = current /\ current' = current
                   /\ DOMAIN down' = 1..n + 1 /\ \A i \in 1..n : down'[i] = down[i]
                   /\ down'[n + 1].type = "SETUP_COMPLETE" /\ down'[n + 1].cell = current
                   /\ down'[n + 1].nas = initialNas /\ rrc' = "CONNECTED"
<1>1. /\ up # <<>> /\ up' = Tail(up)
      /\ UNCHANGED <<sti, cells, toRrc, toGnb, toUe, link, ids, ctx>>
  BY DEF RrcFromRls, airVars, gnbVars
<1>2. /\ 1 \in DOMAIN up /\ m = up[1]
      /\ \A i \in DOMAIN up' : i \in Nat \ {0} /\ i + 1 \in DOMAIN up /\ up'[i] = up[i + 1]
  <2>1. DOMAIN up' = 1..Len(up) - 1 /\ Len(up) \in Nat
    BY <1>1, QueueTypes, Shorter
  <2> QED BY <1>1, <2>1, QueueTypes, Shorter
<1>3. n \in Nat /\ DOMAIN down = 1..n
  BY QueueTypes
<1>4. \/ made
      \/ UNCHANGED <<down, rrc, current, initialNas>>
      \/ /\ UNCHANGED <<down, initialNas>>
         /\ \/ m.type = "SIGNAL" /\ m.dbm < MinDbm /\ m.cell = current
            \/ m.type = "RELEASE" /\ m.cell = current
  <2>1. CASE m.type = "SETUP" /\ m.cell = current /\ ReceiveRrcSetup
    <3> DEFINE x == ToCell(current, "SETUP_COMPLETE", initialNas)
    <3>1. /\ down' = Append(down, x) /\ rrc' = "CONNECTED" /\ current' = current
          /\ x.type = "SETUP_COMPLETE" /\ x.cell = current /\ x.nas = initialNas
      BY <2>1 DEF ReceiveRrcSetup, ToCell
    <3> HIDE DEF x
    <3>2. /\ DOMAIN down' = 1..n + 1 /\ \A i \in 1..n : down'[i] = down[i]
          /\ down'[n + 1] = x
      BY <3>1, DownAppended
    <3> QED BY <2>1, <3>1, <3>2
  <2>2. CASE /\ m.type # "SIGNAL" /\ HandleDownlinkRrc(m.cell, m.type)
             /\ ~(m.type = "SETUP" /\ m.cell = current /\ ReceiveRrcSetup)
    BY <2>2 DEF HandleDownlinkRrc, ReceiveRrcRelease
  <2>3. CASE m.type = "SIGNAL" /\ SignalChanged(m.cell, m.dbm)
    BY <2>3 DEF SignalChanged, CellLost
  <2> QED BY <2>1, <2>2, <2>3 DEF RrcFromRls
<1>5. \A i \in DOMAIN down : i \in 1..n
  BY <1>3
<1>6. ASSUME NEW h \in Gnbs, NEW k \in Places, NEW i \in Nat, Token(h, k, i)'
      PROVE  \/ k = "up" /\ i # 0 /\ Token(h, "up", i + 1)
             \/ k = "down" /\ i = n + 1 /\ Token(h, "up", 1)
             \/ k # "up" /\ (k # "down" \/ i # n + 1) /\ Token(h, k, i)
  <2>1. CASE k = "up"
    BY <1>1, <1>2, <1>6, <2>1 DEF Token, IsCell
  <2>2. CASE k = "down" /\ i \in DOMAIN down
    <3>1. down'[i] = down[i] /\ i # n + 1
      BY <1>3, <1>4, <2>2
    <3> HIDE DEF made, m, n
    <3> QED BY <1>1, <1>6, <2>2, <3>1 DEF Token, IsCell
  <2>3. CASE k = "down" /\ i \notin DOMAIN down
    <3>1. i \in DOMAIN down'
      BY <1>6, <2>3 DEF Token
    <3>2. made /\ i = n + 1
      BY <1>3, <1>4, <2>3, <3>1
    <3>3. IsCell(current, h)
      BY <1>1, <1>6, <2>3, <3>2 DEF Token, IsCell
    <3> QED BY <1>2, <2>3, <3>2, <3>3 DEF Token
  <2>4. CASE k = "toUe" \/ k = "toGnb"
    BY <1>1, <1>6, <2>4 DEF Token
  <2> QED BY <2>1, <2>2, <2>3, <2>4 DEF Places
<1>7. OneSetup'
  <2> SUFFICES ASSUME NEW h \in Gnbs, NEW k \in Places, NEW l \in Places, NEW i \in Nat,
                      NEW j \in Nat, Token(h, k, i)'
               PROVE  Pending(h)' /\ (Token(h, l, j)' => k = l /\ i = j)
    BY DEF OneSetup
  <2> DEFINE moved(p, q) == p = "down" /\ q = n + 1
             place(p, q) == IF moved(p, q) THEN "up" ELSE p
             index(p, q) == IF moved(p, q) THEN 1 ELSE IF p = "up" THEN q + 1 ELSE q
  <2>1. ASSUME NEW p \in Places, NEW q \in Nat, Token(h, p, q)'
        PROVE  /\ Token(h, place(p, q), index(p, q))
               /\ place(p, q) \in Places /\ index(p, q) \in Nat /\ (p = "up" => q # 0)
    BY <1>6, <2>1 DEF Places
  <2>2. Pending(h) /\ (Token(h, l, j)' => place(k, i) = place(l, j) /\ index(k, i) = index(l, j))
    <3> HIDE DEF place, index, moved
    <3> QED BY <2>1 DEF SetupInv, OneSetup
  <2>3. ASSUME Token(h, l, j)' PROVE k = l /\ i = j
    BY <2>1, <2>2, <2>3
  <2> QED BY <1>1, <2>2, <2>3, PendingKept
<1>8. Severed' /\ OneNumber'
  BY <1>1 DEF SetupInv, Severed, OneNumber
<1>9. PdusHeard'
  BY <1>1, <1>2 DEF SetupInv, PdusHeard, CellIds
<1>10. NoSetup => NoSetup' /\ UNCHANGED down
  <2> SUFFICES ASSUME NoSetup PROVE NoSetup' /\ UNCHANGED down
    OBVIOUS
  <2>1. UNCHANGED down
    BY <1>2, <1>4 DEF NoSetup
  <2>2. \A i \in DOMAIN up' : up'[i].type # "SETUP"
    BY <1>2 DEF NoSetup
  <2> QED BY <1>1, <2>1, <2>2 DEF NoSetup
<1>11. Releasing' /\ Renumbering'
  <2>1. CASE NoSetup
    BY <1>1, <1>10, <2>1, ReleaseKept DEF SetupInv
  <2>2. CASE ~NoSetup
    <3>1. /\ \A i \in DOMAIN toRrc : toRrc[i] # "LOCAL_RELEASE"
          /\ \A i \in DOMAIN down : down[i].type # "RESET_STI"
      BY <2>2 DEF SetupInv, Releasing, Renumbering
    <3>2. \A i \in DOMAIN down' : down'[i].type # "RESET_STI"
      BY <1>3, <1>4, <3>1
    <3> QED BY <1>1, <3>1, <3>2 DEF Releasing, Renumbering
  <2> QED BY <2>1, <2>2
<1>12. SetupLast'
  <2>1. ASSUME NEW h \in Gnbs, NEW i \in DOMAIN up', up'[i].type = "SETUP", IsCell(up[i].cell, h)'
        PROVE  /\ \A j \in DOMAIN toUe[h] : toUe[h][j] # "RELEASE"
               /\ \A j \in DOMAIN up' : i < j /\ IsCell(up[j].cell, h)' => up'[j].type # "RELEASE"
    <3>1. i + 1 \in DOMAIN up /\ up[i + 1].type = "SETUP" /\ IsCell(up[i + 1].cell, h)
          /\ i \in Nat
      BY <1>1, <1>2, <2>1 DEF IsCell
    <3>2. \A j \in DOMAIN toUe[h] : toUe[h][j] # "RELEASE"
      BY <3>1 DEF SetupInv, SetupLast
    <3>3. ASSUME NEW j \in DOMAIN up', i < j, IsCell(up[j].cell, h)'
          PROVE  up'[j].type # "RELEASE"
      <4>1. j + 1 \in DOMAIN up /\ up'[j] = up[j + 1] /\ IsCell(up[j + 1].cell, h) /\ i + 1 < j + 1
        BY <1>1, <1>2, <3>1, <3>3 DEF IsCell
      <4> QED BY <3>1, <4>1 DEF SetupInv, SetupLast
    <3> QED BY <3>2, <3>3
  <2> QED BY <1>1, <2>1 DEF SetupInv, SetupLast
<1>13. ASSUME NEW h \in Gnbs, Quiet(h) PROVE Quiet(h)'
  BY <1>1, <1>2, <1>13 DEF Quiet, IsCell
<1>14. CASE made
  <2>1. PICK g \in Gnbs : IsCell(current, g)
    <3>1. current \in CellIds
      BY <1>2, <1>14 DEF SetupInv, PdusHeard
    <3> QED BY <3>1 DEF CellIds, IsCell, TypeOK, UdpTypes
  <2>2. initialNas
    <3>1. Asking
      BY <1>2, <1>14 DEF Asking
    <3>2. ASSUME NEW h \in Gnbs, Connected(h) PROVE FALSE
      BY <1>2, <1>14, <3>2 DEF Connected, Quiet
    <3> QED BY <3>1, <3>2 DEF SetupInv, Kept
  <2>3. SetupCarriesNas'
    <3>1. down'[n + 1].nas = TRUE
      BY <1>14, <2>2 DEF TypeOK, RrcTypes
    <3>2. ASSUME NEW i \in DOMAIN down', down'[i].type = "SETUP_COMPLETE" PROVE down'[i].nas
      <4>1. CASE i \in DOMAIN down
        <5>1. down'[i] = down[i]
          BY <1>3, <1>14, <4>1
        <5> QED BY <3>2, <4>1, <5>1 DEF SetupInv, SetupCarriesNas
      <4>2. CASE i = n + 1
        BY <3>1, <4>2
      <4> QED BY <1>3, <1>14, <4>1, <4>2
    <3> QED BY <3>2 DEF SetupCarriesNas
  <2>4. Token(g, "up", 1)
    BY <1>2, <1>14, <2>1 DEF Token
  <2>5. Quiet(g)'
    <3>1. ASSUME NEW i \in DOMAIN toUe[g] PROVE toUe[g][i] \notin {"RELEASE", "SETUP"}
      <4>1. toUe[g][i] # "RELEASE"
        BY <1>2, <1>14, <2>1 DEF SetupInv, SetupLast
      <4>2. ~Token(g, "toUe", i)
        BY <2>4, QueuePositions DEF SetupInv, OneSetup, Places
      <4> QED BY <4>1, <4>2 DEF Token
    <3>2. ASSUME NEW i \in DOMAIN up', IsCell(up[i].cell, g)'
          PROVE  up'[i].type \notin {"RELEASE", "SETUP"}
      <4>1. i + 1 \in DOMAIN up /\ up'[i] = up[i + 1] /\ IsCell(up[i + 1].cell, g) /\ 1 < i + 1
            /\ i + 1 \in Nat
        BY <1>1, <1>2, <3>2 DEF IsCell
      <4>2. up[i + 1].type # "RELEASE"
        BY <1>2, <1>14, <2>1, <4>1 DEF SetupInv, SetupLast
      <4>3. ~Token(g, "up", i + 1)
        BY <2>4, <4>1 DEF SetupInv, OneSetup, Places
      <4> QED BY <4>1, <4>2, <4>3 DEF Token
    <3> QED BY <1>1, <3>1, <3>2 DEF Quiet
  <2>6. Answered(g)'
    <3>1. PICK j : j = n + 1
      OBVIOUS
    <3>2. j \in DOMAIN down' /\ Token(g, "down", j)'
      BY <1>1, <1>3, <1>14, <2>1, <3>1 DEF Token, IsCell
    <3>3. \A i \in DOMAIN down' : down'[i].type = "SETUP_REQUEST" => j > i
      BY <1>3, <1>14, <3>1
    <3> QED BY <3>2, <3>3 DEF Answered
  <2>7. Connected(g)'
    BY <1>1, <1>14, <2>1, <2>5, <2>6 DEF Connected, IsCell
  <2>8. Kept'
    BY <2>7 DEF Kept
  <2> QED BY <1>7, <1>8, <1>9, <1>11, <1>12, <2>3, <2>8 DEF SetupInv
<1>15. CASE ~made
  <2>1. UNCHANGED <<down, initialNas>>
    BY <1>4, <1>15
  <2>2. SetupCarriesNas'
    BY <2>1 DEF SetupInv, SetupCarriesNas
  <2>3. Asking' => Asking
    BY <1>1, <1>2, <2>1 DEF Asking
  <2>4. ASSUME NEW g \in Gnbs, Connected(g) PROVE Connected(g)'
    <3>1. UNCHANGED <<rrc, current>>
      <4>1. IsCell(current, g) /\ current \in CellIds
        BY <2>4 DEF Connected, IsCell, CellIds
      <4>2. ~(m.type = "SIGNAL" /\ m.dbm < MinDbm /\ m.cell = current)
        BY <1>2, <4>1 DEF CellsInv, LostIsGone
      <4>3. ~(m.type = "RELEASE" /\ m.cell = current)
        BY <1>2, <2>4, <4>1 DEF Connected, Quiet
      <4> QED BY <1>4, <1>15, <4>2, <4>3
    <3> QED BY <1>1, <1>13, <2>1, <2>4, <3>1, AnsweredKept DEF Connected, IsCell
  <2>5. Kept'
    BY <2>1, <2>3, <2>4, KeptKept DEF SetupInv
  <2> QED BY <1>7, <1>8, <1>9, <1>11, <1>12, <2>2, <2>5 DEF SetupInv
<1> QED
  BY <1>14, <1>15

-----------------------------------------------------------------------------
(* What the UE sends.                                                       *)
LEMMA SetupSend ==
    ASSUME TypeOK, SetupInv, UeSend
    PROVE  SetupInv'
<1> DEFINE m == Head(down)
           sent(h) == /\ h \in link /\ IsCell(m.cell, h)
                      /\ m.type \notin {"RESET_STI", "ASSIGN_CURRENT_CELL"}
<1>1. /\ down # <<>> /\ down' = Tail(down)
      /\ UNCHANGED <<cells, up, current, rrc, initialNas, toRrc, toUe, link, ids, ctx>>
      /\ sti' = IF m.type = "RESET_STI" THEN sti + 1 ELSE sti
  BY DEF UeSend, gnbVars
<1>2. /\ 1 \in DOMAIN down /\ m = down[1]
      /\ \A i \in DOMAIN down' : i \in Nat \ {0} /\ i + 1 \in DOMAIN down /\ down'[i] = down[i + 1]
      /\ \A i \in DOMAIN down : i \in Nat \ {0}
      /\ \A i \in DOMAIN down : i > 1 => i - 1 \in DOMAIN down' /\ down'[i - 1] = down[i]
  <2>1. /\ DOMAIN down' = 1..Len(down) - 1 /\ Len(down) \in Nat /\ DOMAIN down = 1..Len(down)
    BY <1>1, QueueTypes, Shorter
  <2> QED BY <1>1, <2>1, QueueTypes, Shorter
<1>3. ASSUME NEW h \in Gnbs, ~sent(h) PROVE toGnb'[h] = toGnb[h]
  BY <1>3 DEF UeSend, IsCell
<1>4. ASSUME NEW h \in Gnbs, sent(h)
      PROVE  LET n == Len(toGnb[h]) IN
             /\ n \in Nat /\ DOMAIN toGnb[h] = 1..n /\ DOMAIN toGnb'[h] = 1..n + 1
             /\ \A i \in 1..n : toGnb'[h][i] = toGnb[h][i]
             /\ toGnb'[h][n + 1].type = m.type /\ toGnb'[h][n + 1].sti = sti
  <2> DEFINE x == Uplink(m.type, m.nas)
  <2>1. toGnb'[h] = Append(toGnb[h], x)
    BY <1>4 DEF UeSend, IsCell
  <2>2. x.type = m.type /\ x.sti = sti
    BY DEF Uplink
  <2> HIDE DEF x
  <2>3. toGnb[h] \in Seq(Datagrams)
    BY QueueTypes
  <2> QED BY <2>1, <2>2, <2>3, Longer
<1>41. ASSUME NEW h \in Gnbs, NEW i \in DOMAIN toGnb[h]
       PROVE  i \in DOMAIN toGnb'[h] /\ toGnb'[h][i] = toGnb[h][i]
  <2>1. CASE sent(h)
    <3> HIDE DEF sent
    <3> QED BY <1>4, <2>1
  <2>2. CASE ~sent(h)
    BY <1>3, <2>2
  <2> QED BY <2>1, <2>2
<1>42. ASSUME NEW h \in Gnbs, NEW i \in DOMAIN toGnb'[h], i \notin DOMAIN toGnb[h]
       PROVE  /\ sent(h) /\ i = Len(toGnb[h]) + 1 /\ i \in Nat
              /\ toGnb'[h][i].type = m.type /\ toGnb'[h][i].sti = sti
              /\ \A j \in DOMAIN toGnb[h] : j < i
  <2>1. sent(h)
    BY <1>3, <1>42
  <2> HIDE DEF sent
  <2> QED BY <1>4, <1>42, <2>1
<1> HIDE DEF sent
<1>5. CASE m.type = "RESET_STI"
  <2>1. /\ NoSetup /\ \A j \in DOMAIN toRrc : toRrc[j] # "LOCAL_RELEASE"
        /\ \A j \in DOMAIN down : /\ j > 1 => down[j].type # "RESET_STI"
                                  /\ down[j].type # "SETUP_COMPLETE"
    BY <1>2, <1>5 DEF SetupInv, Renumbering
  <2>2. \A h \in Gnbs : toGnb'[h] = toGnb[h]
    BY <1>3, <1>5 DEF sent
  <2>3. \A i \in DOMAIN down' : down'[i].type \notin {"RESET_STI", "SETUP_COMPLETE"}
    <3>1. ASSUME NEW i \in DOMAIN down' PROVE i + 1 \in DOMAIN down /\ i + 1 > 1 /\ down'[i] = down[i + 1]
      BY <1>2
    <3> QED BY <2>1, <3>1
  <2>4. \A h \in Gnbs : \A i \in DOMAIN toGnb'[h] : FALSE
    BY <2>1, <2>2, QueuePositions DEF NoSetup
  <2>5. OneSetup'
    <3>1. ASSUME NEW h \in Gnbs, NEW k \in Places, NEW i \in Nat PROVE ~Token(h, k, i)'
      BY <1>1, <2>1, <2>3, <2>4 DEF Token, Places, NoSetup
    <3> QED BY <3>1 DEF OneSetup
  <2>6. Severed' /\ OneNumber' /\ PdusHeard' /\ SetupLast'
    BY <1>1, <2>1, <2>2, <2>4, PdusKept, SetupLastKept DEF SetupInv, Severed, OneNumber, NoSetup
  <2>7. Releasing' /\ Renumbering' /\ SetupCarriesNas'
    BY <1>1, <2>1, <2>3 DEF Releasing, Renumbering, SetupCarriesNas
  <2>8. Kept'
    <3>1. Asking' => Asking
      BY <1>1, <1>2, <2>4 DEF Asking
    <3>2. ASSUME NEW g \in Gnbs, Connected(g), Asking PROVE Connected(g)'
      <4>1. Quiet(g)'
        BY <1>1, <3>2, QuietKept DEF Connected
      <4>2. ASSUME NEW i \in DOMAIN down', down'[i].type = "SETUP_REQUEST", IsCell(down[i].cell, g)'
            PROVE  FALSE
        <5>1. i + 1 \in DOMAIN down /\ down[i + 1].type = "SETUP_REQUEST" /\ IsCell(down[i + 1].cell, g)
          BY <1>1, <1>2, <4>2 DEF IsCell
        <5>2. \E j \in DOMAIN down : Token(g, "down", j)
          BY <3>2, <5>1 DEF Connected, Answered
        <5> QED BY <2>1, <5>2 DEF Token
      <4>3. Answered(g)'
        BY <2>4, <4>2 DEF Answered
      <4> QED BY <1>1, <3>2, <4>1, <4>3 DEF Connected, IsCell
    <3> QED BY <1>1, <3>1, <3>2, KeptKept DEF SetupInv
  <2> QED BY <2>5, <2>6, <2>7, <2>8 DEF SetupInv
<1>6. CASE m.type # "RESET_STI"
  <2>1. UNCHANGED sti
    BY <1>1, <1>6
  <2>2. ASSUME NEW h \in Gnbs, NEW k \in Places, NEW i \in Nat, Token(h, k, i)'
        PROVE  \/ k = "down" /\ i # 0 /\ Token(h, "down", i + 1)
               \/ k = "toGnb" /\ i = Len(toGnb[h]) + 1 /\ i \notin DOMAIN toGnb[h] /\ Token(h, "down", 1)
               \/ k # "down" /\ (k # "toGnb" \/ i \in DOMAIN toGnb[h]) /\ Token(h, k, i)
    <3>1. CASE k = "down"
      BY <1>1, <1>2, <2>2, <3>1 DEF Token, IsCell
    <3>2. CASE k = "toGnb" /\ i \in DOMAIN toGnb[h]
      BY <1>41, <2>2, <3>2 DEF Token
    <3>3. CASE k = "toGnb" /\ i \notin DOMAIN toGnb[h]
      <4>1. i \in DOMAIN toGnb'[h] /\ toGnb'[h][i].type = "SETUP_COMPLETE"
        BY <2>2, <3>3 DEF Token
      <4>2. sent(h) /\ i = Len(toGnb[h]) + 1 /\ m.type = "SETUP_COMPLETE"
        BY <1>42, <3>3, <4>1
      <4> QED BY <1>2, <3>3, <4>2 DEF Token, sent
    <3>4. CASE k = "toUe" \/ k = "up"
      BY <1>1, <2>2, <3>4 DEF Token, IsCell
    <3> QED BY <3>1, <3>2, <3>3, <3>4 DEF Places
  <2>3. OneSetup'
    <3> SUFFICES ASSUME NEW h \in Gnbs, NEW k \in Places, NEW l \in Places, NEW i \in Nat,
                        NEW j \in Nat, Token(h, k, i)'
                 PROVE  Pending(h)' /\ (Token(h, l, j)' => k = l /\ i = j)
      BY DEF OneSetup
    <3> DEFINE moved(p, q) == p = "toGnb" /\ q \notin DOMAIN toGnb[h]
               place(p, q) == IF moved(p, q) THEN "down" ELSE p
               index(p, q) == IF moved(p, q) THEN 1 ELSE IF p = "down" THEN q + 1 ELSE q
    <3>1. ASSUME NEW p \in Places, NEW q \in Nat, Token(h, p, q)'
          PROVE  /\ Token(h, place(p, q), index(p, q))
                 /\ place(p, q) \in Places /\ index(p, q) \in Nat /\ (p = "down" => q # 0)
                 /\ (moved(p, q) => q = Len(toGnb[h]) + 1)
      BY <2>2, <3>1 DEF Places
    <3>2. Pending(h) /\ (Token(h, l, j)' => place(k, i) = place(l, j) /\ index(k, i) = index(l, j))
      <4> HIDE DEF place, index, moved
      <4> QED BY <3>1 DEF SetupInv, OneSetup
    <3>3. ASSUME Token(h, l, j)' PROVE k = l /\ i = j
      BY <3>1, <3>2, <3>3
    <3> QED BY <1>1, <2>1, <3>2, <3>3, PendingKept
  <2>4. Severed'
    BY <1>1, <1>3 DEF SetupInv, Severed, sent
  <2>5. OneNumber'
    BY <1>41, <1>42, <2>1 DEF SetupInv, OneNumber
  <2>6. PdusHeard' /\ SetupLast'
    BY <1>1, PdusKept, SetupLastKept DEF SetupInv
  <2>7. SetupCarriesNas'
    BY <1>2 DEF SetupInv, SetupCarriesNas
  <2>8. NoSetup /\ m.type = "ASSIGN_CURRENT_CELL" => NoSetup'
    <3>1. ASSUME NEW h \in Gnbs, m.type = "ASSIGN_CURRENT_CELL" PROVE toGnb'[h] = toGnb[h]
      BY <1>3, <3>1 DEF sent
    <3> QED BY <1>1, <3>1 DEF NoSetup
  <2>9. Releasing'
    <3> SUFFICES ASSUME NEW i \in DOMAIN toRrc, toRrc[i] = "LOCAL_RELEASE"
                 PROVE  /\ i = 1 /\ NoSetup'
                        /\ \A j \in DOMAIN down' : down'[j].type = "ASSIGN_CURRENT_CELL"
      BY <1>1 DEF Releasing
    <3>1. i = 1 /\ NoSetup /\ \A j \in DOMAIN down : down[j].type = "ASSIGN_CURRENT_CELL"
      BY DEF SetupInv, Releasing
    <3> QED BY <1>2, <2>8, <3>1
  <2>10. Renumbering'
    <3> SUFFICES ASSUME NEW i \in DOMAIN down', down'[i].type = "RESET_STI"
                 PROVE  /\ NoSetup' /\ \A j \in DOMAIN toRrc : toRrc[j] # "LOCAL_RELEASE"
                        /\ \A j \in DOMAIN down' :
                              /\ j < i => down'[j].type = "ASSIGN_CURRENT_CELL"
                              /\ j > i => down'[j].type # "RESET_STI"
                              /\ down'[j].type # "SETUP_COMPLETE"
      BY <1>1 DEF Renumbering
    <3>1. i \in Nat \ {0} /\ i + 1 \in DOMAIN down /\ down[i + 1].type = "RESET_STI" /\ 1 < i + 1
      BY <1>2
    <3>2. /\ NoSetup /\ \A j \in DOMAIN toRrc : toRrc[j] # "LOCAL_RELEASE"
          /\ m.type = "ASSIGN_CURRENT_CELL"
      BY <1>2, <3>1 DEF SetupInv, Renumbering
    <3>3. ASSUME NEW j \in DOMAIN down'
          PROVE  /\ j < i => down'[j].type = "ASSIGN_CURRENT_CELL"
                 /\ j > i => down'[j].type # "RESET_STI"
                 /\ down'[j].type # "SETUP_COMPLETE"
      <4>1. /\ j + 1 \in DOMAIN down /\ down'[j] = down[j + 1]
            /\ (j < i => j + 1 < i + 1) /\ (j > i => j + 1 > i + 1)
        BY <1>2, <3>1
      <4> QED BY <3>1, <4>1 DEF SetupInv, Renumbering
    <3> QED BY <2>8, <3>2, <3>3
  <2>11. Asking' => Asking
    <3>1. ASSUME NEW i \in DOMAIN down', down'[i].type = "SETUP_REQUEST" PROVE Asking
      BY <1>2, <3>1 DEF Asking
    <3>2. ASSUME NEW h \in Gnbs, NEW i \in DOMAIN toGnb'[h], toGnb'[h][i].type = "SETUP_REQUEST"
          PROVE  Asking
      <4>1. CASE i \in DOMAIN toGnb[h]
        BY <1>41, <3>2, <4>1 DEF Asking
      <4>2. CASE i \notin DOMAIN toGnb[h]
        BY <1>2, <1>42, <3>2, <4>2 DEF Asking
      <4> QED BY <4>1, <4>2
    <3> QED BY <1>1, <3>1, <3>2 DEF Asking
  <2>12. ASSUME NEW g \in Gnbs, Connected(g) PROVE Connected(g)'
    <3>1. Quiet(g)'
      BY <1>1, <2>12, QuietKept DEF Connected
    <3>2. ASSUME NEW j \in DOMAIN down, j > 1, Token(g, "down", j)
          PROVE  j - 1 \in DOMAIN down' /\ Token(g, "down", j - 1)'
      <4>1. j - 1 \in DOMAIN down' /\ down'[j - 1] = down[j]
        BY <1>2, <3>2
      <4>2. PICK i : i = j - 1
        OBVIOUS
      <4>3. Token(g, "down", i)'
        BY <1>1, <3>2, <4>1, <4>2 DEF Token, IsCell
      <4> QED BY <4>1, <4>2, <4>3
    <3>3. ASSUME NEW i \in DOMAIN down', down'[i].type = "SETUP_REQUEST", IsCell(down[i].cell, g)'
          PROVE  \E j \in DOMAIN down' : j > i /\ Token(g, "down", j)'
      <4>1. /\ i \in Nat /\ i + 1 \in DOMAIN down /\ down[i + 1].type = "SETUP_REQUEST"
            /\ IsCell(down[i + 1].cell, g)
        BY <1>1, <1>2, <3>3 DEF IsCell
      <4>2. PICK j \in DOMAIN down : j > i + 1 /\ Token(g, "down", j)
        BY <2>12, <4>1 DEF Connected, Answered
      <4>3. j \in Nat /\ j > 1 /\ j - 1 > i
        BY <1>2, <4>1, <4>2
      <4>4. j - 1 \in DOMAIN down' /\ Token(g, "down", j - 1)'
        BY <3>2, <4>2, <4>3
      <4> QED BY <4>3, <4>4
    <3>4. ASSUME NEW i \in DOMAIN toGnb'[g], toGnb'[g][i].type = "SETUP_REQUEST"
          PROVE  \/ \E j \in DOMAIN toGnb'[g] : j > i /\ Token(g, "toGnb", j)'
                 \/ \E j \in DOMAIN down' : Token(g, "down", j)'
      <4>1. CASE i \in DOMAIN toGnb[g]
        <5>1. toGnb[g][i].type = "SETUP_REQUEST"
          BY <1>41, <3>4, <4>1
        <5>2. CASE \E j \in DOMAIN toGnb[g] : j > i /\ Token(g, "toGnb", j)
          BY <1>41, <5>2 DEF Token
        <5>3. CASE \E j \in DOMAIN down : Token(g, "down", j)
          <6>1. PICK j \in DOMAIN down : Token(g, "down", j)
            BY <5>3
          <6>2. CASE j > 1
            BY <3>2, <6>1, <6>2
          <6>3. CASE j = 1
            <7>1. m.type = "SETUP_COMPLETE" /\ IsCell(m.cell, g)
              BY <1>2, <6>1, <6>3 DEF Token
            <7>2. g \in link
              BY <4>1, QueuePositions DEF SetupInv, Severed
            <7>3. sent(g)
              BY <7>1, <7>2 DEF sent
            <7>4. PICK l : l = Len(toGnb[g]) + 1
              OBVIOUS
            <7>5. l \in DOMAIN toGnb'[g] /\ toGnb'[g][l].type = "SETUP_COMPLETE" /\ l > i
              BY <1>4, <4>1, <7>1, <7>3, <7>4
            <7> QED BY <7>5 DEF Token
          <6> QED BY <1>2, <6>1, <6>2, <6>3
        <5> QED BY <2>12, <4>1, <5>1, <5>2, <5>3 DEF Connected, Answered
      <4>2. CASE i \notin DOMAIN toGnb[g]
        <5>1. down[1].type = "SETUP_REQUEST" /\ IsCell(down[1].cell, g)
          BY <1>2, <1>42, <3>4, <4>2 DEF sent
        <5>2. PICK j \in DOMAIN down : j > 1 /\ Token(g, "down", j)
          BY <1>2, <2>12, <5>1 DEF Connected, Answered
        <5> QED BY <3>2, <5>2
      <4> QED BY <4>1, <4>2
    <3>5. Answered(g)'
      BY <3>3, <3>4 DEF Answered
    <3> QED BY <1>1, <2>12, <3>1, <3>5 DEF Connected, IsCell
  <2>13. Kept'
    BY <1>1, <2>11, <2>12, KeptKept DEF SetupInv
  <2> QED BY <2>3, <2>4, <2>5, <2>6, <2>7, <2>9, <2>10, <2>13 DEF SetupInv
<1> QED
  BY <1>5, <1>6

-----------------------------------------------------------------------------
LEMMA SetupStep ==
    ASSUME SignalAssumption, TypeOK, CellsInv, SetupInv, [Next]_vars
    PROVE  SetupInv'
<1>1. CASE Handle
  BY <1>1, SetupSend, SetupRls, SetupNas, SetupOthers, SetupReceived, SetupGnb DEF Handle
<1>2. CASE Procedures
  BY <1>2, SetupOthers, SetupExpires DEF Procedures
<1>3. CASE UeHeartbeat \/ PerformCellSelection
  BY <1>3, SetupHeartbeat, SetupSelection
<1>4. CASE Losses \/ Repair \/ UNCHANGED vars
  BY <1>4, SetupOthers
<1>5. CASE Broadcasts \/ Answer \/ Release
  BY <1>5, SetupBroadcast, SetupAmf DEF Broadcasts, Answer, Release
<1>6. CASE Outage
  <2>1. PICK g \in Gnbs : LinkDown(g)
    BY <1>6 DEF Outage, LinkDown, TypeOK, AirTypes
  <2> QED BY <2>1, SetupLinkDown
<1> QED
  BY <1>1, <1>2, <1>3, <1>4, <1>5, <1>6 DEF Next

\* However requests are repeated, answered late or lost with a link, a setup that
\* RRC completes carries the NAS message that asked for it: no completion goes out
\* empty, though RRC completes whatever setup comes from its cell.
THEOREM SetupsCarryNas == Spec => []SetupCarriesNas
<1>1. Init => TypeOK /\ Audible /\ CellsInv /\ SetupInv
  BY TypesInit, CellsInit, SetupInit, SignalAssumption, BoundAssumption
<1>2. TypeOK /\ Audible /\ CellsInv /\ SetupInv /\ [Next]_vars
        => (TypeOK /\ Audible /\ CellsInv /\ SetupInv)'
  BY TypesStep, AudibleStep, CellsStep, SetupStep, SignalAssumption, BoundAssumption
<1>3. SetupInv => SetupCarriesNas
  BY DEF SetupInv
<1> QED
  BY <1>1, <1>2, <1>3, PTL DEF Spec


-----------------------------------------------------------------------------
(* A connected UE is served.  What the gNB does for the UE takes several     *)
(* messages, so the invariant says what is under way: a setup, its           *)
(* completion, a release; and what the gNB will have when it has arrived.    *)
SetupUnderWay(g) == \E k \in Places : \E i \in Nat : Token(g, k, i)
Completing(g) ==
    \/ \E i \in DOMAIN down : Token(g, "down", i)
    \/ \E i \in DOMAIN toGnb[g] : Token(g, "toGnb", i)
ReleaseUnderWay(g) ==
    \/ \E i \in DOMAIN toUe[g] : toUe[g][i] = "RELEASE"
    \/ \E i \in DOMAIN up : up[i].type = "RELEASE" /\ IsCell(up[i].cell, g)

\* The gNB has an NGAP context for the UE's number; the UE is connected to it.
Serves(g) ==
    /\ sti \in DOMAIN ids[g] /\ ids[g][sti] \in DOMAIN ctx[g]
    /\ ctx[g][ids[g][sti]] # "SETUP"
At(g) == rrc = "CONNECTED" /\ IsCell(current, g)

\* The AMF has accepted the UE, or its answer is on its way.
Attached == mm \in {"REGISTERED", "SERVICE_REQUEST_INITIATED"} \/ AcceptUnderWay

\* A connected UE has a cell and keeps its number; a link that is down carries
\* nothing to the UE.
Camped ==
    rrc = "CONNECTED" =>
        current # 0 /\ \A i \in DOMAIN down : down[i].type # "RESET_STI"
Unreached == \A g \in Gnbs : g \notin link => toUe[g] = <<>>

\* Until the completion of a setup has left it, the UE stays where it was set up;
\* a gNB that is being told of a completion, or that serves the UE connected to it,
\* has not released it.
CompletesAt == \A g \in Gnbs : \A i \in DOMAIN down : Token(g, "down", i) => At(g)
Unreleased ==
    \A g \in Gnbs : Completing(g) \/ (At(g) /\ Serves(g)) => ~ReleaseUnderWay(g)

\* A setup of an attached UE does not come to nothing: its link is up, or the UE is
\* served elsewhere and will not take it.
SetupsLinked ==
    Attached => \A g \in Gnbs : SetupUnderWay(g) =>
        g \in link \/ \E h \in link : h # g /\ At(h) /\ Serves(h)

\* Where an attached UE is connected: at a cell that is lost, or to be released
\* locally, or at a gNB within reach that serves it, will serve it, or has told it
\* that it does not.
AttachedServed ==
    Attached /\ rrc = "CONNECTED" =>
        \/ current \notin CellIds
        \/ \E i \in DOMAIN toRrc : toRrc[i] = "LOCAL_RELEASE"
        \/ \E g \in link : At(g) /\ (Completing(g) \/ Serves(g) \/ ReleaseUnderWay(g))
ServedInv ==
    /\ Camped /\ Unreached /\ CompletesAt /\ Unreleased /\ SetupsLinked /\ AttachedServed

\* A UE that is at a gNB with a link answers it.
LEMMA AtAnswers ==
    ASSUME CellsInv, NEW g \in link, At(g), sti \in DOMAIN ids[g]
    PROVE  Answering(g, ids[g][sti])
<1>1. current \in CellIds /\ g \in DOMAIN cells /\ cells[g].id = current
  BY DEF At, IsCell, CellIds
<1>2. GnbOf(current) = g
  BY <1>1 DEF GnbOf, CellsInv, CellsDistinct
<1> QED
  BY <1>1, <1>2 DEF Answering, At

LEMMA NothingUnderWay ==
    ASSUME Settled
    PROVE  \A g \in Gnbs : ~SetupUnderWay(g) /\ ~Completing(g) /\ ~ReleaseUnderWay(g)
<1>1. DOMAIN up = {} /\ DOMAIN down = {} /\ \A g \in Gnbs : DOMAIN toGnb[g] = {} /\ DOMAIN toUe[g] = {}
  BY DEF Settled
<1> QED
  BY <1>1 DEF SetupUnderWay, Completing, ReleaseUnderWay, Token, Places

\* What the invariant says when the messages have been handled.
LEMMA ServedAtRest ==
    ASSUME TypeOK, CellsInv, ServedInv
    PROVE  ConnectedIsServed
<1> SUFFICES ASSUME Settled, rrc = "CONNECTED", mm = "REGISTERED"
             PROVE  \E g \in Gnbs : \E u \in DOMAIN ctx[g] :
                       Answering(g, u) /\ ctx[g][u] # "SETUP"
  BY DEF ConnectedIsServed
<1>1. current \in CellIds
  <2>1. current \in DOMAIN desc /\ current \in 1..lastCell
    BY DEF ServedInv, Camped, TypeOK, RrcTypes
  <2>2. DOMAIN up = {}
    BY DEF Settled
  <2> QED BY <2>1, <2>2 DEF CellsInv, CellsAgree
<1>2. Attached /\ DOMAIN toRrc = {}
  BY DEF Attached, Settled
<1>3. PICK g \in link : At(g) /\ (Completing(g) \/ Serves(g) \/ ReleaseUnderWay(g))
  BY <1>1, <1>2 DEF ServedInv, AttachedServed
<1>4. g \in Gnbs
  BY DEF TypeOK, AirTypes
<1>5. Serves(g)
  BY <1>3, <1>4, NothingUnderWay
<1> QED
  BY <1>3, <1>4, <1>5, AtAnswers DEF Serves

LEMMA ServedInit ==
    ASSUME Init
    PROVE  ServedInv
<1> USE DEF Init
<1>1. rrc # "CONNECTED" /\ DOMAIN down = {} /\ DOMAIN up = {}
      /\ \A g \in Gnbs : DOMAIN toGnb[g] = {} /\ DOMAIN toUe[g] = {}
  OBVIOUS
<1>2. Settled
  BY DEF Settled
<1>3. Camped /\ Unreached /\ CompletesAt
  BY <1>1 DEF Camped, Unreached, CompletesAt
<1> QED
  BY <1>1, <1>2, <1>3, NothingUnderWay DEF ServedInv, Unreleased, SetupsLinked, AttachedServed

-----------------------------------------------------------------------------
\* A step that touches nothing of this.
LEMMA ServedSame ==
    ASSUME ServedInv, link \subseteq link', Attached' => Attached,
           UNCHANGED <<sti, cells, up, down, current, rrc, toGnb, toUe, ids, ctx>>,
           \A i \in DOMAIN toRrc : i \in DOMAIN toRrc' /\ toRrc'[i] = toRrc[i]
    PROVE  ServedInv'
<1>1. \A g : /\ At(g)' <=> At(g)
             /\ Serves(g)' <=> Serves(g)
             /\ ReleaseUnderWay(g)' <=> ReleaseUnderWay(g)
             /\ \A k, i : Token(g, k, i)' <=> Token(g, k, i)
  BY DEF At, Serves, ReleaseUnderWay, Token, IsCell
<1>2. \A g : (Completing(g)' <=> Completing(g)) /\ (SetupUnderWay(g)' <=> SetupUnderWay(g))
  BY <1>1 DEF Completing, SetupUnderWay
<1>3. Camped' /\ Unreached' /\ CompletesAt' /\ Unreleased'
  BY <1>1, <1>2 DEF ServedInv, Camped, Unreached, CompletesAt, Unreleased
<1>4. SetupsLinked'
  BY <1>1, <1>2 DEF ServedInv, SetupsLinked
<1>5. AttachedServed'
  BY <1>1, <1>2 DEF ServedInv, AttachedServed, CellIds
<1> QED
  BY <1>3, <1>4, <1>5 DEF ServedInv

\* The UE is taken to be attached when the AMF accepts it, and no sooner.
LEMMA AttachedKept ==
    ASSUME TypeOK,
           \/ mm' = mm \/ (mm' = "REGISTERED" /\ Attached) \/ mm' = "DEREGISTERED"
              \/ mm' = "REGISTRATION_INITIATED"
              \/ (mm = "REGISTERED" /\ mm' = "SERVICE_REQUEST_INITIATED"),
           AcceptUnderWay' => AcceptUnderWay
    PROVE  Attached' => Attached
BY DEF Attached

\* Steps of NAS, and those of others that touch nothing of this.
LEMMA ServedNas ==
    ASSUME TypeOK, ServedInv, NasReceive \/ Procedures \/ UNCHANGED vars
    PROVE  ServedInv'
<1>1. /\ link \subseteq link'
      /\ UNCHANGED <<sti, cells, up, down, current, rrc, toGnb, toUe, ids, ctx>>
  BY DEF NasReceive, Procedures, SendInitialRegistration, SendServiceRequest, Initiate,
     RegistrationExpires, ServiceRequestExpires, vars, ueVars, airVars, gnbVars
<1>2. \A i \in DOMAIN toRrc : i \in DOMAIN toRrc' /\ toRrc'[i] = toRrc[i]
  <2>1. CASE UNCHANGED toRrc
    BY <2>1
  <2>2. CASE \E x : toRrc' = Append(toRrc, x)
    BY <2>2, QueueTypes, Longer
  <2> QED
    BY <2>1, <2>2 DEF NasReceive, Procedures, SendInitialRegistration, SendServiceRequest, Initiate,
       RegistrationExpires, ServiceRequestExpires, vars, ueVars
<1>3. toNas \in Seq(Events)
  BY DEF TypeOK, NasTypes
<1>4. CASE NasReceive
  <2>1. toNas # <<>> /\ toNas' = Tail(toNas)
    BY <1>4 DEF NasReceive
  <2>2. Range(toNas') \subseteq Range(toNas) /\ Head(toNas) \in Range(toNas)
    BY <1>3, <2>1, TailRange
  <2>3. AcceptUnderWay' => AcceptUnderWay
    BY <1>1, <2>2 DEF AcceptUnderWay
  <2>4. mm' \in {mm, "DEREGISTERED"} \/ (mm' = "REGISTERED" /\ Attached)
    BY <1>4, <2>2 DEF NasReceive, Aborted, ActiveCellChanged, Attached, AcceptUnderWay
  <2>5. Attached' => Attached
    BY <2>3, <2>4, AttachedKept
  <2> QED BY <1>1, <1>2, <2>5, ServedSame
<1>5. CASE Procedures \/ UNCHANGED vars
  <2>1. UNCHANGED toNas
    BY <1>5 DEF Procedures, SendInitialRegistration, SendServiceRequest, Initiate,
       RegistrationExpires, ServiceRequestExpires, vars, ueVars
  <2>2. AcceptUnderWay' => AcceptUnderWay
    BY <1>1, <2>1 DEF AcceptUnderWay
  <2>3. \/ mm' \in {mm, "DEREGISTERED", "REGISTRATION_INITIATED"}
        \/ (mm' = "REGISTERED" /\ Attached)
        \/ (mm = "REGISTERED" /\ mm' = "SERVICE_REQUEST_INITIATED")
    BY <1>5 DEF Procedures, SendInitialRegistration, SendServiceRequest, Initiate,
       RegistrationExpires, ServiceRequestExpires, vars, ueVars, Attached
  <2>4. Attached' => Attached
    BY <2>2, <2>3, AttachedKept
  <2> QED BY <1>1, <1>2, <2>4, ServedSame
<1> QED
  BY <1>4, <1>5

LEMMA ServedLosses ==
    ASSUME TypeOK, ServedInv, Losses \/ Repair
    PROVE  ServedInv'
<1>1. /\ link \subseteq link'
      /\ UNCHANGED <<sti, cells, up, down, current, rrc, toGnb, toUe, ids, ctx, toRrc, toNas, mm>>
  BY DEF Losses, GnbLosesUe, Repair, LinkUp, ueVars, airVars, gnbVars
<1>2. Attached' => Attached
  BY <1>1 DEF Attached, AcceptUnderWay
<1> QED
  BY <1>1, <1>2, ServedSame

\* A link of a UE that is served does not go down, nor while setups are under way.
LEMMA ServedLinkDown ==
    ASSUME ~OutagesWhileServed, TypeOK, ServedInv, NEW g \in Gnbs, LinkDown(g)
    PROVE  ServedInv'
<1>1. /\ link' = link \ {g} /\ DOMAIN toGnb'[g] = {} /\ DOMAIN toUe'[g] = {} /\ toUe'[g] = <<>>
      /\ \A h \in Gnbs \ {g} : toGnb'[h] = toGnb[h] /\ toUe'[h] = toUe[h]
      /\ UNCHANGED <<sti, cells, up, down, current, rrc, toRrc, toNas, mm, ids, ctx>>
      /\ NotServed
  BY DEF LinkDown, TypeOK, AirTypes, ueVars, gnbVars
<1>2. ASSUME NEW h \in Gnbs
      PROVE  /\ At(h)' <=> At(h)
             /\ Serves(h)' <=> Serves(h)
             /\ ReleaseUnderWay(h)' => ReleaseUnderWay(h)
             /\ \A k, i : Token(h, k, i)' => Token(h, k, i)
  BY <1>1 DEF At, Serves, ReleaseUnderWay, Token, IsCell
<1>3. ASSUME NEW h \in Gnbs
      PROVE  (Completing(h)' => Completing(h)) /\ (SetupUnderWay(h)' => SetupUnderWay(h))
  <2>1. \A i \in DOMAIN toGnb'[h] : i \in DOMAIN toGnb[h]
    BY <1>1
  <2> QED BY <1>1, <1>2, <2>1 DEF Completing, SetupUnderWay
<1>4. Camped' /\ Unreached' /\ CompletesAt' /\ Unreleased'
  BY <1>1, <1>2, <1>3 DEF ServedInv, Camped, Unreached, CompletesAt, Unreleased
<1>5. CASE ~Attached
  <2>1. ~Attached'
    <3>1. AcceptUnderWay' => AcceptUnderWay
      <4>1. \A h \in Gnbs : Range(toUe'[h]) \subseteq Range(toUe[h])
        BY <1>1 DEF Range
      <4> QED BY <1>1, <4>1 DEF AcceptUnderWay
    <3> QED BY <1>1, <1>5, <3>1 DEF Attached
  <2> QED BY <1>4, <2>1 DEF ServedInv, SetupsLinked, AttachedServed
<1>6. CASE Attached
  <2>1. rrc = "IDLE" /\ Settled
    BY <1>1, <1>6 DEF NotServed, Attached
  <2>2. \A h \in Gnbs : ~SetupUnderWay(h)'
    BY <2>1, <1>3, NothingUnderWay
  <2> QED BY <1>1, <1>4, <2>1, <2>2 DEF ServedInv, SetupsLinked, AttachedServed
<1> QED
  BY <1>5, <1>6

\* A heartbeat leaves when nothing is on its way, and takes nothing from who serves.
LEMMA ServedHeartbeat ==
    ASSUME SignalAssumption, TypeOK, CellsInv, ServedInv, UeHeartbeat
    PROVE  ServedInv'
<1>1. /\ Settled /\ DOMAIN down' = {} /\ \A g \in Gnbs : DOMAIN toGnb'[g] = {}
      /\ UNCHANGED <<sti, down, current, rrc, toRrc, toNas, mm, link, toGnb, ctx>>
      /\ DOMAIN toRrc = {}
  BY DEF UeHeartbeat, Settled
<1>2. /\ \A i \in DOMAIN up' : up'[i].type = "SIGNAL"
      /\ \A g \in Gnbs : \A i \in DOMAIN toUe'[g] : toUe'[g][i] \in {"ACK", "SI"}
  BY HeartbeatSays
<1>3. \A g \in Gnbs : ~SetupUnderWay(g)' /\ ~ReleaseUnderWay(g)'
  BY <1>1, <1>2 DEF SetupUnderWay, ReleaseUnderWay, Token, Places
<1>4. Unreached'
  <2>1. ASSUME NEW g \in Gnbs, g \notin link PROVE toUe'[g] = <<>>
    <3>1. toUe'[g] \in Answers(g)
      BY DEF UeHeartbeat, ReceiveHeartbeat
    <3> QED BY <2>1, <3>1 DEF Answers, Hears
  <2> QED BY <1>1, <2>1 DEF Unreached
<1>5. Camped' /\ CompletesAt' /\ Unreleased' /\ SetupsLinked'
  BY <1>1, <1>3 DEF ServedInv, Camped, CompletesAt, Unreleased, SetupsLinked
<1>6. AttachedServed'
  <2> SUFFICES ASSUME Attached', rrc = "CONNECTED", current \in CellIds'
               PROVE  \E g \in link : At(g)' /\ Serves(g)'
    BY <1>1 DEF AttachedServed
  <2>1. PICK gone \in SUBSET (DOMAIN cells) : HeartbeatCycle(gone)
    BY DEF UeHeartbeat
  <2>2. /\ DOMAIN cells' = DOMAIN cells \ gone
        /\ \A g \in DOMAIN cells' : cells'[g].id = cells[g].id
    BY <2>1, CellsAged
  <2>3. Attached
    <3>1. ~(\E g \in Gnbs : "ACCEPT" \in Range(toUe'[g]))
      BY <1>2 DEF Range
    <3> QED BY <1>1, <1>2, <3>1 DEF Attached, AcceptUnderWay
  <2>4. PICK h \in DOMAIN cells' : cells'[h].id = current
    BY DEF CellIds
  <2>5. current \in CellIds /\ h \in DOMAIN cells /\ cells[h].id = current
    BY <2>2, <2>4 DEF CellIds
  <2>6. PICK g \in link : At(g) /\ (Completing(g) \/ Serves(g) \/ ReleaseUnderWay(g))
    BY <1>1, <2>3, <2>5 DEF ServedInv, AttachedServed
  <2>7. g \in Gnbs /\ g = h
    BY <2>5, <2>6 DEF TypeOK, AirTypes, At, IsCell, CellsInv, CellsDistinct
  <2>8. Serves(g)
    BY <1>1, <2>6, <2>7, NothingUnderWay
  <2>9. At(g)'
    BY <1>1, <2>4, <2>6, <2>7 DEF At, IsCell
  <2>10. Serves(g)'
    BY <1>1, <2>7, <2>8 DEF Serves, UeHeartbeat, ReceiveHeartbeat, Put, UeId
  <2> QED BY <2>6, <2>9, <2>10
<1> QED
  BY <1>4, <1>5, <1>6 DEF ServedInv

-----------------------------------------------------------------------------
\* What the gNBs send on their own: a release goes only to a UE that is then no
\* longer served.
LEMMA ServedSent ==
    ASSUME TypeOK, ServedInv, NEW g \in Gnbs, NEW msg \in {"SI", "ACCEPT", "RELEASE"},
           \/ toUe' = toUe
           \/ /\ toUe' = [toUe EXCEPT ![g] = Append(@, msg)] /\ g \in link
              /\ msg = "RELEASE" => ~Completing(g) /\ ~Serves(g)',
           \A h \in Gnbs : Serves(h)' => Serves(h),
           UNCHANGED <<sti, cells, up, down, current, rrc, toRrc, toGnb, link>>,
           SetupsLinked', AttachedServed'
    PROVE  ServedInv'
<1>1. ASSUME NEW h \in Gnbs
      PROVE  /\ \A i \in DOMAIN toUe'[h] : \/ i \in DOMAIN toUe[h] /\ toUe'[h][i] = toUe[h][i]
                                           \/ h = g /\ toUe'[h][i] = msg
                                              /\ (msg = "RELEASE" => ~Completing(g) /\ ~Serves(g)')
             /\ h \notin link => toUe'[h] = toUe[h]
  <2>1. CASE toUe'[h] = toUe[h]
    BY <2>1
  <2>2. CASE /\ h = g /\ toUe'[h] = Append(toUe[h], msg) /\ g \in link
             /\ msg = "RELEASE" => ~Completing(g) /\ ~Serves(g)'
    <3> DEFINE n == Len(toUe[h])
    <3>1. /\ n \in Nat /\ DOMAIN toUe[h] = 1..n /\ DOMAIN toUe'[h] = 1..n + 1
          /\ \A i \in 1..n : toUe'[h][i] = toUe[h][i]
          /\ toUe'[h][n + 1] = msg
      BY <2>2, QueueTypes, Longer
    <3> HIDE DEF n
    <3> QED BY <2>2, <3>1
  <2> QED BY <2>1, <2>2 DEF TypeOK, AirTypes
<1>2. \A h \in Gnbs : /\ At(h)' <=> At(h)
                      /\ Completing(h)' <=> Completing(h)
                      /\ \A i : Token(h, "down", i)' <=> Token(h, "down", i)
  BY DEF At, Completing, Token, IsCell
<1>3. ASSUME NEW h \in Gnbs, Completing(h)' \/ (At(h)' /\ Serves(h)'), ReleaseUnderWay(h)'
      PROVE  FALSE
  <2>1. ~ReleaseUnderWay(h)
    BY <1>2, <1>3 DEF ServedInv, Unreleased
  <2>2. h = g /\ msg = "RELEASE" /\ ~Completing(g) /\ ~Serves(g)'
    BY <1>1, <1>3, <2>1 DEF ReleaseUnderWay, IsCell
  <2> QED BY <1>2, <1>3, <2>2
<1>4. Camped' /\ Unreached' /\ CompletesAt' /\ Unreleased'
  BY <1>1, <1>2, <1>3 DEF ServedInv, Camped, Unreached, CompletesAt, Unreleased
<1> QED
  BY <1>4 DEF ServedInv

LEMMA ServedBroadcast ==
    ASSUME TypeOK, ServedInv, NEW g \in Gnbs, Broadcast(g)
    PROVE  ServedInv'
<1>1. /\ toUe' = [toUe EXCEPT ![g] = Append(@, "SI")] /\ g \in link
      /\ UNCHANGED <<sti, cells, up, down, current, rrc, toRrc, toGnb, link, ids, ctx, toNas, mm>>
  BY DEF Broadcast, ueVars
<1>2. ASSUME NEW h \in Gnbs
      PROVE  /\ \A i \in DOMAIN toUe[h] : i \in DOMAIN toUe'[h] /\ toUe'[h][i] = toUe[h][i]
             /\ \A i \in DOMAIN toUe'[h] : \/ i \in DOMAIN toUe[h] /\ toUe'[h][i] = toUe[h][i]
                                           \/ toUe'[h][i] = "SI"
  <2>1. toUe'[h] = toUe[h] \/ toUe'[h] = Append(toUe[h], "SI")
    BY <1>1 DEF TypeOK, AirTypes
  <2> DEFINE n == Len(toUe[h])
  <2>2. CASE toUe'[h] = Append(toUe[h], "SI")
    <3>1. /\ n \in Nat /\ DOMAIN toUe[h] = 1..n /\ DOMAIN toUe'[h] = 1..n + 1
          /\ \A i \in 1..n : toUe'[h][i] = toUe[h][i]
          /\ toUe'[h][n + 1] = "SI"
      BY <2>2, QueueTypes, Longer
    <3> HIDE DEF n
    <3> QED BY <3>1
  <2> QED BY <2>1, <2>2
<1>3. \A h \in Gnbs : /\ Serves(h)' <=> Serves(h)
                      /\ At(h)' <=> At(h)
                      /\ Completing(h)' <=> Completing(h)
                      /\ ReleaseUnderWay(h)' <=> ReleaseUnderWay(h)
                      /\ \A k, i : Token(h, k, i)' <=> Token(h, k, i)
  BY <1>1, <1>2 DEF Serves, At, Completing, ReleaseUnderWay, Token, IsCell
<1>4. Attached' => Attached
  <2>1. \A h \in Gnbs : "ACCEPT" \in Range(toUe'[h]) => "ACCEPT" \in Range(toUe[h])
    BY <1>2 DEF Range
  <2> QED BY <1>1, <2>1 DEF Attached, AcceptUnderWay
<1>5. SetupsLinked' /\ AttachedServed'
  <2>1. \A h \in Gnbs : SetupUnderWay(h)' => SetupUnderWay(h)
    BY <1>3 DEF SetupUnderWay
  <2>2. link \subseteq Gnbs
    BY DEF TypeOK, AirTypes
  <2>3. SetupsLinked'
    BY <1>1, <1>3, <1>4, <2>1, <2>2 DEF ServedInv, SetupsLinked
  <2>4. AttachedServed'
    BY <1>1, <1>3, <1>4, <2>2 DEF ServedInv, AttachedServed, CellIds
  <2> QED BY <2>3, <2>4
<1> QED
  BY <1>1, <1>3, <1>5, ServedSent

\* An answer of the AMF leaves the contexts of the other UE ids.
LEMMA ContextsOfOthers ==
    ASSUME TypeOK, NEW g \in Gnbs, NEW u \in DOMAIN ctx[g], UNCHANGED <<sti, ids>>,
           \/ ctx' = [ctx EXCEPT ![g][u] = "SERVED"]
           \/ ctx' = [ctx EXCEPT ![g] = Removed(@, {u})]
    PROVE  \A h \in Gnbs : Serves(h)' <=> \/ ~(h = g /\ sti \in DOMAIN ids[g] /\ ids[g][sti] = u)
                                             /\ Serves(h)
                                          \/ /\ h = g /\ sti \in DOMAIN ids[g] /\ ids[g][sti] = u
                                             /\ ctx' = [ctx EXCEPT ![g][u] = "SERVED"]
<1>1. CASE ctx' = [ctx EXCEPT ![g][u] = "SERVED"]
  BY <1>1 DEF Serves, TypeOK, GnbTypes
<1>2. CASE ctx' = [ctx EXCEPT ![g] = Removed(@, {u})]
  <2>1. /\ \A h \in Gnbs \ {g} : ctx'[h] = ctx[h]
        /\ DOMAIN ctx'[g] = DOMAIN ctx[g] \ {u}
        /\ \A v \in DOMAIN ctx'[g] : ctx'[g][v] = ctx[g][v]
    BY <1>2 DEF TypeOK, GnbTypes, Removed, Restrict
  <2>2. ctx' # [ctx EXCEPT ![g][u] = "SERVED"]
    <3>1. u \in DOMAIN [ctx EXCEPT ![g][u] = "SERVED"][g]
      BY DEF TypeOK, GnbTypes
    <3> QED BY <2>1, <3>1
  <2> QED BY <2>1, <2>2 DEF Serves
<1> QED
  BY <1>1, <1>2

\* What is sent to a gNB's UE is added to what is on its way.
LEMMA SentLast ==
    ASSUME TypeOK, NEW g \in Gnbs, NEW msg,
           \A h \in Gnbs \ {g} : toUe'[h] = toUe[h],
           toUe'[g] = toUe[g] \/ toUe'[g] = Append(toUe[g], msg)
    PROVE  /\ \A h \in Gnbs : /\ \A i \in DOMAIN toUe[h] : i \in DOMAIN toUe'[h] /\ toUe'[h][i] = toUe[h][i]
                              /\ \A i \in DOMAIN toUe'[h] : \/ i \in DOMAIN toUe[h] /\ toUe'[h][i] = toUe[h][i]
                                                            \/ h = g /\ toUe'[h][i] = msg
           /\ toUe'[g] = Append(toUe[g], msg) => \E i \in DOMAIN toUe'[g] : toUe'[g][i] = msg
<1>1. ASSUME toUe'[g] = Append(toUe[g], msg)
      PROVE  /\ \A i \in DOMAIN toUe[g] : i \in DOMAIN toUe'[g] /\ toUe'[g][i] = toUe[g][i]
             /\ \A i \in DOMAIN toUe'[g] : \/ i \in DOMAIN toUe[g] /\ toUe'[g][i] = toUe[g][i]
                                           \/ toUe'[g][i] = msg
             /\ \E i \in DOMAIN toUe'[g] : toUe'[g][i] = msg
  <2> DEFINE n == Len(toUe[g])
  <2>1. /\ n \in Nat /\ DOMAIN toUe[g] = 1..n /\ DOMAIN toUe'[g] = 1..n + 1
        /\ \A i \in 1..n : toUe'[g][i] = toUe[g][i]
        /\ toUe'[g][n + 1] = msg
    BY <1>1, QueueTypes, Longer
  <2> HIDE DEF n
  <2> QED BY <2>1
<1> QED
  BY <1>1

\* The AMF accepts a UE that answers: it is served where it is.
LEMMA ServedAccepts ==
    ASSUME TypeOK, CellsInv, ServedInv, NEW g \in Gnbs, NEW u \in DOMAIN ctx[g], AmfAccepts(g, u)
    PROVE  ServedInv'
<1>1. /\ UNCHANGED <<sti, cells, up, down, current, rrc, toRrc, toGnb, link, ids>>
      /\ ctx' = [ctx EXCEPT ![g][u] = "SERVED"] /\ ctx[g][u] = "ASKED"
      /\ g \in link /\ rrc = "CONNECTED" /\ sti \in DOMAIN ids[g] /\ ids[g][sti] = u
      /\ toUe' = toUe \/ toUe' = [toUe EXCEPT ![g] = Append(@, "ACCEPT")]
  BY DEF AmfAccepts, Answering, SendTo, ueVars
<1>2. At(g) /\ At(g)'
  <2>1. current \in CellIds /\ GnbOf(current) = g
    BY DEF AmfAccepts, Answering
  <2>2. g \in DOMAIN cells /\ cells[g].id = current
    BY <2>1 DEF CellIds, GnbOf
  <2> QED BY <1>1, <2>2 DEF At, IsCell
<1>3. Serves(g) /\ \A h \in Gnbs : Serves(h)' <=> Serves(h)
  BY <1>1, ContextsOfOthers DEF Serves
<1>4. SetupsLinked' /\ AttachedServed'
  <2>1. g \in link' /\ At(g)' /\ Serves(g)'
    BY <1>1, <1>2, <1>3
  <2> QED BY <2>1 DEF SetupsLinked, AttachedServed
<1> QED
  BY <1>1, <1>3, <1>4, ServedSent

\* The AMF releases a UE: if the gNB served it, the release is on its way.
LEMMA ServedReleases ==
    ASSUME ~OutagesWhileServed, TypeOK, CellsInv, SetupInv, ServedInv, NEW g \in Gnbs,
           NEW u \in DOMAIN ctx[g], AmfGivesUp(g, u) \/ AmfReleases(g, u)
    PROVE  ServedInv'
<1> DEFINE own == sti \in DOMAIN ids[g] /\ ids[g][sti] = u
<1>1. /\ UNCHANGED <<sti, cells, up, down, current, rrc, toRrc, toGnb, link, ids, toNas, mm>>
      /\ ctx' = [ctx EXCEPT ![g] = Removed(@, {u})] /\ ctx[g][u] # "SETUP"
      /\ u \in DOMAIN ues[g] => own
      /\ toUe' = IF g \in link /\ u \in DOMAIN ues[g]
                 THEN [toUe EXCEPT ![g] = Append(@, "RELEASE")] ELSE toUe
  BY DEF AmfGivesUp, AmfReleases, ReleaseContext, SendTo, ueVars
<1>2. toUe' = toUe \/ (toUe' = [toUe EXCEPT ![g] = Append(@, "RELEASE")] /\ g \in link /\ own)
  BY <1>1
<1>3. /\ \A h \in Gnbs : Serves(h)' <=> ~(h = g /\ own) /\ Serves(h)
  <2>1. ctx' # [ctx EXCEPT ![g][u] = "SERVED"]
    <3>1. u \in DOMAIN [ctx EXCEPT ![g][u] = "SERVED"][g]
      BY DEF TypeOK, GnbTypes
    <3>2. u \notin DOMAIN ctx'[g]
      BY <1>1 DEF TypeOK, GnbTypes, Removed, Restrict
    <3> QED BY <3>1, <3>2
  <2> QED BY <1>1, <2>1, ContextsOfOthers
<1>4. own => ~Completing(g)
  <2> SUFFICES ASSUME own, Completing(g) PROVE FALSE
    OBVIOUS
  <2>1. Pending(g)
    BY QueuePositions DEF Completing, SetupInv, OneSetup, Places
  <2> QED BY <1>1, <2>1 DEF Pending
<1>5. \A h \in Gnbs : /\ \A i \in DOMAIN toUe[h] : i \in DOMAIN toUe'[h] /\ toUe'[h][i] = toUe[h][i]
                      /\ \A i \in DOMAIN toUe'[h] : \/ i \in DOMAIN toUe[h] /\ toUe'[h][i] = toUe[h][i]
                                                    \/ h = g /\ toUe'[h][i] = "RELEASE"
  <2>1. /\ \A h \in Gnbs \ {g} : toUe'[h] = toUe[h]
        /\ toUe'[g] = toUe[g] \/ toUe'[g] = Append(toUe[g], "RELEASE")
    BY <1>2 DEF TypeOK, AirTypes
  <2> QED BY <2>1, SentLast
<1>6. \A h \in Gnbs : /\ At(h)' <=> At(h)
                      /\ Completing(h)' <=> Completing(h)
                      /\ ReleaseUnderWay(h) => ReleaseUnderWay(h)'
                      /\ \A k, i : Token(h, k, i)' => Token(h, k, i)
  BY <1>1, <1>5 DEF At, Completing, ReleaseUnderWay, Token, IsCell
<1>7. Attached' => Attached
  <2>1. \A h \in Gnbs : "ACCEPT" \in Range(toUe'[h]) => "ACCEPT" \in Range(toUe[h])
    BY <1>5 DEF Range
  <2> QED BY <1>1, <2>1 DEF Attached, AcceptUnderWay
<1>8. ASSUME NEW h \in link, At(h), Serves(h), ~Serves(h)'
      PROVE  Settled /\ ReleaseUnderWay(h)'
  <2>1. h \in Gnbs
    BY DEF TypeOK, AirTypes
  <2>2. h = g /\ own
    BY <1>3, <1>8, <2>1
  <2>3. Answering(g, u)
    BY <1>8, <2>2, AtAnswers
  <2>4. AmfReleases(g, u)
    BY <2>3 DEF AmfGivesUp
  <2>5. Settled /\ u \in DOMAIN ues[g]
    BY <2>4 DEF AmfReleases
  <2>7. toUe'[g] = Append(toUe[g], "RELEASE")
    BY <1>1, <1>8, <2>2, <2>5 DEF TypeOK, AirTypes
  <2>8. \E i \in DOMAIN toUe'[g] : toUe'[g][i] = "RELEASE"
    <3>1. \A k \in Gnbs \ {g} : toUe'[k] = toUe[k]
      BY <1>2 DEF TypeOK, AirTypes
    <3> QED BY <2>7, <3>1, SentLast
  <2> QED BY <2>2, <2>5, <2>8 DEF ReleaseUnderWay
<1>9. SetupsLinked'
  <2> SUFFICES ASSUME Attached', NEW h \in Gnbs, SetupUnderWay(h)'
               PROVE  h \in link \/ \E k \in link : k # h /\ At(k)' /\ Serves(k)'
    BY <1>1 DEF SetupsLinked
  <2>1. SetupUnderWay(h) /\ Attached
    BY <1>6, <1>7 DEF SetupUnderWay
  <2>2. CASE h \in link
    BY <2>2
  <2>3. CASE h \notin link
    <3>1. PICK k \in link : k # h /\ At(k) /\ Serves(k)
      BY <2>1, <2>3 DEF ServedInv, SetupsLinked
    <3>2. Serves(k)'
      BY <1>8, <2>1, <3>1, NothingUnderWay
    <3>3. k \in Gnbs
      BY DEF TypeOK, AirTypes
    <3> QED BY <1>6, <3>1, <3>2, <3>3
  <2> QED BY <2>2, <2>3
<1>10. AttachedServed'
  <2> SUFFICES ASSUME Attached', rrc = "CONNECTED", current \in CellIds,
                      \A i \in DOMAIN toRrc : toRrc[i] # "LOCAL_RELEASE"
               PROVE  \E k \in link : At(k)' /\ (Completing(k)' \/ Serves(k)' \/ ReleaseUnderWay(k)')
    BY <1>1 DEF AttachedServed, CellIds
  <2>1. PICK k \in link : At(k) /\ (Completing(k) \/ Serves(k) \/ ReleaseUnderWay(k))
    BY <1>7 DEF ServedInv, AttachedServed
  <2>2. k \in Gnbs
    BY DEF TypeOK, AirTypes
  <2> QED BY <1>6, <1>8, <2>1, <2>2
<1>11. \A h \in Gnbs : Serves(h)' => Serves(h)
  BY <1>3
<1>12. \/ toUe' = toUe
       \/ /\ toUe' = [toUe EXCEPT ![g] = Append(@, "RELEASE")] /\ g \in link
          /\ ~Completing(g) /\ ~Serves(g)'
  BY <1>2, <1>3, <1>4
<1> HIDE DEF own
<1> QED
  BY <1>1, <1>9, <1>10, <1>11, <1>12, ServedSent

-----------------------------------------------------------------------------
\* What a gNB makes of a message: a setup is made, or completed, or none of it.
LEMMA ServedGnb ==
    ASSUME TypeOK, CellsInv, SetupInv, ServedInv, NEW g \in Gnbs, GnbReceive(g)
    PROVE  ServedInv'
<1> DEFINE m == Head(toGnb[g])
           u == ids[g][sti]
           made == ctx' = [ctx EXCEPT ![g] = Put(@, u, "SETUP")] /\ u \notin DOMAIN ctx[g]
                   /\ m.type = "SETUP_REQUEST"
           done == ctx' = [ctx EXCEPT ![g][u] = "ASKED"] /\ u \in DOMAIN ctx[g] /\ UNCHANGED toUe
                   /\ m.type \in {"SETUP_COMPLETE", "INFORMATION_TRANSFER"}
                   /\ (ctx[g][u] = "SETUP" => m.type = "SETUP_COMPLETE")
<1>1. /\ toGnb[g] # <<>> /\ toGnb' = [toGnb EXCEPT ![g] = Tail(@)]
      /\ UNCHANGED <<sti, cells, up, down, current, rrc, toRrc, toNas, mm, link, ids>>
  BY DEF GnbReceive, ueVars
<1>2. /\ \A h \in Gnbs \ {g} : toGnb'[h] = toGnb[h]
      /\ 1 \in DOMAIN toGnb[g] /\ m = toGnb[g][1]
      /\ \A i \in DOMAIN toGnb'[g] : i \in Nat \ {0} /\ i + 1 \in DOMAIN toGnb[g]
                                     /\ toGnb'[g][i] = toGnb[g][i + 1]
      /\ \A i \in DOMAIN toGnb[g] : i > 1 => i - 1 \in DOMAIN toGnb'[g]
                                             /\ toGnb'[g][i - 1] = toGnb[g][i]
  BY <1>1, GnbTaken
<1>3. m.sti = sti /\ g \in link
  BY <1>2, <1>1 DEF SetupInv, OneNumber, Severed
<1>4. /\ toUe' = toUe \/ (made /\ toUe' = [toUe EXCEPT ![g] = Append(@, "SETUP")])
      /\ \/ UNCHANGED ctx
         \/ made /\ sti \in DOMAIN ids[g]
         \/ done /\ sti \in DOMAIN ids[g]
  BY <1>3 DEF GnbReceive, ReceiveSetupRequest, ReceiveSetupComplete, ReceiveInformationTransfer, SendTo
<1>5. \A h \in Gnbs : /\ \A i \in DOMAIN toUe[h] : i \in DOMAIN toUe'[h] /\ toUe'[h][i] = toUe[h][i]
                      /\ \A i \in DOMAIN toUe'[h] : \/ i \in DOMAIN toUe[h] /\ toUe'[h][i] = toUe[h][i]
                                                    \/ h = g /\ toUe'[h][i] = "SETUP" /\ made
  <2>1. CASE toUe' = toUe
    BY <2>1
  <2>2. CASE made /\ toUe' = [toUe EXCEPT ![g] = Append(@, "SETUP")]
    <3>1. /\ \A h \in Gnbs \ {g} : toUe'[h] = toUe[h]
          /\ toUe'[g] = toUe[g] \/ toUe'[g] = Append(toUe[g], "SETUP")
      BY <2>2 DEF TypeOK, AirTypes
    <3> QED BY <2>2, <3>1, SentLast
  <2> QED BY <1>4, <2>1, <2>2
<1>6. \A h \in Gnbs : /\ At(h)' <=> At(h)
                      /\ ReleaseUnderWay(h)' <=> ReleaseUnderWay(h)
                      /\ \A i : Token(h, "down", i)' <=> Token(h, "down", i)
  BY <1>1, <1>5 DEF At, ReleaseUnderWay, Token, IsCell
<1>7. \A h \in Gnbs : Completing(h)' => Completing(h)
  BY <1>1, <1>2, <1>6 DEF Completing, Token
\* Who is served goes on being served; a completion makes the gNB serve.
<1>8. ASSUME NEW h \in Gnbs, Serves(h) PROVE Serves(h)'
  BY <1>1, <1>4, <1>8 DEF Serves, Put, TypeOK, GnbTypes
<1>9. ASSUME NEW h \in Gnbs, Serves(h)', ~Serves(h) PROVE Completing(h)
  <2>1. h = g /\ done /\ ctx[g][u] = "SETUP"
    BY <1>1, <1>4, <1>9 DEF Serves, Put, TypeOK, GnbTypes
  <2>2. Token(g, "toGnb", 1)
    BY <1>2, <2>1 DEF Token
  <2> QED BY <1>2, <2>1, <2>2 DEF Completing
<1>10. ASSUME NEW h \in Gnbs, Completing(h), ~Completing(h)' PROVE Serves(h)'
  <2>1. h = g
    BY <1>1, <1>2, <1>6, <1>10 DEF Completing, Token
  <2>2. PICK i \in DOMAIN toGnb[g] : Token(g, "toGnb", i)
    BY <1>1, <1>6, <1>10, <2>1 DEF Completing
  <2>3. i = 1
    <3> SUFFICES ASSUME i # 1 PROVE FALSE
      OBVIOUS
    <3>1. i \in Nat \ {0}
      <4>1. toGnb[g] \in Seq(Datagrams)
        BY QueueTypes
      <4> QED BY <4>1
    <3>2. i - 1 \in DOMAIN toGnb'[g] /\ toGnb'[g][i - 1] = toGnb[g][i]
      BY <1>2, <3>1
    <3>3. Token(g, "toGnb", i - 1)'
      BY <2>2, <3>2 DEF Token
    <3> QED BY <1>10, <2>1, <3>2, <3>3 DEF Completing
  <2>4. m.type = "SETUP_COMPLETE" /\ Pending(g)
    BY <1>2, <2>2, <2>3, QueuePositions DEF Token, SetupInv, OneSetup, Places
  <2>5. done
    BY <1>3, <2>4 DEF GnbReceive, ReceiveSetupComplete, Pending
  <2> QED BY <1>1, <2>1, <2>4, <2>5 DEF Serves, Pending, TypeOK, GnbTypes
<1>11. Attached' => Attached
  <2>1. \A h \in Gnbs : "ACCEPT" \in Range(toUe'[h]) => "ACCEPT" \in Range(toUe[h])
    BY <1>5 DEF Range
  <2> QED BY <1>1, <2>1 DEF Attached, AcceptUnderWay
<1>12. ASSUME NEW h \in Gnbs, SetupUnderWay(h)' PROVE h \in link \/ SetupUnderWay(h)
  <2>1. CASE h = g
    BY <1>3, <2>1
  <2>2. CASE h # g
    BY <1>1, <1>2, <1>5, <1>12, <2>2 DEF SetupUnderWay, Token, IsCell
  <2> QED BY <2>1, <2>2
<1>13. link \subseteq Gnbs
  BY DEF TypeOK, AirTypes
<1>14. Camped' /\ Unreached' /\ CompletesAt'
  BY <1>1, <1>3, <1>4, <1>6 DEF ServedInv, Camped, Unreached, CompletesAt, TypeOK, AirTypes
<1>15. Unreleased'
  BY <1>6, <1>7, <1>9 DEF ServedInv, Unreleased
<1>16. SetupsLinked'
  BY <1>1, <1>6, <1>8, <1>11, <1>12, <1>13 DEF ServedInv, SetupsLinked
<1>17. AttachedServed'
  BY <1>1, <1>6, <1>8, <1>10, <1>11, <1>13 DEF ServedInv, AttachedServed, CellIds
<1> QED
  BY <1>14, <1>15, <1>16, <1>17 DEF ServedInv

-----------------------------------------------------------------------------
\* The cell changes while the UE is idle.
LEMMA ServedSelection ==
    ASSUME TypeOK, ServedInv, PerformCellSelection
    PROVE  ServedInv'
<1> DEFINE n == Len(down)
<1>1. /\ rrc = "IDLE" /\ rrc' = "IDLE"
      /\ UNCHANGED <<sti, cells, up, toRrc, toGnb, toUe, link, ids, ctx, mm>>
      /\ toNas' = Append(toNas, "ACTIVE_CELL_CHANGED")
  BY DEF PerformCellSelection, airVars, gnbVars
<1>2. /\ n \in Nat /\ DOMAIN down = 1..n /\ DOMAIN down' = 1..n + 1
      /\ \A i \in 1..n : down'[i] = down[i]
      /\ down'[n + 1].type = "ASSIGN_CURRENT_CELL"
  <2> DEFINE x == ToCell(SelectedCell, "ASSIGN_CURRENT_CELL", FALSE)
  <2>1. down' = Append(down, x) /\ x.type = "ASSIGN_CURRENT_CELL"
    BY DEF PerformCellSelection, ToCell
  <2> HIDE DEF x
  <2> QED BY <2>1, DownAppended
<1> HIDE DEF n
<1>3. \A g, k, i : Token(g, k, i)' => Token(g, k, i)
  BY <1>1, <1>2 DEF Token, IsCell
<1>4. \A g \in Gnbs : \A i \in DOMAIN down : ~Token(g, "down", i)
  BY <1>1 DEF ServedInv, CompletesAt, At
<1>5. \A g \in Gnbs : /\ \A i \in DOMAIN down' : ~Token(g, "down", i)'
                      /\ Completing(g)' => Completing(g)
                      /\ ReleaseUnderWay(g)' => ReleaseUnderWay(g)
                      /\ SetupUnderWay(g)' => SetupUnderWay(g)
                      /\ ~At(g) /\ ~At(g)'
  <2>1. \A g \in Gnbs : \A i \in DOMAIN down' : ~Token(g, "down", i)'
    <3>1. ASSUME NEW g \in Gnbs, NEW i \in DOMAIN down', Token(g, "down", i)' PROVE FALSE
      <4>1. Token(g, "down", i)
        BY <1>3, <3>1
      <4> QED BY <1>4, <4>1 DEF Token
    <3> QED BY <3>1
  <2> QED BY <1>1, <1>3, <2>1 DEF Completing, ReleaseUnderWay, SetupUnderWay, IsCell, At
<1>6. Attached' => Attached
  <2>1. Range(toNas') = Range(toNas) \cup {"ACTIVE_CELL_CHANGED"}
    BY <1>1, AppendRange DEF TypeOK, NasTypes
  <2> QED BY <1>1, <2>1 DEF Attached, AcceptUnderWay
<1>7. link \subseteq Gnbs
  BY DEF TypeOK, AirTypes
<1>8. Camped' /\ Unreached' /\ CompletesAt' /\ AttachedServed'
  BY <1>1, <1>5 DEF ServedInv, Camped, Unreached, CompletesAt, AttachedServed
<1>9. Unreleased'
  BY <1>5 DEF ServedInv, Unreleased
<1>10. SetupsLinked'
  BY <1>1, <1>5, <1>6, <1>7 DEF ServedInv, SetupsLinked
<1> QED
  BY <1>8, <1>9, <1>10 DEF ServedInv

\* The udp task passes on what the gNBs send.
LEMMA ServedReceived ==
    ASSUME TypeOK, CellsInv, SetupInv, ServedInv, NEW g \in Gnbs, UeReceive(g)
    PROVE  ServedInv'
<1> DEFINE msg == Head(toUe[g])
<1>1. /\ toUe[g] # <<>> /\ toUe' = [toUe EXCEPT ![g] = Tail(@)]
      /\ UNCHANGED <<sti, down, current, rrc, toRrc, toNas, mm, toGnb, link, ids, ctx>>
  BY DEF UeReceive, gnbVars
<1>2. /\ \A h \in Gnbs \ {g} : toUe'[h] = toUe[h]
      /\ 1 \in DOMAIN toUe[g] /\ msg = toUe[g][1]
      /\ \A i \in DOMAIN toUe'[g] : i \in Nat \ {0} /\ i + 1 \in DOMAIN toUe[g]
                                     /\ toUe'[g][i] = toUe[g][i + 1]
      /\ \A i \in DOMAIN toUe[g] : i > 1 => i - 1 \in DOMAIN toUe'[g]
                                            /\ toUe'[g][i - 1] = toUe[g][i]
      /\ \A i \in DOMAIN toUe[g] : i \in Nat \ {0}
  <2>1. toUe[g] \in Seq(Downlinks \cup {"ACK"}) /\ toUe'[g] = Tail(toUe[g])
    BY <1>1 DEF TypeOK, AirTypes
  <2>2. \A i \in DOMAIN toUe[g] : i \in Nat \ {0}
    BY <2>1
  <2>3. \A i \in DOMAIN toUe[g] : i > 1 => i - 1 \in DOMAIN toUe'[g]
                                            /\ toUe'[g][i - 1] = toUe[g][i]
    <3> DEFINE s == toUe[g]
               t == toUe'[g]
    <3>1. s \in Seq(Downlinks \cup {"ACK"}) /\ s # <<>> /\ t = Tail(s)
      BY <1>1, <2>1
    <3> HIDE DEF s, t
    <3>2. \A i \in DOMAIN s : i > 1 => i - 1 \in DOMAIN t /\ t[i - 1] = s[i]
      BY <3>1, Shorter
    <3> QED BY <3>2 DEF s, t
  <2> QED BY <1>1, <2>2, <2>3, UeTaken
<1>3. /\ \A h : \A c \in 0..lastCell : IsCell(c, h)' <=> IsCell(c, h)
      /\ CellIds \subseteq CellIds'
  BY CellsStay DEF UeReceive
<1>4. PICK n \in Nat : UpGrows(g, n)
  BY UpReceived
<1>5. \A i \in DOMAIN down : down[i].cell \in 0..lastCell
  BY DownTyped
<1>6. current \in 0..lastCell
  BY DEF TypeOK, RrcTypes, UdpTypes
<1>7. \A h : At(h)' <=> At(h)
  <2>1. PICK c \in 0..lastCell : c = current
    BY <1>6
  <2> QED BY <1>1, <1>3, <2>1 DEF At
<1>8. \A h, i : Token(h, "down", i)' <=> Token(h, "down", i)
  <2> SUFFICES ASSUME NEW h, NEW i, i \in DOMAIN down PROVE IsCell(down[i].cell, h)' <=> IsCell(down[i].cell, h)
    BY <1>1 DEF Token
  <2>1. PICK c \in 0..lastCell : c = down[i].cell
    BY <1>5
  <2> QED BY <1>1, <1>3, <2>1
<1>9. \A h \in Gnbs : /\ Completing(h)' <=> Completing(h)
                      /\ Serves(h)' <=> Serves(h)
  BY <1>1, <1>8 DEF Completing, Token, Serves
<1>10. \A h \in Gnbs : SetupUnderWay(h)' => SetupUnderWay(h)
  <2> SUFFICES ASSUME NEW h \in Gnbs, NEW k \in Places, NEW i \in Nat, Token(h, k, i)'
               PROVE  \E l \in Places : \E j \in Nat : Token(h, l, j)
    BY DEF SetupUnderWay
  <2>1. \/ k = "toUe" /\ h = g /\ i # 0 /\ Token(g, "toUe", i + 1)
        \/ k = "up" /\ i = n + 1 /\ h = g /\ Token(g, "toUe", 1)
        \/ (k # "toUe" \/ h # g) /\ (k # "up" \/ i # n + 1) /\ Token(h, k, i)
    BY <1>4, TokensReceived
  <2>2. "toUe" \in Places /\ i + 1 \in Nat /\ 1 \in Nat
    BY DEF Places
  <2> QED BY <2>1, <2>2
<1>11. ASSUME NEW h \in Gnbs, ReleaseUnderWay(h)' PROVE ReleaseUnderWay(h)
  <2>1. CASE \E i \in DOMAIN toUe'[h] : toUe'[h][i] = "RELEASE"
    BY <1>2, <2>1 DEF ReleaseUnderWay
  <2>2. CASE \E i \in DOMAIN up' : up'[i].type = "RELEASE" /\ IsCell(up[i].cell, h)'
    <3>1. PICK i \in DOMAIN up' : up'[i].type = "RELEASE" /\ IsCell(up[i].cell, h)'
      BY <2>2
    <3>2. PICK c : c = up'[i].cell
      OBVIOUS
    <3>3. IsCell(c, h)'
      BY <3>1, <3>2
    <3>4. \/ i \in DOMAIN up /\ up'[i] = up[i] /\ IsCell(up[i].cell, h)
          \/ i = n + 1 /\ h = g /\ up'[i].type = toUe[g][1]
      BY <1>4, <3>1, <3>2, <3>3, PduReceived
    <3> QED BY <1>2, <3>1, <3>4 DEF ReleaseUnderWay
  <2> QED BY <1>11, <2>1, <2>2 DEF ReleaseUnderWay
\* The release that a UE at the gNB takes is passed on to RRC.
<1>12. ASSUME NEW h \in Gnbs, At(h), ReleaseUnderWay(h) PROVE ReleaseUnderWay(h)'
  <2>1. CASE \E i \in DOMAIN up : up[i].type = "RELEASE" /\ IsCell(up[i].cell, h)
    <3>1. PICK i \in DOMAIN up : up[i].type = "RELEASE" /\ IsCell(up[i].cell, h)
      BY <2>1
    <3>2. i \in DOMAIN up' /\ up'[i] = up[i] /\ up[i].cell \in 0..lastCell
      BY <1>4 DEF UpGrows
    <3>3. PICK c \in 0..lastCell : c = up[i].cell
      BY <3>2
    <3>4. IsCell(c, h)'
      BY <1>3, <3>1, <3>3
    <3>5. c = up'[i].cell
      BY <3>2, <3>3
    <3> QED BY <3>1, <3>2, <3>4, <3>5 DEF ReleaseUnderWay
  <2>2. CASE \E i \in DOMAIN toUe[h] : toUe[h][i] = "RELEASE" /\ (h # g \/ i > 1)
    BY <1>2, <2>2 DEF ReleaseUnderWay
  <2>3. CASE h = g /\ toUe[g][1] = "RELEASE"
    <3> DEFINE x == Pdu(cells[g].id, "RELEASE")
    <3>1. g \in DOMAIN cells /\ cells[g].id = current
      BY <1>12, <2>3 DEF At, IsCell
    <3>2. up' = Append(up, x) /\ UNCHANGED cells
      BY <1>2, <2>3, <3>1 DEF UeReceive
    <3>3. x.type = "RELEASE" /\ x.cell = current
      BY <3>1 DEF Pdu
    <3> HIDE DEF x
    <3>4. \E i \in DOMAIN up' : up'[i] = x
      BY <3>2, QueueTypes, Longer
    <3> QED BY <1>1, <2>3, <3>1, <3>2, <3>3, <3>4 DEF ReleaseUnderWay, IsCell
  <2> QED BY <1>2, <1>12, <2>1, <2>2, <2>3 DEF ReleaseUnderWay
<1>13. Attached' => Attached
  <2> SUFFICES ASSUME AcceptUnderWay' PROVE AcceptUnderWay
    BY <1>1 DEF Attached
  <2>1. CASE "ACCEPT" \in Range(toNas')
    BY <1>1, <2>1 DEF AcceptUnderWay
  <2>2. CASE \E h \in Gnbs : "ACCEPT" \in Range(toUe'[h])
    <3>1. \A h \in Gnbs : Range(toUe'[h]) \subseteq Range(toUe[h])
      BY <1>2 DEF Range
    <3> QED BY <2>2, <3>1 DEF AcceptUnderWay
  <2>3. CASE \E i \in DOMAIN up' : up'[i].type = "ACCEPT"
    <3>1. PICK i \in DOMAIN up' : up'[i].type = "ACCEPT"
      BY <2>3
    <3>2. i \in DOMAIN up \/ i = n + 1
      BY <1>4 DEF UpGrows
    <3>3. CASE i \in DOMAIN up
      BY <1>4, <3>1, <3>3 DEF UpGrows, AcceptUnderWay
    <3>4. CASE i = n + 1
      <4>1. toUe[g][1] = "ACCEPT"
        BY <1>2, <1>4, <3>1, <3>4 DEF UpGrows
      <4>2. "ACCEPT" \in Range(toUe[g])
        BY <1>2, <4>1 DEF Range
      <4> QED BY <4>2 DEF AcceptUnderWay
    <3> QED BY <3>2, <3>3, <3>4
  <2> QED BY <2>1, <2>2, <2>3 DEF AcceptUnderWay
<1>14. link \subseteq Gnbs
  BY DEF TypeOK, AirTypes
<1>15. Camped' /\ CompletesAt' /\ Unreleased'
  BY <1>1, <1>7, <1>8, <1>9, <1>11 DEF ServedInv, Camped, CompletesAt, Unreleased
<1>16. Unreached'
  BY <1>1, <1>2 DEF ServedInv, Unreached
<1>17. SetupsLinked'
  BY <1>1, <1>7, <1>9, <1>10, <1>13, <1>14 DEF ServedInv, SetupsLinked
<1>18. AttachedServed'
  <2>1. CASE current \in CellIds
    BY <1>1, <1>7, <1>9, <1>12, <1>13, <1>14, <2>1 DEF ServedInv, AttachedServed
  <2>2. CASE current \notin CellIds
    \* A cell that is heard anew has a number of its own.
    <3>1. current \notin CellIds'
      <4> SUFFICES ASSUME current \in CellIds' PROVE FALSE
        OBVIOUS
      <4>1. PICK h \in DOMAIN cells' : cells'[h].id = current
        BY DEF CellIds
      <4>2. PICK c \in 0..lastCell : c = current
        BY <1>6
      <4>3. IsCell(c, h)'
        BY <4>1, <4>2 DEF IsCell
      <4>4. IsCell(c, h)
        BY <1>3, <4>3
      <4> QED BY <2>2, <4>2, <4>4 DEF IsCell, CellIds
    <3> QED BY <1>1, <3>1 DEF AttachedServed
  <2> QED BY <2>1, <2>2
<1> QED
  BY <1>15, <1>16, <1>17, <1>18 DEF ServedInv

\* RRC takes what NAS hands down.  A local release ends the connection when no
\* setup is under way.
LEMMA ServedNasOut ==
    ASSUME TypeOK, SetupInv, ServedInv, RrcFromNas
    PROVE  ServedInv'
<1> DEFINE n == Len(down)
<1>1. /\ toRrc # <<>> /\ toRrc' = Tail(toRrc)
      /\ UNCHANGED <<sti, cells, up, current, toGnb, toUe, link, ids, ctx, mm>>
  BY DEF RrcFromNas, airVars, gnbVars
<1>2. /\ 1 \in DOMAIN toRrc /\ Head(toRrc) = toRrc[1]
      /\ \A i \in DOMAIN toRrc : i \in Nat \ {0}
      /\ \A i \in DOMAIN toRrc : i > 1 => i - 1 \in DOMAIN toRrc' /\ toRrc'[i - 1] = toRrc[i]
  <2>1. DOMAIN toRrc = 1..Len(toRrc) /\ Len(toRrc) \in Nat
    BY <1>1, QueueTypes, Shorter
  <2> QED BY <1>1, <2>1, QueueTypes, Shorter
<1>3. n \in Nat /\ DOMAIN down = 1..n
  BY QueueTypes
<1>4. /\ \/ UNCHANGED down
         \/ /\ DOMAIN down' = 1..n + 1 /\ \A i \in 1..n : down'[i] = down[i]
            /\ down'[n + 1].type \in {"SETUP_REQUEST", "INFORMATION_TRANSFER", "RESET_STI"}
            /\ down'[n + 1].type = "RESET_STI" => rrc' # "CONNECTED"
      /\ \/ Head(toRrc) = "UPLINK_NAS" /\ UNCHANGED <<rrc, toNas>>
         \/ /\ Head(toRrc) = "LOCAL_RELEASE" /\ rrc' = "IDLE"
            /\ toNas' = Append(toNas, "RRC_CONNECTION_RELEASE")
  <2>1. CASE Head(toRrc) = "LOCAL_RELEASE" /\ LocalReleaseConnection
    <3> DEFINE x == ToCell(0, "RESET_STI", FALSE)
    <3>1. down' = Append(down, x) /\ x.type = "RESET_STI"
      BY <2>1 DEF LocalReleaseConnection, ToCell
    <3> HIDE DEF x
    <3>2. /\ DOMAIN down' = 1..n + 1 /\ \A i \in 1..n : down'[i] = down[i] /\ down'[n + 1] = x
      BY <3>1, DownAppended
    <3> HIDE DEF n
    <3>3. rrc' = "IDLE" /\ toNas' = Append(toNas, "RRC_CONNECTION_RELEASE")
      BY <2>1 DEF LocalReleaseConnection
    <3> QED BY <1>3, <2>1, <3>1, <3>2, <3>3
  <2>2. CASE Head(toRrc) = "UPLINK_NAS" /\ DeliverUplinkNas /\ current = 0
    BY <2>2 DEF DeliverUplinkNas
  <2>3. CASE Head(toRrc) = "UPLINK_NAS" /\ DeliverUplinkNas /\ current # 0
    <3> DEFINE t == IF rrc = "IDLE" THEN "SETUP_REQUEST" ELSE "INFORMATION_TRANSFER"
               x == ToCell(current, t, rrc # "IDLE")
    <3>1. down' = Append(down, x) /\ UNCHANGED <<rrc, toNas>> /\ x.type = t
      BY <2>3 DEF DeliverUplinkNas, ToCell
    <3>2. t \in {"SETUP_REQUEST", "INFORMATION_TRANSFER"}
      OBVIOUS
    <3> HIDE DEF x, t
    <3>3. /\ DOMAIN down' = 1..n + 1 /\ \A i \in 1..n : down'[i] = down[i] /\ down'[n + 1] = x
      BY <3>1, DownAppended
    <3> HIDE DEF n
    <3> QED BY <1>3, <2>3, <3>1, <3>2, <3>3
  <2> QED BY <2>1, <2>2, <2>3 DEF RrcFromNas
<1> HIDE DEF n
<1>5. \A i \in DOMAIN down : i \in DOMAIN down' /\ down'[i] = down[i]
  BY <1>3, <1>4
<1>6. \A g, k, i : Token(g, k, i)' <=> Token(g, k, i)
  <2>1. \A i \in DOMAIN down' : i \in DOMAIN down \/ down'[i].type # "SETUP_COMPLETE"
    BY <1>3, <1>4
  <2> QED BY <1>1, <1>5, <2>1 DEF Token, IsCell
<1>7. \A g \in Gnbs : /\ Completing(g)' <=> Completing(g)
                      /\ SetupUnderWay(g)' <=> SetupUnderWay(g)
                      /\ ReleaseUnderWay(g)' <=> ReleaseUnderWay(g)
                      /\ Serves(g)' <=> Serves(g)
                      /\ At(g)' => At(g)
  <2>1. \A g \in Gnbs : SetupUnderWay(g)' <=> SetupUnderWay(g)
    BY <1>6 DEF SetupUnderWay
  <2>2. \A g : (\E i \in DOMAIN down' : Token(g, "down", i)') <=> (\E i \in DOMAIN down : Token(g, "down", i))
    BY <1>6 DEF Token
  <2>3. \A g \in Gnbs : Completing(g)' <=> Completing(g)
    BY <1>1, <1>6, <2>2 DEF Completing
  <2>4. rrc' = "CONNECTED" => rrc = "CONNECTED"
    BY <1>4
  <2> QED BY <1>1, <2>1, <2>3, <2>4 DEF ReleaseUnderWay, Serves, At, IsCell
<1>8. Attached' => Attached
  <2>1. toNas' = toNas \/ Range(toNas') = Range(toNas) \cup {"RRC_CONNECTION_RELEASE"}
    BY <1>4, AppendRange DEF TypeOK, NasTypes
  <2> QED BY <1>1, <2>1 DEF Attached, AcceptUnderWay
<1>9. link \subseteq Gnbs
  BY DEF TypeOK, AirTypes
<1>10. Camped'
  BY <1>1, <1>3, <1>4 DEF ServedInv, Camped
<1>11. Unreached' /\ Unreleased'
  BY <1>1, <1>7 DEF ServedInv, Unreached, Unreleased
\* RRC releases the connection: no setup is under way.
<1>12. CASE Head(toRrc) = "LOCAL_RELEASE"
  <2>1. /\ rrc' = "IDLE" /\ NoSetup /\ \A j \in DOMAIN down : down[j].type = "ASSIGN_CURRENT_CELL"
    BY <1>2, <1>4, <1>12 DEF SetupInv, Releasing
  <2>2. \A g \in Gnbs : ~SetupUnderWay(g)
    <3>1. \A g \in Gnbs : DOMAIN toGnb[g] = {}
      BY <2>1, QueuePositions DEF NoSetup
    <3> QED BY <2>1, <3>1 DEF SetupUnderWay, Token, Places, NoSetup
  <2>3. ASSUME NEW g \in Gnbs, NEW i \in DOMAIN down', Token(g, "down", i)' PROVE FALSE
    <3>1. Token(g, "down", i)
      BY <1>6, <2>3
    <3> QED BY <2>1, <3>1 DEF Token
  <2> QED BY <1>7, <1>10, <1>11, <2>1, <2>2, <2>3 DEF ServedInv, CompletesAt, SetupsLinked, AttachedServed
<1>13. CASE Head(toRrc) # "LOCAL_RELEASE"
  <2>1. UNCHANGED rrc /\ \A g : At(g)' <=> At(g)
    BY <1>1, <1>4, <1>13 DEF At, IsCell
  <2>2. CompletesAt'
    BY <1>6, <2>1 DEF ServedInv, CompletesAt, Token
  <2>3. SetupsLinked'
    BY <1>1, <1>7, <1>8, <1>9, <2>1 DEF ServedInv, SetupsLinked
  <2>4. ASSUME \E i \in DOMAIN toRrc : toRrc[i] = "LOCAL_RELEASE"
        PROVE  \E i \in DOMAIN toRrc' : toRrc'[i] = "LOCAL_RELEASE"
    <3>1. PICK i \in DOMAIN toRrc : toRrc[i] = "LOCAL_RELEASE"
      BY <2>4
    <3>2. i # 1
      BY <1>2, <1>13, <3>1
    <3>3. i - 1 \in DOMAIN toRrc' /\ toRrc'[i - 1] = "LOCAL_RELEASE"
      BY <1>2, <3>1, <3>2
    <3> QED BY <3>3
  <2>5. AttachedServed'
    BY <1>1, <1>7, <1>8, <1>9, <2>1, <2>4 DEF ServedInv, AttachedServed, CellIds
  <2> QED BY <1>10, <1>11, <2>2, <2>3, <2>5 DEF ServedInv
<1> QED
  BY <1>12, <1>13

\* What the UE sends: a completion reaches its gNB or is lost with the link.
LEMMA ServedSend ==
    ASSUME TypeOK, SetupInv, ServedInv, UeSend
    PROVE  ServedInv'
<1> DEFINE m == Head(down)
<1>1. /\ down # <<>> /\ down' = Tail(down)
      /\ UNCHANGED <<cells, up, current, rrc, toRrc, toUe, toNas, mm, link, ids, ctx>>
      /\ sti' = IF m.type = "RESET_STI" THEN sti + 1 ELSE sti
  BY DEF UeSend, gnbVars
<1>2. /\ 1 \in DOMAIN down /\ m = down[1]
      /\ \A i \in DOMAIN down' : i \in Nat \ {0} /\ i + 1 \in DOMAIN down /\ down'[i] = down[i + 1]
      /\ \A i \in DOMAIN down : i \in Nat \ {0}
      /\ \A i \in DOMAIN down : i > 1 => i - 1 \in DOMAIN down' /\ down'[i - 1] = down[i]
  <2>1. /\ DOMAIN down' = 1..Len(down) - 1 /\ Len(down) \in Nat /\ DOMAIN down = 1..Len(down)
    BY <1>1, QueueTypes, Shorter
  <2> QED BY <1>1, <2>1, QueueTypes, Shorter
\* Each gNB gets the message or nothing.
<1>3. ASSUME NEW h \in Gnbs
      PROVE  \/ toGnb'[h] = toGnb[h]
                /\ ~(h \in link /\ Token(h, "down", 1))
             \/ /\ h \in link /\ IsCell(m.cell, h)
                /\ LET n == Len(toGnb[h]) IN
                   /\ n \in Nat /\ DOMAIN toGnb[h] = 1..n /\ DOMAIN toGnb'[h] = 1..n + 1
                   /\ \A i \in 1..n : toGnb'[h][i] = toGnb[h][i]
                   /\ toGnb'[h][n + 1].type = m.type
  <2> DEFINE x == Uplink(m.type, m.nas)
  <2>1. \/ toGnb'[h] = toGnb[h] /\ ~(h \in link /\ Token(h, "down", 1))
        \/ h \in link /\ IsCell(m.cell, h) /\ toGnb'[h] = Append(toGnb[h], x)
    BY <1>2 DEF UeSend, IsCell, Token
  <2>2. x.type = m.type
    BY DEF Uplink
  <2> HIDE DEF x
  <2>3. toGnb[h] \in Seq(Datagrams)
    BY QueueTypes
  <2> QED BY <2>1, <2>2, <2>3, Longer
<1>4. ASSUME NEW h \in Gnbs, NEW i \in DOMAIN toGnb[h]
      PROVE  i \in DOMAIN toGnb'[h] /\ toGnb'[h][i] = toGnb[h][i]
  BY <1>3
<1>5. ASSUME NEW h \in Gnbs, NEW i, Token(h, "toGnb", i)'
      PROVE  Token(h, "toGnb", i) \/ Token(h, "down", 1)
  <2>1. CASE toGnb'[h] = toGnb[h]
    BY <1>5, <2>1 DEF Token
  <2>2. CASE toGnb'[h] # toGnb[h]
    <3>1. PICK n : n = Len(toGnb[h])
      OBVIOUS
    <3>2. /\ IsCell(m.cell, h) /\ n \in Nat /\ DOMAIN toGnb[h] = 1..n /\ DOMAIN toGnb'[h] = 1..n + 1
          /\ \A j \in 1..n : toGnb'[h][j] = toGnb[h][j]
          /\ toGnb'[h][n + 1].type = m.type
      BY <1>3, <2>2, <3>1
    <3> QED BY <1>2, <1>5, <3>2 DEF Token
  <2> QED BY <2>1, <2>2
<1>6. ASSUME NEW h, NEW i, Token(h, "down", i)' PROVE i \in Nat \ {0} /\ Token(h, "down", i + 1)
  BY <1>1, <1>2, <1>6 DEF Token, IsCell
<1>7. \A h \in Gnbs : /\ Completing(h)' => Completing(h)
                      /\ SetupUnderWay(h)' => SetupUnderWay(h)
                      /\ ReleaseUnderWay(h)' <=> ReleaseUnderWay(h)
                      /\ At(h)' <=> At(h)
  <2>1. ASSUME NEW h \in Gnbs, Completing(h)' PROVE Completing(h)
    <3>1. CASE \E i \in DOMAIN down' : Token(h, "down", i)'
      BY <1>2, <1>6, <3>1 DEF Completing
    <3>2. CASE \E i \in DOMAIN toGnb'[h] : Token(h, "toGnb", i)'
      <4>1. PICK i : Token(h, "toGnb", i)'
        BY <3>2
      <4> QED BY <1>2, <1>5, <4>1 DEF Completing, Token
    <3> QED BY <2>1, <3>1, <3>2 DEF Completing
  <2>2. ASSUME NEW h \in Gnbs, NEW k \in Places, NEW i \in Nat, Token(h, k, i)'
        PROVE  SetupUnderWay(h)
    <3>1. CASE k = "down"
      <4>1. i + 1 \in Nat /\ Token(h, "down", i + 1)
        BY <1>6, <2>2, <3>1
      <4> QED BY <4>1, <3>1 DEF SetupUnderWay
    <3>2. CASE k = "toGnb"
      <4>1. "down" \in Places /\ 1 \in Nat
        BY DEF Places
      <4> QED BY <1>5, <2>2, <3>2, <4>1 DEF SetupUnderWay
    <3>3. CASE k = "toUe" \/ k = "up"
      BY <1>1, <2>2, <3>3 DEF Token, IsCell, SetupUnderWay
    <3> QED BY <3>1, <3>2, <3>3 DEF Places
  <2>3. \A h \in Gnbs : SetupUnderWay(h)' => SetupUnderWay(h)
    BY <2>2 DEF SetupUnderWay
  <2> QED BY <1>1, <2>1, <2>3 DEF ReleaseUnderWay, At, IsCell
<1>8. Attached' <=> Attached
  BY <1>1 DEF Attached, AcceptUnderWay
<1>9. Camped' /\ Unreached'
  BY <1>1, <1>2 DEF ServedInv, Camped, Unreached
<1>10. CompletesAt'
  <2> SUFFICES ASSUME NEW h \in Gnbs, NEW i \in DOMAIN down', Token(h, "down", i)' PROVE At(h)'
    BY DEF CompletesAt
  <2>1. i + 1 \in DOMAIN down /\ Token(h, "down", i + 1)
    BY <1>2, <1>6
  <2> QED BY <1>7, <2>1 DEF ServedInv, CompletesAt
<1>11. link \subseteq Gnbs
  BY DEF TypeOK, AirTypes
\* The UE is idle and no setup is under way when its number changes.
<1>12. CASE m.type = "RESET_STI"
  <2>1. rrc # "CONNECTED" /\ NoSetup /\ \A j \in DOMAIN down : down[j].type # "SETUP_COMPLETE"
    BY <1>2, <1>12 DEF ServedInv, Camped, SetupInv, Renumbering
  <2>2. \A h \in Gnbs : ~SetupUnderWay(h)
    <3>1. \A h \in Gnbs : DOMAIN toGnb[h] = {}
      BY <2>1, QueuePositions DEF NoSetup
    <3> QED BY <2>1, <3>1 DEF SetupUnderWay, Token, Places, NoSetup
  <2>3. \A h \in Gnbs : ~Completing(h)
    BY <2>1, <2>2, QueuePositions DEF SetupUnderWay, Completing, Places
  <2>4. \A h \in Gnbs : ~Completing(h)' /\ ~SetupUnderWay(h)' /\ ~At(h)'
    BY <1>7, <2>1, <2>2, <2>3 DEF At
  <2> QED BY <1>1, <1>9, <1>10, <2>1, <2>4 DEF ServedInv, Unreleased, SetupsLinked, AttachedServed
<1>13. CASE m.type # "RESET_STI"
  <2>1. UNCHANGED sti /\ \A h : Serves(h)' <=> Serves(h)
    BY <1>1, <1>13 DEF Serves
  <2>2. Unreleased'
    BY <1>7, <2>1 DEF ServedInv, Unreleased
  <2>3. SetupsLinked'
    BY <1>1, <1>7, <1>8, <1>11, <2>1 DEF ServedInv, SetupsLinked
  <2>4. ASSUME NEW h \in Gnbs, h \in link, Completing(h) PROVE Completing(h)'
    <3>1. CASE \E i \in DOMAIN toGnb[h] : Token(h, "toGnb", i)
      BY <1>4, <3>1 DEF Completing, Token
    <3>2. CASE \E i \in DOMAIN down : i > 1 /\ Token(h, "down", i)
      <4>1. PICK i \in DOMAIN down : i > 1 /\ Token(h, "down", i)
        BY <3>2
      <4>2. PICK j : j = i - 1
        OBVIOUS
      <4>3. j \in DOMAIN down' /\ down'[j] = down[i]
        BY <1>2, <4>1, <4>2
      <4>4. Token(h, "down", j)'
        BY <1>1, <4>1, <4>3 DEF Token, IsCell
      <4> QED BY <4>3, <4>4 DEF Completing
    <3>3. CASE Token(h, "down", 1)
      <4>1. PICK n : n = Len(toGnb[h])
        OBVIOUS
      <4>2. /\ n \in Nat /\ DOMAIN toGnb'[h] = 1..n + 1
            /\ toGnb'[h][n + 1].type = m.type
        BY <1>3, <2>4, <3>3, <4>1
      <4>3. PICK j : j = n + 1
        OBVIOUS
      <4>4. j \in DOMAIN toGnb'[h] /\ toGnb'[h][j].type = "SETUP_COMPLETE"
        BY <1>2, <3>3, <4>2, <4>3 DEF Token
      <4> QED BY <4>4 DEF Completing, Token
    <3> QED BY <1>2, <2>4, <3>1, <3>2, <3>3 DEF Completing
  <2>5. AttachedServed'
    BY <1>1, <1>7, <1>8, <1>11, <2>1, <2>4 DEF ServedInv, AttachedServed, CellIds
  <2> QED BY <1>9, <1>10, <2>2, <2>3, <2>5 DEF ServedInv
<1> QED
  BY <1>12, <1>13

\* What RRC takes from the udp task: it completes a setup, or leaves the cell that
\* is lost or that releases it, or stays as it is.
LEMMA ServedRls ==
    ASSUME TypeOK, CellsInv, SetupInv, ServedInv, RrcFromRls
    PROVE  ServedInv'
<1> DEFINE m == Head(up)
           n == Len(down)
           made == /\ m.type = "SETUP" /\ m.cell = current /\ current' = current
                   /\ DOMAIN down' = 1..n + 1 /\ \A i \in 1..n : down'[i] = down[i]
                   /\ down'[n + 1].type = "SETUP_COMPLETE" /\ down'[n + 1].cell = current
                   /\ rrc' = "CONNECTED"
           left == /\ UNCHANGED down /\ rrc' = "IDLE"
                   /\ \/ m.type = "SIGNAL" /\ m.dbm < MinDbm /\ m.cell = current
                      \/ m.type = "RELEASE" /\ m.cell = current
<1>1. /\ up # <<>> /\ up' = Tail(up)
      /\ UNCHANGED <<sti, cells, toRrc, toGnb, toUe, link, ids, ctx, mm>>
  BY DEF RrcFromRls, airVars, gnbVars
<1>2. /\ 1 \in DOMAIN up /\ m = up[1]
      /\ \A i \in DOMAIN up' : i \in Nat \ {0} /\ i + 1 \in DOMAIN up /\ up'[i] = up[i + 1]
      /\ \A i \in DOMAIN up : i \in Nat \ {0}
      /\ \A i \in DOMAIN up : i > 1 => i - 1 \in DOMAIN up' /\ up'[i - 1] = up[i]
  <2>1. /\ DOMAIN up' = 1..Len(up) - 1 /\ Len(up) \in Nat /\ DOMAIN up = 1..Len(up)
    BY <1>1, QueueTypes, Shorter
  <2> QED BY <1>1, <2>1, QueueTypes, Shorter
<1>3. n \in Nat /\ DOMAIN down = 1..n
  BY QueueTypes
<1>4. \/ made \/ left
      \/ /\ UNCHANGED <<down, rrc, current>>
         /\ m.type = "RELEASE" /\ m.cell = current => current \notin DOMAIN desc
  <2>1. CASE m.type = "SETUP" /\ m.cell = current /\ ReceiveRrcSetup
    <3> DEFINE x == ToCell(current, "SETUP_COMPLETE", initialNas)
    <3>1. /\ down' = Append(down, x) /\ rrc' = "CONNECTED" /\ current' = current
          /\ x.type = "SETUP_COMPLETE" /\ x.cell = current
      BY <2>1 DEF ReceiveRrcSetup, ToCell
    <3> HIDE DEF x
    <3>2. /\ DOMAIN down' = 1..n + 1 /\ \A i \in 1..n : down'[i] = down[i]
          /\ down'[n + 1] = x
      BY <3>1, DownAppended
    <3> QED BY <2>1, <3>1, <3>2
  <2>2. CASE /\ m.type # "SIGNAL" /\ HandleDownlinkRrc(m.cell, m.type)
             /\ ~(m.type = "SETUP" /\ m.cell = current /\ ReceiveRrcSetup)
    BY <2>2 DEF HandleDownlinkRrc, ReceiveRrcRelease
  <2>3. CASE m.type = "SIGNAL" /\ SignalChanged(m.cell, m.dbm)
    BY <2>3 DEF SignalChanged, CellLost
  <2> QED BY <2>1, <2>2, <2>3 DEF RrcFromRls
<1>5. toNas' = toNas \/ \E x : toNas' = Append(toNas, x) /\ (x = "ACCEPT" => m.type = "ACCEPT")
  <2>1. CASE m.type = "SIGNAL" /\ SignalChanged(m.cell, m.dbm)
    BY <2>1 DEF SignalChanged, CellLost
  <2>2. CASE m.type # "SIGNAL" /\ HandleDownlinkRrc(m.cell, m.type)
    BY <2>2 DEF HandleDownlinkRrc, ReceiveRrcSetup, ReceiveRrcRelease
  <2> QED BY <2>1, <2>2 DEF RrcFromRls
<1>6. \A h \in Gnbs : /\ Serves(h)' <=> Serves(h)
                      /\ ReleaseUnderWay(h)' => ReleaseUnderWay(h)
  BY <1>1, <1>2 DEF Serves, ReleaseUnderWay, IsCell
<1>7. ASSUME NEW h \in Gnbs, NEW i \in DOMAIN down', Token(h, "down", i)'
      PROVE  \/ i \in DOMAIN down /\ Token(h, "down", i)
             \/ made /\ IsCell(current, h)
  <2>1. CASE i \in DOMAIN down
    <3>1. down'[i] = down[i]
      BY <1>3, <1>4, <2>1
    <3> HIDE DEF made, left, m, n
    <3> QED BY <1>1, <1>7, <2>1, <3>1 DEF Token, IsCell
  <2>2. CASE i \notin DOMAIN down
    <3>1. made /\ i = n + 1
      BY <1>3, <1>4, <2>2
    <3> QED BY <1>1, <1>7, <3>1 DEF Token, IsCell
  <2> QED BY <2>1, <2>2
<1>8. \A h \in Gnbs : Completing(h)' => Completing(h) \/ (made /\ IsCell(current, h))
  <2> HIDE DEF made
  <2> QED BY <1>1, <1>7 DEF Completing, Token
<1>9. ASSUME NEW h \in Gnbs, NEW k \in Places, NEW i \in Nat, Token(h, k, i)' PROVE SetupUnderWay(h)
  <2> HIDE DEF left, n
  <2>0. Places = {"toUe", "up", "down", "toGnb"}
    BY DEF Places
  <2>1. CASE k = "down"
    <3>1. i \in DOMAIN down'
      BY <1>9, <2>1 DEF Token
    <3>2. Token(h, "down", i) \/ (made /\ IsCell(current, h))
      BY <1>7, <1>9, <2>1, <3>1
    <3>3. Token(h, "down", i) \/ Token(h, "up", 1)
      BY <1>2, <3>2 DEF Token
    <3> QED BY <2>0, <3>3 DEF SetupUnderWay
  <2>2. CASE k = "up"
    <3>1. Token(h, "up", i + 1) /\ i + 1 \in Nat
      BY <1>1, <1>2, <1>9, <2>2 DEF Token, IsCell
    <3> QED BY <2>0, <3>1 DEF SetupUnderWay
  <2>3. CASE k = "toUe" \/ k = "toGnb"
    <3>1. Token(h, k, i)
      BY <1>1, <1>9, <2>3 DEF Token
    <3> QED BY <3>1 DEF SetupUnderWay
  <2> QED BY <2>0, <2>1, <2>2, <2>3
<1>10. \A h \in Gnbs : SetupUnderWay(h)' => SetupUnderWay(h)
  BY <1>9 DEF SetupUnderWay
<1>11. Attached' => Attached
  <2> SUFFICES ASSUME AcceptUnderWay' PROVE AcceptUnderWay
    BY <1>1 DEF Attached
  <2>1. m.type = "ACCEPT" => AcceptUnderWay
    BY <1>2 DEF AcceptUnderWay
  <2>2. "ACCEPT" \in Range(toNas') => "ACCEPT" \in Range(toNas) \/ m.type = "ACCEPT"
    <3> HIDE DEF m
    <3>1. CASE toNas' = toNas
      BY <3>1
    <3>2. CASE toNas' # toNas
      <4>1. PICK x : toNas' = Append(toNas, x) /\ (x = "ACCEPT" => m.type = "ACCEPT")
        BY <1>5, <3>2
      <4>2. Range(toNas') = Range(toNas) \cup {x}
        BY <4>1, AppendRange DEF TypeOK, NasTypes
      <4> QED BY <4>1, <4>2
    <3> QED BY <3>1, <3>2
  <2>3. \A i \in DOMAIN up' : up'[i].type = "ACCEPT" => AcceptUnderWay
    BY <1>2 DEF AcceptUnderWay
  <2> HIDE DEF m
  <2> QED BY <1>1, <2>1, <2>2, <2>3 DEF AcceptUnderWay
<1>12. link \subseteq Gnbs /\ Unreached'
  BY <1>1 DEF TypeOK, AirTypes, ServedInv, Unreached
<1>13. \A g, h : IsCell(current, g) /\ IsCell(current, h) => g = h
  BY DEF IsCell, CellsInv, CellsDistinct
<1>14. CASE made
  <2>1. PICK g \in Gnbs : IsCell(current, g)
    <3>1. current \in CellIds
      BY <1>2, <1>14 DEF SetupInv, PdusHeard
    <3> QED BY <3>1 DEF CellIds, IsCell, TypeOK, UdpTypes
  <2>2. /\ \A h : At(h) => At(h)'
        /\ \A h : At(h)' => h = g
        /\ At(g)'
    BY <1>1, <1>13, <1>14, <2>1 DEF At, IsCell
  <2>3. Token(g, "up", 1) /\ \A i \in DOMAIN down : down[i].type # "RESET_STI"
    BY <1>2, <1>14, <2>1 DEF Token, SetupInv, Renumbering, NoSetup
  <2>4. Camped'
    <3>1. current # 0
      BY <2>1 DEF IsCell, TypeOK, UdpTypes
    <3>2. \A i \in DOMAIN down' : down'[i].type # "RESET_STI"
      BY <1>3, <1>14, <2>3
    <3> QED BY <1>14, <3>1, <3>2 DEF Camped
  <2>5. CompletesAt'
    <3>1. ASSUME NEW h \in Gnbs, NEW i \in DOMAIN down', Token(h, "down", i)' PROVE At(h)'
      <4>1. CASE Token(h, "down", i) /\ i \in DOMAIN down
        BY <2>2, <4>1 DEF ServedInv, CompletesAt
      <4>2. CASE IsCell(current, h)
        BY <1>13, <2>1, <2>2, <4>2
      <4> HIDE DEF made
      <4> QED BY <1>7, <3>1, <4>1, <4>2
    <3> QED BY <3>1 DEF CompletesAt
  <2>6. ~ReleaseUnderWay(g)'
    <3>1. /\ \A j \in DOMAIN toUe[g] : toUe[g][j] # "RELEASE"
          /\ \A j \in DOMAIN up : 1 < j /\ IsCell(up[j].cell, g) => up[j].type # "RELEASE"
      BY <1>2, <2>3 DEF SetupInv, SetupLast, Token
    <3>2. ASSUME NEW i \in DOMAIN up', IsCell(up[i].cell, g)' PROVE up'[i].type # "RELEASE"
      <4>1. i + 1 \in DOMAIN up /\ 1 < i + 1 /\ up'[i] = up[i + 1]
        BY <1>2
      <4> QED BY <1>1, <3>1, <3>2, <4>1 DEF IsCell
    <3> QED BY <1>1, <3>1, <3>2 DEF ReleaseUnderWay
  <2>7. Unreleased'
    <3> SUFFICES ASSUME NEW h \in Gnbs, h # g, Completing(h)' PROVE ~ReleaseUnderWay(h)'
      BY <2>2, <2>6 DEF Unreleased
    <3>1. ~IsCell(current, h)
      BY <1>13, <2>1
    <3> HIDE DEF made
    <3>2. Completing(h)
      BY <1>8, <3>1
    <3> QED BY <1>6, <3>2 DEF ServedInv, Unreleased
  <2>8. SetupsLinked'
    BY <1>1, <1>6, <1>10, <1>11, <1>12, <2>2 DEF ServedInv, SetupsLinked
  <2>9. AttachedServed'
    <3> SUFFICES ASSUME Attached PROVE g \in link /\ Completing(g)'
      BY <1>1, <1>11, <2>2 DEF AttachedServed
    <3>1. SetupUnderWay(g)
      BY <2>3 DEF SetupUnderWay, Places
    <3>2. g \in link
      BY <1>13, <2>1, <3>1 DEF ServedInv, SetupsLinked, At
    <3>3. PICK i : i = n + 1
      OBVIOUS
    <3>4. i \in DOMAIN down' /\ Token(g, "down", i)'
      BY <1>1, <1>3, <1>14, <2>1, <3>3 DEF Token, IsCell
    <3> QED BY <3>2, <3>4 DEF Completing
  <2> QED BY <1>12, <2>4, <2>5, <2>7, <2>8, <2>9 DEF ServedInv
\* No completion is on its way to a gNB that RRC leaves.
<1>15. CASE left
  <2>1. ASSUME NEW h \in Gnbs, At(h), Completing(h) \/ Serves(h) PROVE FALSE
    <3>1. IsCell(current, h) /\ current \in CellIds
      BY <2>1 DEF At, IsCell, CellIds
    <3>2. CASE m.type = "SIGNAL" /\ m.dbm < MinDbm /\ m.cell = current
      BY <1>2, <3>1, <3>2 DEF CellsInv, LostIsGone
    <3>3. CASE m.type = "RELEASE" /\ m.cell = current
      <4>1. ReleaseUnderWay(h)
        BY <1>2, <3>1, <3>3 DEF ReleaseUnderWay
      <4> QED BY <2>1, <4>1 DEF ServedInv, Unreleased
    <3> QED BY <1>15, <3>2, <3>3
  <2>2. ~made /\ \A h : ~At(h)'
    BY <1>15 DEF At
  <2>3. CompletesAt'
    <3>1. ASSUME NEW h \in Gnbs, NEW i \in DOMAIN down', Token(h, "down", i)' PROVE FALSE
      <4> HIDE DEF made
      <4>1. i \in DOMAIN down /\ Token(h, "down", i)
        BY <1>7, <2>2, <3>1
      <4>2. At(h) /\ Completing(h)
        BY <4>1 DEF ServedInv, CompletesAt, Completing
      <4> QED BY <2>1, <4>2
    <3> QED BY <3>1 DEF CompletesAt
  <2>4. Camped' /\ AttachedServed'
    BY <1>15 DEF Camped, AttachedServed
  <2>5. Unreleased'
    <3> HIDE DEF made
    <3> QED BY <1>6, <1>8, <2>2 DEF ServedInv, Unreleased
  <2>6. SetupsLinked'
    BY <1>1, <1>10, <1>11, <1>12, <2>1 DEF ServedInv, SetupsLinked
  <2> QED BY <1>12, <2>3, <2>4, <2>5, <2>6 DEF ServedInv
<1>16. CASE /\ ~made /\ UNCHANGED <<down, rrc, current>>
            /\ m.type = "RELEASE" /\ m.cell = current => current \notin DOMAIN desc
  <2> HIDE DEF made, left, n
  <2>1. \A h : At(h)' <=> At(h)
    BY <1>1, <1>16 DEF At, IsCell
  <2>2. \A h : \A i : Token(h, "down", i)' <=> Token(h, "down", i)
    BY <1>1, <1>16 DEF Token, IsCell
  <2>3. Camped' /\ CompletesAt'
    BY <1>16, <2>1, <2>2 DEF ServedInv, Camped, CompletesAt
  <2>4. \A h \in Gnbs : Completing(h)' <=> Completing(h)
    BY <1>1, <1>16, <2>2 DEF Completing, Token
  <2>5. Unreleased'
    BY <1>6, <2>1, <2>4 DEF ServedInv, Unreleased
  <2>6. SetupsLinked'
    BY <1>1, <1>6, <1>10, <1>11, <1>12, <2>1 DEF ServedInv, SetupsLinked
  <2>7. ASSUME NEW h \in Gnbs, At(h), ReleaseUnderWay(h) PROVE ReleaseUnderWay(h)'
    <3>1. CASE \E i \in DOMAIN toUe[h] : toUe[h][i] = "RELEASE"
      BY <1>1, <3>1 DEF ReleaseUnderWay
    <3>2. CASE \E i \in DOMAIN up : up[i].type = "RELEASE" /\ IsCell(up[i].cell, h)
      <4>1. PICK i \in DOMAIN up : up[i].type = "RELEASE" /\ IsCell(up[i].cell, h)
        BY <3>2
      <4>2. i # 1
        <5> SUFFICES ASSUME i = 1 PROVE FALSE
          OBVIOUS
        <5>1. m.type = "RELEASE" /\ m.cell = current
          BY <1>2, <2>7, <4>1 DEF At, IsCell
        <5>2. current \in DOMAIN desc
          BY <2>7 DEF ServedInv, Camped, At, TypeOK, RrcTypes
        <5> QED BY <1>16, <5>1, <5>2
      <4>3. PICK j : j = i - 1
        OBVIOUS
      <4>4. j \in DOMAIN up' /\ up'[j] = up[i]
        BY <1>2, <4>1, <4>2, <4>3
      <4> QED BY <1>1, <4>1, <4>4 DEF ReleaseUnderWay, IsCell
    <3> QED BY <2>7, <3>1, <3>2 DEF ReleaseUnderWay
  <2>8. AttachedServed'
    BY <1>1, <1>6, <1>11, <1>12, <1>16, <2>1, <2>4, <2>7 DEF ServedInv, AttachedServed, CellIds
  <2> QED BY <1>12, <2>3, <2>5, <2>6, <2>8 DEF ServedInv
<1> QED
  BY <1>4, <1>14, <1>15, <1>16

-----------------------------------------------------------------------------
LEMMA ServedStep ==
    ASSUME ~OutagesWhileServed, SignalAssumption, TypeOK, CellsInv, SetupInv, ServedInv, [Next]_vars
    PROVE  ServedInv'
<1>1. CASE Handle
  BY <1>1, ServedSend, ServedRls, ServedNasOut, ServedNas, ServedReceived, ServedGnb DEF Handle
<1>2. CASE UeHeartbeat \/ PerformCellSelection
  BY <1>2, ServedHeartbeat, ServedSelection
<1>3. CASE Procedures \/ UNCHANGED vars
  BY <1>3, ServedNas
<1>4. CASE Losses \/ Repair
  BY <1>4, ServedLosses
<1>5. CASE Broadcasts \/ Answer \/ Release
  BY <1>5, ServedBroadcast, ServedAccepts, ServedReleases DEF Broadcasts, Answer, Release
<1>6. CASE Outage
  <2>1. PICK g \in Gnbs : LinkDown(g)
    BY <1>6 DEF Outage, LinkDown, TypeOK, AirTypes
  <2> QED BY <2>1, ServedLinkDown
<1> QED
  BY <1>1, <1>2, <1>3, <1>4, <1>5, <1>6 DEF Next

\* As long as no link goes down under a UE that the core serves, a UE that is
\* registered and connected when the messages have been handled is at a gNB that
\* knows it under its number and has an NGAP context for it: what the UE sends is
\* passed on to the AMF, however setups, releases, new numbers and lost cells
\* crossed on the way.  Where a link may fail under a UE that is served it does not
\* hold: the UE is then connected to a gNB out of its reach.
THEOREM ConnectedServed ==
    ASSUME ~OutagesWhileServed
    PROVE  Spec => []ConnectedIsServed
<1>1. Init => TypeOK /\ Audible /\ CellsInv /\ SetupInv /\ ServedInv
  BY TypesInit, CellsInit, SetupInit, ServedInit, SignalAssumption, BoundAssumption
<1>2. TypeOK /\ Audible /\ CellsInv /\ SetupInv /\ ServedInv /\ [Next]_vars
        => (TypeOK /\ Audible /\ CellsInv /\ SetupInv /\ ServedInv)'
  BY TypesStep, AudibleStep, CellsStep, SetupStep, ServedStep, SignalAssumption, BoundAssumption
<1>3. TypeOK /\ CellsInv /\ ServedInv => ConnectedIsServed
  BY ServedAtRest
<1> QED
  BY <1>1, <1>2, <1>3, PTL DEF Spec
=============================================================================
