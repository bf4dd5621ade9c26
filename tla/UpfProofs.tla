----------------------------- MODULE UpfProofs -----------------------------
(***************************************************************************)
(* Theorems about UpfPfcp for any number of SMFs, any bounds on requests,   *)
(* contexts, reports and restarts, and whatever is lost or repeated.        *)
(***************************************************************************)
EXTENDS UpfPfcp, SequenceTheorems, TLAPS

-----------------------------------------------------------------------------
(* Operations on sequences. *)

LEMMA ReplaceInSeq ==
  ASSUME NEW S, NEW s \in Seq(S), NEW i, NEW v \in S
  PROVE  /\ [s EXCEPT ![i] = v] \in Seq(S)
         /\ Len([s EXCEPT ![i] = v]) = Len(s)
<1> DEFINE t == [j \in 1 .. Len(s) |-> IF j = i THEN v ELSE s[j]]
<1>1. Len(s) \in Nat /\ DOMAIN s = 1 .. Len(s)
  OBVIOUS
<1>2. \A j \in 1 .. Len(s) : (IF j = i THEN v ELSE s[j]) \in S
  OBVIOUS
<1>3. t \in Seq(S) /\ Len(t) = Len(s)
  BY <1>1, <1>2
<1>4. [s EXCEPT ![i] = v] = t
  BY <1>1
<1>5. QED
  BY <1>3, <1>4

(* Some of the elements of a sequence replaced by another one. *)
LEMMA BlankInSeq ==
  ASSUME NEW S, NEW s \in Seq(S), NEW X, NEW v \in S
  PROVE  /\ [i \in DOMAIN s |-> IF i \in X THEN v ELSE s[i]] \in Seq(S)
         /\ Len([i \in DOMAIN s |-> IF i \in X THEN v ELSE s[i]]) = Len(s)
<1> DEFINE t == [i \in 1 .. Len(s) |-> IF i \in X THEN v ELSE s[i]]
<1>1. Len(s) \in Nat /\ DOMAIN s = 1 .. Len(s)
  OBVIOUS
<1>2. \A i \in 1 .. Len(s) : (IF i \in X THEN v ELSE s[i]) \in S
  OBVIOUS
<1>3. t \in Seq(S) /\ Len(t) = Len(s)
  BY <1>1, <1>2
<1>4. QED
  BY <1>1, <1>3

LEMMA OrdersAreSeqs ==
  ASSUME NEW S, NEW T, S \subseteq T, NEW order \in Orders(S)
  PROVE  /\ order \in Seq(T)
         /\ \A i, j \in DOMAIN order : order[i] = order[j] => i = j
         /\ \A i \in DOMAIN order : order[i] \in S
         /\ \A s \in S : \E i \in DOMAIN order : order[i] = s
<1>1. PICK k \in 0 .. Cardinality(S) : order \in [1 .. k -> S]
  BY DEF Orders
<1>2. k \in Nat
  BY <1>1
<1>3. order \in [1 .. k -> T]
  BY <1>1
<1>4. order \in Seq(T)
  BY <1>2, <1>3
<1>5. QED
  BY <1>1, <1>4 DEF Orders

-----------------------------------------------------------------------------
(* Types.  They are inductive only together with what a request about a     *)
(* session names: the F-SEID of an establishment becomes that of a session. *)
RequestsNamed ==
  \A n \in Smfs : \A r \in pend[n] : r.kind \in {"est", "mod", "del"} => r.cp \in Cps
TypeInv == TypeOK /\ RequestsNamed

LEMMA TypeInit == Init => TypeInv
<1> SUFFICES ASSUME Init PROVE TypeInv
  OBVIOUS
<1>1. << >> \in Seq(Sess \cup {Nil}) /\ << >> \in Seq(Nat)
  OBVIOUS
<1>2. TypeOK
  BY <1>1 DEF Init, TypeOK, Contexts, FreshContext
<1>3. RequestsNamed
  BY DEF Init, RequestsNamed
<1>4. QED
  BY <1>2, <1>3 DEF TypeInv

(* A field of one context set to another value. *)
States == {"unused", "ActivePending", "Active", "PFCPModification", "InActivePending", "removed"}

LEMMA ContextTyped ==
  ASSUME NEW k \in Contexts
  PROVE  /\ k.up \in Nat
         /\ \A st \in States : [k EXCEPT !.state = st] \in Contexts
         /\ \A st \in States : [k EXCEPT !.state = st, !.tried = TRUE] \in Contexts
         /\ \A st \in States, i \in Nat : [k EXCEPT !.state = st, !.up = i] \in Contexts
         /\ \A st \in States, i \in Nat : [k EXCEPT !.state = st, !.rules = i] \in Contexts
  BY DEF Contexts, States

LEMMA ContextsTyped ==
  ASSUME NEW f \in [Smfs -> [Cps -> Contexts]], NEW n \in Smfs, NEW c, NEW v,
         c \in Cps => v \in Contexts
  PROVE  [f EXCEPT ![n][c] = v] \in [Smfs -> [Cps -> Contexts]]
<1>1. [f[n] EXCEPT ![c] = v] \in [Cps -> Contexts]
  OBVIOUS
<1>2. QED
  BY <1>1

LEMMA SetContextTyped ==
  ASSUME TypeInv, NEW n \in Smfs, NEW c \in Cps, NEW st \in States
  PROVE  /\ ctx[n][c].up \in Nat /\ ctx[n][c].rules \in Nat
         /\ [ctx EXCEPT ![n][c].state = st] \in [Smfs -> [Cps -> Contexts]]
         /\ [ctx EXCEPT ![n][c].state = st, ![n][c].tried = TRUE] \in [Smfs -> [Cps -> Contexts]]
         /\ \A i \in Nat : [ctx EXCEPT ![n][c].state = st, ![n][c].up = i]
                             \in [Smfs -> [Cps -> Contexts]]
         /\ \A i \in Nat : [ctx EXCEPT ![n][c].state = st, ![n][c].rules = i]
                             \in [Smfs -> [Cps -> Contexts]]
<1> DEFINE k == ctx[n][c]
<1>1. ctx \in [Smfs -> [Cps -> Contexts]]
  BY DEF TypeInv, TypeOK
<1>2. k \in Contexts
  BY <1>1
<1>3. \A v \in Contexts : [ctx EXCEPT ![n][c] = v] \in [Smfs -> [Cps -> Contexts]]
  BY <1>1, ContextsTyped
<1>4. [ctx EXCEPT ![n][c].state = st] \in [Smfs -> [Cps -> Contexts]]
  <2>1. [k EXCEPT !.state = st] \in Contexts
    BY <1>2, ContextTyped
  <2>2. [ctx EXCEPT ![n][c] = [k EXCEPT !.state = st]] \in [Smfs -> [Cps -> Contexts]]
    BY <2>1, <1>3
  <2>3. QED
    BY <2>2
<1>5. [ctx EXCEPT ![n][c].state = st, ![n][c].tried = TRUE] \in [Smfs -> [Cps -> Contexts]]
  <2>1. [k EXCEPT !.state = st, !.tried = TRUE] \in Contexts
    BY <1>2, ContextTyped
  <2>2. [ctx EXCEPT ![n][c].state = st, ![n][c].tried = TRUE]
          = [ctx EXCEPT ![n][c] = [k EXCEPT !.state = st, !.tried = TRUE]]
    BY <1>1
  <2>3. QED
    BY <2>1, <2>2, <1>3
<1>6. ASSUME NEW i \in Nat
      PROVE  [ctx EXCEPT ![n][c].state = st, ![n][c].up = i] \in [Smfs -> [Cps -> Contexts]]
  <2>1. [k EXCEPT !.state = st, !.up = i] \in Contexts
    BY <1>2, ContextTyped
  <2>2. [ctx EXCEPT ![n][c].state = st, ![n][c].up = i]
          = [ctx EXCEPT ![n][c] = [k EXCEPT !.state = st, !.up = i]]
    BY <1>1
  <2>3. QED
    BY <2>1, <2>2, <1>3
<1>7. ASSUME NEW i \in Nat
      PROVE  [ctx EXCEPT ![n][c].state = st, ![n][c].rules = i] \in [Smfs -> [Cps -> Contexts]]
  <2>1. [k EXCEPT !.state = st, !.rules = i] \in Contexts
    BY <1>2, ContextTyped
  <2>2. [ctx EXCEPT ![n][c].state = st, ![n][c].rules = i]
          = [ctx EXCEPT ![n][c] = [k EXCEPT !.state = st, !.rules = i]]
    BY <1>1
  <2>3. QED
    BY <2>1, <2>2, <1>3
<1>8. k.up \in Nat /\ k.rules \in Nat
  BY <1>2 DEF Contexts
<1>9. QED
  BY <1>4, <1>5, <1>6, <1>7, <1>8

LEMMA SendTyped ==
  ASSUME TypeInv, NEW n \in Smfs, NEW kind \in {"assoc", "hb", "est", "mod", "del"},
         NEW c \in Nat, NEW seid \in Nat, NEW last \in BOOLEAN,
         kind \in {"est", "mod", "del"} => c \in Cps, Send(n, kind, c, seid, last)
  PROVE  seq' \in [Smfs -> Nat] /\ pend' \in [Smfs -> SUBSET Requests] /\ RequestsNamed'
<1> DEFINE r == [kind |-> kind, seq |-> seq[n] + 1, cp |-> c, seid |-> seid, last |-> last]
<1>1. seq[n] \in Nat /\ seq[n] < MaxSeq
  BY DEF TypeInv, TypeOK, Send
<1>2. seq[n] + 1 \in Seqs
  BY <1>1, PfcpAssumption DEF Seqs
<1>3. r \in Requests
  BY <1>2 DEF Requests
<1>4. r.kind \in {"est", "mod", "del"} => r.cp \in Cps
  OBVIOUS
<1> HIDE DEF r
<1>5. seq' \in [Smfs -> Nat]
  BY <1>1 DEF TypeInv, TypeOK, Send
<1>6. pend' = [pend EXCEPT ![n] = @ \cup {r}]
  BY DEF Send, r
<1>7. pend' \in [Smfs -> SUBSET Requests] /\ RequestsNamed'
  BY <1>3, <1>4, <1>6 DEF TypeInv, TypeOK, RequestsNamed
<1>8. QED
  BY <1>5, <1>7

LEMMA SmfTypes ==
  ASSUME TypeInv, NEW n \in Smfs, SmfNext(n)
  PROVE  TypeInv'
<1> USE DEF TypeInv, TypeOK
<1>c. \A c \in Cps : c \in Nat
  BY DEF Cps
<1>1. CASE SetUpAssociation(n)
  <2>1. Send(n, "assoc", 0, 0, FALSE)
    BY <1>1 DEF SetUpAssociation
  <2>2. seq' \in [Smfs -> Nat] /\ pend' \in [Smfs -> SUBSET Requests] /\ RequestsNamed'
    BY <2>1, SendTyped
  <2>3. QED
    BY <1>1, <2>2 DEF SetUpAssociation, upf
<1>2. CASE Heartbeat(n)
  <2>1. Send(n, "hb", 0, 0, FALSE)
    BY <1>2 DEF Heartbeat
  <2>2. seq' \in [Smfs -> Nat] /\ pend' \in [Smfs -> SUBSET Requests] /\ RequestsNamed'
    BY <2>1, SendTyped
  <2>3. QED
    BY <1>2, <2>2 DEF Heartbeat, upf
<1>3. CASE AllReleased(n)
  BY <1>3 DEF AllReleased, upf, RequestsNamed
<1>4. CASE SmfRestart(n)
  <2>1. [c \in Cps |-> FreshContext] \in [Cps -> Contexts]
    BY DEF Contexts, FreshContext
  <2>2. ctx' \in [Smfs -> [Cps -> Contexts]]
    BY <2>1, <1>4 DEF SmfRestart
  <2>3. served' \in [Smfs -> [Seqs -> Nat]]
    BY <1>4 DEF SmfRestart
  <2>4. /\ inc' \in [Smfs -> Nat] /\ seq' \in [Smfs -> Nat] /\ seen' \in [Smfs -> Nat]
        /\ asc' \in [Smfs -> {"setup", "ok", "release"}]
        /\ pend' \in [Smfs -> SUBSET Requests]
        /\ answers' \in [Smfs -> SUBSET Answers]
        /\ replies' \subseteq [node : Smfs, seq : TxSeqs, seid : Nat]
        /\ RequestsNamed'
    BY <1>4 DEF SmfRestart, RequestsNamed
  <2>5. QED
    BY <1>4, <2>2, <2>3, <2>4 DEF SmfRestart, upf
<1>5. ASSUME NEW c \in Cps, CreateContext(n, c) PROVE TypeInv'
  <2>1. Send(n, "est", c, 0, FALSE)
    BY <1>5 DEF CreateContext
  <2>2. seq' \in [Smfs -> Nat] /\ pend' \in [Smfs -> SUBSET Requests] /\ RequestsNamed'
    BY <2>1, <1>c, SendTyped
  <2>3. ctx' \in [Smfs -> [Cps -> Contexts]]
    BY <1>5, SetContextTyped DEF CreateContext, SetContext, States
  <2>4. QED
    BY <1>5, <2>2, <2>3 DEF CreateContext, upf
<1>6. ASSUME NEW c \in Cps, Modify(n, c) PROVE TypeInv'
  <2>1. Send(n, "mod", c, ctx[n][c].up, FALSE)
    BY <1>6 DEF Modify
  <2>2. ctx[n][c].up \in Nat
    BY SetContextTyped DEF States
  <2>3. seq' \in [Smfs -> Nat] /\ pend' \in [Smfs -> SUBSET Requests] /\ RequestsNamed'
    BY <2>1, <2>2, <1>c, SendTyped
  <2>4. ctx' \in [Smfs -> [Cps -> Contexts]]
    BY <1>6, SetContextTyped DEF Modify, SetContext, States
  <2>5. QED
    BY <1>6, <2>3, <2>4 DEF Modify, upf
<1>7. ASSUME NEW c \in Cps, NEW last \in BOOLEAN, Release(n, c, last) PROVE TypeInv'
  <2>1. Send(n, "del", c, ctx[n][c].up, last)
    BY <1>7 DEF Release
  <2>2. ctx[n][c].up \in Nat
    BY SetContextTyped DEF States
  <2>3. seq' \in [Smfs -> Nat] /\ pend' \in [Smfs -> SUBSET Requests] /\ RequestsNamed'
    BY <2>1, <2>2, <1>c, SendTyped
  <2>4. ctx' \in [Smfs -> [Cps -> Contexts]]
    BY <1>7, SetContextTyped DEF Release, States
  <2>5. QED
    BY <1>7, <2>3, <2>4 DEF Release, upf
<1>8. ASSUME NEW c \in Cps, RemoveContext(n, c) PROVE TypeInv'
  <2>1. ctx' \in [Smfs -> [Cps -> Contexts]]
    BY <1>8, SetContextTyped DEF RemoveContext, SetContext, States
  <2>2. QED
    BY <1>8, <2>1 DEF RemoveContext, upf, RequestsNamed
<1>9. ASSUME NEW c \in Cps, ReleaseOfUPF(n, c) PROVE TypeInv'
  <2>1. ctx' \in [Smfs -> [Cps -> Contexts]]
    <3>1. \/ ctx' = [ctx EXCEPT ![n][c].state = "removed"]
          \/ ctx' = [ctx EXCEPT ![n][c].state = "InActivePending", ![n][c].tried = TRUE]
      BY <1>9 DEF ReleaseOfUPF, SetContext
    <3>2. "removed" \in States /\ "InActivePending" \in States
      BY DEF States
    <3>3. [ctx EXCEPT ![n][c].state = "removed"] \in [Smfs -> [Cps -> Contexts]]
      BY <3>2, SetContextTyped
    <3>4. [ctx EXCEPT ![n][c].state = "InActivePending", ![n][c].tried = TRUE]
            \in [Smfs -> [Cps -> Contexts]]
      BY <3>2, SetContextTyped
    <3>5. QED
      BY <3>1, <3>3, <3>4
  <2>2. QED
    BY <1>9, <2>1 DEF ReleaseOfUPF, upf, RequestsNamed
<1>10. ASSUME NEW r \in pend[n], NEW ok \in BOOLEAN, NEW up \in Nat, NEW stamp \in Nat,
              Conclude(n, r, ok, up, stamp),
              answers' \in [Smfs -> SUBSET Answers],
              UNCHANGED <<upf, inc, seq, replies, served>>
       PROVE TypeInv'
  <2>1. r \in Requests /\ r.seq \in Nat /\ r.kind \in {"assoc", "hb", "est", "mod", "del"}
    BY DEF Requests, Seqs
  <2>2. pend' \in [Smfs -> SUBSET Requests] /\ RequestsNamed'
    BY <1>10 DEF Conclude, RequestsNamed
  <2>3. /\ asc' \in [Smfs -> {"setup", "ok", "release"}]
        /\ seen' \in [Smfs -> Nat]
        /\ ctx' \in [Smfs -> [Cps -> Contexts]]
    <3>1. CASE r.kind = "assoc"
      BY <1>10, <3>1 DEF Conclude, ConcludeAssociation
    <3>2. CASE r.kind = "hb"
      <4>1. ConcludeHeartbeat(n, ok, stamp)
        BY <1>10, <3>2 DEF Conclude
      <4>2. asc' = asc \/ asc' = [asc EXCEPT ![n] = "release"]
        BY <4>1 DEF ConcludeHeartbeat
      <4>3. \E v \in {0, stamp, seen[n]} : seen' = [seen EXCEPT ![n] = v]
        BY <4>1 DEF ConcludeHeartbeat
      <4>4. seen' \in [Smfs -> Nat]
        BY <4>3
      <4>5. asc' \in [Smfs -> {"setup", "ok", "release"}]
        BY <4>2
      <4>6. ctx' = ctx
        BY <4>1 DEF ConcludeHeartbeat
      <4>7. QED
        BY <4>4, <4>5, <4>6
    <3>3. CASE r.kind = "est"
      <4>1. r.cp \in Cps
        BY <3>3 DEF RequestsNamed
      <4>2. ctx' = [ctx EXCEPT ![n][r.cp].state = IF ok THEN "Active" ELSE "removed",
                               ![n][r.cp].up = IF ok THEN up ELSE ctx[n][r.cp].up]
        BY <1>10, <3>3, <4>1 DEF Conclude, ConcludeEstablishment
      <4>3. (IF ok THEN up ELSE ctx[n][r.cp].up) \in Nat
        BY <4>1, SetContextTyped DEF States
      <4>4. (IF ok THEN "Active" ELSE "removed") \in States
        BY DEF States
      <4>5. ctx' \in [Smfs -> [Cps -> Contexts]]
        <5> DEFINE st == IF ok THEN "Active" ELSE "removed"
                   i == IF ok THEN up ELSE ctx[n][r.cp].up
        <5>1. ctx' = [ctx EXCEPT ![n][r.cp].state = st, ![n][r.cp].up = i]
          BY <4>2
        <5>2. st \in States /\ i \in Nat
          BY <4>3, <4>4
        <5> HIDE DEF st, i
        <5>3. QED
          BY <4>1, <5>1, <5>2, SetContextTyped
      <4>6. QED
        BY <1>10, <3>3, <4>5 DEF Conclude, ConcludeEstablishment
    <3>4. CASE r.kind = "mod"
      <4>1. r.cp \in Cps
        BY <3>4 DEF RequestsNamed
      <4>2. ctx' = [ctx EXCEPT ![n][r.cp].state = "Active",
                               ![n][r.cp].rules = IF ok THEN r.seq ELSE ctx[n][r.cp].rules]
        BY <1>10, <3>4, <4>1 DEF Conclude, ConcludeModification
      <4>3. (IF ok THEN r.seq ELSE ctx[n][r.cp].rules) \in Nat
        BY <4>1, <2>1, SetContextTyped DEF States
      <4>4. "Active" \in States
        BY DEF States
      <4>5. ctx' \in [Smfs -> [Cps -> Contexts]]
        BY <4>1, <4>2, <4>3, <4>4, SetContextTyped
      <4>6. QED
        BY <1>10, <3>4, <4>5 DEF Conclude, ConcludeModification
    <3>5. CASE r.kind = "del"
      <4>1. r.cp \in Cps
        BY <3>5 DEF RequestsNamed
      <4>2. (IF r.last THEN "removed" ELSE IF ok THEN "InActivePending" ELSE "Active") \in States
        BY DEF States
      <4>3. ctx' \in [Smfs -> [Cps -> Contexts]]
        <5> DEFINE st == IF r.last THEN "removed" ELSE IF ok THEN "InActivePending" ELSE "Active"
        <5>1. ctx' = [ctx EXCEPT ![n][r.cp].state = st]
          BY <1>10, <3>5 DEF Conclude, ConcludeDeletion, SetContext
        <5>2. st \in States
          BY <4>2
        <5> HIDE DEF st
        <5>3. QED
          BY <4>1, <5>1, <5>2, SetContextTyped
      <4>4. QED
        BY <1>10, <3>5, <4>3 DEF Conclude, ConcludeDeletion
    <3>6. QED
      BY <2>1, <3>1, <3>2, <3>3, <3>4, <3>5
  <2>4. QED
    BY <1>10, <2>2, <2>3 DEF upf
<1>11. ASSUME NEW r \in pend[n], GiveUp(n, r) PROVE TypeInv'
  <2>1. Conclude(n, r, FALSE, 0, 0) /\ UNCHANGED <<upf, inc, seq, replies, served>>
    BY <1>11 DEF GiveUp
  <2>2. answers' \in [Smfs -> SUBSET Answers]
    BY <1>11 DEF GiveUp
  <2>3. QED
    BY <1>10, <2>1, <2>2
<1>12. ASSUME NEW r \in pend[n], NEW a \in answers[n], TakeAnswer(n, r, a) PROVE TypeInv'
  <2>1. /\ Conclude(n, r, a.kind = r.kind /\ a.cp = r.cp, a.up, a.boot)
        /\ UNCHANGED <<upf, inc, seq, replies, served>>
    BY <1>12 DEF TakeAnswer
  <2>2. answers' \in [Smfs -> SUBSET Answers]
    BY <1>12 DEF TakeAnswer
  <2>3. a.up \in Nat /\ a.boot \in Nat
    BY DEF Answers
  <2>4. (a.kind = r.kind /\ a.cp = r.cp) \in BOOLEAN
    OBVIOUS
  <2>5. QED
    BY <1>10, <2>1, <2>2, <2>3, <2>4
<1>13. ASSUME NEW t \in TxSeqs, HandleReport(n, t) PROVE TypeInv'
  <2>1. tx[t] \in [node : Smfs, cp : Cps, count : Nat]
    BY <1>13 DEF HandleReport
  <2>2. ctx[n][tx[t].cp].up \in Nat
    BY <2>1, SetContextTyped DEF States
  <2>3. replies' \subseteq [node : Smfs, seq : TxSeqs, seid : Nat]
    BY <1>13, <2>2 DEF HandleReport
  <2>4. QED
    BY <1>13, <2>3 DEF HandleReport, upf, smf, RequestsNamed
<1>14. QED
  BY <1>1, <1>2, <1>3, <1>4, <1>5, <1>6, <1>7, <1>8, <1>9, <1>11, <1>12, <1>13 DEF SmfNext

LEMMA SessionsDeletedTyped ==
  ASSUME TypeInv, NEW S \in SUBSET Nat, DeleteSessions(S)
  PROVE  slots' \in Seq(Sess \cup {Nil}) /\ free' \in Seq(Nat)
<1>1. slots' \in Seq(Sess \cup {Nil})
  <2>1. slots \in Seq(Sess \cup {Nil}) /\ Nil \in Sess \cup {Nil}
    BY DEF TypeInv, TypeOK
  <2>2. [i \in DOMAIN slots |-> IF i \in S THEN Nil ELSE slots[i]] \in Seq(Sess \cup {Nil})
    BY <2>1, BlankInSeq
  <2>3. QED
    BY <2>2 DEF DeleteSessions
<1>2. PICK order \in Orders(S) : free' = free \o order
  BY DEF DeleteSessions
<1>3. order \in Seq(Nat)
  BY OrdersAreSeqs
<1>4. free' \in Seq(Nat)
  BY <1>2, <1>3 DEF TypeInv, TypeOK
<1>5. QED
  BY <1>1, <1>4

LEMMA LiveTyped ==
  ASSUME TypeInv, NEW i, Live(i)
  PROVE  /\ slots[i] \in Sess /\ slots[i].node \in Smfs /\ slots[i].cp \in Cps
         /\ slots[i].cp \in Nat /\ i \in Nat
<1>1. slots \in Seq(Sess \cup {Nil})
  BY DEF TypeInv, TypeOK
<1>2. slots[i] \in Sess \cup {Nil} /\ i \in Nat
  BY <1>1 DEF Live
<1>3. QED
  BY <1>2 DEF Live, Sess, Cps

LEMMA AnswerTyped ==
  ASSUME TypeInv, NEW n \in Smfs, NEW r \in pend[n], NEW c \in Nat, NEW u \in Nat,
         Answer(n, r, c, u)
  PROVE  /\ rx' \in [Smfs -> [Seqs -> Answers \cup {Nil, NoAnswer}]]
         /\ answers' \in [Smfs -> SUBSET Answers]
         /\ rx'[n][r.seq] \in Answers
         /\ \A m \in Smfs : \A q \in Seqs : rx'[m][q] # rx[m][q] => m = n /\ q = r.seq
<1> DEFINE a == [kind |-> r.kind, seq |-> r.seq, cp |-> c, up |-> u, boot |-> boot]
<1>1. r \in Requests /\ boot \in Nat
  BY DEF TypeInv, TypeOK
<1>2. a \in Answers /\ r.seq \in Seqs
  BY <1>1 DEF Answers, Requests
<1>3. rx' = [rx EXCEPT ![n][r.seq] = a] /\ answers' = [answers EXCEPT ![n] = @ \cup {a}]
  BY DEF Answer
<1> HIDE DEF a
<1>4. QED
  BY <1>2, <1>3 DEF TypeInv, TypeOK

LEMMA UpfTypes ==
  ASSUME TypeInv, UpfNext
  PROVE  TypeInv'
<1>r. ASSUME NEW n \in Smfs, NEW r \in pend[n]
      PROVE  /\ r \in Requests /\ r.seq \in Seqs /\ r.seq \in Nat /\ r.cp \in Nat
             /\ r.kind \in {"est", "mod", "del"} => r.cp \in Cps
  BY DEF TypeInv, TypeOK, Requests, Seqs, RequestsNamed
<1>s. ASSUME NEW n \in Smfs, NEW r \in pend[n], Dispatched(n, r)
      PROVE  served' \in [Smfs -> [Seqs -> Nat]]
  BY <1>s, <1>r DEF Dispatched, TypeInv, TypeOK
<1>n. UNCHANGED pend => RequestsNamed'
  BY DEF TypeInv, RequestsNamed
<1>1. ASSUME NEW n \in Smfs, NEW r \in pend[n], HandleAssociation(n, r) PROVE TypeInv'
  <2>1. sess[n] \in SUBSET Nat
    BY DEF TypeInv, TypeOK
  <2>2. slots' \in Seq(Sess \cup {Nil}) /\ free' \in Seq(Nat)
    BY <1>1, <2>1, SessionsDeletedTyped DEF HandleAssociation
  <2>3. /\ rx' \in [Smfs -> [Seqs -> Answers \cup {Nil, NoAnswer}]]
        /\ answers' \in [Smfs -> SUBSET Answers]
    BY <1>1, AnswerTyped DEF HandleAssociation
  <2>4. served' \in [Smfs -> [Seqs -> Nat]]
    BY <1>1, <1>s DEF HandleAssociation
  <2>5. rnodes' \subseteq Smfs /\ sess' \in [Smfs -> SUBSET Nat]
    BY <1>1 DEF HandleAssociation, TypeInv, TypeOK
  <2>6. QED
    BY <1>1, <1>n, <2>2, <2>3, <2>4, <2>5 DEF HandleAssociation, smf, TypeInv, TypeOK
<1>2. ASSUME NEW n \in Smfs, NEW r \in pend[n], HandleHeartbeat(n, r) PROVE TypeInv'
  <2>1. /\ rx' \in [Smfs -> [Seqs -> Answers \cup {Nil, NoAnswer}]]
        /\ answers' \in [Smfs -> SUBSET Answers]
    BY <1>2, AnswerTyped DEF HandleHeartbeat
  <2>2. served' \in [Smfs -> [Seqs -> Nat]]
    BY <1>2, <1>s DEF HandleHeartbeat
  <2>3. QED
    BY <1>2, <1>n, <2>1, <2>2 DEF HandleHeartbeat, smf, TypeInv, TypeOK
<1>3. ASSUME NEW n \in Smfs, NEW r \in pend[n], HandleEstablishment(n, r) PROVE TypeInv'
  <2>1. served' \in [Smfs -> [Seqs -> Nat]] /\ r.kind = "est"
    BY <1>3, <1>s DEF HandleEstablishment
  <2>2. CASE StoreNoAnswer(n, r) /\ UNCHANGED <<slots, free, sess>>
    <3>1. rx' \in [Smfs -> [Seqs -> Answers \cup {Nil, NoAnswer}]] /\ answers' = answers
      BY <2>2, <1>r DEF StoreNoAnswer, TypeInv, TypeOK
    <3>2. QED
      BY <1>3, <1>n, <2>1, <2>2, <3>1 DEF HandleEstablishment, smf, TypeInv, TypeOK
  <2>3. ASSUME NEW new \in Sess, NEW seid \in Nat,
               \/ /\ seid = Len(slots) + 1 /\ slots' = Append(slots, new) /\ free' = free
               \/ /\ slots' = [slots EXCEPT ![seid] = new]
                  /\ Len(free) > 0 /\ free' = SubSeq(free, 1, Len(free) - 1),
               sess' = [sess EXCEPT ![n] = @ \cup {seid}],
               Answer(n, r, r.cp, seid)
        PROVE  TypeInv'
    <3>1. /\ rx' \in [Smfs -> [Seqs -> Answers \cup {Nil, NoAnswer}]]
          /\ answers' \in [Smfs -> SUBSET Answers]
      BY <2>3, <1>r, AnswerTyped
    <3>2. slots \in Seq(Sess \cup {Nil}) /\ free \in Seq(Nat) /\ new \in Sess \cup {Nil}
      BY DEF TypeInv, TypeOK
    <3>3. slots' \in Seq(Sess \cup {Nil})
      <4>1. Append(slots, new) \in Seq(Sess \cup {Nil})
        BY <3>2
      <4>2. [slots EXCEPT ![seid] = new] \in Seq(Sess \cup {Nil})
        BY <3>2, ReplaceInSeq
      <4>3. QED
        BY <2>3, <4>1, <4>2
    <3>4. free' \in Seq(Nat)
      <4>1. CASE Len(free) > 0 /\ free' = SubSeq(free, 1, Len(free) - 1)
        <5>1. Len(free) \in Nat
          BY <3>2
        <5>2. SubSeq(free, 1, Len(free) - 1) \in Seq(Nat)
          BY <3>2, <4>1, <5>1, SubSeqProperties
        <5>3. QED
          BY <4>1, <5>2
      <4>2. CASE free' = free
        BY <3>2, <4>2
      <4>3. QED
        BY <2>3, <4>1, <4>2
    <3>5. sess' \in [Smfs -> SUBSET Nat]
      BY <2>3 DEF TypeInv, TypeOK
    <3>6. QED
      BY <1>3, <1>n, <2>1, <3>1, <3>3, <3>4, <3>5 DEF HandleEstablishment, smf, TypeInv, TypeOK
  <2>4. QED
    <3> DEFINE new == [node |-> n, cp |-> r.cp, inc |-> inc[n], rules |-> 0]
    <3>1. new \in Sess
      BY <1>r, <2>1 DEF Sess, TypeInv, TypeOK
    <3>2. slots \in Seq(Sess \cup {Nil}) /\ free \in Seq(Nat)
      BY DEF TypeInv, TypeOK
    <3> HIDE DEF new
    <3>3. CASE n \in rnodes /\ Len(free) > 0
      <4>1. /\ free' = SubSeq(free, 1, Len(free) - 1)
            /\ slots' = [slots EXCEPT ![free[Len(free)]] = new]
            /\ sess' = [sess EXCEPT ![n] = @ \cup {free[Len(free)]}]
            /\ Answer(n, r, r.cp, free[Len(free)])
        BY <1>3, <3>3 DEF HandleEstablishment, new
      <4>2. free[Len(free)] \in Nat
        BY <3>2, <3>3
      <4>3. QED
        BY <2>3, <3>1, <3>3, <4>1, <4>2
    <3>4. CASE n \in rnodes /\ ~(Len(free) > 0)
      <4>1. /\ free' = free
            /\ slots' = Append(slots, new)
            /\ sess' = [sess EXCEPT ![n] = @ \cup {Len(slots) + 1}]
            /\ Answer(n, r, r.cp, Len(slots) + 1)
        BY <1>3, <3>4 DEF HandleEstablishment, new
      <4>2. Len(slots) + 1 \in Nat
        BY <3>2
      <4>3. QED
        BY <2>3, <3>1, <4>1, <4>2
    <3>5. CASE n \notin rnodes
      BY <1>3, <2>2, <3>5 DEF HandleEstablishment
    <3>6. QED
      BY <3>3, <3>4, <3>5
<1>4. ASSUME NEW n \in Smfs, NEW r \in pend[n], HandleModification(n, r) PROVE TypeInv'
  <2>1. served' \in [Smfs -> [Seqs -> Nat]]
    BY <1>4, <1>s DEF HandleModification
  <2>2. PICK c \in Nat : Answer(n, r, c, 0)
    BY <1>4, LiveTyped DEF HandleModification
  <2>3. /\ rx' \in [Smfs -> [Seqs -> Answers \cup {Nil, NoAnswer}]]
        /\ answers' \in [Smfs -> SUBSET Answers]
    BY <2>2, AnswerTyped
  <2>4. slots' \in Seq(Sess \cup {Nil})
    <3>1. CASE Live(r.seid)
      <4>1. slots[r.seid] \in Sess
        BY <3>1, LiveTyped
      <4>2. [slots[r.seid] EXCEPT !.rules = r.seq] \in Sess \cup {Nil}
        BY <4>1, <1>r DEF Sess
      <4>3. slots' = [slots EXCEPT ![r.seid] = [slots[r.seid] EXCEPT !.rules = r.seq]]
        BY <1>4, <3>1 DEF HandleModification
      <4>4. slots \in Seq(Sess \cup {Nil})
        BY DEF TypeInv, TypeOK
      <4>5. QED
        BY <4>2, <4>3, <4>4, ReplaceInSeq
    <3>2. CASE ~Live(r.seid)
      BY <1>4, <3>2 DEF HandleModification, TypeInv, TypeOK
    <3>3. QED
      BY <3>1, <3>2
  <2>5. QED
    BY <1>4, <1>n, <2>1, <2>3, <2>4 DEF HandleModification, smf, TypeInv, TypeOK
<1>d. ASSUME NEW i, Live(i), DeleteSession(i)
      PROVE  /\ slots' \in Seq(Sess \cup {Nil}) /\ free' \in Seq(Nat)
             /\ sess' \in [Smfs -> SUBSET Nat]
  <2>1. i \in Nat /\ slots[i].node \in Smfs
    BY <1>d, LiveTyped
  <2>2. slots' \in Seq(Sess \cup {Nil}) /\ free' \in Seq(Nat)
    BY <1>d, <2>1, SessionsDeletedTyped DEF DeleteSession
  <2>3. QED
    BY <1>d, <2>1, <2>2 DEF DeleteSession, TypeInv, TypeOK
<1>5. ASSUME NEW n \in Smfs, NEW r \in pend[n], HandleDeletion(n, r) PROVE TypeInv'
  <2>1. served' \in [Smfs -> [Seqs -> Nat]]
    BY <1>5, <1>s DEF HandleDeletion
  <2>2. PICK c \in Nat : Answer(n, r, c, 0)
    BY <1>5, LiveTyped DEF HandleDeletion
  <2>3. /\ rx' \in [Smfs -> [Seqs -> Answers \cup {Nil, NoAnswer}]]
        /\ answers' \in [Smfs -> SUBSET Answers]
    BY <2>2, AnswerTyped
  <2>4. /\ slots' \in Seq(Sess \cup {Nil}) /\ free' \in Seq(Nat)
        /\ sess' \in [Smfs -> SUBSET Nat]
    <3>1. CASE Live(r.seid)
      BY <1>5, <1>d, <3>1 DEF HandleDeletion
    <3>2. CASE ~Live(r.seid)
      BY <1>5, <3>2 DEF HandleDeletion, TypeInv, TypeOK
    <3>3. QED
      BY <3>1, <3>2
  <2>5. QED
    BY <1>5, <1>n, <2>1, <2>3, <2>4 DEF HandleDeletion, smf, TypeInv, TypeOK
<1>6. ASSUME NEW n \in Smfs, NEW r \in pend[n], Repeated(n, r) PROVE TypeInv'
  <2>1. rx[n][r.seq] \in Answers
    BY <1>6, <1>r DEF Repeated, NeedDispatch, TypeInv, TypeOK
  <2>2. answers' \in [Smfs -> SUBSET Answers]
    BY <1>6, <2>1 DEF Repeated, TypeInv, TypeOK
  <2>3. QED
    BY <1>6, <1>n, <2>2 DEF Repeated, upf, smf, TypeInv, TypeOK
<1>7. ASSUME NEW n \in Smfs, NEW q \in Seqs, RxTimeout(n, q) PROVE TypeInv'
  <2>1. rx' \in [Smfs -> [Seqs -> Answers \cup {Nil, NoAnswer}]]
    BY <1>7 DEF RxTimeout, TypeInv, TypeOK
  <2>2. QED
    BY <1>7, <1>n, <2>1 DEF RxTimeout, smf, TypeInv, TypeOK
<1>8. ASSUME NEW i \in DOMAIN slots, NotifySessReport(i) PROVE TypeInv'
  <2>1. i \in Nat
    BY DEF TypeInv, TypeOK
  <2>2. reports' \in Seq(Nat)
    BY <1>8, <2>1 DEF NotifySessReport, TypeInv, TypeOK
  <2>3. QED
    BY <1>8, <1>n, <2>2 DEF NotifySessReport, smf, TypeInv, TypeOK
<1>9. CASE ServeReport
  <2>1. reports' \in Seq(Nat)
    BY <1>9 DEF ServeReport, TypeInv, TypeOK
  <2>2. txSeq' \in Nat /\ tx' \in [TxSeqs -> [node : Smfs, cp : Cps, count : Nat] \cup {Nil}]
    <3>1. CASE Live(Head(reports))
      <4> DEFINE k == [node |-> slots[Head(reports)].node, cp |-> slots[Head(reports)].cp,
                       count |-> 0]
      <4>1. k \in [node : Smfs, cp : Cps, count : Nat]
        BY <3>1, LiveTyped
      <4>2. tx' = [tx EXCEPT ![txSeq + 1] = k] /\ txSeq' = txSeq + 1
        BY <1>9, <3>1 DEF ServeReport
      <4> HIDE DEF k
      <4>3. txSeq \in Nat /\ tx \in [TxSeqs -> [node : Smfs, cp : Cps, count : Nat] \cup {Nil}]
        BY DEF TypeInv, TypeOK
      <4>4. tx' \in [TxSeqs -> [node : Smfs, cp : Cps, count : Nat] \cup {Nil}]
        BY <4>1, <4>2, <4>3
      <4>5. QED
        BY <4>2, <4>3, <4>4
    <3>2. CASE ~Live(Head(reports))
      BY <1>9, <3>2 DEF ServeReport, TypeInv, TypeOK
    <3>3. QED
      BY <3>1, <3>2
  <2>3. QED
    BY <1>9, <1>n, <2>1, <2>2 DEF ServeReport, smf, TypeInv, TypeOK
<1>e. ASSUME NEW t \in TxSeqs, EndTx(t)
      PROVE  /\ tx' \in [TxSeqs -> [node : Smfs, cp : Cps, count : Nat] \cup {Nil}]
             /\ replies' \subseteq [node : Smfs, seq : TxSeqs, seid : Nat]
  BY <1>e DEF EndTx, TypeInv, TypeOK
<1>10. ASSUME NEW t \in TxSeqs, TxTimeout(t) PROVE TypeInv'
  <2>1. /\ tx' \in [TxSeqs -> [node : Smfs, cp : Cps, count : Nat] \cup {Nil}]
        /\ replies' \subseteq [node : Smfs, seq : TxSeqs, seid : Nat]
    <3>1. CASE EndTx(t)
      BY <1>e, <3>1
    <3>2. CASE tx' = [tx EXCEPT ![t].count = @ + 1] /\ UNCHANGED replies
      <4>1. tx[t] \in [node : Smfs, cp : Cps, count : Nat]
        BY <1>10 DEF TxTimeout, TypeInv, TypeOK
      <4>2. [tx[t] EXCEPT !.count = @ + 1] \in [node : Smfs, cp : Cps, count : Nat]
        BY <4>1
      <4>3. tx' = [tx EXCEPT ![t] = [tx[t] EXCEPT !.count = @ + 1]]
        BY <3>2
      <4>4. QED
        BY <3>2, <4>2, <4>3 DEF TypeInv, TypeOK
    <3>3. QED
      BY <1>10, <3>1, <3>2 DEF TxTimeout
  <2>2. QED
    BY <1>10, <1>n, <2>1 DEF TxTimeout, smf, TypeInv, TypeOK
<1>11. ASSUME NEW m \in replies, HandleReportResponse(m) PROVE TypeInv'
  <2>1. m.seq \in TxSeqs /\ m.node \in Smfs
    BY DEF TypeInv, TypeOK
  <2>2. /\ tx' \in [TxSeqs -> [node : Smfs, cp : Cps, count : Nat] \cup {Nil}]
        /\ replies' \subseteq [node : Smfs, seq : TxSeqs, seid : Nat]
    BY <1>11, <1>e, <2>1 DEF HandleReportResponse
  <2>3. /\ running' \in BOOLEAN
        /\ slots' \in Seq(Sess \cup {Nil}) /\ free' \in Seq(Nat)
        /\ sess' \in [Smfs -> SUBSET Nat]
    <3>1. CASE UNCHANGED <<slots, free, sess>> /\ running' \in {running, FALSE}
      BY <3>1 DEF TypeInv, TypeOK
    <3>2. ASSUME NEW i \in DOMAIN slots, RemoteSess(i, m.node, tx[m.seq].cp), DeleteSession(i),
                 UNCHANGED running
          PROVE  <2>3!1 /\ <2>3!2 /\ <2>3!3
      <4>1. Live(i)
        BY <3>2 DEF RemoteSess, IsSession, Live
      <4>2. QED
        BY <1>d, <3>2, <4>1 DEF TypeInv, TypeOK
    <3>3. QED
      BY <1>11, <3>1, <3>2 DEF HandleReportResponse, DeleteRejected
  <2>4. QED
    BY <1>11, <1>n, <2>2, <2>3 DEF HandleReportResponse, smf, TypeInv, TypeOK
<1>12. CASE Crash
  BY <1>12, <1>n DEF Crash, smf, TypeInv, TypeOK
<1>13. CASE Boot
  <2>1. << >> \in Seq(Sess \cup {Nil}) /\ << >> \in Seq(Nat)
    OBVIOUS
  <2>2. slots' \in Seq(Sess \cup {Nil}) /\ free' \in Seq(Nat) /\ reports' \in Seq(Nat)
    BY <1>13, <2>1 DEF Boot
  <2>3. /\ served' \in [Smfs -> [Seqs -> Nat]] /\ sess' \in [Smfs -> SUBSET Nat]
        /\ rx' \in [Smfs -> [Seqs -> Answers \cup {Nil, NoAnswer}]]
        /\ tx' \in [TxSeqs -> [node : Smfs, cp : Cps, count : Nat] \cup {Nil}]
    BY <1>13 DEF Boot
  <2>4. boot' \in Nat /\ running' \in BOOLEAN /\ rnodes' \subseteq Smfs /\ txSeq' \in Nat
        /\ replies' = {}
    BY <1>13 DEF Boot, TypeInv, TypeOK
  <2>5. QED
    BY <1>13, <1>n, <2>2, <2>3, <2>4 DEF Boot, smf, TypeInv, TypeOK
<1>14. QED
  BY <1>1, <1>2, <1>3, <1>4, <1>5, <1>6, <1>7, <1>8, <1>9, <1>10, <1>11, <1>12, <1>13
     DEF UpfNext, Handle

LEMMA TypeNext == TypeInv /\ [Next]_vars => TypeInv'
<1>1. ASSUME TypeInv, UNCHANGED vars PROVE TypeInv'
  BY <1>1 DEF vars, upf, smf, TypeInv, TypeOK, RequestsNamed
<1>2. QED
  BY <1>1, SmfTypes, UpfTypes DEF Next

(* Whatever is lost, repeated or restarted, the state has its types; in     *)
(* particular what the UPF keeps for a request is an answer to it.          *)
THEOREM Typing == Spec => []TypeOK
<1>1. Spec => []TypeInv
  BY TypeInit, TypeNext, PTL DEF Spec
<1>2. TypeInv => TypeOK
  BY DEF TypeInv
<1>3. QED
  BY <1>1, <1>2, PTL

-----------------------------------------------------------------------------
(* Requests are executed once.  What makes it inductive: a request that is  *)
(* pending and was executed is still remembered, and no number was executed *)
(* before it was given to a request.                                        *)
OnceInv ==
  /\ AtMostOnce
  /\ \A n \in Smfs : \A r \in pend[n] :
       r.seq <= seq[n] /\ (served[n][r.seq] = 0 \/ rx[n][r.seq] # Nil)
  /\ \A n \in Smfs, q \in Seqs : q > seq[n] => served[n][q] = 0

LEMMA OnceInit == Init => OnceInv
  BY DEF Init, OnceInv, AtMostOnce

LEMMA OnceIdle ==
  ASSUME TypeInv, OnceInv, UNCHANGED <<pend, seq, served, rx>>
  PROVE  OnceInv'
  BY DEF OnceInv, AtMostOnce

LEMMA OnceConcluded ==
  ASSUME TypeInv, OnceInv, NEW n \in Smfs, NEW r,
         pend' = [pend EXCEPT ![n] = @ \ {r}], UNCHANGED <<seq, served, rx>>
  PROVE  OnceInv'
  BY DEF OnceInv, AtMostOnce, TypeInv, TypeOK

LEMMA OnceSent ==
  ASSUME TypeInv, OnceInv, NEW n \in Smfs, NEW kind, NEW c, NEW seid, NEW last,
         Send(n, kind, c, seid, last), UNCHANGED <<served, rx>>
  PROVE  OnceInv'
<1> DEFINE r == [kind |-> kind, seq |-> seq[n] + 1, cp |-> c, seid |-> seid, last |-> last]
<1>1. seq[n] \in Nat /\ seq[n] < MaxSeq /\ seq \in [Smfs -> Nat] /\ pend \in [Smfs -> SUBSET Requests]
  BY DEF TypeInv, TypeOK, Send
<1>2. seq[n] + 1 \in Seqs /\ r.seq = seq[n] + 1
  BY <1>1, PfcpAssumption DEF Seqs
<1>3. seq' = [seq EXCEPT ![n] = @ + 1] /\ pend' = [pend EXCEPT ![n] = @ \cup {r}]
  BY DEF Send
<1> HIDE DEF r
<1>4. \A m \in Smfs : seq'[m] \in Nat /\ seq[m] \in Nat /\ seq'[m] >= seq[m]
  BY <1>1, <1>3
<1>5. \A m \in Smfs : \A t \in pend[m] : t.seq \in Nat
  BY <1>1 DEF Requests, Seqs
<1>6. served[n][seq[n] + 1] = 0
  BY <1>1, <1>2 DEF OnceInv
<1>7. AtMostOnce'
  BY DEF OnceInv, AtMostOnce
<1>8. ASSUME NEW m \in Smfs, NEW t \in pend'[m]
      PROVE  t.seq <= seq'[m] /\ (served'[m][t.seq] = 0 \/ rx'[m][t.seq] # Nil)
  <2>1. CASE t \in pend[m]
    <3>1. t.seq <= seq[m] /\ (served[m][t.seq] = 0 \/ rx[m][t.seq] # Nil)
      BY <2>1 DEF OnceInv
    <3>2. t.seq \in Nat /\ seq[m] \in Nat /\ seq'[m] \in Nat /\ seq'[m] >= seq[m]
      BY <1>4, <1>5, <2>1
    <3>3. QED
      BY <3>1, <3>2
  <2>2. CASE m = n /\ t = r
    BY <1>1, <1>2, <1>3, <1>6, <2>2
  <2>3. QED
    BY <1>1, <1>3, <1>8, <2>1, <2>2
<1>9. ASSUME NEW m \in Smfs, NEW q \in Seqs, q > seq'[m] PROVE served'[m][q] = 0
  <2>1. q > seq[m]
    BY <1>4, <1>9 DEF Seqs
  <2>2. QED
    BY <2>1 DEF OnceInv
<1>10. QED
  BY <1>7, <1>8, <1>9 DEF OnceInv

LEMMA OnceSmf ==
  ASSUME TypeInv, OnceInv, NEW n \in Smfs, SmfNext(n)
  PROVE  OnceInv'
<1>1. CASE SetUpAssociation(n)
  BY <1>1, OnceSent DEF SetUpAssociation, upf
<1>2. CASE Heartbeat(n)
  BY <1>2, OnceSent DEF Heartbeat, upf
<1>3. CASE AllReleased(n)
  BY <1>3, OnceIdle DEF AllReleased, upf
<1>4. CASE SmfRestart(n)
  <2>1. /\ seq' = [seq EXCEPT ![n] = 0] /\ pend' = [pend EXCEPT ![n] = {}]
        /\ served' = [served EXCEPT ![n] = [q \in Seqs |-> 0]] /\ rx' = rx
    BY <1>4 DEF SmfRestart, upf
  <2>2. AtMostOnce'
    BY <2>1 DEF OnceInv, AtMostOnce, TypeInv, TypeOK
  <2>3. QED
    BY <2>1, <2>2 DEF OnceInv, TypeInv, TypeOK
<1>5. ASSUME NEW c \in Cps, CreateContext(n, c) PROVE OnceInv'
  BY <1>5, OnceSent DEF CreateContext, upf
<1>6. ASSUME NEW c \in Cps, Modify(n, c) PROVE OnceInv'
  BY <1>6, OnceSent DEF Modify, upf
<1>7. ASSUME NEW c \in Cps, NEW last \in BOOLEAN, Release(n, c, last) PROVE OnceInv'
  BY <1>7, OnceSent DEF Release, upf
<1>8. ASSUME NEW c \in Cps, RemoveContext(n, c) PROVE OnceInv'
  BY <1>8, OnceIdle DEF RemoveContext, upf
<1>9. ASSUME NEW c \in Cps, ReleaseOfUPF(n, c) PROVE OnceInv'
  BY <1>9, OnceIdle DEF ReleaseOfUPF, upf
<1>10. ASSUME NEW r \in pend[n], GiveUp(n, r) PROVE OnceInv'
  BY <1>10, OnceConcluded DEF GiveUp, Conclude, upf
<1>11. ASSUME NEW r \in pend[n], NEW a \in answers[n], TakeAnswer(n, r, a) PROVE OnceInv'
  BY <1>11, OnceConcluded DEF TakeAnswer, Conclude, upf
<1>12. ASSUME NEW t \in TxSeqs, HandleReport(n, t) PROVE OnceInv'
  BY <1>12, OnceIdle DEF HandleReport, upf, smf
<1>13. QED
  BY <1>1, <1>2, <1>3, <1>4, <1>5, <1>6, <1>7, <1>8, <1>9, <1>10, <1>11, <1>12 DEF SmfNext

LEMMA OnceServed ==
  ASSUME TypeInv, OnceInv, NEW n \in Smfs, NEW r \in pend[n], Dispatched(n, r),
         NEW v, v # Nil, rx' = [rx EXCEPT ![n][r.seq] = v], UNCHANGED <<pend, seq>>
  PROVE  OnceInv'
<1>1. r.seq \in Seqs /\ seq[n] \in Nat /\ pend \in [Smfs -> SUBSET Requests]
  BY DEF TypeInv, TypeOK, Requests
<1>2. served[n][r.seq] = 0 /\ r.seq <= seq[n]
  BY DEF Dispatched, NeedDispatch, OnceInv
<1>3. served' = [served EXCEPT ![n][r.seq] = 1]
  BY <1>2 DEF Dispatched
<1>4. AtMostOnce'
  BY <1>3 DEF OnceInv, AtMostOnce, TypeInv, TypeOK
<1>5. ASSUME NEW m \in Smfs, NEW t \in pend[m]
      PROVE  t.seq <= seq[m] /\ (served'[m][t.seq] = 0 \/ rx'[m][t.seq] # Nil)
  <2>1. t.seq \in Seqs
    BY <1>1 DEF Requests
  <2>2. t.seq <= seq[m] /\ (served[m][t.seq] = 0 \/ rx[m][t.seq] # Nil)
    BY DEF OnceInv
  <2>3. CASE m = n /\ t.seq = r.seq
    BY <1>1, <2>2, <2>3 DEF TypeInv, TypeOK
  <2>4. CASE ~(m = n /\ t.seq = r.seq)
    BY <1>1, <1>3, <2>1, <2>2, <2>4 DEF TypeInv, TypeOK
  <2>5. QED
    BY <2>3, <2>4
<1>6. ASSUME NEW m \in Smfs, NEW q \in Seqs, q > seq[m] PROVE served'[m][q] = 0
  <2>1. served[m][q] = 0
    BY <1>6 DEF OnceInv
  <2>2. ~(m = n /\ q = r.seq)
    BY <1>1, <1>2, <1>6 DEF Seqs
  <2>3. QED
    BY <1>1, <1>3, <2>1, <2>2 DEF TypeInv, TypeOK
<1>7. QED
  BY <1>4, <1>5, <1>6 DEF OnceInv

LEMMA OnceAnswered ==
  ASSUME TypeInv, OnceInv, NEW n \in Smfs, NEW r \in pend[n], Dispatched(n, r),
         \/ StoreNoAnswer(n, r)
         \/ \E c \in Nat, u \in Nat : Answer(n, r, c, u),
         UNCHANGED <<pend, seq>>
  PROVE  OnceInv'
<1>1. CASE StoreNoAnswer(n, r)
  BY <1>1, OnceServed, PfcpAssumption DEF StoreNoAnswer
<1>2. ASSUME NEW c \in Nat, NEW u \in Nat, Answer(n, r, c, u) PROVE OnceInv'
  <2> DEFINE a == [kind |-> r.kind, seq |-> r.seq, cp |-> c, up |-> u, boot |-> boot]
  <2>1. r \in Requests /\ boot \in Nat
    BY DEF TypeInv, TypeOK
  <2>2. a \in Answers
    BY <2>1 DEF Answers, Requests
  <2>3. a # Nil /\ rx' = [rx EXCEPT ![n][r.seq] = a]
    BY <1>2, <2>2, PfcpAssumption DEF Answer
  <2> HIDE DEF a
  <2>4. QED
    BY <2>3, OnceServed
<1>3. QED
  BY <1>1, <1>2

LEMMA OnceUpf ==
  ASSUME WindowCovers, TypeInv, OnceInv, UpfNext
  PROVE  OnceInv'
<1>0. 0 \in Nat
  OBVIOUS
<1>r. \A n \in Smfs : \A r \in pend[n] : r.cp \in Nat
  BY DEF TypeInv, TypeOK, Requests
<1>l. \A i : Live(i) => slots[i].cp \in Nat
  BY LiveTyped
<1>1. ASSUME NEW n \in Smfs, NEW r \in pend[n], Handle(n, r) PROVE OnceInv'
  <2>1. CASE HandleAssociation(n, r)
    BY <1>0, <2>1, OnceAnswered DEF HandleAssociation, smf
  <2>2. CASE HandleHeartbeat(n, r)
    BY <1>0, <2>2, OnceAnswered DEF HandleHeartbeat, smf
  <2>3. CASE HandleEstablishment(n, r)
    <3>1. StoreNoAnswer(n, r) \/ \E u \in Nat : Answer(n, r, r.cp, u)
      <4>1. slots \in Seq(Sess \cup {Nil}) /\ free \in Seq(Nat)
        BY DEF TypeInv, TypeOK
      <4>2. Len(slots) + 1 \in Nat /\ (Len(free) > 0 => free[Len(free)] \in Nat)
        BY <4>1
      <4>3. QED
        BY <2>3, <4>2 DEF HandleEstablishment
    <3>2. QED
      BY <1>r, <2>3, <3>1, OnceAnswered DEF HandleEstablishment, smf
  <2>4. CASE HandleModification(n, r)
    BY <1>0, <1>l, <2>4, OnceAnswered DEF HandleModification, smf
  <2>5. CASE HandleDeletion(n, r)
    BY <1>0, <1>l, <2>5, OnceAnswered DEF HandleDeletion, smf
  <2>6. QED
    BY <1>1, <2>1, <2>2, <2>3, <2>4, <2>5 DEF Handle
<1>2. ASSUME NEW n \in Smfs, NEW r \in pend[n], Repeated(n, r) PROVE OnceInv'
  BY <1>2, OnceIdle DEF Repeated, upf, smf
<1>3. ASSUME NEW n \in Smfs, NEW q \in Seqs, RxTimeout(n, q) PROVE OnceInv'
  <2>1. /\ rx' = [rx EXCEPT ![n][q] = Nil] /\ \A r \in pend[n] : r.seq # q
        /\ UNCHANGED <<pend, seq, served>>
    BY <1>3 DEF RxTimeout, smf
  <2>2. \A m \in Smfs : \A r \in pend[m] : rx'[m][r.seq] = rx[m][r.seq]
    BY <2>1 DEF TypeInv, TypeOK
  <2>3. QED
    BY <2>1, <2>2 DEF OnceInv, AtMostOnce
<1>4. ASSUME NEW i \in DOMAIN slots, NotifySessReport(i) PROVE OnceInv'
  BY <1>4, OnceIdle DEF NotifySessReport, smf
<1>5. CASE ServeReport
  BY <1>5, OnceIdle DEF ServeReport, smf
<1>6. ASSUME NEW t \in TxSeqs, TxTimeout(t) PROVE OnceInv'
  BY <1>6, OnceIdle DEF TxTimeout, smf
<1>7. ASSUME NEW m \in replies, HandleReportResponse(m) PROVE OnceInv'
  BY <1>7, OnceIdle DEF HandleReportResponse, smf
<1>8. CASE Crash
  BY <1>8, OnceIdle DEF Crash, smf
<1>9. CASE Boot
  <2>1. served' = [n \in Smfs |-> [q \in Seqs |-> 0]] /\ UNCHANGED <<pend, seq>>
    BY <1>9 DEF Boot, smf
  <2>2. \A n \in Smfs : \A r \in pend[n] : r.seq \in Seqs
    BY DEF TypeInv, TypeOK, Requests
  <2>3. QED
    BY <2>1, <2>2 DEF OnceInv, AtMostOnce
<1>10. QED
  BY <1>1, <1>2, <1>3, <1>4, <1>5, <1>6, <1>7, <1>8, <1>9 DEF UpfNext

(* As long as the UPF remembers a request while its sender repeats it, a    *)
(* request is executed once, however often it comes, through restarts of    *)
(* both sides (RxTransaction.recv).                                         *)
THEOREM ExecutedOnce == ASSUME WindowCovers PROVE Spec => []AtMostOnce
<1>1. TypeInv /\ OnceInv /\ [Next]_vars => OnceInv'
  <2>1. ASSUME OnceInv, TypeInv, UNCHANGED vars PROVE OnceInv'
    BY <2>1, OnceIdle DEF vars, upf, smf
  <2>2. QED
    BY <2>1, OnceSmf, OnceUpf DEF Next
<1>2. OnceInv => AtMostOnce
  BY DEF OnceInv
<1>3. Spec => [](TypeInv /\ OnceInv)
  BY TypeInit, TypeNext, OnceInit, <1>1, PTL DEF Spec
<1>4. QED
  BY <1>2, <1>3, PTL

-----------------------------------------------------------------------------
(* The session table.  SeidTable is inductive as it stands. *)
FreeList(sl, fr) ==
  /\ \A i, j \in DOMAIN fr : fr[i] = fr[j] => i = j
  /\ \A i \in DOMAIN sl : sl[i] = Nil <=> \E j \in DOMAIN fr : fr[j] = i
  /\ \A j \in DOMAIN fr : fr[j] \in DOMAIN sl
Table(sl, fr, se, rn) ==
  /\ FreeList(sl, fr)
  /\ \A n \in Smfs : se[n] = {i \in DOMAIN sl : sl[i] # Nil /\ sl[i].node = n}
  /\ \A n \in Smfs : se[n] # {} => n \in rn

LEMMA TableIs == /\ SeidTable <=> Table(slots, free, sess, rnodes)
                 /\ SeidTable' <=> Table(slots', free', sess', rnodes')
  BY DEF SeidTable, Table, FreeList

LEMMA TableInit == Init => SeidTable
  BY DEF Init, SeidTable

LEMMA TableIdle ==
  ASSUME SeidTable, UNCHANGED <<slots, free, sess>>, rnodes \subseteq rnodes'
  PROVE  SeidTable'
  BY DEF SeidTable

(* The order in which the SEIDs of S get on the free list. *)
Freed(S, order) ==
  /\ free' = free \o order
  /\ order \in Seq(Nat)
  /\ \A i, j \in DOMAIN order : order[i] = order[j] => i = j
  /\ \A i \in DOMAIN order : order[i] \in S
  /\ \A s \in S : \E i \in DOMAIN order : order[i] = s

LEMMA SomeOrder ==
  ASSUME NEW S, S \subseteq Nat, DeleteSessions(S)
  PROVE  \E order : Freed(S, order)
<1>1. PICK order \in Orders(S) : free' = free \o order
  BY DEF DeleteSessions
<1>2. order \in Seq(Nat)
  BY OrdersAreSeqs
<1>3. /\ \A i, j \in DOMAIN order : order[i] = order[j] => i = j
      /\ \A s \in S : \E i \in DOMAIN order : order[i] = s
  BY DEF Orders
<1>4. \A i \in DOMAIN order : order[i] \in S
  BY DEF Orders
<1>5. QED
  BY <1>1, <1>2, <1>3, <1>4 DEF Freed

(* Deleting sessions that are there puts each of their SEIDs on the free    *)
(* list, where it was not.                                                  *)
LEMMA FreeListDeleted ==
  ASSUME TypeInv, SeidTable, NEW S, S \subseteq {i \in DOMAIN slots : slots[i] # Nil},
         DeleteSessions(S)
  PROVE  /\ FreeList(slots', free')
         /\ DOMAIN slots' = DOMAIN slots
         /\ \A i \in DOMAIN slots : slots'[i] = IF i \in S THEN Nil ELSE slots[i]
<1>1. slots \in Seq(Sess \cup {Nil}) /\ free \in Seq(Nat)
  BY DEF TypeInv, TypeOK
<1>2. S \subseteq Nat
  BY <1>1
<1>3. slots' = [i \in DOMAIN slots |-> IF i \in S THEN Nil ELSE slots[i]]
  BY DEF DeleteSessions
<1>4. PICK order : Freed(S, order)
  BY <1>2, SomeOrder
<1>5. /\ free' = free \o order /\ order \in Seq(Nat)
      /\ \A i, j \in DOMAIN order : order[i] = order[j] => i = j
      /\ \A i \in DOMAIN order : order[i] \in S
      /\ \A s \in S : \E i \in DOMAIN order : order[i] = s
  BY <1>4 DEF Freed
<1>6. Len(free) \in Nat /\ Len(order) \in Nat
      /\ DOMAIN free = 1 .. Len(free) /\ DOMAIN order = 1 .. Len(order)
  BY <1>1, <1>5
<1>7. /\ DOMAIN free' = 1 .. Len(free) + Len(order)
      /\ \A i \in 1 .. Len(free) : free'[i] = free[i]
      /\ \A i \in 1 .. Len(order) : free'[Len(free) + i] = order[i]
  BY <1>1, <1>5, ConcatProperties
<1>8. \A j \in DOMAIN free : free[j] \in DOMAIN slots /\ slots[free[j]] = Nil
  BY DEF SeidTable
<1>9. ASSUME NEW i \in DOMAIN free', NEW j \in DOMAIN free', free'[i] = free'[j] PROVE i = j
  <2>1. CASE i \in DOMAIN free /\ j \in DOMAIN free
    BY <1>6, <1>7, <1>9, <2>1 DEF SeidTable
  <2>2. ASSUME NEW k \in DOMAIN order, NEW l \in DOMAIN order,
               i = Len(free) + k, j = Len(free) + l
        PROVE  i = j
    BY <1>5, <1>6, <1>7, <1>9, <2>2
  <2>3. ASSUME NEW k \in DOMAIN free, NEW l \in DOMAIN order, free[k] = order[l] PROVE FALSE
    <3>1. order[l] \in S /\ slots[order[l]] # Nil
      BY <1>5
    <3>2. slots[free[k]] = Nil
      BY <1>8
    <3>3. QED
      BY <2>3, <3>1, <3>2
  <2>4. \A k \in DOMAIN free' : k \in DOMAIN free
                               \/ \E l \in DOMAIN order : k = Len(free) + l
    <3>1. ASSUME NEW k \in DOMAIN free', k \notin DOMAIN free
          PROVE  k - Len(free) \in DOMAIN order /\ k = Len(free) + (k - Len(free))
      BY <1>6, <1>7, <3>1
    <3>2. QED
      BY <3>1
  <2>5. CASE i \in DOMAIN free /\ j \notin DOMAIN free
    <3>1. PICK l \in DOMAIN order : j = Len(free) + l
      BY <2>4, <2>5
    <3>2. free[i] = order[l]
      BY <1>6, <1>7, <1>9, <2>5, <3>1
    <3>3. QED
      BY <2>3, <2>5, <3>2
  <2>6. CASE i \notin DOMAIN free /\ j \in DOMAIN free
    <3>1. PICK l \in DOMAIN order : i = Len(free) + l
      BY <2>4, <2>6
    <3>2. free[j] = order[l]
      BY <1>6, <1>7, <1>9, <2>6, <3>1
    <3>3. QED
      BY <2>3, <2>6, <3>2
  <2>7. CASE i \notin DOMAIN free /\ j \notin DOMAIN free
    BY <2>2, <2>4, <2>7
  <2>8. QED
    BY <2>1, <2>5, <2>6, <2>7
<1>10. \A j \in DOMAIN free' : free'[j] \in DOMAIN slots /\ slots'[free'[j]] = Nil
  <2> SUFFICES ASSUME NEW j \in DOMAIN free'
               PROVE  free'[j] \in DOMAIN slots /\ slots'[free'[j]] = Nil
    OBVIOUS
  <2>1. CASE j \in DOMAIN free
    BY <1>3, <1>6, <1>7, <1>8, <2>1
  <2>2. CASE j \notin DOMAIN free
    <3>1. j - Len(free) \in DOMAIN order /\ free'[j] = order[j - Len(free)]
      BY <1>6, <1>7, <2>2
    <3>2. QED
      BY <1>3, <1>5, <3>1
  <2>3. QED
    BY <2>1, <2>2
<1>11. ASSUME NEW i \in DOMAIN slots, slots'[i] = Nil
       PROVE  \E j \in DOMAIN free' : free'[j] = i
  <2>1. CASE i \in S
    <3>1. PICK l \in DOMAIN order : order[l] = i
      BY <1>5, <2>1
    <3>2. Len(free) + l \in DOMAIN free' /\ free'[Len(free) + l] = i
      BY <1>6, <1>7, <3>1
    <3>3. QED
      BY <3>2
  <2>2. CASE i \notin S
    <3>1. slots[i] = Nil
      BY <1>3, <1>11, <2>2
    <3>2. PICK j \in DOMAIN free : free[j] = i
      BY <3>1 DEF SeidTable
    <3>3. j \in DOMAIN free' /\ free'[j] = i
      BY <1>6, <1>7, <3>2
    <3>4. QED
      BY <3>3
  <2>3. QED
    BY <2>1, <2>2
<1>12. QED
  BY <1>3, <1>9, <1>10, <1>11 DEF FreeList

LEMMA TableDeleted ==
  ASSUME TypeInv, SeidTable, NEW i, Live(i), DeleteSession(i), rnodes' = rnodes
  PROVE  SeidTable'
<1>1. {i} \subseteq {k \in DOMAIN slots : slots[k] # Nil} /\ slots[i].node \in Smfs
  BY LiveTyped DEF Live
<1>2. /\ FreeList(slots', free')
      /\ DOMAIN slots' = DOMAIN slots
      /\ \A k \in DOMAIN slots : slots'[k] = IF k \in {i} THEN Nil ELSE slots[k]
  BY <1>1, FreeListDeleted DEF DeleteSession
<1>3. sess' = [sess EXCEPT ![slots[i].node] = @ \ {i}] /\ sess \in [Smfs -> SUBSET Nat]
  BY DEF DeleteSession, TypeInv, TypeOK
<1>4. ASSUME NEW n \in Smfs
      PROVE  sess'[n] = {k \in DOMAIN slots' : slots'[k] # Nil /\ slots'[k].node = n}
  <2>1. sess[n] = {k \in DOMAIN slots : slots[k] # Nil /\ slots[k].node = n}
    BY DEF SeidTable
  <2>2. sess'[n] = IF n = slots[i].node THEN sess[n] \ {i} ELSE sess[n]
    BY <1>1, <1>3
  <2>3. \A k \in DOMAIN slots : (slots'[k] # Nil /\ slots'[k].node = n)
          <=> (k # i /\ slots[k] # Nil /\ slots[k].node = n)
    BY <1>2
  <2>4. QED
    BY <1>1, <1>2, <2>1, <2>2, <2>3
<1>5. \A n \in Smfs : sess'[n] # {} => n \in rnodes'
  BY <1>3 DEF SeidTable
<1>6. QED
  BY <1>2, <1>4, <1>5, TableIs DEF Table

LEMMA LastTaken ==
  ASSUME NEW S, NEW s \in Seq(S), Len(s) > 0
  PROVE  LET t == SubSeq(s, 1, Len(s) - 1)
         IN /\ Len(s) \in DOMAIN s
            /\ \A j \in DOMAIN s : j \in DOMAIN t \/ j = Len(s)
            /\ \A j \in DOMAIN t : j \in DOMAIN s /\ j # Len(s) /\ t[j] = s[j]
<1> DEFINE t == SubSeq(s, 1, Len(s) - 1)
<1>1. Len(s) \in Nat /\ DOMAIN s = 1 .. Len(s)
  OBVIOUS
<1>2. /\ \A i \in 1 .. Len(s) - 1 : s[i] \in S
      /\ 1 \in Int /\ Len(s) - 1 \in Int
  BY <1>1
<1>3. /\ t \in Seq(S)
      /\ Len(t) = IF 1 <= Len(s) - 1 THEN Len(s) - 1 - 1 + 1 ELSE 0
      /\ \A i \in 1 .. Len(s) - 1 - 1 + 1 : t[i] = s[1 + i - 1]
  BY <1>2, SubSeqProperties
<1>4. Len(s) \in Nat /\ Len(s) > 0
  OBVIOUS
<1>5. Len(t) = Len(s) - 1
  <2> DEFINE m == Len(s)
             l == Len(t)
  <2>1. m \in Nat /\ m > 0 /\ l = IF 1 <= m - 1 THEN m - 1 - 1 + 1 ELSE 0
    BY <1>3, <1>4
  <2> HIDE DEF m, l
  <2>2. l = m - 1
    BY <2>1
  <2>3. QED
    BY <2>2 DEF m, l
<1>6. t \in Seq(S)
  BY <1>3
<1>7. DOMAIN t = 1 .. Len(t)
  <2> HIDE DEF t
  <2>1. QED
    BY <1>6
<1>8. \A i \in 1 .. Len(s) - 1 : t[i] = s[i]
  <2> SUFFICES ASSUME NEW i \in 1 .. Len(s) - 1 PROVE t[i] = s[i]
    OBVIOUS
  <2> HIDE DEF t
  <2>1. i \in Int /\ 1 + i - 1 = i /\ i \in 1 .. Len(s) - 1 - 1 + 1
    BY <1>4
  <2>2. t[i] = s[1 + i - 1]
    BY <1>3, <2>1
  <2>3. QED
    BY <2>1, <2>2
<1> HIDE DEF t
<1>9. DOMAIN t = 1 .. Len(s) - 1
  BY <1>5, <1>7
<1>10. QED
  BY <1>1, <1>4, <1>8, <1>9 DEF t

(* NewSess: the SEID of a new session and what becomes of the table. *)
Takes(new, seid) ==
  \/ /\ seid = Len(slots) + 1 /\ slots' = Append(slots, new) /\ free' = free
  \/ /\ Len(free) > 0 /\ seid = free[Len(free)]
     /\ slots' = [slots EXCEPT ![seid] = new]
     /\ free' = SubSeq(free, 1, Len(free) - 1)

Placed(new, seid) ==
  /\ FreeList(slots', free') /\ ~Live(seid)
  /\ DOMAIN slots' = DOMAIN slots \cup {seid}
  /\ \A i \in DOMAIN slots' : slots'[i] = IF i = seid THEN new ELSE slots[i]

LEMMA PlacedLast ==
  ASSUME TypeInv, SeidTable, NEW new, new # Nil,
         slots' = Append(slots, new), free' = free
  PROVE  Placed(new, Len(slots) + 1)
<1>1. slots \in Seq(Sess \cup {Nil})
  BY DEF TypeInv, TypeOK
<1>2. Len(slots) \in Nat /\ DOMAIN slots = 1 .. Len(slots)
  BY <1>1
<1>3. /\ DOMAIN slots' = 1 .. Len(slots) + 1
      /\ \A i \in 1 .. Len(slots) : slots'[i] = slots[i]
      /\ slots'[Len(slots) + 1] = new
  BY <1>1, AppendProperties
<1>4. ~Live(Len(slots) + 1) /\ DOMAIN slots' = DOMAIN slots \cup {Len(slots) + 1}
  BY <1>2, <1>3 DEF Live
<1>5. \A i \in DOMAIN slots' : slots'[i] = IF i = Len(slots) + 1 THEN new ELSE slots[i]
  BY <1>2, <1>3
<1>6. \A j \in DOMAIN free : free[j] # Len(slots) + 1
  BY <1>2 DEF SeidTable
<1>7. FreeList(slots', free')
  BY <1>4, <1>5, <1>6 DEF SeidTable, FreeList
<1>8. QED
  BY <1>4, <1>5, <1>7 DEF Placed

LEMMA PlacedFreed ==
  ASSUME TypeInv, SeidTable, NEW new, new # Nil, NEW seid, NEW t,
         Len(free) \in DOMAIN free, seid = free[Len(free)],
         slots' = [slots EXCEPT ![seid] = new], free' = t,
         \A j \in DOMAIN free : j \in DOMAIN t \/ j = Len(free),
         \A j \in DOMAIN t : j \in DOMAIN free /\ j # Len(free) /\ t[j] = free[j]
  PROVE  Placed(new, seid)
<1>1. seid \in DOMAIN slots /\ slots[seid] = Nil
  BY DEF SeidTable
<1>2. /\ DOMAIN slots' = DOMAIN slots
      /\ \A i \in DOMAIN slots' : slots'[i] = IF i = seid THEN new ELSE slots[i]
  OBVIOUS
<1>3. \A i, j \in DOMAIN free : free[i] = free[j] => i = j
  BY DEF SeidTable
<1>4. \A i \in DOMAIN slots : slots[i] = Nil <=> \E j \in DOMAIN free : free[j] = i
  BY DEF SeidTable
<1>5. ASSUME NEW i \in DOMAIN slots
      PROVE  slots'[i] = Nil <=> \E j \in DOMAIN t : t[j] = i
  <2>1. CASE i = seid
    BY <1>2, <1>3, <2>1
  <2>2. CASE i # seid
    BY <1>2, <1>4, <2>2
  <2>3. QED
    BY <2>1, <2>2
<1>6. \A j \in DOMAIN t : t[j] \in DOMAIN slots
  BY DEF SeidTable
<1>7. FreeList(slots', free')
  BY <1>2, <1>3, <1>5, <1>6 DEF FreeList
<1>8. QED
  BY <1>1, <1>2, <1>7 DEF Live, Placed

LEMMA SeidPlaced ==
  ASSUME TypeInv, SeidTable, NEW new, new # Nil, NEW seid, Takes(new, seid)
  PROVE  Placed(new, seid)
<1>1. CASE seid = Len(slots) + 1 /\ slots' = Append(slots, new) /\ free' = free
  BY <1>1, PlacedLast
<1>2. CASE /\ Len(free) > 0 /\ seid = free[Len(free)]
           /\ slots' = [slots EXCEPT ![seid] = new]
           /\ free' = SubSeq(free, 1, Len(free) - 1)
  <2> DEFINE t == SubSeq(free, 1, Len(free) - 1)
  <2>1. free \in Seq(Nat)
    BY DEF TypeInv, TypeOK
  <2>2. /\ Len(free) \in DOMAIN free
        /\ \A j \in DOMAIN free : j \in DOMAIN t \/ j = Len(free)
        /\ \A j \in DOMAIN t : j \in DOMAIN free /\ j # Len(free) /\ t[j] = free[j]
    BY <1>2, <2>1, LastTaken
  <2>3. free' = t
    BY <1>2
  <2> HIDE DEF t
  <2>4. QED
    BY <1>2, <2>2, <2>3, PlacedFreed
<1>3. QED
  BY <1>1, <1>2 DEF Takes

LEMMA TableEstablished ==
  ASSUME TypeInv, SeidTable, NEW n \in rnodes, n \in Smfs, NEW new, new # Nil, new.node = n,
         NEW seid, Placed(new, seid),
         sess' = [sess EXCEPT ![n] = @ \cup {seid}], rnodes' = rnodes
  PROVE  SeidTable'
<1>1. sess \in [Smfs -> SUBSET Nat]
  BY DEF TypeInv, TypeOK
<1>2. /\ FreeList(slots', free') /\ ~Live(seid)
      /\ DOMAIN slots' = DOMAIN slots \cup {seid}
      /\ \A i \in DOMAIN slots' : slots'[i] = IF i = seid THEN new ELSE slots[i]
  BY DEF Placed
<1>3. ASSUME NEW m \in Smfs
      PROVE  sess'[m] = {k \in DOMAIN slots' : slots'[k] # Nil /\ slots'[k].node = m}
  <2>1. sess[m] = {k \in DOMAIN slots : slots[k] # Nil /\ slots[k].node = m}
    BY DEF SeidTable
  <2>2. sess'[m] = IF m = n THEN sess[m] \cup {seid} ELSE sess[m]
    BY <1>1
  <2>3. \A k \in DOMAIN slots' : (slots'[k] # Nil /\ slots'[k].node = m)
          <=> IF k = seid THEN m = n ELSE slots[k] # Nil /\ slots[k].node = m
    BY <1>2
  <2>4. seid \notin sess[m]
    BY <1>2, <2>1 DEF Live
  <2>5. QED
    BY <1>2, <2>1, <2>2, <2>3, <2>4
<1>4. \A m \in Smfs : sess'[m] # {} => m \in rnodes'
  BY <1>1 DEF SeidTable
<1>5. QED
  BY <1>2, <1>3, <1>4, TableIs DEF Table

(* An association: the sessions of the node go, and it may have sessions.   *)
LEMMA TableAssociated ==
  ASSUME TypeInv, SeidTable, NEW n \in Smfs, DeleteSessions(sess[n]),
         sess' = [sess EXCEPT ![n] = {}], rnodes \subseteq rnodes'
  PROVE  SeidTable'
<1>1. sess[n] = {i \in DOMAIN slots : slots[i] # Nil /\ slots[i].node = n}
  BY DEF SeidTable
<1>2. sess[n] \subseteq {i \in DOMAIN slots : slots[i] # Nil}
  BY <1>1
<1>3. /\ FreeList(slots', free')
      /\ DOMAIN slots' = DOMAIN slots
      /\ \A i \in DOMAIN slots : slots'[i] = IF i \in sess[n] THEN Nil ELSE slots[i]
  BY <1>2, FreeListDeleted
<1>4. ASSUME NEW m \in Smfs
      PROVE  sess'[m] = {i \in DOMAIN slots' : slots'[i] # Nil /\ slots'[i].node = m}
  <2>1. sess[m] = {i \in DOMAIN slots : slots[i] # Nil /\ slots[i].node = m}
    BY DEF SeidTable
  <2>2. sess'[m] = IF m = n THEN {} ELSE sess[m]
    BY DEF TypeInv, TypeOK
  <2>3. \A i \in DOMAIN slots : (slots'[i] # Nil /\ slots'[i].node = m)
          <=> (m # n /\ slots[i] # Nil /\ slots[i].node = m)
    BY <1>1, <1>3
  <2>4. QED
    BY <1>3, <2>1, <2>2, <2>3
<1>5. \A m \in Smfs : sess'[m] # {} => m \in rnodes'
  BY DEF SeidTable, TypeInv, TypeOK
<1>6. QED
  BY <1>3, <1>4, <1>5, TableIs DEF Table

(* A modification leaves the owner of every slot.                           *)
LEMMA TableModified ==
  ASSUME TypeInv, SeidTable, NEW i, Live(i), NEW v \in Nat,
         slots' = [slots EXCEPT ![i].rules = v], UNCHANGED <<free, sess, rnodes>>
  PROVE  /\ SeidTable'
         /\ DOMAIN slots' = DOMAIN slots
         /\ \A k \in DOMAIN slots : /\ slots'[k] = Nil <=> slots[k] = Nil
                                    /\ slots[k] # Nil => Owner(slots'[k]) = Owner(slots[k])
<1> DEFINE changed == [slots[i] EXCEPT !.rules = v]
<1>1. slots[i] \in Sess /\ i \in DOMAIN slots /\ slots[i] # Nil
  BY LiveTyped DEF Live
<1>2. /\ changed.node = slots[i].node /\ changed.cp = slots[i].cp
      /\ changed.inc = slots[i].inc
  BY <1>1 DEF Sess
<1>3. changed # Nil
  <2>1. changed \in Sess
    BY <1>1 DEF Sess
  <2>2. QED
    BY <2>1, PfcpAssumption
<1>4. slots' = [slots EXCEPT ![i] = changed]
  OBVIOUS
<1> HIDE DEF changed
<1>5. DOMAIN slots' = DOMAIN slots
  BY <1>4
<1>6. \A k \in DOMAIN slots : slots'[k] = IF k = i THEN changed ELSE slots[k]
  BY <1>4
<1>7. \A k \in DOMAIN slots : /\ slots'[k] = Nil <=> slots[k] = Nil
                              /\ slots'[k].node = slots[k].node \/ slots[k] = Nil
  BY <1>1, <1>2, <1>3, <1>6
<1>8. SeidTable'
  BY <1>5, <1>7 DEF SeidTable
<1>9. \A k \in DOMAIN slots : slots[k] # Nil => Owner(slots'[k]) = Owner(slots[k])
  BY <1>2, <1>6 DEF Owner
<1>10. QED
  BY <1>5, <1>7, <1>8, <1>9

(* What a step does to the SEIDs, whatever else it does.                    *)
SeidStep ==
  \/ UNCHANGED <<slots, free, sess>> /\ rnodes \subseteq rnodes'
  \/ \E n \in Smfs : /\ DeleteSessions(sess[n]) /\ rnodes \subseteq rnodes'
                     /\ sess' = [sess EXCEPT ![n] = {}]
  \/ \E i : Live(i) /\ DeleteSession(i) /\ rnodes' = rnodes
  \/ \E n \in Smfs, new \in Sess : \E seid :
       /\ n \in rnodes /\ new.node = n /\ Takes(new, seid)
       /\ sess' = [sess EXCEPT ![n] = @ \cup {seid}] /\ rnodes' = rnodes
  \/ \E i, v \in Nat : /\ Live(i) /\ slots' = [slots EXCEPT ![i].rules = v]
                       /\ UNCHANGED <<free, sess, rnodes>>
  \/ slots' = << >> /\ free' = << >> /\ rnodes' = {} /\ sess' = [n \in Smfs |-> {}]

LEMMA SeidSteps ==
  ASSUME TypeInv, [Next]_vars
  PROVE  SeidStep
<1>1. ASSUME NEW n \in Smfs, NEW r \in pend[n], Handle(n, r) PROVE SeidStep
  <2>0. /\ r.seq \in Nat /\ r.seid \in Nat
        /\ r.kind \in {"est", "mod", "del"} => r.cp \in Cps
    BY DEF TypeInv, TypeOK, RequestsNamed, Requests, Seqs
  <2>1. CASE HandleAssociation(n, r)
    BY <2>1 DEF HandleAssociation, SeidStep
  <2>2. CASE HandleHeartbeat(n, r)
    BY <2>2 DEF HandleHeartbeat, SeidStep
  <2>3. CASE HandleEstablishment(n, r)
    <3> DEFINE new == [node |-> n, cp |-> r.cp, inc |-> inc[n], rules |-> 0]
    <3>1. CASE UNCHANGED <<slots, free, sess>> /\ rnodes' = rnodes
      BY <3>1 DEF SeidStep
    <3>2. ASSUME n \in rnodes, ~UNCHANGED <<slots, free, sess>>
          PROVE  \E seid : Takes(new, seid) /\ sess' = [sess EXCEPT ![n] = @ \cup {seid}]
      BY <2>3, <3>2 DEF HandleEstablishment, Takes
    <3>3. new.node = n /\ new \in Sess
      <4>1. r.cp \in Cps
        BY <2>0, <2>3 DEF HandleEstablishment
      <4>2. inc[n] \in Nat
        BY DEF TypeInv, TypeOK
      <4>3. 0 \in Nat /\ n \in Smfs
        OBVIOUS
      <4> HIDE DEF Cps
      <4>4. QED
        BY <4>1, <4>2, <4>3 DEF Sess
    <3> HIDE DEF new
    <3>4. rnodes' = rnodes /\ (n \in rnodes \/ UNCHANGED <<slots, free, sess>>)
      BY <2>3 DEF HandleEstablishment
    <3>5. QED
      BY <3>1, <3>2, <3>3, <3>4 DEF SeidStep
  <2>4. CASE HandleModification(n, r)
    BY <2>0, <2>4 DEF HandleModification, SeidStep
  <2>5. CASE HandleDeletion(n, r)
    BY <2>5 DEF HandleDeletion, SeidStep
  <2>6. QED
    BY <1>1, <2>1, <2>2, <2>3, <2>4, <2>5 DEF Handle
<1>2. ASSUME NEW m \in replies, HandleReportResponse(m) PROVE SeidStep
  <2>1. ASSUME NEW c, DeleteRejected(m.node, c), rnodes' = rnodes PROVE SeidStep
    <3>1. ASSUME NEW i \in DOMAIN slots, RemoteSess(i, m.node, c) PROVE Live(i)
      BY <3>1 DEF RemoteSess, IsSession, Live
    <3>2. QED
      BY <2>1, <3>1 DEF DeleteRejected, SeidStep
  <2>2. CASE m.seid = 0
    BY <1>2, <2>1, <2>2 DEF HandleReportResponse
  <2>3. CASE m.seid # 0
    BY <1>2, <2>3 DEF HandleReportResponse, SeidStep
  <2>4. QED
    BY <2>2, <2>3
<1>3. CASE UpfNext
  <2>1. ASSUME NEW n \in Smfs, NEW r \in pend[n], Repeated(n, r) PROVE SeidStep
    BY <2>1 DEF Repeated, upf, SeidStep
  <2>2. ASSUME NEW n \in Smfs, NEW q \in Seqs, RxTimeout(n, q) PROVE SeidStep
    BY <2>2 DEF RxTimeout, SeidStep
  <2>3. ASSUME NEW i \in DOMAIN slots, NotifySessReport(i) PROVE SeidStep
    BY <2>3 DEF NotifySessReport, SeidStep
  <2>4. CASE ServeReport
    BY <2>4 DEF ServeReport, SeidStep
  <2>5. ASSUME NEW t \in TxSeqs, TxTimeout(t) PROVE SeidStep
    BY <2>5 DEF TxTimeout, SeidStep
  <2>6. CASE Crash
    BY <2>6 DEF Crash, SeidStep
  <2>7. CASE Boot
    BY <2>7 DEF Boot, SeidStep
  <2>8. QED
    BY <1>1, <1>2, <1>3, <2>1, <2>2, <2>3, <2>4, <2>5, <2>6, <2>7 DEF UpfNext
<1>4. ASSUME NEW n \in Smfs, SmfNext(n) PROVE SeidStep
  <2>1. upf' = upf
    BY <1>4 DEF SmfNext, SetUpAssociation, Heartbeat, AllReleased, SmfRestart, CreateContext,
                Modify, Release, RemoveContext, ReleaseOfUPF, GiveUp, TakeAnswer, HandleReport
  <2>2. QED
    BY <2>1 DEF upf, SeidStep
<1>5. CASE UNCHANGED vars
  BY <1>5 DEF vars, upf, SeidStep
<1>6. QED
  BY <1>3, <1>4, <1>5 DEF Next

LEMMA TableNext == TypeInv /\ SeidTable /\ [Next]_vars => SeidTable'
<1> SUFFICES ASSUME TypeInv, SeidTable, [Next]_vars PROVE SeidTable'
  OBVIOUS
<1>1. CASE UNCHANGED <<slots, free, sess>> /\ rnodes \subseteq rnodes'
  BY <1>1, TableIdle
<1>2. ASSUME NEW n \in Smfs, DeleteSessions(sess[n]), rnodes \subseteq rnodes',
             sess' = [sess EXCEPT ![n] = {}]
      PROVE  SeidTable'
  BY <1>2, TableAssociated
<1>3. ASSUME NEW i, Live(i), DeleteSession(i), rnodes' = rnodes PROVE SeidTable'
  BY <1>3, TableDeleted
<1>4. ASSUME NEW n \in Smfs, NEW new \in Sess, NEW seid,
             n \in rnodes, new.node = n, Takes(new, seid),
             sess' = [sess EXCEPT ![n] = @ \cup {seid}], rnodes' = rnodes
      PROVE  SeidTable'
  <2>1. new # Nil
    BY PfcpAssumption
  <2>2. Placed(new, seid)
    BY <1>4, <2>1, SeidPlaced
  <2>3. QED
    BY <1>4, <2>1, <2>2, TableEstablished
<1>5. ASSUME NEW i, NEW v \in Nat, Live(i), slots' = [slots EXCEPT ![i].rules = v],
             UNCHANGED <<free, sess, rnodes>>
      PROVE  SeidTable'
  BY <1>5, TableModified
<1>6. CASE slots' = << >> /\ free' = << >> /\ rnodes' = {} /\ sess' = [n \in Smfs |-> {}]
  BY <1>6 DEF SeidTable
<1>7. QED
  BY <1>1, <1>2, <1>3, <1>4, <1>5, <1>6, SeidSteps DEF SeidStep

(* The session table stays consistent through every sequence of requests,   *)
(* rejected reports, restarts, losses and repetitions: a SEID is free once  *)
(* or belongs to the session its own node lists (LocalNode, RemoteNode).    *)
THEOREM TableConsistent == Spec => []SeidTable
<1>1. Spec => [](TypeInv /\ SeidTable)
  BY TypeInit, TypeNext, TableInit, TableNext, PTL DEF Spec
<1>2. QED
  BY <1>1, PTL

-----------------------------------------------------------------------------
(* The session table implements the pool of SEIDs.                          *)
Held == [i \in InUse |-> Owner(slots[i])]

LEMMA PoolInit == Init => Pool!Init
<1> SUFFICES ASSUME Init PROVE Held = << >>
  BY DEF Pool!Init, Held
<1>1. InUse = {}
  BY DEF Init, InUse
<1>2. Held = [i \in 1 .. 0 |-> Owner(slots[i])]
  BY <1>1 DEF Held
<1>3. Held \in Seq({}) /\ Len(Held) = 0
  BY <1>1, <1>2
<1>4. QED
  BY <1>3, EmptySeq

(* A step that takes SEIDs back and gives none is one of the pool.          *)
LEMMA PoolTakesBack ==
  ASSUME NEW S, InUse' = InUse \ S, \A i \in InUse' : Owner(slots'[i]) = Owner(slots[i])
  PROVE  Pool!Next
<1> DEFINE T == S \cap InUse
<1>1. Held' = [j \in InUse \ T |-> Held[j]]
  BY DEF Held
<1>2. T \in SUBSET DOMAIN Held /\ DOMAIN Held = InUse
  BY DEF Held
<1> HIDE DEF T
<1>3. QED
  BY <1>1, <1>2 DEF Pool!Next, Pool!TakeBack, Held

LEMMA PoolGives ==
  ASSUME NEW new \in Sess, NEW seid, Placed(new, seid)
  PROVE  Pool!Next
<1>1. /\ ~Live(seid)
      /\ DOMAIN slots' = DOMAIN slots \cup {seid}
      /\ \A i \in DOMAIN slots' : slots'[i] = IF i = seid THEN new ELSE slots[i]
  BY DEF Placed
<1>2. new # Nil
  BY PfcpAssumption
<1>3. InUse' = InUse \cup {seid} /\ seid \notin InUse
  BY <1>1, <1>2 DEF InUse, Live
<1>4. \A i \in InUse' : Owner(slots'[i]) = IF i = seid THEN Owner(new) ELSE Owner(slots[i])
  BY <1>1 DEF InUse
<1>5. Held' = [i \in InUse \cup {seid} |-> IF i = seid THEN Owner(new) ELSE Held[i]]
  BY <1>3, <1>4 DEF Held
<1>6. Held'[seid] = Owner(new) /\ seid \in DOMAIN Held' /\ DOMAIN Held = InUse
  BY <1>3, <1>5 DEF Held
<1>7. Owner(new) \in [node : Smfs, cp : Cps, inc : Nat]
  BY DEF Sess, Owner
<1>8. QED
  BY <1>3, <1>5, <1>6, <1>7 DEF Pool!Next, Pool!Give, Held

LEMMA PoolNext == ASSUME TypeInv, SeidTable, [Next]_vars PROVE [Pool!Next]_Held
<1>1. ASSUME UNCHANGED slots PROVE Held' = Held
  BY <1>1 DEF Held, InUse
<1>2. ASSUME NEW S, S \subseteq InUse, DeleteSessions(S) PROVE Pool!Next
  <2>1. slots' = [i \in DOMAIN slots |-> IF i \in S THEN Nil ELSE slots[i]]
    BY <1>2 DEF DeleteSessions
  <2>2. InUse' = InUse \ S /\ \A i \in InUse' : slots'[i] = slots[i]
    BY <2>1 DEF InUse
  <2>3. QED
    BY <2>2, PoolTakesBack
<1>3. ASSUME NEW n \in Smfs, DeleteSessions(sess[n]) PROVE Pool!Next
  BY <1>2, <1>3 DEF SeidTable, InUse
<1>4. ASSUME NEW i, Live(i), DeleteSession(i) PROVE Pool!Next
  BY <1>2, <1>4 DEF Live, InUse, DeleteSession
<1>5. ASSUME NEW new \in Sess, NEW seid, Takes(new, seid) PROVE Pool!Next
  <2>1. new # Nil
    BY PfcpAssumption
  <2>2. Placed(new, seid)
    BY <1>5, <2>1, SeidPlaced
  <2>3. QED
    BY <2>2, PoolGives
<1>6. ASSUME NEW i, NEW v \in Nat, Live(i), slots' = [slots EXCEPT ![i].rules = v],
             UNCHANGED <<free, sess, rnodes>>
      PROVE  Held' = Held
  <2>1. /\ DOMAIN slots' = DOMAIN slots
        /\ \A k \in DOMAIN slots : /\ slots'[k] = Nil <=> slots[k] = Nil
                                   /\ slots[k] # Nil => Owner(slots'[k]) = Owner(slots[k])
    BY <1>6, TableModified
  <2>2. InUse' = InUse
    BY <2>1 DEF InUse
  <2>3. \A k \in InUse : Owner(slots'[k]) = Owner(slots[k])
    BY <2>1 DEF InUse
  <2>4. QED
    BY <2>2, <2>3 DEF Held
<1>7. CASE slots' = << >>
  <2>1. InUse' = {}
    BY <1>7 DEF InUse
  <2>2. InUse' = InUse \ InUse /\ \A i \in InUse' : Owner(slots'[i]) = Owner(slots[i])
    BY <2>1
  <2>3. QED
    BY <2>2, PoolTakesBack
<1>8. QED
  BY <1>1, <1>3, <1>4, <1>5, <1>6, <1>7, SeidSteps DEF SeidStep

(* The session table of the UPF implements the abstract pool: a SEID in use *)
(* stays with its session until that session ends, whatever comes in        *)
(* between (LocalNode.NewSess, LocalNode.DeleteSess).                       *)
THEOREM SeidsKeepOwners == Spec => SeidsPooled
<1>1. Spec => [](TypeInv /\ SeidTable)
  BY TypeInit, TypeNext, TableInit, TableNext, PTL DEF Spec
<1>2. TypeInv /\ SeidTable /\ [Next]_vars => [Pool!Next]_[i \in InUse |-> Owner(slots[i])]
  BY PoolNext DEF Held
<1>3. QED
  BY PoolInit, <1>1, <1>2, PTL DEF Spec, SeidsPooled, Pool!Spec
=============================================================================
