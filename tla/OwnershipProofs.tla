-------------------------- MODULE OwnershipProofs --------------------------
(***************************************************************************)
(* Whose session is it?  Theorems about UpfPfcp that relate the sessions of *)
(* the UPF to the contexts of the SMFs, for any number of SMFs and any      *)
(* bounds, on the lemmas of UpfProofs.                                      *)
(*                                                                          *)
(* The two sides only meet in messages.  The invariants therefore say what  *)
(* an answer that may still reach an SMF proves about the UPF (Sent), and   *)
(* the lemmas of the first part say once where such an answer comes from.   *)
(***************************************************************************)
EXTENDS UpfProofs

-----------------------------------------------------------------------------
(* What the steps of one side leave alone. *)
LEMMA SmfKeepsUpf ==
  ASSUME NEW n \in Smfs, SmfNext(n)
  PROVE  UNCHANGED <<boot, running, slots, free, rnodes, sess, rx, tx, txSeq, reports>>
<1>1. upf' = upf
  BY DEF SmfNext, SetUpAssociation, Heartbeat, AllReleased, SmfRestart, CreateContext,
         Modify, Release, RemoveContext, ReleaseOfUPF, GiveUp, TakeAnswer, HandleReport
<1>2. QED
  BY <1>1 DEF upf

LEMMA UpfKeepsSmf ==
  ASSUME UpfNext
  PROVE  UNCHANGED <<inc, seq, asc, seen, ctx, pend>>
<1>1. smf' = smf
  <2>1. ASSUME NEW n \in Smfs, NEW r \in pend[n], Handle(n, r) PROVE smf' = smf
    BY <2>1 DEF Handle, HandleAssociation, HandleHeartbeat, HandleEstablishment,
                HandleModification, HandleDeletion
  <2>2. QED
    BY <2>1 DEF UpfNext, Repeated, RxTimeout, NotifySessReport, ServeReport, TxTimeout,
                HandleReportResponse, Crash, Boot
<1>2. QED
  BY <1>1 DEF smf

(* What belongs to one SMF. *)
Untouched(m) ==
  /\ inc'[m] = inc[m] /\ seq'[m] = seq[m] /\ asc'[m] = asc[m] /\ ctx'[m] = ctx[m]
  /\ pend'[m] = pend[m] /\ answers'[m] = answers[m]

LEMMA ConcludeAlone ==
  ASSUME TypeInv, NEW n \in Smfs, NEW m \in Smfs, m # n, NEW r, NEW ok, NEW up, NEW stamp,
         Conclude(n, r, ok, up, stamp), r \in pend[n]
  PROVE  pend'[m] = pend[m] /\ asc'[m] = asc[m] /\ ctx'[m] = ctx[m]
<1>1. r.kind \in {"assoc", "hb", "est", "mod", "del"}
  BY DEF TypeInv, TypeOK, Requests
<1>2. pend'[m] = pend[m]
  BY DEF Conclude, TypeInv, TypeOK
<1>3. CASE r.kind = "assoc"
  BY <1>2, <1>3 DEF Conclude, ConcludeAssociation, TypeInv, TypeOK
<1>4. CASE r.kind = "hb"
  BY <1>2, <1>4 DEF Conclude, ConcludeHeartbeat, TypeInv, TypeOK
<1>5. CASE r.kind = "est"
  BY <1>2, <1>5 DEF Conclude, ConcludeEstablishment, TypeInv, TypeOK
<1>6. CASE r.kind = "mod"
  BY <1>2, <1>6 DEF Conclude, ConcludeModification, TypeInv, TypeOK
<1>7. CASE r.kind = "del"
  BY <1>2, <1>7 DEF Conclude, ConcludeDeletion, SetContext, TypeInv, TypeOK
<1>8. QED
  BY <1>1, <1>3, <1>4, <1>5, <1>6, <1>7

LEMMA SmfAlone ==
  ASSUME TypeInv, NEW n \in Smfs, SmfNext(n), NEW m \in Smfs, m # n
  PROVE  Untouched(m)
<1> USE DEF TypeInv, TypeOK, Untouched
<1>1. CASE SetUpAssociation(n)
  BY <1>1 DEF SetUpAssociation, Send
<1>2. CASE Heartbeat(n)
  BY <1>2 DEF Heartbeat, Send
<1>3. CASE AllReleased(n)
  BY <1>3 DEF AllReleased
<1>4. CASE SmfRestart(n)
  BY <1>4 DEF SmfRestart
<1>5. ASSUME NEW c \in Cps, CreateContext(n, c) PROVE Untouched(m)
  BY <1>5 DEF CreateContext, Send, SetContext
<1>6. ASSUME NEW c \in Cps, Modify(n, c) PROVE Untouched(m)
  BY <1>6 DEF Modify, Send, SetContext
<1>7. ASSUME NEW c \in Cps, NEW last \in BOOLEAN, Release(n, c, last) PROVE Untouched(m)
  BY <1>7 DEF Release, Send
<1>8. ASSUME NEW c \in Cps, RemoveContext(n, c) PROVE Untouched(m)
  BY <1>8 DEF RemoveContext, SetContext
<1>9. ASSUME NEW c \in Cps, ReleaseOfUPF(n, c) PROVE Untouched(m)
  BY <1>9 DEF ReleaseOfUPF, SetContext
<1>10. ASSUME NEW r \in pend[n], GiveUp(n, r) PROVE Untouched(m)
  <2>1. pend'[m] = pend[m] /\ asc'[m] = asc[m] /\ ctx'[m] = ctx[m]
    BY <1>10, ConcludeAlone DEF GiveUp
  <2>2. QED
    BY <1>10, <2>1 DEF GiveUp
<1>11. ASSUME NEW r \in pend[n], NEW a \in answers[n], TakeAnswer(n, r, a) PROVE Untouched(m)
  <2>1. pend'[m] = pend[m] /\ asc'[m] = asc[m] /\ ctx'[m] = ctx[m]
    BY <1>11, ConcludeAlone DEF TakeAnswer
  <2>2. QED
    BY <1>11, <2>1 DEF TakeAnswer
<1>12. ASSUME NEW t \in TxSeqs, HandleReport(n, t) PROVE Untouched(m)
  BY <1>12 DEF HandleReport, smf
<1>13. QED
  BY <1>1, <1>2, <1>3, <1>4, <1>5, <1>6, <1>7, <1>8, <1>9, <1>10, <1>11, <1>12 DEF SmfNext

-----------------------------------------------------------------------------
(* The answers that may still reach SMF n in its present run: those under   *)
(* way, and those the UPF would send again.                                 *)
Sent(n) ==
  answers[n] \cup (IF seq[n] = 0 THEN {} ELSE {rx[n][q] : q \in Seqs} \ {Nil, NoAnswer})

(* A run of an SMF that has asked for nothing has heard of nothing. *)
Unasked(n) == seq[n] = 0 => asc[n] = "setup" /\ pend[n] = {} /\ answers[n] = {}

AnswerTo(r, c, u) == [kind |-> r.kind, seq |-> r.seq, cp |-> c, up |-> u, boot |-> boot]

LEMMA SentTyped == ASSUME TypeInv, NEW n \in Smfs PROVE Sent(n) \subseteq Answers
  BY DEF TypeInv, TypeOK, Sent

LEMMA SentSame ==
  ASSUME NEW n \in Smfs, rx'[n] = rx[n], answers'[n] = answers[n], seq'[n] = seq[n]
  PROVE  Sent(n)' = Sent(n)
  BY DEF Sent

LEMMA UnaskedNext ==
  ASSUME TypeInv, NEW m \in Smfs, Unasked(m), [Next]_vars
  PROVE  Unasked(m)'
<1>1. ASSUME Untouched(m) PROVE Unasked(m)'
  BY <1>1 DEF Unasked, Untouched
<1>2. CASE UNCHANGED vars
  BY <1>1, <1>2 DEF vars, smf, Untouched
<1>3. CASE UpfNext
  <2>1. UNCHANGED <<inc, seq, asc, ctx, pend>>
    BY <1>3, UpfKeepsSmf
  <2>2. SUFFICES ASSUME seq[m] = 0 PROVE answers'[m] = {}
    BY <2>1 DEF Unasked
  <2>3. pend[m] = {} /\ answers[m] = {}
    BY <2>2 DEF Unasked
  <2>4. ASSUME NEW n \in Smfs, NEW r \in pend[n], Handle(n, r) \/ Repeated(n, r)
        PROVE  answers'[m] = answers[m]
    <3>1. n # m
      BY <2>3
    <3>2. \/ answers' = answers
          \/ \E a : answers' = [answers EXCEPT ![n] = @ \cup {a}]
      BY <2>4 DEF Handle, HandleAssociation, HandleHeartbeat, HandleEstablishment,
                  HandleModification, HandleDeletion, Repeated, Answer, StoreNoAnswer
    <3>3. QED
      BY <3>1, <3>2 DEF TypeInv, TypeOK
  <2>5. QED
    BY <1>3, <2>3, <2>4 DEF UpfNext, RxTimeout, NotifySessReport, ServeReport, TxTimeout,
                            HandleReportResponse, Crash, Boot
<1>4. ASSUME NEW n \in Smfs, SmfNext(n), n # m PROVE Unasked(m)'
  BY <1>1, <1>4, SmfAlone
<1>5. ASSUME SmfNext(m) PROVE Unasked(m)'
  <2>1. seq[m] \in Nat /\ seq \in [Smfs -> Nat] /\ pend \in [Smfs -> SUBSET Requests]
        /\ asc \in [Smfs -> {"setup", "ok", "release"}] /\ answers \in [Smfs -> SUBSET Answers]
    BY DEF TypeInv, TypeOK
  <2>2. ASSUME NEW kind, NEW c, NEW seid, NEW last, Send(m, kind, c, seid, last)
        PROVE  Unasked(m)'
    BY <2>1, <2>2 DEF Send, Unasked
  <2>3. CASE SmfRestart(m)
    BY <2>1, <2>3 DEF SmfRestart, Unasked
  <2>4. ASSUME UNCHANGED <<seq, pend, answers>>, asc'[m] = asc[m] \/ asc[m] # "setup"
        PROVE  Unasked(m)'
    BY <2>4 DEF Unasked
  <2>5. ASSUME NEW r \in pend[m], seq' = seq PROVE Unasked(m)'
    BY <2>5 DEF Unasked
  <2>6. QED
    BY <1>5, <2>2, <2>3, <2>4, <2>5 DEF SmfNext, SetUpAssociation, Heartbeat, AllReleased,
       CreateContext, Modify, Release, RemoveContext, ReleaseOfUPF, GiveUp, TakeAnswer,
       HandleReport, smf
<1>6. QED
  BY <1>2, <1>3, <1>4, <1>5 DEF Next

(* SMFs do not answer: a step of an SMF adds nothing to what may reach one. *)
LEMMA SentBySmf ==
  ASSUME SlowRestart, TypeInv, NEW m \in Smfs, Unasked(m), NEW n \in Smfs, SmfNext(n)
  PROVE  Sent(m)' \subseteq Sent(m)
<1>0. rx' = rx
  BY SmfKeepsUpf
<1>t. /\ seq[m] \in Nat /\ seq \in [Smfs -> Nat]
      /\ answers \in [Smfs -> SUBSET Answers]
  BY DEF TypeInv, TypeOK
<1>1. CASE m # n
  BY <1>0, <1>1, SmfAlone, SentSame DEF Untouched
<1>2. CASE m = n
  <2>1. CASE SmfRestart(n)
    BY <1>2, <1>t, <2>1 DEF SmfRestart, Sent
  <2>2. ASSUME answers'[m] \subseteq answers[m], seq'[m] = seq[m] PROVE Sent(m)' \subseteq Sent(m)
    BY <1>0, <2>2 DEF Sent
  <2>3. ASSUME answers' = answers, seq'[m] # 0, seq[m] # 0 PROVE Sent(m)' \subseteq Sent(m)
    BY <1>0, <2>3 DEF Sent
  <2>4. CASE SetUpAssociation(n)
    <3>1. CASE seq[m] = 0
      <4>1. \A q \in Seqs : rx[m][q] = Nil
        BY <1>2, <2>4, <3>1 DEF SetUpAssociation, Quiet
      <4>2. {rx[m][q] : q \in Seqs} \ {Nil, NoAnswer} = {}
        BY <4>1
      <4>3. answers' = answers
        BY <2>4 DEF SetUpAssociation
      <4>4. QED
        BY <1>0, <4>2, <4>3 DEF Sent
    <3>2. CASE seq[m] # 0
      <4>1. seq'[m] # 0 /\ answers' = answers
        BY <1>2, <1>t, <2>4, <3>2 DEF SetUpAssociation, Send
      <4>2. QED
        BY <2>3, <3>2, <4>1
    <3>3. QED
      BY <3>1, <3>2
  <2>5. ASSUME asc[n] = "ok", answers' = answers,
               NEW kind, NEW c, NEW seid, NEW last, Send(n, kind, c, seid, last)
        PROVE  Sent(m)' \subseteq Sent(m)
    <3>1. seq[m] # 0
      BY <1>2, <2>5 DEF Unasked
    <3>2. seq'[m] # 0
      BY <1>2, <1>t, <2>5 DEF Send
    <3>3. QED
      BY <2>3, <2>5, <3>1, <3>2
  <2>6. ASSUME NEW r \in pend[n], GiveUp(n, r) PROVE Sent(m)' \subseteq Sent(m)
    BY <1>2, <1>t, <2>2, <2>6 DEF GiveUp
  <2>7. ASSUME NEW r \in pend[n], NEW a \in answers[n], TakeAnswer(n, r, a)
        PROVE  Sent(m)' \subseteq Sent(m)
    BY <1>2, <1>t, <2>2, <2>7 DEF TakeAnswer
  <2>8. QED
    BY <2>1, <2>2, <2>4, <2>5, <2>6, <2>7 DEF SmfNext, Heartbeat, AllReleased,
       CreateContext, Modify, Release, RemoveContext, ReleaseOfUPF, HandleReport, smf
<1>3. QED
  BY <1>1, <1>2

(* The one answer a handler gives is new; all else was there before.        *)
LEMMA SentAnswered ==
  ASSUME TypeInv, NEW m \in Smfs, NEW n \in Smfs, NEW r \in pend[n],
         NEW c \in Nat, NEW u \in Nat, Answer(n, r, c, u), seq' = seq,
         NEW a \in Sent(m)'
  PROVE  a \in Sent(m) \/ (m = n /\ a = AnswerTo(r, c, u))
<1> DEFINE b == AnswerTo(r, c, u)
<1>1. rx' = [rx EXCEPT ![n][r.seq] = b] /\ answers' = [answers EXCEPT ![n] = @ \cup {b}]
  BY DEF Answer, AnswerTo
<1> HIDE DEF b
<1>2. r.seq \in Seqs /\ rx \in [Smfs -> [Seqs -> Answers \cup {Nil, NoAnswer}]]
      /\ answers \in [Smfs -> SUBSET Answers]
  BY DEF TypeInv, TypeOK, Requests
<1>3. CASE m # n
  <2>1. rx'[m] = rx[m] /\ answers'[m] = answers[m]
    BY <1>1, <1>2, <1>3
  <2>2. QED
    BY <2>1, SentSame
<1>4. CASE m = n
  <2>1. answers'[m] = answers[m] \cup {b}
    BY <1>1, <1>2, <1>4
  <2>2. \A q \in Seqs : rx'[m][q] = b \/ rx'[m][q] = rx[m][q]
    BY <1>1, <1>2, <1>4
  <2>3. CASE a \in answers'[m]
    BY <1>4, <2>1, <2>3 DEF Sent, b
  <2>4. ASSUME seq[m] # 0, NEW q \in Seqs, a = rx'[m][q], a \notin {Nil, NoAnswer}
        PROVE  a \in Sent(m) \/ (m = n /\ a = AnswerTo(r, c, u))
    <3>1. a = b \/ (a = rx[m][q] /\ a \in Sent(m))
      BY <2>2, <2>4 DEF Sent
    <3>2. QED
      BY <1>4, <3>1 DEF b
  <2>5. QED
    BY <2>3, <2>4 DEF Sent
<1>5. QED
  BY <1>3, <1>4

(* Forgetting an answer takes it away, storing none adds none.              *)
LEMMA SentLess ==
  ASSUME TypeInv, NEW m \in Smfs, seq' = seq, answers'[m] \subseteq Sent(m),
         \A q \in Seqs : rx'[m][q] \in {rx[m][q], Nil, NoAnswer}
  PROVE  Sent(m)' \subseteq Sent(m)
<1> SUFFICES ASSUME NEW a \in Sent(m)' PROVE a \in Sent(m)
  OBVIOUS
<1>1. CASE a \in answers'[m]
  BY <1>1
<1>2. ASSUME seq[m] # 0, NEW q \in Seqs, a = rx'[m][q], a \notin {Nil, NoAnswer}
      PROVE  a \in Sent(m)
  BY <1>2 DEF Sent
<1>3. QED
  BY <1>1, <1>2 DEF Sent

LEMMA HandlerAnswers ==
  ASSUME TypeInv, NEW n \in Smfs, NEW r \in pend[n], Handle(n, r)
  PROVE  (StoreNoAnswer(n, r) /\ r.kind = "est")
           \/ \E c \in Nat : \E u \in Nat : Answer(n, r, c, u)
<1>0. 0 \in Nat
  OBVIOUS
<1>1. r.cp \in Nat
  BY DEF TypeInv, TypeOK, Requests
<1>2. \A i : Live(i) => slots[i].cp \in Nat
  BY LiveTyped
<1>3. CASE HandleAssociation(n, r)
  BY <1>0, <1>3 DEF HandleAssociation
<1>4. CASE HandleHeartbeat(n, r)
  BY <1>0, <1>4 DEF HandleHeartbeat
<1>5. CASE HandleEstablishment(n, r)
  <2>1. slots \in Seq(Sess \cup {Nil}) /\ free \in Seq(Nat)
    BY DEF TypeInv, TypeOK
  <2>2. Len(slots) + 1 \in Nat /\ (Len(free) > 0 => free[Len(free)] \in Nat)
    BY <2>1
  <2>3. QED
    BY <1>1, <1>5, <2>2 DEF HandleEstablishment
<1>6. CASE HandleModification(n, r)
  BY <1>0, <1>2, <1>6 DEF HandleModification
<1>7. CASE HandleDeletion(n, r)
  BY <1>0, <1>2, <1>7 DEF HandleDeletion
<1>8. QED
  BY <1>3, <1>4, <1>5, <1>6, <1>7 DEF Handle

(* A new answer to an SMF is given by the handler of one of its requests.   *)
LEMMA SentByUpf ==
  ASSUME TypeInv, NEW m \in Smfs, Unasked(m), UpfNext, NEW a \in Sent(m)', a \notin Sent(m)
  PROVE  \E r \in pend[m] : /\ Handle(m, r)
                            /\ \E c \in Nat : \E u \in Nat :
                                 Answer(m, r, c, u) /\ a = AnswerTo(r, c, u)
<1>0. seq' = seq
  BY UpfKeepsSmf
<1>t. /\ rx \in [Smfs -> [Seqs -> Answers \cup {Nil, NoAnswer}]]
      /\ answers \in [Smfs -> SUBSET Answers]
      /\ \A n \in Smfs : \A r \in pend[n] : r.seq \in Seqs
      /\ answers[m] \subseteq Sent(m)
  BY DEF TypeInv, TypeOK, Requests, Sent
<1>1. ASSUME NEW n \in Smfs, NEW r \in pend[n], Handle(n, r)
      PROVE  \/ \E c \in Nat : \E u \in Nat : m = n /\ Answer(m, r, c, u) /\ a = AnswerTo(r, c, u)
             \/ a \in Sent(m)
  <2>1. CASE StoreNoAnswer(n, r)
    <3>1. /\ answers'[m] \subseteq Sent(m)
          /\ \A q \in Seqs : rx'[m][q] \in {rx[m][q], Nil, NoAnswer}
      BY <1>t, <2>1 DEF StoreNoAnswer
    <3>2. QED
      BY <1>0, <3>1, SentLess
  <2>2. ASSUME NEW c \in Nat, NEW u \in Nat, Answer(n, r, c, u)
        PROVE  (m = n /\ Answer(m, r, c, u) /\ a = AnswerTo(r, c, u)) \/ a \in Sent(m)
    BY <1>0, <2>2, SentAnswered
  <2>3. QED
    BY <1>1, <2>1, <2>2, HandlerAnswers
<1>2. ASSUME NEW n \in Smfs, NEW r \in pend[n], Repeated(n, r) PROVE a \in Sent(m)
  <2>1. rx' = rx /\ answers' = [answers EXCEPT ![n] = @ \cup {rx[n][r.seq]}]
        /\ rx[n][r.seq] \notin {Nil, NoAnswer}
    BY <1>2 DEF Repeated, upf, NeedDispatch
  <2>2. n = m => seq[m] # 0
    BY DEF Unasked
  <2>3. n = m => rx[n][r.seq] \in Sent(m)
    BY <1>t, <2>1, <2>2 DEF Sent
  <2>4. answers'[m] \subseteq Sent(m)
    BY <1>t, <2>1, <2>3
  <2>5. QED
    BY <1>0, <2>1, <2>4, SentLess
<1>3. ASSUME answers' = answers, \A q \in Seqs : rx'[m][q] \in {rx[m][q], Nil} PROVE a \in Sent(m)
  BY <1>0, <1>t, <1>3, SentLess
<1>4. ASSUME NEW n \in Smfs, NEW q \in Seqs, RxTimeout(n, q) PROVE a \in Sent(m)
  <2>1. answers' = answers /\ rx' = [rx EXCEPT ![n][q] = Nil]
    BY <1>4 DEF RxTimeout
  <2>2. \A p \in Seqs : rx'[m][p] \in {rx[m][p], Nil}
    BY <1>t, <2>1
  <2>3. QED
    BY <1>3, <2>1, <2>2
<1>5. CASE Boot
  BY <1>3, <1>5 DEF Boot
<1>6. CASE UNCHANGED <<answers, rx>>
  BY <1>3, <1>6
<1>7. QED
  <2>1. PICK n \in Smfs : \E r \in pend[n] : Handle(n, r)
    BY <1>2, <1>4, <1>5, <1>6 DEF UpfNext, NotifySessReport, ServeReport, TxTimeout,
                                  HandleReportResponse, Crash
  <2>2. PICK r \in pend[n] : Handle(n, r)
    BY <2>1
  <2>3. QED
    BY <1>1, <2>2

-----------------------------------------------------------------------------
(* The association goroutine of an SMF waits for one answer at a time.      *)
LinkRequests(n) ==
  /\ \A r, p \in pend[n] : r.kind \in {"assoc", "hb"} /\ p.kind \in {"assoc", "hb"} => r = p
  /\ \A r \in pend[n] : /\ r.kind = "assoc" => asc[n] = "setup"
                        /\ r.kind = "hb" => asc[n] = "ok"

LEMMA LinkSent ==
  ASSUME TypeInv, NEW n \in Smfs, LinkRequests(n), asc' = asc,
         NEW kind, NEW c, NEW seid, NEW last, Send(n, kind, c, seid, last),
         \/ kind \notin {"assoc", "hb"}
         \/ kind = "assoc" /\ asc[n] = "setup" /\ ~Busy(n)
         \/ kind = "hb" /\ asc[n] = "ok" /\ ~Busy(n)
  PROVE  LinkRequests(n)'
<1> DEFINE r == [kind |-> kind, seq |-> seq[n] + 1, cp |-> c, seid |-> seid, last |-> last]
<1>1. pend'[n] = pend[n] \cup {r}
  BY DEF Send, TypeInv, TypeOK
<1>2. r.kind = kind
  OBVIOUS
<1> HIDE DEF r
<1>3. QED
  BY <1>1, <1>2 DEF LinkRequests, Busy

LEMMA LinkConcluded ==
  ASSUME TypeInv, NEW n \in Smfs, LinkRequests(n), NEW r \in pend[n], NEW ok, NEW up, NEW stamp,
         Conclude(n, r, ok, up, stamp)
  PROVE  /\ LinkRequests(n)'
         /\ \/ asc'[n] = asc[n]
            \/ r.kind = "assoc" /\ ok /\ asc[n] = "setup" /\ asc'[n] = "ok"
            \/ r.kind = "hb" /\ asc[n] = "ok" /\ asc'[n] = "release"
<1>1. r.kind \in {"assoc", "hb", "est", "mod", "del"} /\ asc \in [Smfs -> {"setup", "ok", "release"}]
  BY DEF TypeInv, TypeOK, Requests
<1>2. pend'[n] = pend[n] \ {r}
  BY DEF Conclude, TypeInv, TypeOK
<1>3. CASE r.kind = "assoc"
  <2>1. asc' = IF ok THEN [asc EXCEPT ![n] = "ok"] ELSE asc
    BY <1>3 DEF Conclude, ConcludeAssociation
  <2>2. asc[n] = "setup" /\ \A p \in pend'[n] : p.kind \notin {"assoc", "hb"}
    BY <1>2, <1>3 DEF LinkRequests
  <2>3. asc'[n] = asc[n] \/ (ok /\ asc'[n] = "ok")
    BY <1>1, <2>1
  <2>4. QED
    BY <1>3, <2>2, <2>3 DEF LinkRequests
<1>4. CASE r.kind = "hb"
  <2>1. asc' = asc \/ asc' = [asc EXCEPT ![n] = "release"]
    BY <1>4 DEF Conclude, ConcludeHeartbeat
  <2>2. asc[n] = "ok" /\ \A p \in pend'[n] : p.kind \notin {"assoc", "hb"}
    BY <1>2, <1>4 DEF LinkRequests
  <2>3. asc'[n] = asc[n] \/ asc'[n] = "release"
    BY <1>1, <2>1
  <2>4. QED
    BY <1>4, <2>2, <2>3 DEF LinkRequests
<1>5. CASE r.kind \in {"est", "mod", "del"}
  <2>1. asc' = asc
    BY <1>5 DEF Conclude, ConcludeEstablishment, ConcludeModification, ConcludeDeletion
  <2>2. QED
    BY <1>2, <2>1 DEF LinkRequests
<1>6. QED
  BY <1>1, <1>3, <1>4, <1>5

LEMMA LinkSmf ==
  ASSUME TypeInv, NEW n \in Smfs, LinkRequests(n), SmfNext(n)
  PROVE  LinkRequests(n)'
<1>1. CASE SetUpAssociation(n)
  BY <1>1, LinkSent DEF SetUpAssociation
<1>2. CASE Heartbeat(n)
  BY <1>2, LinkSent DEF Heartbeat
<1>3. CASE AllReleased(n)
  BY <1>3 DEF AllReleased, LinkRequests, TypeInv, TypeOK
<1>4. CASE SmfRestart(n)
  BY <1>4 DEF SmfRestart, LinkRequests, TypeInv, TypeOK
<1>5. ASSUME NEW c \in Cps, CreateContext(n, c) PROVE LinkRequests(n)'
  BY <1>5, LinkSent DEF CreateContext
<1>6. ASSUME NEW c \in Cps, Modify(n, c) PROVE LinkRequests(n)'
  BY <1>6, LinkSent DEF Modify
<1>7. ASSUME NEW c \in Cps, NEW last \in BOOLEAN, Release(n, c, last) PROVE LinkRequests(n)'
  BY <1>7, LinkSent DEF Release
<1>8. CASE UNCHANGED <<asc, pend>>
  BY <1>8 DEF LinkRequests
<1>9. ASSUME NEW r \in pend[n], NEW ok, NEW up, NEW stamp, Conclude(n, r, ok, up, stamp)
      PROVE  LinkRequests(n)'
  BY <1>9, LinkConcluded
<1>10. QED
  BY <1>1, <1>2, <1>3, <1>4, <1>5, <1>6, <1>7, <1>8, <1>9
     DEF SmfNext, RemoveContext, ReleaseOfUPF, HandleReport, smf, GiveUp, TakeAnswer

LEMMA LinkNext ==
  ASSUME TypeInv, NEW m \in Smfs, LinkRequests(m), [Next]_vars
  PROVE  LinkRequests(m)'
<1>1. ASSUME asc'[m] = asc[m], pend'[m] = pend[m] PROVE LinkRequests(m)'
  BY <1>1 DEF LinkRequests
<1>2. CASE UNCHANGED vars
  BY <1>1, <1>2 DEF vars, smf
<1>3. CASE UpfNext
  BY <1>1, <1>3, UpfKeepsSmf
<1>4. ASSUME NEW n \in Smfs, SmfNext(n), n # m PROVE LinkRequests(m)'
  BY <1>1, <1>4, SmfAlone DEF Untouched
<1>5. QED
  BY <1>2, <1>3, <1>4, LinkSmf DEF Next

-----------------------------------------------------------------------------
(* SMF n has an association, or may learn of one it asked for.              *)
Associated(n) == asc[n] # "setup" \/ \E a \in Sent(n) : a.kind = "assoc"

LEMMA AssociatedBySmf ==
  ASSUME SlowRestart, TypeInv, NEW n \in Smfs, Unasked(n), LinkRequests(n),
         SmfNext(n), Associated(n)'
  PROVE  Associated(n) /\ ~SmfRestart(n)
<1>1. ~SmfRestart(n)
  <2> SUFFICES ASSUME SmfRestart(n) PROVE FALSE
    OBVIOUS
  <2>1. asc'[n] = "setup" /\ seq'[n] = 0 /\ answers'[n] = {}
    BY DEF SmfRestart, TypeInv, TypeOK
  <2>2. QED
    BY <2>1 DEF Associated, Sent
<1>2. Sent(n)' \subseteq Sent(n)
  BY SentBySmf
<1>3. CASE asc'[n] = "setup" \/ asc[n] # "setup"
  BY <1>1, <1>2, <1>3 DEF Associated
<1>4. CASE asc'[n] # "setup" /\ asc[n] = "setup"
  <2>1. ASSUME NEW r \in pend[n], NEW a \in answers[n], TakeAnswer(n, r, a)
        PROVE  Associated(n)
    <3>1. r.kind = "assoc" /\ a.kind = r.kind
      BY <1>4, <2>1, LinkConcluded DEF TakeAnswer
    <3>2. QED
      BY <3>1 DEF Associated, Sent
  <2>2. ASSUME NEW r \in pend[n], GiveUp(n, r) PROVE FALSE
    BY <1>4, <2>2, LinkConcluded DEF GiveUp
  <2>3. \E r \in pend[n] : GiveUp(n, r) \/ \E a \in answers[n] : TakeAnswer(n, r, a)
    BY <1>1, <1>4 DEF SmfNext, SetUpAssociation, Heartbeat, AllReleased, CreateContext,
                      Modify, Release, RemoveContext, ReleaseOfUPF, HandleReport, smf,
                      TypeInv, TypeOK
  <2>4. QED
    BY <1>1, <2>1, <2>2, <2>3
<1>5. QED
  BY <1>1, <1>3, <1>4

LEMMA AssociatedByUpf ==
  ASSUME TypeInv, NEW n \in Smfs, Unasked(n), UpfNext, Associated(n)', ~Associated(n)
  PROVE  \E r \in pend[n] : HandleAssociation(n, r)
<1>1. PICK a \in Sent(n)' : a.kind = "assoc" /\ a \notin Sent(n)
  BY UpfKeepsSmf DEF Associated
<1>2. PICK r \in pend[n] : /\ Handle(n, r)
                           /\ \E c \in Nat : \E u \in Nat : a = AnswerTo(r, c, u)
  BY <1>1, SentByUpf
<1>3. r.kind = "assoc"
  BY <1>1, <1>2 DEF AnswerTo
<1>4. QED
  BY <1>2, <1>3 DEF Handle, HandleHeartbeat, HandleEstablishment, HandleModification,
                    HandleDeletion

-----------------------------------------------------------------------------
(* What a step does to one slot of the session table. *)
New(n, r) == [node |-> n, cp |-> r.cp, inc |-> inc[n], rules |-> 0]

LEMMA EstablishmentPlaces ==
  ASSUME TypeInv, SeidTable, NEW n \in Smfs, NEW r \in pend[n], HandleEstablishment(n, r)
  PROVE  \/ StoreNoAnswer(n, r) /\ n \notin rnodes /\ slots' = slots
         \/ \E seid \in Nat : /\ n \in rnodes /\ Placed(New(n, r), seid)
                              /\ Answer(n, r, r.cp, seid)
<1> DEFINE new == New(n, r)
<1>1. CASE n \notin rnodes
  BY <1>1 DEF HandleEstablishment
<1>2. CASE n \in rnodes
  <2>1. slots \in Seq(Sess \cup {Nil}) /\ free \in Seq(Nat)
    BY DEF TypeInv, TypeOK
  <2>2. Len(slots) + 1 \in Nat /\ (Len(free) > 0 => free[Len(free)] \in Nat)
    BY <2>1
  <2>3. \E seid \in Nat : Takes(new, seid) /\ Answer(n, r, r.cp, seid)
    <3>1. CASE Len(free) > 0
      BY <1>2, <2>2, <3>1 DEF HandleEstablishment, Takes, New
    <3>2. CASE ~(Len(free) > 0)
      BY <1>2, <2>2, <3>2 DEF HandleEstablishment, Takes, New
    <3>3. QED
      BY <3>1, <3>2
  <2>4. new # Nil
    <3>1. r.cp \in Cps /\ inc[n] \in Nat
      BY DEF TypeInv, TypeOK, RequestsNamed, HandleEstablishment
    <3>2. new \in Sess
      <4> HIDE DEF Cps
      <4>1. QED
        BY <3>1 DEF New, Sess
    <3>3. QED
      BY <3>2, PfcpAssumption
  <2> HIDE DEF new
  <2>5. QED
    BY <1>2, <2>3, <2>4, SeidPlaced DEF new
<1>3. QED
  BY <1>1, <1>2

(* A session that is there after a step was there before it, the same but   *)
(* for the rules of a modification, or has just been established.           *)
LEMMA SessionAfter ==
  ASSUME TypeInv, SeidTable, [Next]_vars, NEW i, Live(i)'
  PROVE  \/ Live(i) /\ slots'[i] = slots[i]
         \/ \E n \in Smfs : \E r \in pend[n] :
              /\ HandleModification(n, r) /\ r.seid = i /\ Live(i)
              /\ slots'[i] = [slots[i] EXCEPT !.rules = r.seq]
         \/ \E n \in Smfs : \E r \in pend[n] :
              /\ HandleEstablishment(n, r) /\ n \in rnodes /\ ~Live(i)
              /\ slots'[i] = New(n, r) /\ Answer(n, r, r.cp, i)
<1> DEFINE Goal == \/ Live(i) /\ slots'[i] = slots[i]
                   \/ \E n \in Smfs : \E r \in pend[n] :
                        /\ HandleModification(n, r) /\ r.seid = i /\ Live(i)
                        /\ slots'[i] = [slots[i] EXCEPT !.rules = r.seq]
                   \/ \E n \in Smfs : \E r \in pend[n] :
                        /\ HandleEstablishment(n, r) /\ n \in rnodes /\ ~Live(i)
                        /\ slots'[i] = New(n, r) /\ Answer(n, r, r.cp, i)
<1> SUFFICES Goal
  OBVIOUS
<1>0. i \in DOMAIN slots' /\ slots'[i] # Nil
  BY DEF Live
<1>1. CASE slots' = slots
  BY <1>0, <1>1 DEF Live
<1>2. ASSUME NEW S, DeleteSessions(S) PROVE Goal
  BY <1>0, <1>2 DEF DeleteSessions, Live
<1>3. CASE slots' = << >>
  BY <1>0, <1>3
<1>4. ASSUME NEW n \in Smfs, NEW r \in pend[n], HandleModification(n, r) PROVE Goal
  <2>1. CASE Live(r.seid)
    <3>1. slots' = [slots EXCEPT ![r.seid].rules = r.seq]
      BY <1>4, <2>1 DEF HandleModification
    <3>2. DOMAIN slots' = DOMAIN slots
          /\ \A k \in DOMAIN slots : slots'[k] = IF k = r.seid THEN [slots[k] EXCEPT !.rules = r.seq]
                                                 ELSE slots[k]
      BY <3>1
    <3>3. CASE i = r.seid
      BY <1>0, <1>4, <2>1, <3>2, <3>3
    <3>4. CASE i # r.seid
      BY <1>0, <3>2, <3>4 DEF Live
    <3>5. QED
      BY <3>3, <3>4
  <2>2. CASE ~Live(r.seid)
    BY <1>1, <1>4, <2>2 DEF HandleModification
  <2>3. QED
    BY <2>1, <2>2
<1>5. ASSUME NEW n \in Smfs, NEW r \in pend[n], HandleEstablishment(n, r) PROVE Goal
  <2>1. CASE slots' = slots
    BY <1>1, <2>1
  <2>2. ASSUME NEW seid \in Nat, n \in rnodes, Placed(New(n, r), seid), Answer(n, r, r.cp, seid)
        PROVE  Goal
    <3>1. CASE i = seid
      <4>1. slots'[i] = New(n, r) /\ ~Live(i)
        BY <1>0, <2>2, <3>1 DEF Placed
      <4>2. QED
        BY <1>5, <2>2, <3>1, <4>1
    <3>2. CASE i # seid
      BY <1>0, <2>2, <3>2 DEF Placed, Live
    <3>3. QED
      BY <3>1, <3>2
  <2>3. QED
    BY <1>5, <2>1, <2>2, EstablishmentPlaces
<1> HIDE DEF Goal
<1>6. CASE UpfNext
  <2>1. ASSUME NEW n \in Smfs, NEW r \in pend[n], Handle(n, r) PROVE Goal
    BY <1>1, <1>2, <1>4, <1>5, <2>1
       DEF Handle, HandleAssociation, HandleHeartbeat, HandleDeletion, DeleteSession
  <2>2. ASSUME NEW m \in replies, HandleReportResponse(m) PROVE Goal
    BY <1>1, <1>2, <2>2 DEF HandleReportResponse, DeleteRejected, DeleteSession
  <2>3. QED
    BY <1>1, <1>3, <1>6, <2>1, <2>2 DEF UpfNext, Repeated, upf, RxTimeout, NotifySessReport,
       ServeReport, TxTimeout, Crash, Boot
<1>7. ASSUME NEW n \in Smfs, SmfNext(n) PROVE Goal
  BY <1>1, <1>7, SmfKeepsUpf
<1>8. CASE UNCHANGED vars
  BY <1>1, <1>8 DEF vars, upf
<1>9. QED
  BY <1>6, <1>7, <1>8 DEF Next

(* A session ends with a new association of its node, a deletion of its     *)
(* SEID, a report its node refused, or the UPF.                             *)
LEMMA SessionEnds ==
  ASSUME TypeInv, SeidTable, [Next]_vars, NEW i, Live(i), ~Live(i)'
  PROVE  \/ \E n \in Smfs : \E r \in pend[n] : HandleAssociation(n, r) /\ slots[i].node = n
         \/ \E n \in Smfs : \E r \in pend[n] : HandleDeletion(n, r) /\ r.seid = i
         \/ \E m \in replies : /\ HandleReportResponse(m) /\ m.seid = 0
                               /\ slots[i].node = m.node /\ slots[i].cp = tx[m.seq].cp
         \/ Boot
<1> DEFINE Goal ==
         \/ \E n \in Smfs : \E r \in pend[n] : HandleAssociation(n, r) /\ slots[i].node = n
         \/ \E n \in Smfs : \E r \in pend[n] : HandleDeletion(n, r) /\ r.seid = i
         \/ \E m \in replies : /\ HandleReportResponse(m) /\ m.seid = 0
                               /\ slots[i].node = m.node /\ slots[i].cp = tx[m.seq].cp
         \/ Boot
<1>0. i \in DOMAIN slots /\ slots[i] # Nil /\ slots[i] \in Sess
  BY LiveTyped DEF Live
<1>1. CASE slots' = slots
  BY <1>1 DEF Live
<1>2. ASSUME NEW S, DeleteSessions(S) PROVE i \in S
  BY <1>0, <1>2 DEF DeleteSessions, Live
<1>3. ASSUME NEW n \in Smfs, NEW r \in pend[n], HandleModification(n, r) PROVE FALSE
  <2>1. CASE Live(r.seid)
    <3>1. slots' = [slots EXCEPT ![r.seid].rules = r.seq] /\ UNCHANGED <<free, sess, rnodes>>
          /\ r.seq \in Nat
      BY <1>3, <2>1 DEF HandleModification, TypeInv, TypeOK, Requests, Seqs
    <3>2. DOMAIN slots' = DOMAIN slots /\ slots'[i] # Nil
      BY <1>0, <2>1, <3>1, TableModified
    <3>3. QED
      BY <1>0, <3>2 DEF Live
  <2>2. CASE ~Live(r.seid)
    BY <1>1, <1>3, <2>2 DEF HandleModification, Live
  <2>3. QED
    BY <2>1, <2>2
<1>4. ASSUME NEW n \in Smfs, NEW r \in pend[n], HandleEstablishment(n, r) PROVE FALSE
  <2>1. CASE slots' = slots
    BY <2>1 DEF Live
  <2>2. ASSUME NEW seid \in Nat, Placed(New(n, r), seid) PROVE FALSE
    BY <1>0, <2>2 DEF Placed, Live
  <2>3. QED
    BY <1>4, <2>1, <2>2, EstablishmentPlaces
<1>5. ASSUME NEW n \in Smfs, NEW r \in pend[n], HandleAssociation(n, r) PROVE Goal
  <2>1. i \in sess[n]
    BY <1>2, <1>5 DEF HandleAssociation
  <2>2. slots[i].node = n
    BY <2>1 DEF SeidTable
  <2>3. QED
    BY <1>5, <2>2
<1>6. ASSUME NEW n \in Smfs, NEW r \in pend[n], HandleDeletion(n, r) PROVE Goal
  <2>1. CASE Live(r.seid)
    <3>1. DeleteSessions({r.seid})
      BY <1>6, <2>1 DEF HandleDeletion, DeleteSession
    <3>2. i = r.seid
      BY <1>2, <3>1
    <3>3. QED
      BY <1>6, <3>2
  <2>2. CASE ~Live(r.seid)
    BY <1>6, <2>2 DEF HandleDeletion, Live
  <2>3. QED
    BY <2>1, <2>2
<1>7. ASSUME NEW m \in replies, HandleReportResponse(m) PROVE Goal
  <2>1. slots' # slots
    BY DEF Live
  <2>2. m.seid = 0 /\ DeleteRejected(m.node, tx[m.seq].cp)
    BY <1>7, <2>1 DEF HandleReportResponse
  <2>3. PICK k \in DOMAIN slots : RemoteSess(k, m.node, tx[m.seq].cp) /\ DeleteSession(k)
    BY <2>1, <2>2 DEF DeleteRejected
  <2>4. i = k
    BY <1>2, <2>3 DEF DeleteSession
  <2>5. QED
    BY <1>7, <2>2, <2>3, <2>4 DEF RemoteSess, IsSession
<1> HIDE DEF Goal
<1>8. CASE UpfNext
  <2>1. ASSUME NEW n \in Smfs, NEW r \in pend[n], Handle(n, r) PROVE Goal
    BY <1>3, <1>4, <1>5, <1>6, <2>1 DEF Handle, HandleHeartbeat, Live
  <2>2. QED
    BY <1>7, <1>8, <2>1 DEF UpfNext, Repeated, upf, RxTimeout, NotifySessReport,
       ServeReport, TxTimeout, Crash, Live, Goal
<1>9. ASSUME NEW n \in Smfs, SmfNext(n) PROVE FALSE
  BY <1>9, SmfKeepsUpf DEF Live
<1>10. CASE UNCHANGED vars
  BY <1>10 DEF vars, upf, Live
<1>11. QED
  BY <1>8, <1>9, <1>10 DEF Next, Goal

-----------------------------------------------------------------------------
(* Once it has an association, or will learn of one, an SMF has no sessions *)
(* of its earlier runs in the UPF.                                          *)
Cleaned(n) == \A i : Live(i) /\ slots[i].node = n => slots[i].inc = inc[n]
CleanInv == \A n \in Smfs : /\ Unasked(n) /\ LinkRequests(n)
                            /\ Associated(n) => Cleaned(n)

LEMMA CleanInit == Init => CleanInv
<1> SUFFICES ASSUME Init, NEW n \in Smfs
             PROVE  Unasked(n) /\ LinkRequests(n) /\ Cleaned(n)
  BY DEF CleanInv
<1>1. seq[n] = 0 /\ asc[n] = "setup" /\ pend[n] = {} /\ answers[n] = {} /\ slots = << >>
  BY DEF Init
<1>2. QED
  BY <1>1 DEF Unasked, LinkRequests, Cleaned, Live

LEMMA CleanedKept ==
  ASSUME TypeInv, SeidTable, [Next]_vars, NEW n \in Smfs, Cleaned(n), inc'[n] = inc[n]
  PROVE  Cleaned(n)'
<1> SUFFICES ASSUME NEW i, Live(i)', slots'[i].node = n PROVE slots'[i].inc = inc'[n]
  BY DEF Cleaned
<1>1. CASE Live(i) /\ slots'[i] = slots[i]
  BY <1>1 DEF Cleaned
<1>2. ASSUME Live(i), NEW v, slots'[i] = [slots[i] EXCEPT !.rules = v]
      PROVE  slots'[i].inc = inc'[n]
  <2>1. slots[i] \in Sess
    BY <1>2, LiveTyped
  <2>2. slots'[i].node = slots[i].node /\ slots'[i].inc = slots[i].inc
    BY <1>2, <2>1 DEF Sess
  <2>3. QED
    BY <1>2, <2>2 DEF Cleaned
<1>3. ASSUME NEW m \in Smfs, NEW r, slots'[i] = New(m, r) PROVE slots'[i].inc = inc'[n]
  BY <1>3 DEF New
<1>4. QED
  BY <1>1, <1>2, <1>3, SessionAfter

LEMMA CleanedByAssociation ==
  ASSUME TypeInv, SeidTable, NEW n \in Smfs, NEW r \in pend[n], HandleAssociation(n, r)
  PROVE  Cleaned(n)'
<1> SUFFICES ASSUME NEW i, Live(i)', slots'[i].node = n PROVE FALSE
  BY DEF Cleaned
<1>1. DeleteSessions(sess[n])
  BY DEF HandleAssociation
<1>2. i \in DOMAIN slots /\ i \notin sess[n] /\ slots[i] # Nil /\ slots[i].node = n
  BY <1>1 DEF DeleteSessions, Live
<1>3. QED
  BY <1>2 DEF SeidTable

LEMMA CleanNext ==
  ASSUME SlowRestart, TypeInv, SeidTable, CleanInv, [Next]_vars
  PROVE  CleanInv'
<1> SUFFICES ASSUME NEW m \in Smfs PROVE Unasked(m)' /\ LinkRequests(m)' /\ (Associated(m)' => Cleaned(m)')
  BY DEF CleanInv
<1>1. Unasked(m) /\ LinkRequests(m) /\ (Associated(m) => Cleaned(m))
  BY DEF CleanInv
<1>2. Unasked(m)' /\ LinkRequests(m)'
  BY <1>1, UnaskedNext, LinkNext
<1>3. ASSUME Associated(m)' PROVE Cleaned(m)'
  <2>1. CASE UNCHANGED vars
    BY <1>1, <1>3, <2>1 DEF vars, upf, smf, Associated, Sent, Cleaned, Live
  <2>2. CASE UpfNext
    <3>1. inc' = inc
      BY <2>2, UpfKeepsSmf
    <3>2. CASE Associated(m)
      BY <1>1, <3>1, <3>2, CleanedKept
    <3>3. CASE ~Associated(m)
      BY <1>1, <1>3, <2>2, <3>3, AssociatedByUpf, CleanedByAssociation
    <3>4. QED
      BY <3>2, <3>3
  <2>3. ASSUME NEW n \in Smfs, SmfNext(n) PROVE Cleaned(m)'
    <3>1. CASE n = m
      <4>1. Associated(m) /\ ~SmfRestart(m)
        BY <1>1, <1>3, <2>3, <3>1, AssociatedBySmf
      <4>2. inc' = inc
        BY <2>3, <3>1, <4>1 DEF SmfNext, SetUpAssociation, Heartbeat, AllReleased,
           CreateContext, Modify, Release, RemoveContext, ReleaseOfUPF, GiveUp, TakeAnswer,
           HandleReport, smf
      <4>3. QED
        BY <1>1, <4>1, <4>2, CleanedKept
    <3>2. CASE n # m
      <4>1. Untouched(m) /\ rx' = rx
        BY <2>3, <3>2, SmfAlone, SmfKeepsUpf
      <4>2. Associated(m)
        BY <1>3, <4>1 DEF Untouched, Associated, Sent
      <4>3. QED
        BY <1>1, <4>1, <4>2, CleanedKept DEF Untouched
    <3>3. QED
      BY <3>1, <3>2
  <2>4. QED
    BY <2>1, <2>2, <2>3 DEF Next
<1>4. QED
  BY <1>2, <1>3

(* Once an SMF is associated, the UPF has no session of its earlier runs,   *)
(* whatever was lost, repeated or answered late around its restart: the new *)
(* association deletes what the node had (handleAssociationSetupRequest),   *)
(* and no answer to an old one is taken for it.                             *)
THEOREM CleanStarts == ASSUME SlowRestart PROVE Spec => []CleanStart
<1>1. TypeInv /\ SeidTable /\ CleanInv /\ [Next]_vars => CleanInv'
  BY CleanNext
<1>2. Spec => [](TypeInv /\ SeidTable /\ CleanInv)
  BY TypeInit, TypeNext, TableInit, TableNext, CleanInit, <1>1, PTL DEF Spec
<1>3. CleanInv => CleanStart
  BY DEF CleanInv, CleanStart, Associated, Cleaned
<1>4. QED
  BY <1>2, <1>3, PTL

-----------------------------------------------------------------------------
(* The books of an SMF: its contexts and the requests about them.  The lock *)
(* of a context is what makes them agree.                                   *)
SessionKinds == {"est", "mod", "del"}

Numbered(n) == /\ \A r \in pend[n] : r.seq <= seq[n]
               /\ \A r, p \in pend[n] : r.seq = p.seq => r = p
ContextRequests(n) ==
  /\ \A r, p \in pend[n] :
       r.kind \in SessionKinds /\ p.kind \in SessionKinds /\ r.cp = p.cp => r = p
  /\ \A r \in pend[n] :
       /\ r.kind = "est" => ctx[n][r.cp].state = "ActivePending"
       /\ r.kind \in {"mod", "del"} => /\ ctx[n][r.cp].state = "PFCPModification"
                                       /\ r.seid = ctx[n][r.cp].up
       /\ r.kind = "mod" => ~ctx[n][r.cp].tried /\ ctx[n][r.cp].rules < r.seq
       /\ r.kind = "del" => ctx[n][r.cp].tried
ContextsFit(n) ==
  \A c \in Cps : /\ asc[n] = "setup" => ctx[n][c].state \in {"unused", "InActivePending", "removed"}
                 /\ ctx[n][c].state = "InActivePending" => ctx[n][c].tried
                 /\ ctx[n][c].rules <= seq[n]
                 /\ ctx[n][c].state \in {"unused", "ActivePending"} => ctx[n][c].rules = 0
Books(n) == Numbered(n) /\ ContextRequests(n) /\ ContextsFit(n)

(* Context c of SMF n gets these values, and the others keep theirs.        *)
Becomes(n, c, st, u, ru, tr) ==
  /\ ctx'[n][c].state = st /\ ctx'[n][c].up = u
  /\ ctx'[n][c].rules = ru /\ ctx'[n][c].tried = tr
  /\ \A d \in Cps : d # c => ctx'[n][d] = ctx[n][d]

LEMMA ContextSet ==
  ASSUME TypeInv, NEW n \in Smfs, NEW c \in Cps, NEW st
  PROVE  LET k == ctx[n][c]
         IN /\ ctx' = [ctx EXCEPT ![n][c].state = st] => Becomes(n, c, st, k.up, k.rules, k.tried)
            /\ ctx' = [ctx EXCEPT ![n][c].state = st, ![n][c].tried = TRUE]
                 => Becomes(n, c, st, k.up, k.rules, TRUE)
            /\ \A u : ctx' = [ctx EXCEPT ![n][c].state = st, ![n][c].up = u]
                 => Becomes(n, c, st, u, k.rules, k.tried)
            /\ \A u : ctx' = [ctx EXCEPT ![n][c].state = st, ![n][c].rules = u]
                 => Becomes(n, c, st, k.up, u, k.tried)
<1> DEFINE k == ctx[n][c]
<1>1. ctx \in [Smfs -> [Cps -> Contexts]]
  BY DEF TypeInv, TypeOK
<1>2. k \in Contexts
  BY <1>1
<1>3. ASSUME NEW v, ctx' = [ctx EXCEPT ![n][c] = v]
      PROVE  ctx'[n][c] = v /\ \A d \in Cps : d # c => ctx'[n][d] = ctx[n][d]
  BY <1>1, <1>3
<1>4. ASSUME ctx' = [ctx EXCEPT ![n][c].state = st]
      PROVE  Becomes(n, c, st, k.up, k.rules, k.tried)
  <2>1. ctx' = [ctx EXCEPT ![n][c] = [k EXCEPT !.state = st]]
    BY <1>4
  <2>2. ctx'[n][c] = [k EXCEPT !.state = st] /\ \A d \in Cps : d # c => ctx'[n][d] = ctx[n][d]
    BY <1>3, <2>1
  <2>3. QED
    BY <1>2, <2>2 DEF Becomes, Contexts
<1>5. ASSUME ctx' = [ctx EXCEPT ![n][c].state = st, ![n][c].tried = TRUE]
      PROVE  Becomes(n, c, st, k.up, k.rules, TRUE)
  <2>1. ctx' = [ctx EXCEPT ![n][c] = [k EXCEPT !.state = st, !.tried = TRUE]]
    BY <1>1, <1>5
  <2>2. /\ ctx'[n][c] = [k EXCEPT !.state = st, !.tried = TRUE]
        /\ \A d \in Cps : d # c => ctx'[n][d] = ctx[n][d]
    BY <1>3, <2>1
  <2>3. QED
    BY <1>2, <2>2 DEF Becomes, Contexts
<1>6. ASSUME NEW u, ctx' = [ctx EXCEPT ![n][c].state = st, ![n][c].up = u]
      PROVE  Becomes(n, c, st, u, k.rules, k.tried)
  <2>1. ctx' = [ctx EXCEPT ![n][c] = [k EXCEPT !.state = st, !.up = u]]
    BY <1>1, <1>6
  <2>2. /\ ctx'[n][c] = [k EXCEPT !.state = st, !.up = u]
        /\ \A d \in Cps : d # c => ctx'[n][d] = ctx[n][d]
    BY <1>3, <2>1
  <2>3. QED
    BY <1>2, <2>2 DEF Becomes, Contexts
<1>7. ASSUME NEW u, ctx' = [ctx EXCEPT ![n][c].state = st, ![n][c].rules = u]
      PROVE  Becomes(n, c, st, k.up, u, k.tried)
  <2>1. ctx' = [ctx EXCEPT ![n][c] = [k EXCEPT !.state = st, !.rules = u]]
    BY <1>1, <1>7
  <2>2. /\ ctx'[n][c] = [k EXCEPT !.state = st, !.rules = u]
        /\ \A d \in Cps : d # c => ctx'[n][d] = ctx[n][d]
    BY <1>3, <2>1
  <2>3. QED
    BY <1>2, <2>2 DEF Becomes, Contexts
<1>8. QED
  BY <1>4, <1>5, <1>6, <1>7

(* What a step of SMF n does to its books.  The SMF asks ...                *)
Asks(n, r) ==
  /\ pend'[n] = pend[n] \cup {r} /\ r.seq = seq[n] + 1 /\ seq'[n] = seq[n] + 1
  /\ asc'[n] = asc[n] /\ inc' = inc /\ answers' = answers /\ replies' = replies
AsksLink(n, r) ==
  /\ Asks(n, r) /\ r.kind \in {"assoc", "hb"} /\ ctx' = ctx
  /\ seq[n] = 0 => Quiet(n)
AsksContext(n, r, c) ==
  /\ Asks(n, r) /\ r.cp = c /\ asc[n] = "ok"
  /\ LET k == ctx[n][c] IN
     \/ r.kind = "est" /\ k.state = "unused"
        /\ Becomes(n, c, "ActivePending", k.up, k.rules, k.tried)
     \/ r.kind = "mod" /\ k.state = "Active" /\ ~k.tried /\ r.seid = k.up
        /\ Becomes(n, c, "PFCPModification", k.up, k.rules, k.tried)
     \/ r.kind = "del" /\ k.state = "Active" /\ ~k.tried /\ r.seid = k.up
        /\ Becomes(n, c, "PFCPModification", k.up, k.rules, TRUE)
(* ... ends a context without a request ...                                 *)
Ends(n, c) ==
  /\ UNCHANGED <<inc, seq, asc, pend, answers, replies>>
  /\ LET k == ctx[n][c] IN
     /\ k.state = "InActivePending" \/ (k.state = "Active" /\ asc[n] # "ok")
     /\ \/ Becomes(n, c, "removed", k.up, k.rules, k.tried)
        \/ Becomes(n, c, "InActivePending", k.up, k.rules, TRUE)
(* ... or is done with a request, answered by what the UPF said or given up. *)
Learns(n, r, ok, u) ==
  /\ r \in pend[n] /\ pend'[n] = pend[n] \ {r} /\ UNCHANGED <<inc, seq, replies>>
  /\ LET k == ctx[n][r.cp] IN
     \/ /\ ctx'[n] = ctx[n]
        /\ \/ r.kind \in {"assoc", "hb"} /\ asc'[n] = asc[n]
           \/ r.kind = "assoc" /\ asc[n] = "setup" /\ asc'[n] = "ok"
           \/ r.kind = "hb" /\ asc[n] = "ok" /\ asc'[n] = "release"
     \/ /\ asc'[n] = asc[n]
        /\ \/ r.kind = "est" /\ ok /\ Becomes(n, r.cp, "Active", u, k.rules, k.tried)
           \/ r.kind = "est" /\ ~ok /\ Becomes(n, r.cp, "removed", k.up, k.rules, k.tried)
           \/ r.kind = "mod" /\ ok /\ Becomes(n, r.cp, "Active", k.up, r.seq, k.tried)
           \/ r.kind = "mod" /\ ~ok /\ Becomes(n, r.cp, "Active", k.up, k.rules, k.tried)
           \/ /\ r.kind = "del"
              /\ \E st \in {"removed", "InActivePending", "Active"} :
                   Becomes(n, r.cp, st, k.up, k.rules, k.tried)
LearnsAnswer(n, r, ok, u) ==
  /\ Learns(n, r, ok, u)
  /\ answers'[n] \subseteq answers[n]
  /\ ok => \E a \in answers[n] : a.seq = r.seq /\ a.kind = r.kind /\ a.cp = r.cp /\ a.up = u

SmfStep(n) ==
  \/ \E r : AsksLink(n, r)
  \/ \E c \in Cps : \E r : AsksContext(n, r, c)
  \/ \E c \in Cps : Ends(n, c)
  \/ \E r \in pend[n] : \E ok \in BOOLEAN : \E u : LearnsAnswer(n, r, ok, u)
  \/ AllReleased(n)
  \/ SmfRestart(n)
  \/ \E t \in TxSeqs : HandleReport(n, t)

LEMMA SendAsks ==
  ASSUME TypeInv, NEW n \in Smfs, NEW kind, NEW c, NEW seid, NEW last \in BOOLEAN,
         Send(n, kind, c, seid, last), UNCHANGED <<inc, asc, answers, replies>>
  PROVE  \E r : Asks(n, r) /\ r.kind = kind /\ r.cp = c /\ r.seid = seid
<1> DEFINE r == [kind |-> kind, seq |-> seq[n] + 1, cp |-> c, seid |-> seid, last |-> last]
<1>1. pend'[n] = pend[n] \cup {r} /\ seq'[n] = seq[n] + 1
  BY DEF Send, TypeInv, TypeOK
<1>2. r.seq = seq[n] + 1 /\ r.kind = kind /\ r.cp = c /\ r.seid = seid
  OBVIOUS
<1> HIDE DEF r
<1>3. QED
  BY <1>1, <1>2 DEF Asks

LEMMA ConcludeLearns ==
  ASSUME TypeInv, NEW n \in Smfs, LinkRequests(n), NEW r \in pend[n], NEW ok \in BOOLEAN,
         NEW u, NEW stamp, Conclude(n, r, ok, u, stamp), UNCHANGED <<inc, seq, replies>>
  PROVE  Learns(n, r, ok, u)
<1>1. r.kind \in {"assoc", "hb", "est", "mod", "del"}
      /\ (r.kind \in {"est", "mod", "del"} => r.cp \in Cps)
  BY DEF TypeInv, TypeOK, RequestsNamed, Requests
<1>2. pend'[n] = pend[n] \ {r}
  BY DEF Conclude, TypeInv, TypeOK
<1>3. CASE r.kind \in {"assoc", "hb"}
  <2>1. ctx' = ctx
    BY <1>3 DEF Conclude, ConcludeAssociation, ConcludeHeartbeat
  <2>2. \/ asc'[n] = asc[n]
        \/ r.kind = "assoc" /\ ok /\ asc[n] = "setup" /\ asc'[n] = "ok"
        \/ r.kind = "hb" /\ asc[n] = "ok" /\ asc'[n] = "release"
    BY LinkConcluded
  <2>3. QED
    BY <1>2, <1>3, <2>1, <2>2 DEF Learns
<1>4. CASE r.kind = "est"
  <2>1. ConcludeEstablishment(n, r.cp, ok, u)
    BY <1>4 DEF Conclude
  <2>2. CASE ok
    <3>1. ctx' = [ctx EXCEPT ![n][r.cp].state = "Active", ![n][r.cp].up = u] /\ asc' = asc
      BY <2>1, <2>2 DEF ConcludeEstablishment
    <3>2. Becomes(n, r.cp, "Active", u, ctx[n][r.cp].rules, ctx[n][r.cp].tried)
      BY <1>1, <1>4, <3>1, ContextSet
    <3>3. QED
      BY <1>2, <1>4, <2>2, <3>1, <3>2 DEF Learns
  <2>3. CASE ~ok
    <3>1. /\ ctx' = [ctx EXCEPT ![n][r.cp].state = "removed", ![n][r.cp].up = ctx[n][r.cp].up]
          /\ asc' = asc
      BY <2>1, <2>3 DEF ConcludeEstablishment
    <3>2. Becomes(n, r.cp, "removed", ctx[n][r.cp].up, ctx[n][r.cp].rules, ctx[n][r.cp].tried)
      BY <1>1, <1>4, <3>1, ContextSet
    <3>3. QED
      BY <1>2, <1>4, <2>3, <3>1, <3>2 DEF Learns
  <2>4. QED
    BY <2>2, <2>3
<1>5. CASE r.kind = "mod"
  <2>1. ConcludeModification(n, r, ok)
    BY <1>5 DEF Conclude
  <2>2. CASE ok
    <3>1. ctx' = [ctx EXCEPT ![n][r.cp].state = "Active", ![n][r.cp].rules = r.seq] /\ asc' = asc
      BY <2>1, <2>2 DEF ConcludeModification
    <3>2. Becomes(n, r.cp, "Active", ctx[n][r.cp].up, r.seq, ctx[n][r.cp].tried)
      BY <1>1, <1>5, <3>1, ContextSet
    <3>3. QED
      BY <1>2, <1>5, <2>2, <3>1, <3>2 DEF Learns
  <2>3. CASE ~ok
    <3>1. /\ ctx' = [ctx EXCEPT ![n][r.cp].state = "Active", ![n][r.cp].rules = ctx[n][r.cp].rules]
          /\ asc' = asc
      BY <2>1, <2>3 DEF ConcludeModification
    <3>2. Becomes(n, r.cp, "Active", ctx[n][r.cp].up, ctx[n][r.cp].rules, ctx[n][r.cp].tried)
      BY <1>1, <1>5, <3>1, ContextSet
    <3>3. QED
      BY <1>2, <1>5, <2>3, <3>1, <3>2 DEF Learns
  <2>4. QED
    BY <2>2, <2>3
<1>6. CASE r.kind = "del"
  <2>1. ConcludeDeletion(n, r, ok)
    BY <1>6 DEF Conclude
  <2>2. PICK st \in {"removed", "InActivePending", "Active"} :
          ctx' = [ctx EXCEPT ![n][r.cp].state = st] /\ asc' = asc
    BY <2>1 DEF ConcludeDeletion, SetContext
  <2>3. Becomes(n, r.cp, st, ctx[n][r.cp].up, ctx[n][r.cp].rules, ctx[n][r.cp].tried)
    BY <1>1, <1>6, <2>2, ContextSet
  <2>4. QED
    BY <1>2, <1>6, <2>2, <2>3 DEF Learns
<1>7. QED
  BY <1>1, <1>3, <1>4, <1>5, <1>6

LEMMA SmfSteps ==
  ASSUME SlowRestart, ~UseAfterRelease, TypeInv, NEW n \in Smfs,
         Unasked(n), LinkRequests(n), ContextsFit(n), SmfNext(n)
  PROVE  SmfStep(n)
<1>0. PICK no \in BOOLEAN : no = FALSE
  OBVIOUS
<1>1. CASE SetUpAssociation(n)
  <2>0. Send(n, "assoc", 0, 0, no) /\ UNCHANGED <<inc, asc, answers, replies>>
    BY <1>0, <1>1 DEF SetUpAssociation
  <2>1. PICK r : Asks(n, r) /\ r.kind = "assoc"
    BY <2>0, SendAsks
  <2>2. AsksLink(n, r)
    BY <1>1, <2>1 DEF SetUpAssociation, AsksLink
  <2>3. QED
    BY <2>2 DEF SmfStep
<1>2. CASE Heartbeat(n)
  <2>0. Send(n, "hb", 0, 0, no) /\ UNCHANGED <<inc, asc, answers, replies>>
    BY <1>0, <1>2 DEF Heartbeat
  <2>1. PICK r : Asks(n, r) /\ r.kind = "hb"
    BY <2>0, SendAsks
  <2>2. seq[n] # 0
    BY <1>2 DEF Heartbeat, Unasked
  <2>3. AsksLink(n, r)
    BY <1>2, <2>1, <2>2 DEF Heartbeat, AsksLink
  <2>4. QED
    BY <2>3 DEF SmfStep
<1>3. ASSUME NEW c \in Cps, CreateContext(n, c) PROVE SmfStep(n)
  <2>0. Send(n, "est", c, 0, no) /\ UNCHANGED <<inc, asc, answers, replies>>
    BY <1>0, <1>3 DEF CreateContext
  <2>1. PICK r : Asks(n, r) /\ r.kind = "est" /\ r.cp = c
    BY <2>0, SendAsks
  <2>2. Becomes(n, c, "ActivePending", ctx[n][c].up, ctx[n][c].rules, ctx[n][c].tried)
    BY <1>3, ContextSet DEF CreateContext, SetContext
  <2>3. AsksContext(n, r, c)
    BY <1>3, <2>1, <2>2 DEF CreateContext, AsksContext
  <2>4. QED
    BY <2>3 DEF SmfStep
<1>4. ASSUME NEW c \in Cps, Modify(n, c) PROVE SmfStep(n)
  <2>0. Send(n, "mod", c, ctx[n][c].up, no) /\ UNCHANGED <<inc, asc, answers, replies>>
    BY <1>0, <1>4 DEF Modify
  <2>1. PICK r : Asks(n, r) /\ r.kind = "mod" /\ r.cp = c /\ r.seid = ctx[n][c].up
    BY <2>0, SendAsks
  <2>2. Becomes(n, c, "PFCPModification", ctx[n][c].up, ctx[n][c].rules, ctx[n][c].tried)
    BY <1>4, ContextSet DEF Modify, SetContext
  <2>3. AsksContext(n, r, c)
    BY <1>4, <2>1, <2>2 DEF Modify, Usable, AsksContext
  <2>4. QED
    BY <2>3 DEF SmfStep
<1>5. ASSUME NEW c \in Cps, NEW last \in BOOLEAN, Release(n, c, last) PROVE SmfStep(n)
  <2>1. PICK r : Asks(n, r) /\ r.kind = "del" /\ r.cp = c /\ r.seid = ctx[n][c].up
    BY <1>5, SendAsks DEF Release
  <2>2. Becomes(n, c, "PFCPModification", ctx[n][c].up, ctx[n][c].rules, TRUE)
    BY <1>5, ContextSet DEF Release
  <2>3. ~ctx[n][c].tried /\ ctx[n][c].state = "Active"
    BY <1>5 DEF Release, Usable, ContextsFit
  <2>4. AsksContext(n, r, c)
    BY <1>5, <2>1, <2>2, <2>3 DEF Release, AsksContext
  <2>5. QED
    BY <2>4 DEF SmfStep
<1>6. ASSUME NEW c \in Cps, RemoveContext(n, c) PROVE SmfStep(n)
  <2>1. Becomes(n, c, "removed", ctx[n][c].up, ctx[n][c].rules, ctx[n][c].tried)
    BY <1>6, ContextSet DEF RemoveContext, SetContext
  <2>2. Ends(n, c)
    BY <1>6, <2>1 DEF RemoveContext, Ends
  <2>3. QED
    BY <2>2 DEF SmfStep
<1>7. ASSUME NEW c \in Cps, ReleaseOfUPF(n, c) PROVE SmfStep(n)
  <2>1. \/ Becomes(n, c, "removed", ctx[n][c].up, ctx[n][c].rules, ctx[n][c].tried)
        \/ Becomes(n, c, "InActivePending", ctx[n][c].up, ctx[n][c].rules, TRUE)
    BY <1>7, ContextSet DEF ReleaseOfUPF, SetContext
  <2>2. Ends(n, c)
    BY <1>7, <2>1 DEF ReleaseOfUPF, Ends
  <2>3. QED
    BY <2>2 DEF SmfStep
<1>8. ASSUME NEW r \in pend[n], GiveUp(n, r) PROVE SmfStep(n)
  <2>1. Learns(n, r, FALSE, 0)
    BY <1>8, ConcludeLearns DEF GiveUp
  <2>2. answers'[n] \subseteq answers[n]
    BY <1>8 DEF GiveUp, TypeInv, TypeOK
  <2>3. LearnsAnswer(n, r, FALSE, 0)
    BY <2>1, <2>2 DEF LearnsAnswer
  <2>4. QED
    BY <2>3 DEF SmfStep
<1>9. ASSUME NEW r \in pend[n], NEW a \in answers[n], TakeAnswer(n, r, a) PROVE SmfStep(n)
  <2> DEFINE ok == a.kind = r.kind /\ a.cp = r.cp
  <2>0. ok \in BOOLEAN
    OBVIOUS
  <2>1. Conclude(n, r, ok, a.up, a.boot) /\ UNCHANGED <<inc, seq, replies>>
    BY <1>9 DEF TakeAnswer
  <2>2. answers'[n] \subseteq answers[n] /\ a.seq = r.seq
    BY <1>9 DEF TakeAnswer, TypeInv, TypeOK
  <2>3. ok => a.kind = r.kind /\ a.cp = r.cp
    OBVIOUS
  <2> HIDE DEF ok
  <2>4. Learns(n, r, ok, a.up)
    BY <2>0, <2>1, ConcludeLearns
  <2>5. LearnsAnswer(n, r, ok, a.up)
    BY <2>2, <2>3, <2>4 DEF LearnsAnswer
  <2>6. QED
    BY <2>0, <2>5 DEF SmfStep
<1>10. QED
  BY <1>1, <1>2, <1>3, <1>4, <1>5, <1>6, <1>7, <1>8, <1>9 DEF SmfNext, SmfStep

(* The types that the books of SMF n need. *)
LEMMA BooksTyped ==
  ASSUME TypeInv, NEW n \in Smfs
  PROVE  /\ seq[n] \in Nat /\ asc[n] \in {"setup", "ok", "release"}
         /\ \A r \in pend[n] : /\ r.seq \in Nat /\ r.seq \in Seqs /\ r.seq # 0
                               /\ r.kind \in {"assoc", "hb", "est", "mod", "del"}
                               /\ r.kind \in SessionKinds => r.cp \in Cps
         /\ \A c \in Cps : /\ ctx[n][c].rules \in Nat /\ ctx[n][c].state \in States
                           /\ ctx[n][c].tried \in BOOLEAN
<1>1. \A r \in pend[n] : r \in Requests
  BY DEF TypeInv, TypeOK
<1>2. \A c \in Cps : ctx[n][c] \in Contexts
  BY DEF TypeInv, TypeOK
<1>3. QED
  BY <1>1, <1>2 DEF TypeInv, TypeOK, RequestsNamed, Requests, Contexts, States, Seqs, SessionKinds

LEMMA BooksAsked ==
  ASSUME TypeInv, NEW n \in Smfs, Books(n), NEW r, Asks(n, r),
         \/ r.kind \in {"assoc", "hb"} /\ ctx' = ctx
         \/ \E c \in Cps : AsksContext(n, r, c)
  PROVE  Books(n)'
<1>1. /\ pend'[n] = pend[n] \cup {r} /\ r.seq = seq[n] + 1 /\ seq'[n] = seq[n] + 1
      /\ asc'[n] = asc[n]
  BY DEF Asks
<1>2. /\ seq[n] \in Nat
      /\ \A p \in pend[n] : p.seq \in Nat /\ (p.kind \in SessionKinds => p.cp \in Cps)
      /\ \A c \in Cps : ctx[n][c].rules \in Nat /\ ctx[n][c].state \in States
  BY BooksTyped
<1>3. Numbered(n)'
  BY <1>1, <1>2 DEF Books, Numbered
<1>4. CASE r.kind \in {"assoc", "hb"} /\ ctx' = ctx
  <2>1. ContextRequests(n)'
    BY <1>1, <1>4 DEF Books, ContextRequests, SessionKinds
  <2>2. ContextsFit(n)'
    BY <1>1, <1>2, <1>4 DEF Books, ContextsFit
  <2>3. QED
    BY <1>3, <2>1, <2>2 DEF Books
<1>5. ASSUME NEW c \in Cps, AsksContext(n, r, c) PROVE Books(n)'
  <2> DEFINE k == ctx[n][c]
  <2>1. /\ r.cp = c /\ asc[n] = "ok" /\ k.state \in {"unused", "Active"}
        /\ \A d \in Cps : d # c => ctx'[n][d] = ctx[n][d]
        /\ ctx'[n][c].rules = k.rules /\ ctx'[n][c].up = k.up
        /\ ctx'[n][c].state \in {"ActivePending", "PFCPModification"}
        /\ \/ /\ r.kind = "est" /\ k.state = "unused" /\ ctx'[n][c].state = "ActivePending"
           \/ /\ r.kind = "mod" /\ ~ctx'[n][c].tried /\ r.seid = k.up
              /\ ctx'[n][c].state = "PFCPModification"
           \/ /\ r.kind = "del" /\ ctx'[n][c].tried /\ r.seid = k.up
              /\ ctx'[n][c].state = "PFCPModification"
    <3>1. ASSUME NEW st, NEW tr, Becomes(n, c, st, k.up, k.rules, tr)
          PROVE  /\ \A d \in Cps : d # c => ctx'[n][d] = ctx[n][d]
                 /\ ctx'[n][c].rules = k.rules /\ ctx'[n][c].up = k.up
                 /\ ctx'[n][c].state = st /\ ctx'[n][c].tried = tr
      BY <3>1 DEF Becomes
    <3>2. CASE r.kind = "est"
      <4>1. k.state = "unused" /\ Becomes(n, c, "ActivePending", k.up, k.rules, k.tried)
        BY <1>5, <3>2 DEF AsksContext
      <4>2. QED
        BY <1>5, <3>1, <3>2, <4>1 DEF AsksContext
    <3>3. CASE r.kind = "mod"
      <4>1. /\ k.state = "Active" /\ ~k.tried /\ r.seid = k.up
            /\ Becomes(n, c, "PFCPModification", k.up, k.rules, k.tried)
        BY <1>5, <3>3 DEF AsksContext
      <4>2. QED
        BY <1>5, <3>1, <3>3, <4>1 DEF AsksContext
    <3>4. CASE r.kind = "del"
      <4>1. /\ k.state = "Active" /\ ~k.tried /\ r.seid = k.up
            /\ Becomes(n, c, "PFCPModification", k.up, k.rules, TRUE)
        BY <1>5, <3>4 DEF AsksContext
      <4>2. QED
        BY <1>5, <3>4, <4>1 DEF AsksContext, Becomes
    <3>5. QED
      BY <1>5, <3>2, <3>3, <3>4 DEF AsksContext
  <2>2. \A p \in pend[n] : p.kind \in SessionKinds => p.cp # c
    BY <2>1 DEF Books, ContextRequests, SessionKinds
  <2>3. ContextRequests(n)'
    <3>1. ASSUME NEW p \in pend[n]
          PROVE  /\ p.kind = "est" => ctx'[n][p.cp].state = "ActivePending"
                 /\ p.kind \in {"mod", "del"} => /\ ctx'[n][p.cp].state = "PFCPModification"
                                                 /\ p.seid = ctx'[n][p.cp].up
                 /\ p.kind = "mod" => ~ctx'[n][p.cp].tried /\ ctx'[n][p.cp].rules < p.seq
                 /\ p.kind = "del" => ctx'[n][p.cp].tried
      <4>1. p.kind \in SessionKinds => ctx'[n][p.cp] = ctx[n][p.cp]
        BY <1>2, <2>1, <2>2
      <4>2. QED
        BY <4>1 DEF Books, ContextRequests, SessionKinds
    <3>2. k.rules < r.seq
      BY <1>1, <1>2 DEF Books, ContextsFit
    <3>3. QED
      BY <1>1, <2>1, <2>2, <3>1, <3>2 DEF Books, ContextRequests
  <2>4. ContextsFit(n)'
    BY <1>1, <1>2, <2>1 DEF Books, ContextsFit
  <2>5. QED
    BY <1>3, <2>3, <2>4 DEF Books
<1>6. QED
  BY <1>4, <1>5

LEMMA BooksEnded ==
  ASSUME TypeInv, NEW n \in Smfs, Books(n), NEW c \in Cps, Ends(n, c)
  PROVE  Books(n)'
<1>1. /\ pend'[n] = pend[n] /\ seq'[n] = seq[n] /\ asc'[n] = asc[n]
      /\ ctx[n][c].state \in {"InActivePending", "Active"}
  BY DEF Ends
<1>2. /\ \A d \in Cps : d # c => ctx'[n][d] = ctx[n][d]
      /\ ctx'[n][c].rules = ctx[n][c].rules
      /\ \/ ctx'[n][c].state = "removed"
         \/ ctx'[n][c].state = "InActivePending" /\ ctx'[n][c].tried = TRUE
  BY DEF Ends, Becomes
<1>3. \A p \in pend[n] : p.kind \in SessionKinds => p.cp \in Cps /\ p.cp # c
  BY <1>1, BooksTyped DEF Books, ContextRequests, SessionKinds
<1>4. \A p \in pend[n] : p.kind \in SessionKinds => ctx'[n][p.cp] = ctx[n][p.cp]
  BY <1>2, <1>3
<1>5. Numbered(n)'
  BY <1>1 DEF Books, Numbered
<1>6. ContextRequests(n)'
  BY <1>1, <1>4 DEF Books, ContextRequests, SessionKinds
<1>7. ContextsFit(n)'
  BY <1>1, <1>2 DEF Books, ContextsFit
<1>8. QED
  BY <1>5, <1>6, <1>7 DEF Books

(* Being done with a request leaves no other request about its context.     *)
LEMMA LearntAlone ==
  ASSUME TypeInv, NEW n \in Smfs, Books(n), NEW r, NEW ok, NEW u, Learns(n, r, ok, u)
  PROVE  /\ r \in pend[n] /\ pend'[n] = pend[n] \ {r}
         /\ \A p \in pend'[n] : p.kind \in SessionKinds => ctx'[n][p.cp] = ctx[n][p.cp]
         /\ r.kind \in SessionKinds =>
              /\ r.cp \in Cps
              /\ \A p \in pend'[n] : p.kind \in SessionKinds => p.cp # r.cp
<1>1. r \in pend[n] /\ pend'[n] = pend[n] \ {r}
  BY DEF Learns
<1>2. \A p \in pend[n] : p.kind \in SessionKinds => p.cp \in Cps
  BY BooksTyped
<1>3. r.kind \in SessionKinds => \A p \in pend'[n] : p.kind \in SessionKinds => p.cp # r.cp
  BY <1>1 DEF Books, ContextRequests
<1>4. ctx'[n] = ctx[n] \/ (r.kind \in SessionKinds /\ \A d \in Cps : d # r.cp => ctx'[n][d] = ctx[n][d])
  BY DEF Learns, Becomes, SessionKinds
<1>5. QED
  BY <1>1, <1>2, <1>3, <1>4

LEMMA BooksLearnt ==
  ASSUME TypeInv, NEW n \in Smfs, Books(n), NEW r, NEW ok \in BOOLEAN, NEW u,
         Learns(n, r, ok, u)
  PROVE  Books(n)'
<1>1. /\ r \in pend[n] /\ pend'[n] = pend[n] \ {r} /\ seq'[n] = seq[n]
      /\ \A p \in pend'[n] : p.kind \in SessionKinds => ctx'[n][p.cp] = ctx[n][p.cp]
  BY LearntAlone DEF Learns
<1>2. Numbered(n)'
  BY <1>1 DEF Books, Numbered
<1>3. ContextRequests(n)'
  BY <1>1 DEF Books, ContextRequests, SessionKinds
<1>4. ContextsFit(n)'
  <2>1. CASE ctx'[n] = ctx[n] /\ (asc'[n] = "setup" => asc[n] = "setup")
    BY <1>1, <2>1 DEF Books, ContextsFit
  <2>2. CASE ctx'[n] # ctx[n] /\ r.kind \in SessionKinds /\ asc'[n] = asc[n]
    <3> DEFINE k == ctx[n][r.cp]
               k1 == ctx'[n][r.cp]
    <3>1. r.cp \in Cps /\ r.seq <= seq[n]
      BY <1>1, <2>2, BooksTyped DEF Books, Numbered
    <3>2. \A d \in Cps : d # r.cp => ctx'[n][d] = ctx[n][d]
      BY <2>2 DEF Learns, Becomes
    <3>3. k.state \in {"ActivePending", "PFCPModification"} /\ asc[n] # "setup"
      BY <1>1, <2>2, <3>1 DEF Books, ContextRequests, ContextsFit, SessionKinds
    <3>4. k1.rules = k.rules \/ k1.rules = r.seq
      BY <2>2 DEF Learns, Becomes
    <3>5. k1.state \in {"Active", "removed"} \/ (r.kind = "del" /\ k1.state = "InActivePending" /\ k1.tried = k.tried)
      BY <2>2 DEF Learns, Becomes
    <3>6. r.kind = "del" => k.tried
      BY <1>1 DEF Books, ContextRequests
    <3>7. k1.rules <= seq[n] /\ (k1.state = "InActivePending" => k1.tried)
      BY <3>1, <3>4, <3>5, <3>6 DEF Books, ContextsFit
    <3> HIDE DEF k, k1
    <3>8. ASSUME NEW c \in Cps
          PROVE  /\ asc'[n] = "setup" => ctx'[n][c].state \in {"unused", "InActivePending", "removed"}
                 /\ ctx'[n][c].state = "InActivePending" => ctx'[n][c].tried
                 /\ ctx'[n][c].rules <= seq'[n]
                 /\ ctx'[n][c].state \in {"unused", "ActivePending"} => ctx'[n][c].rules = 0
      <4>1. CASE c = r.cp
        BY <1>1, <2>2, <3>3, <3>5, <3>7, <4>1 DEF k1
      <4>2. CASE c # r.cp
        BY <1>1, <2>2, <3>2, <4>2 DEF Books, ContextsFit
      <4>3. QED
        BY <4>1, <4>2
    <3>9. QED
      BY <3>8 DEF ContextsFit
  <2>3. QED
    BY <2>1, <2>2 DEF Learns, SessionKinds
<1>5. QED
  BY <1>2, <1>3, <1>4 DEF Books

LEMMA BooksSmf ==
  ASSUME TypeInv, NEW n \in Smfs, Books(n), SmfStep(n)
  PROVE  Books(n)'
<1>1. ASSUME NEW r, AsksLink(n, r) PROVE Books(n)'
  BY <1>1, BooksAsked DEF AsksLink
<1>2. ASSUME NEW c \in Cps, NEW r, AsksContext(n, r, c) PROVE Books(n)'
  BY <1>2, BooksAsked DEF AsksContext
<1>3. ASSUME NEW c \in Cps, Ends(n, c) PROVE Books(n)'
  BY <1>3, BooksEnded
<1>4. ASSUME NEW r \in pend[n], NEW ok \in BOOLEAN, NEW u, LearnsAnswer(n, r, ok, u) PROVE Books(n)'
  BY <1>4, BooksLearnt DEF LearnsAnswer
<1>5. CASE AllReleased(n)
  <2>1. \A c \in Cps : ctx[n][c].state \in {"unused", "InActivePending", "removed"}
    BY <1>5, BooksTyped DEF AllReleased, Locked, States
  <2>2. UNCHANGED <<seq, pend, ctx>>
    BY <1>5 DEF AllReleased
  <2>3. QED
    BY <2>1, <2>2 DEF Books, Numbered, ContextRequests, ContextsFit
<1>6. CASE SmfRestart(n)
  <2>1. seq'[n] = 0 /\ pend'[n] = {} /\ \A c \in Cps : ctx'[n][c] = FreshContext
    BY <1>6 DEF SmfRestart, TypeInv, TypeOK
  <2>2. QED
    BY <2>1 DEF Books, Numbered, ContextRequests, ContextsFit, FreshContext
<1>7. ASSUME NEW t \in TxSeqs, HandleReport(n, t) PROVE Books(n)'
  BY <1>7 DEF HandleReport, smf, Books, Numbered, ContextRequests, ContextsFit
<1>8. QED
  BY <1>1, <1>2, <1>3, <1>4, <1>5, <1>6, <1>7 DEF SmfStep

-----------------------------------------------------------------------------
(* No answer runs ahead of the requests of its SMF. *)
AnswersAsked(n) == \A a \in Sent(n) : a.seq <= seq[n]

LEMMA SentNumbers ==
  ASSUME TypeInv, NEW n \in Smfs
  PROVE  seq[n] \in Nat /\ \A a \in Sent(n) : a.seq \in Nat
<1>1. \A a \in Answers : a.seq \in Seqs
  BY DEF Answers
<1>2. \A q \in Seqs : q \in Nat
  BY DEF Seqs
<1>3. \A a \in Sent(n) : a \in Answers
  BY SentTyped
<1>4. QED
  BY <1>1, <1>2, <1>3 DEF TypeInv, TypeOK

LEMMA AnswersAskedSmf ==
  ASSUME SlowRestart, TypeInv, NEW n \in Smfs, Unasked(n), AnswersAsked(n), SmfNext(n), SmfStep(n)
  PROVE  AnswersAsked(n)'
<1>1. Sent(n)' \subseteq Sent(n)
  BY SentBySmf
<1>2. CASE SmfRestart(n)
  <2>1. Sent(n)' = {}
    BY <1>2 DEF SmfRestart, Sent, TypeInv, TypeOK
  <2>2. QED
    BY <2>1 DEF AnswersAsked
<1>3. CASE ~SmfRestart(n)
  <2>1. seq[n] \in Nat /\ \A a \in Sent(n) : a.seq \in Nat
    BY SentNumbers
  <2>2. seq'[n] = seq[n] \/ seq'[n] = seq[n] + 1
    BY <1>3 DEF SmfStep, AsksLink, AsksContext, Asks, Ends, LearnsAnswer, Learns, AllReleased,
                HandleReport, smf
  <2>3. QED
    BY <1>1, <2>1, <2>2 DEF AnswersAsked
<1>4. QED
  BY <1>2, <1>3

LEMMA AnswersAskedUpf ==
  ASSUME TypeInv, NEW n \in Smfs, Unasked(n), Numbered(n), AnswersAsked(n), UpfNext
  PROVE  AnswersAsked(n)'
<1> SUFFICES ASSUME NEW a \in Sent(n)' PROVE a.seq <= seq[n]
  BY UpfKeepsSmf DEF AnswersAsked
<1>1. CASE a \in Sent(n)
  BY <1>1 DEF AnswersAsked
<1>2. CASE a \notin Sent(n)
  BY <1>2, SentByUpf DEF AnswerTo, Numbered
<1>3. QED
  BY <1>1, <1>2

-----------------------------------------------------------------------------
(* What is true of the sessions of the UPF as long as there is one SMF, or  *)
(* the UPF has not been started again.  With several SMFs a UPF that lost   *)
(* its sessions gives the SEIDs of one SMF to another, and the first may    *)
(* still have a request under way for the SEID it knew.                     *)
OneSmf == \A n, m \in Smfs : n = m
Kept == boot = 1 \/ OneSmf

Own(n, c, i) ==
  /\ Live(i) /\ slots[i].node = n /\ slots[i].cp = c /\ slots[i].inc = inc[n]
  /\ slots[i].rules >= ctx[n][c].rules

(* Contexts whose session has to be there: active ones, and those locked    *)
(* for a request that has not deleted it.                                   *)
Safe(n, c) ==
  \/ ctx[n][c].state = "Active" /\ asc[n] = "ok" /\ ~ctx[n][c].tried
  \/ \E r \in pend[n] : r.cp = c /\ r.kind = "mod"
  \/ \E r \in pend[n] : r.cp = c /\ r.kind = "del" /\ rx[n][r.seq] = Nil

(* Answer a tells SMF n that its request r succeeded. *)
Grants(r, a) == a.seq = r.seq /\ a.kind = r.kind /\ a.cp = r.cp

SafeOwned(n) ==
  n \in rnodes => \A c \in Cps : Safe(n, c) => Own(n, c, ctx[n][c].up)
GrantsOwned(n) ==
  n \in rnodes => \A r \in pend[n] : \A a \in Sent(n) :
    Grants(r, a) => /\ r.kind = "est" => Own(n, r.cp, a.up)
                    /\ r.kind = "mod" => slots[r.seid].rules >= r.seq
Known(n) == Associated(n) /\ boot = 1 => n \in rnodes

(* The steps of the SMF itself. *)
LEMMA OwnSame ==
  ASSUME NEW n \in Smfs, NEW c, NEW i, slots' = slots, inc'[n] = inc[n],
         ctx'[n][c].rules = ctx[n][c].rules, Own(n, c, i)
  PROVE  Own(n, c, i)'
  BY DEF Own, Live

LEMMA GrantsSame ==
  ASSUME TypeInv, NEW n \in Smfs, GrantsOwned(n), AnswersAsked(n),
         UNCHANGED <<slots, rnodes>>, inc'[n] = inc[n], Sent(n)' \subseteq Sent(n),
         \A p \in pend'[n] : \/ p.seq = seq[n] + 1
                             \/ p \in pend[n] /\ (p.kind = "est" =>
                                                    ctx'[n][p.cp].rules = ctx[n][p.cp].rules)
  PROVE  GrantsOwned(n)'
<1> SUFFICES ASSUME n \in rnodes, NEW p \in pend'[n], NEW a \in Sent(n)', Grants(p, a)
             PROVE  /\ p.kind = "est" => Own(n, p.cp, a.up)'
                    /\ p.kind = "mod" => slots[p.seid].rules >= p.seq
  BY DEF GrantsOwned, Grants
<1>1. a \in Sent(n) /\ a.seq = p.seq
  BY DEF Grants
<1>2. seq[n] \in Nat /\ a.seq <= seq[n] /\ a.seq \in Nat
  BY <1>1, SentNumbers DEF AnswersAsked
<1>3. p \in pend[n] /\ (p.kind = "est" => ctx'[n][p.cp].rules = ctx[n][p.cp].rules)
  BY <1>1, <1>2
<1>4. /\ p.kind = "est" => Own(n, p.cp, a.up)
      /\ p.kind = "mod" => slots[p.seid].rules >= p.seq
  BY <1>1, <1>3 DEF GrantsOwned
<1>5. QED
  BY <1>3, <1>4, OwnSame

LEMMA OwnedAsked ==
  ASSUME SlowRestart, TypeInv, NEW n \in Smfs, Unasked(n), Books(n), AnswersAsked(n),
         SafeOwned(n), GrantsOwned(n), SmfNext(n),
         NEW r, Asks(n, r),
         \/ r.kind \in {"assoc", "hb"} /\ ctx' = ctx
         \/ \E c \in Cps : AsksContext(n, r, c)
  PROVE  SafeOwned(n)' /\ GrantsOwned(n)'
<1>1. /\ pend'[n] = pend[n] \cup {r} /\ r.seq = seq[n] + 1 /\ asc'[n] = asc[n]
      /\ UNCHANGED <<slots, rnodes, rx, inc>>
  BY SmfKeepsUpf DEF Asks
<1>2. Sent(n)' \subseteq Sent(n)
  BY SentBySmf
<1>3. CASE r.kind \in {"assoc", "hb"} /\ ctx' = ctx
  <2>1. GrantsOwned(n)'
    BY <1>1, <1>2, <1>3, GrantsSame
  <2>2. ASSUME NEW c \in Cps, Safe(n, c)' PROVE Safe(n, c)
    BY <1>1, <1>3, <2>2 DEF Safe
  <2>3. SafeOwned(n)'
    BY <1>1, <1>3, <2>2 DEF SafeOwned, Own, Live
  <2>4. QED
    BY <2>1, <2>3
<1>4. ASSUME NEW c \in Cps, AsksContext(n, r, c) PROVE SafeOwned(n)' /\ GrantsOwned(n)'
  <2>1. /\ r.cp = c /\ asc[n] = "ok"
        /\ \A d \in Cps : d # c => ctx'[n][d] = ctx[n][d]
        /\ ctx'[n][c].rules = ctx[n][c].rules /\ ctx'[n][c].up = ctx[n][c].up
        /\ ctx'[n][c].state # "Active"
        /\ r.kind = "est" \/ (ctx[n][c].state = "Active" /\ ~ctx[n][c].tried)
    BY <1>4 DEF AsksContext, Becomes
  <2>2. \A d \in Cps : ctx'[n][d].rules = ctx[n][d].rules /\ ctx'[n][d].up = ctx[n][d].up
    BY <2>1
  <2>3. \A p \in pend[n] : p.kind = "est" => p.cp \in Cps
    BY BooksTyped DEF SessionKinds
  <2>4. GrantsOwned(n)'
    BY <1>1, <1>2, <2>2, <2>3, GrantsSame
  <2>5. ASSUME NEW d \in Cps, Safe(n, d)' PROVE Safe(n, d)
    <3>1. CASE d # c
      BY <1>1, <2>1, <2>5, <3>1 DEF Safe
    <3>2. CASE d = c /\ r.kind # "est"
      BY <2>1, <3>2 DEF Safe
    <3>3. CASE d = c /\ r.kind = "est"
      BY <1>1, <2>1, <2>5, <3>3 DEF Safe
    <3>4. QED
      BY <3>1, <3>2, <3>3
  <2>6. SafeOwned(n)'
    BY <1>1, <2>2, <2>5 DEF SafeOwned, Own, Live
  <2>7. QED
    BY <2>4, <2>6
<1>5. QED
  BY <1>3, <1>4

LEMMA OwnedEnded ==
  ASSUME TypeInv, NEW n \in Smfs, Books(n), AnswersAsked(n),
         SafeOwned(n), GrantsOwned(n), SmfNext(n), NEW c \in Cps, Ends(n, c)
  PROVE  SafeOwned(n)' /\ GrantsOwned(n)'
<1>1. UNCHANGED <<slots, rnodes, rx, inc, seq, asc, pend, answers>>
  BY SmfKeepsUpf DEF Ends
<1>2. /\ ctx[n][c].state \in {"InActivePending", "Active"}
      /\ \A d \in Cps : d # c => ctx'[n][d] = ctx[n][d]
      /\ ctx'[n][c].rules = ctx[n][c].rules
      /\ ctx'[n][c].state \in {"removed", "InActivePending"}
  BY DEF Ends, Becomes
<1>3. Sent(n)' = Sent(n)
  BY <1>1, SentSame
<1>4. \A p \in pend[n] : p.kind \in SessionKinds => p.cp \in Cps /\ p.cp # c
  BY <1>2, BooksTyped DEF Books, ContextRequests, SessionKinds
<1>5. \A p \in pend[n] : p.kind \in SessionKinds => ctx'[n][p.cp] = ctx[n][p.cp]
  BY <1>2, <1>4
<1>6. GrantsOwned(n)'
  BY <1>1, <1>3, <1>5, GrantsSame DEF SessionKinds
<1>7. ASSUME NEW d \in Cps, Safe(n, d)' PROVE Safe(n, d) /\ d # c
  BY <1>1, <1>2, <1>4, <1>7 DEF Safe, SessionKinds
<1>8. SafeOwned(n)'
  BY <1>1, <1>2, <1>7 DEF SafeOwned, Own, Live
<1>9. QED
  BY <1>6, <1>8

LEMMA OwnedLearnt ==
  ASSUME SlowRestart, TypeInv, NEW n \in Smfs, Unasked(n), Books(n), AnswersAsked(n),
         SafeOwned(n), GrantsOwned(n), SmfNext(n),
         NEW r \in pend[n], NEW ok \in BOOLEAN, NEW u, LearnsAnswer(n, r, ok, u)
  PROVE  SafeOwned(n)' /\ GrantsOwned(n)'
<1> DEFINE k == ctx[n][r.cp]
<1>1. UNCHANGED <<slots, rnodes, rx, inc, seq>>
  BY SmfKeepsUpf DEF LearnsAnswer, Learns
<1>2. /\ pend'[n] = pend[n] \ {r}
      /\ \A p \in pend'[n] : p.kind \in SessionKinds => ctx'[n][p.cp] = ctx[n][p.cp]
      /\ r.kind \in SessionKinds =>
           /\ r.cp \in Cps
           /\ \A p \in pend'[n] : p.kind \in SessionKinds => p.cp # r.cp
  BY LearntAlone DEF LearnsAnswer
<1>3. GrantsOwned(n)'
  <2>1. Sent(n)' \subseteq Sent(n)
    BY SentBySmf
  <2>2. QED
    BY <1>1, <1>2, <2>1, GrantsSame DEF SessionKinds
<1>4. ok => \E a \in Sent(n) : Grants(r, a) /\ a.up = u
  BY DEF LearnsAnswer, Grants, Sent
<1>5. ASSUME NEW c \in Cps, Safe(n, c)', ctx'[n][c] = ctx[n][c], n \in rnodes,
             asc'[n] = "ok" => (asc[n] = "ok" \/ ctx[n][c].state # "Active")
      PROVE  Own(n, c, ctx[n][c].up)'
  <2>1. Safe(n, c)
    BY <1>1, <1>2, <1>5 DEF Safe
  <2>2. Own(n, c, ctx[n][c].up)
    BY <1>5, <2>1 DEF SafeOwned
  <2>3. QED
    BY <1>1, <1>5, <2>2 DEF Own, Live
<1>6. CASE ctx'[n] = ctx[n]
  <2>1. asc'[n] = asc[n] \/ asc[n] = "setup" \/ asc'[n] = "release"
    BY <1>6 DEF LearnsAnswer, Learns
  <2>2. asc[n] = "setup" => \A c \in Cps : ctx[n][c].state # "Active"
    BY DEF Books, ContextsFit
  <2>3. QED
    BY <1>1, <1>3, <1>5, <1>6, <2>1, <2>2 DEF SafeOwned
<1>7. CASE ctx'[n] # ctx[n]
  <2>1. /\ asc'[n] = asc[n] /\ r.kind \in SessionKinds /\ r.cp \in Cps
        /\ \A d \in Cps : d # r.cp => ctx'[n][d] = ctx[n][d]
    BY <1>2, <1>7 DEF LearnsAnswer, Learns, Becomes, SessionKinds
  <2>2. ASSUME Safe(n, r.cp)'
        PROVE  ctx'[n][r.cp].state = "Active" /\ ~ctx'[n][r.cp].tried
    BY <1>2, <2>1, <2>2 DEF Safe, SessionKinds
  <2>3. ASSUME Safe(n, r.cp)', n \in rnodes PROVE Own(n, r.cp, ctx[n][r.cp].up)'
    <3>1. CASE r.kind = "est"
      <4>1. ok /\ Becomes(n, r.cp, "Active", u, k.rules, k.tried)
        BY <1>7, <2>2, <2>3, <3>1 DEF LearnsAnswer, Learns, Becomes
      <4>2. Own(n, r.cp, u)
        BY <1>4, <2>3, <3>1, <4>1 DEF GrantsOwned
      <4>3. ctx'[n][r.cp].up = u /\ ctx'[n][r.cp].rules = ctx[n][r.cp].rules
        BY <4>1 DEF Becomes
      <4>4. QED
        BY <1>1, <4>2, <4>3 DEF Own, Live
    <3>2. CASE r.kind = "mod"
      <4>1. Own(n, r.cp, ctx[n][r.cp].up) /\ r.seid = ctx[n][r.cp].up
        BY <2>1, <2>3, <3>2 DEF Safe, SafeOwned, Books, ContextRequests
      <4>2. CASE ok
        <5>1. ctx'[n][r.cp].rules = r.seq /\ ctx'[n][r.cp].up = ctx[n][r.cp].up
          BY <1>7, <3>2, <4>2 DEF LearnsAnswer, Learns, Becomes
        <5>2. slots[r.seid].rules >= r.seq
          BY <1>4, <2>3, <3>2, <4>2 DEF GrantsOwned
        <5>3. QED
          BY <1>1, <4>1, <5>1, <5>2 DEF Own, Live
      <4>3. CASE ~ok
        <5>1. ctx'[n][r.cp].rules = ctx[n][r.cp].rules /\ ctx'[n][r.cp].up = ctx[n][r.cp].up
          BY <1>7, <3>2, <4>3 DEF LearnsAnswer, Learns, Becomes
        <5>2. QED
          BY <1>1, <4>1, <5>1 DEF Own, Live
      <4>4. QED
        BY <4>2, <4>3
    <3>3. CASE r.kind = "del"
      <4>1. ctx'[n][r.cp].tried = ctx[n][r.cp].tried /\ ctx[n][r.cp].tried
        BY <1>7, <3>3 DEF LearnsAnswer, Learns, Becomes, Books, ContextRequests
      <4>2. QED
        BY <2>2, <2>3, <4>1
    <3>4. QED
      BY <2>1, <3>1, <3>2, <3>3 DEF SessionKinds
  <2>4. ASSUME NEW c \in Cps, Safe(n, c)', n \in rnodes PROVE Own(n, c, ctx[n][c].up)'
    <3>1. CASE c = r.cp
      BY <2>3, <2>4, <3>1
    <3>2. CASE c # r.cp
      BY <1>5, <2>1, <2>4, <3>2
    <3>3. QED
      BY <3>1, <3>2
  <2>5. QED
    BY <1>1, <1>3, <2>4 DEF SafeOwned
<1>8. QED
  BY <1>6, <1>7

LEMMA OwnedSmf ==
  ASSUME SlowRestart, TypeInv, NEW n \in Smfs, Unasked(n), Books(n), AnswersAsked(n),
         SafeOwned(n), GrantsOwned(n), SmfNext(n), SmfStep(n)
  PROVE  SafeOwned(n)' /\ GrantsOwned(n)'
<1>0. UNCHANGED <<slots, rnodes, rx>>
  BY SmfKeepsUpf
<1>1. ASSUME NEW r, AsksLink(n, r) PROVE SafeOwned(n)' /\ GrantsOwned(n)'
  BY <1>1, OwnedAsked DEF AsksLink
<1>2. ASSUME NEW c \in Cps, NEW r, AsksContext(n, r, c) PROVE SafeOwned(n)' /\ GrantsOwned(n)'
  BY <1>2, OwnedAsked DEF AsksContext
<1>3. ASSUME NEW c \in Cps, Ends(n, c) PROVE SafeOwned(n)' /\ GrantsOwned(n)'
  BY <1>3, OwnedEnded
<1>4. ASSUME NEW r \in pend[n], NEW ok \in BOOLEAN, NEW u, LearnsAnswer(n, r, ok, u)
      PROVE  SafeOwned(n)' /\ GrantsOwned(n)'
  BY <1>4, OwnedLearnt
<1>5. CASE AllReleased(n)
  <2>1. /\ UNCHANGED <<inc, seq, ctx, pend, answers>> /\ asc'[n] = "setup"
    BY <1>5 DEF AllReleased, TypeInv, TypeOK
  <2>2. Sent(n)' = Sent(n)
    BY <1>0, <2>1, SentSame
  <2>3. GrantsOwned(n)'
    BY <1>0, <2>1, <2>2, GrantsSame
  <2>4. SafeOwned(n)'
    BY <1>0, <2>1 DEF SafeOwned, Safe, Own, Live
  <2>5. QED
    BY <2>3, <2>4
<1>6. CASE SmfRestart(n)
  <2>1. pend'[n] = {} /\ \A c \in Cps : ctx'[n][c].state = "unused"
    BY <1>6 DEF SmfRestart, FreshContext, TypeInv, TypeOK
  <2>2. QED
    BY <2>1 DEF SafeOwned, Safe, GrantsOwned
<1>7. ASSUME NEW t \in TxSeqs, HandleReport(n, t) PROVE SafeOwned(n)' /\ GrantsOwned(n)'
  <2>1. UNCHANGED <<inc, seq, asc, ctx, pend, answers>>
    BY <1>7 DEF HandleReport, smf
  <2>2. Sent(n)' = Sent(n)
    BY <1>0, <2>1, SentSame
  <2>3. GrantsOwned(n)'
    BY <1>0, <2>1, <2>2, GrantsSame
  <2>4. SafeOwned(n)'
    BY <1>0, <2>1 DEF SafeOwned, Safe, Own, Live
  <2>5. QED
    BY <2>3, <2>4
<1>8. QED
  BY <1>1, <1>2, <1>3, <1>4, <1>5, <1>6, <1>7 DEF SmfStep

(* A step of another SMF.                                                   *)
LEMMA OwnedOther ==
  ASSUME TypeInv, NEW n \in Smfs, NEW m \in Smfs, m # n, SmfNext(m),
         SafeOwned(n), GrantsOwned(n), AnswersAsked(n)
  PROVE  SafeOwned(n)' /\ GrantsOwned(n)' /\ AnswersAsked(n)'
<1>1. Untouched(n) /\ UNCHANGED <<slots, rnodes, rx>>
  BY SmfAlone, SmfKeepsUpf
<1>2. Sent(n)' = Sent(n)
  BY <1>1, SentSame DEF Untouched
<1>3. GrantsOwned(n)'
  BY <1>1, <1>2, GrantsSame DEF Untouched
<1>4. SafeOwned(n)'
  BY <1>1 DEF SafeOwned, Safe, Own, Live, Untouched
<1>5. QED
  BY <1>1, <1>2, <1>3, <1>4 DEF AnswersAsked, Untouched

-----------------------------------------------------------------------------
(* Contexts that will not be used again: a report about one may be refused. *)
Dead(n, c) == \/ ctx[n][c].state \in {"removed", "InActivePending"}
              \/ ctx[n][c].state = "Active" /\ (asc[n] # "ok" \/ ctx[n][c].tried)

RepliesDead ==
  \A m \in replies : /\ tx[m.seq] # Nil /\ tx[m.seq].node = m.node
                     /\ m.seid = 0 /\ seq[m.node] # 0 => Dead(m.node, tx[m.seq].cp)

(* All that relates the two sides for SMF n.                                *)
Sides(n) == /\ Unasked(n) /\ LinkRequests(n) /\ Books(n) /\ AnswersAsked(n)
            /\ Known(n) /\ SafeOwned(n) /\ GrantsOwned(n)

(* A request finds its own session or none. *)
LEMMA RequestOwn ==
  ASSUME TypeInv, SeidTable, Kept, NEW n \in Smfs, Sides(n), NEW r \in pend[n],
         r.kind \in {"mod", "del"}, NeedDispatch(n, r), Live(r.seid)
  PROVE  n \in rnodes /\ Own(n, r.cp, r.seid)
<1>1. r.cp \in Cps /\ ctx[n][r.cp].state = "PFCPModification" /\ r.seid = ctx[n][r.cp].up
  BY BooksTyped DEF Sides, Books, ContextRequests, SessionKinds
<1>2. asc[n] # "setup"
  BY <1>1 DEF Sides, Books, ContextsFit
<1>3. n \in rnodes
  <2>1. CASE boot = 1
    BY <1>2, <2>1 DEF Sides, Known, Associated
  <2>2. CASE OneSmf
    <3>1. slots[r.seid].node \in Smfs /\ r.seid \in DOMAIN slots /\ slots[r.seid] # Nil
      BY LiveTyped DEF Live
    <3>2. slots[r.seid].node = n
      BY <2>2, <3>1 DEF OneSmf
    <3>3. r.seid \in sess[n]
      BY <3>1, <3>2 DEF SeidTable
    <3>4. QED
      BY <3>3 DEF SeidTable
  <2>3. QED
    BY <2>1, <2>2 DEF Kept
<1>4. Safe(n, r.cp)
  BY DEF Safe, NeedDispatch
<1>5. QED
  BY <1>1, <1>3, <1>4 DEF Sides, SafeOwned

(* The session of a context stays: only its own SMF ends or changes it.     *)
LEMMA OwnKept ==
  ASSUME TypeInv, SeidTable, Kept, \A n \in Smfs : Sides(n), RepliesDead, UpfNext, ~Boot,
         NEW n \in Smfs, NEW c \in Cps, NEW i, Own(n, c, i), ~Dead(n, c), seq[n] # 0,
         \A r \in pend[n] : ~HandleAssociation(n, r),
         \A r \in pend[n] : r.cp = c => ~HandleDeletion(n, r)
  PROVE  /\ Own(n, c, i)'
         /\ \/ slots'[i].rules = slots[i].rules
            \/ \E r \in pend[n] : r.kind = "mod" /\ r.cp = c /\ slots'[i].rules = r.seq
<1>0. Live(i) /\ slots[i].node = n /\ slots[i].cp = c /\ slots[i] \in Sess
  BY LiveTyped DEF Own
<1>s. UNCHANGED <<inc, ctx>> /\ [Next]_vars
  BY UpfKeepsSmf DEF Next
<1>1. Live(i)'
  <2> SUFFICES ASSUME ~Live(i)' PROVE FALSE
    OBVIOUS
  <2>1. ASSUME NEW m \in Smfs, NEW r \in pend[m], HandleAssociation(m, r), slots[i].node = m
        PROVE  FALSE
    BY <1>0, <2>1
  <2>2. ASSUME NEW m \in Smfs, NEW r \in pend[m], HandleDeletion(m, r), r.seid = i PROVE FALSE
    <3>1. r.kind = "del" /\ NeedDispatch(m, r)
      BY <2>2 DEF HandleDeletion, Dispatched
    <3>2. Own(m, r.cp, i)
      BY <1>0, <2>2, <3>1, RequestOwn
    <3>3. m = n /\ r.cp = c
      BY <1>0, <3>2 DEF Own
    <3>4. QED
      BY <2>2, <3>3
  <2>3. ASSUME NEW m \in replies, m.seid = 0, slots[i].node = m.node, slots[i].cp = tx[m.seq].cp
        PROVE  FALSE
    BY <1>0, <2>3 DEF RepliesDead
  <2>4. QED
    BY <1>0, <1>s, <2>1, <2>2, <2>3, SessionEnds
<1>2. CASE slots'[i] = slots[i]
  BY <1>0, <1>1, <1>2, <1>s DEF Own
<1>3. ASSUME NEW m \in Smfs, NEW r \in pend[m], HandleModification(m, r), r.seid = i,
             slots'[i] = [slots[i] EXCEPT !.rules = r.seq]
      PROVE  Own(n, c, i)' /\ \E p \in pend[n] : p.kind = "mod" /\ p.cp = c /\ slots'[i].rules = p.seq
  <2>1. r.kind = "mod" /\ NeedDispatch(m, r)
    BY <1>3 DEF HandleModification, Dispatched
  <2>2. Own(m, r.cp, i)
    BY <1>0, <1>3, <2>1, RequestOwn
  <2>3. m = n /\ r.cp = c
    BY <1>0, <2>2 DEF Own
  <2>4. /\ slots'[i].node = slots[i].node /\ slots'[i].cp = slots[i].cp
        /\ slots'[i].inc = slots[i].inc /\ slots'[i].rules = r.seq
    BY <1>0, <1>3 DEF Sess
  <2>5. ctx[n][c].rules < r.seq /\ r.seq \in Nat /\ ctx[n][c].rules \in Nat
    BY <2>1, <2>3, BooksTyped DEF Sides, Books, ContextRequests
  <2>6. Own(n, c, i)'
    BY <1>1, <1>s, <2>4, <2>5 DEF Own
  <2>7. QED
    BY <2>1, <2>3, <2>4, <2>6
<1>4. QED
  BY <1>0, <1>1, <1>2, <1>3, <1>s, SessionAfter

(* A request that is waited for stays remembered: RxTimeout of the UPF.     *)
LEMMA RxKept ==
  ASSUME WindowCovers, TypeInv, UpfNext, ~Boot, NEW n \in Smfs, NEW r \in pend[n],
         rx'[n][r.seq] = Nil
  PROVE  rx[n][r.seq] = Nil
<1>0. r.seq \in Seqs /\ rx \in [Smfs -> [Seqs -> Answers \cup {Nil, NoAnswer}]]
  BY BooksTyped DEF TypeInv, TypeOK
<1>1. ASSUME NEW m \in Smfs, NEW p \in pend[m], Handle(m, p) PROVE rx[n][r.seq] = Nil
  <2>1. p.seq \in Seqs
    BY BooksTyped
  <2>2. CASE StoreNoAnswer(m, p)
    BY <1>0, <2>1, <2>2, PfcpAssumption DEF StoreNoAnswer
  <2>3. ASSUME NEW c \in Nat, NEW u \in Nat, Answer(m, p, c, u) PROVE rx[n][r.seq] = Nil
    <3>1. rx'[m][p.seq] \in Answers
          /\ \A k \in Smfs : \A q \in Seqs : rx'[k][q] # rx[k][q] => k = m /\ q = p.seq
      BY <2>3, AnswerTyped
    <3>2. QED
      BY <1>0, <3>1, PfcpAssumption
  <2>4. QED
    BY <1>1, <2>2, <2>3, HandlerAnswers
<1>2. ASSUME NEW m \in Smfs, NEW q \in Seqs, RxTimeout(m, q) PROVE rx[n][r.seq] = Nil
  BY <1>0, <1>2 DEF RxTimeout
<1>3. CASE rx' = rx
  BY <1>3
<1>4. QED
  BY <1>1, <1>2, <1>3 DEF UpfNext, Repeated, upf, NotifySessReport, ServeReport, TxTimeout,
     HandleReportResponse, Crash

LEMMA NodesByUpf ==
  ASSUME UpfNext
  PROVE  \/ Boot /\ rnodes' = {}
         \/ \E n \in Smfs : \E r \in pend[n] : HandleAssociation(n, r) /\ rnodes' = rnodes \cup {n}
         \/ /\ rnodes' = rnodes /\ ~Boot
            /\ \A n \in Smfs : \A r \in pend[n] : HandleAssociation(n, r) => n \in rnodes
<1>1. ASSUME NEW n \in Smfs, NEW r \in pend[n], HandleAssociation(n, r)
      PROVE  rnodes' = rnodes \cup {n}
  BY <1>1 DEF HandleAssociation
<1>2. CASE Boot
  BY <1>2 DEF Boot
<1>3. ASSUME NEW n \in Smfs, NEW r \in pend[n], Handle(n, r), ~HandleAssociation(n, r)
      PROVE  rnodes' = rnodes
  BY <1>3 DEF Handle, HandleHeartbeat, HandleEstablishment, HandleModification, HandleDeletion
<1>4. QED
  BY <1>1, <1>2, <1>3 DEF UpfNext, Repeated, upf, RxTimeout, NotifySessReport, ServeReport,
     TxTimeout, HandleReportResponse, Crash

(* Locked for a request, a context is not given up.                         *)
LEMMA LockedAlive ==
  ASSUME TypeInv, NEW n \in Smfs, Sides(n), NEW p \in pend[n], p.kind \in SessionKinds
  PROVE  /\ p.cp \in Cps /\ asc[n] # "setup" /\ seq[n] # 0 /\ ~Dead(n, p.cp)
         /\ \A r \in pend[n] : r.kind \in SessionKinds /\ r.cp = p.cp => r = p
<1>1. p.cp \in Cps
  BY BooksTyped
<1>2. /\ p.kind = "est" => ctx[n][p.cp].state = "ActivePending"
      /\ p.kind \in {"mod", "del"} => ctx[n][p.cp].state = "PFCPModification"
  BY DEF Sides, Books, ContextRequests
<1>3. ctx[n][p.cp].state \in {"ActivePending", "PFCPModification"}
  BY <1>2 DEF SessionKinds
<1>4. asc[n] # "setup"
  BY <1>1, <1>3 DEF Sides, Books, ContextsFit
<1>5. seq[n] # 0
  BY DEF Sides, Unasked
<1>6. ~Dead(n, p.cp)
  BY <1>3 DEF Dead
<1>7. \A r \in pend[n] : r.kind \in SessionKinds /\ r.cp = p.cp => r = p
  BY DEF Sides, Books, ContextRequests
<1>8. QED
  BY <1>1, <1>4, <1>5, <1>6, <1>7

(* While the UPF takes a new association of SMF n nothing depends on it.    *)
LEMMA OwnedAssociated ==
  ASSUME TypeInv, UpfNext, NEW n \in Smfs, Sides(n), NEW r \in pend[n], HandleAssociation(n, r)
  PROVE  SafeOwned(n)' /\ GrantsOwned(n)'
<1>1. pend' = pend /\ ctx' = ctx /\ asc' = asc
  BY UpfKeepsSmf
<1>2. asc[n] = "setup"
  BY DEF HandleAssociation, Sides, LinkRequests
<1>3. \A p \in pend[n] : p.kind \notin SessionKinds
  BY <1>2, LockedAlive
<1>4. \A c \in Cps : ~Safe(n, c)'
  BY <1>1, <1>2, <1>3 DEF Safe, SessionKinds
<1>5. GrantsOwned(n)'
  BY <1>1, <1>3 DEF GrantsOwned, SessionKinds
<1>6. QED
  BY <1>4, <1>5 DEF SafeOwned

LEMMA SafeOwnedUpf ==
  ASSUME WindowCovers, TypeInv, SeidTable, Kept, \A m \in Smfs : Sides(m), RepliesDead,
         UpfNext, ~Boot, NEW n \in Smfs, n \in rnodes,
         \A r \in pend[n] : ~HandleAssociation(n, r)
  PROVE  SafeOwned(n)'
<1>0. pend' = pend /\ ctx' = ctx /\ asc' = asc
  BY UpfKeepsSmf
<1>s. Sides(n)
  OBVIOUS
<1> SUFFICES ASSUME NEW c \in Cps, Safe(n, c)' PROVE Own(n, c, ctx[n][c].up)'
  BY <1>0 DEF SafeOwned
<1>1. Safe(n, c)
  BY <1>0, RxKept DEF Safe
<1>2. ~Dead(n, c) /\ seq[n] # 0
  <2>1. ASSUME NEW r \in pend[n], r.cp = c, r.kind \in SessionKinds PROVE ~Dead(n, c) /\ seq[n] # 0
    BY <1>s, <2>1, LockedAlive
  <2>2. CASE ctx[n][c].state = "Active" /\ asc[n] = "ok" /\ ~ctx[n][c].tried
    BY <1>s, <2>2 DEF Dead, Sides, Unasked
  <2>3. QED
    BY <1>1, <2>1, <2>2 DEF Safe, SessionKinds
<1>3. ASSUME NEW r \in pend[n], r.cp = c, HandleDeletion(n, r) PROVE FALSE
  <2>1. r.kind = "del" /\ ctx[n][c].state = "PFCPModification"
    BY <1>s, <1>3 DEF HandleDeletion, Sides, Books, ContextRequests
  <2>2. rx'[n][r.seq] \in Answers
    <3>1. 0 \in Nat /\ (Live(r.seid) => slots[r.seid].cp \in Nat)
      BY LiveTyped
    <3>2. QED
      BY <1>3, <3>1, AnswerTyped DEF HandleDeletion
  <2>3. PICK p \in pend[n] : p.cp = c /\ (p.kind = "mod" \/ (p.kind = "del" /\ rx'[n][p.seq] = Nil))
    BY <1>0, <2>1 DEF Safe
  <2>4. p = r
    BY <1>s, <1>3, <2>1, <2>3, LockedAlive DEF SessionKinds
  <2>5. QED
    BY <2>1, <2>2, <2>3, <2>4, PfcpAssumption
<1>4. Own(n, c, ctx[n][c].up)
  BY <1>1, <1>s DEF Sides, SafeOwned
<1>5. QED
  BY <1>0, <1>2, <1>3, <1>4, OwnKept

(* What an answer told already stays true.                                  *)
LEMMA GrantKept ==
  ASSUME WindowCovers, TypeInv, SeidTable, Kept, \A m \in Smfs : Sides(m), RepliesDead,
         UpfNext, ~Boot, NEW n \in Smfs, n \in rnodes,
         \A r \in pend[n] : ~HandleAssociation(n, r),
         NEW p \in pend[n], NEW a \in Sent(n), Grants(p, a)
  PROVE  /\ p.kind = "est" => Own(n, p.cp, a.up)'
         /\ p.kind = "mod" => slots'[p.seid].rules >= p.seq
<1>s. Sides(n) /\ p.seq \in Nat
  BY BooksTyped
<1> SUFFICES ASSUME p.kind \in {"est", "mod"}
             PROVE  /\ p.kind = "est" => Own(n, p.cp, a.up)'
                    /\ p.kind = "mod" => slots'[p.seid].rules >= p.seq
  OBVIOUS
<1>1. /\ p.cp \in Cps /\ seq[n] # 0 /\ ~Dead(n, p.cp)
      /\ \A r \in pend[n] : r.kind \in SessionKinds /\ r.cp = p.cp => r = p
  BY <1>s, LockedAlive DEF SessionKinds
<1>2. \A r \in pend[n] : r.cp = p.cp => ~HandleDeletion(n, r)
  BY <1>1 DEF HandleDeletion, SessionKinds
<1>3. CASE p.kind = "est"
  <2>1. Own(n, p.cp, a.up)
    BY <1>s, <1>3 DEF Sides, GrantsOwned
  <2>2. QED
    BY <1>1, <1>2, <1>3, <2>1, OwnKept
<1>4. CASE p.kind = "mod"
  <2>1. p.seid = ctx[n][p.cp].up /\ slots[p.seid].rules >= p.seq
    BY <1>s, <1>4 DEF Sides, Books, ContextRequests, GrantsOwned
  <2>2. Own(n, p.cp, p.seid)
    BY <1>1, <1>4, <1>s, <2>1 DEF Safe, Sides, SafeOwned
  <2>3. \/ slots'[p.seid].rules = slots[p.seid].rules
        \/ \E r \in pend[n] : r.kind = "mod" /\ r.cp = p.cp /\ slots'[p.seid].rules = r.seq
    BY <1>1, <1>2, <2>2, OwnKept
  <2>4. QED
    BY <1>1, <1>s, <1>4, <2>1, <2>3 DEF SessionKinds
<1>5. QED
  BY <1>3, <1>4

(* What the UPF tells in answer to a request is true.                       *)
LEMMA GrantGiven ==
  ASSUME TypeInv, SeidTable, UpfNext, NEW n \in Smfs, n \in rnodes, Sides(n),
         NEW p \in pend[n], Handle(n, p), NEW c \in Nat, NEW u \in Nat, Answer(n, p, c, u)
  PROVE  /\ p.kind = "est" => Own(n, p.cp, u)'
         /\ p.kind = "mod" => slots'[p.seid].rules >= p.seq
<1>0. inc' = inc /\ ctx' = ctx /\ p.seq \in Seqs /\ p.seq \in Nat
  BY UpfKeepsSmf, BooksTyped
<1>1. CASE p.kind = "est"
  <2>1. HandleEstablishment(n, p) /\ p.cp \in Cps
    BY <1>1, LockedAlive DEF SessionKinds, Handle, HandleAssociation, HandleHeartbeat,
       HandleModification, HandleDeletion
  <2>2. PICK seid \in Nat : Placed(New(n, p), seid) /\ Answer(n, p, p.cp, seid)
    BY <2>1, EstablishmentPlaces
  <2>3. rx'[n][p.seq] = AnswerTo(p, c, u) /\ rx'[n][p.seq] = AnswerTo(p, p.cp, seid)
    BY <1>0, <2>2 DEF Answer, AnswerTo, TypeInv, TypeOK
  <2>4. u = seid
    BY <2>3 DEF AnswerTo
  <2>5. seid \in DOMAIN slots' /\ slots'[seid] = New(n, p)
    BY <2>2 DEF Placed
  <2>6. /\ slots'[seid].node = n /\ slots'[seid].cp = p.cp
        /\ slots'[seid].inc = inc[n] /\ slots'[seid].rules = 0
    BY <2>5 DEF New
  <2>7. slots'[seid] # Nil
    <3>1. inc[n] \in Nat
      BY DEF TypeInv, TypeOK
    <3>2. New(n, p) \in Sess
      <4> HIDE DEF Cps
      <4>1. QED
        BY <2>1, <3>1 DEF New, Sess
    <3>3. QED
      BY <2>5, <3>2, PfcpAssumption
  <2>8. ctx[n][p.cp].rules = 0
    BY <1>1, <2>1 DEF Sides, Books, ContextRequests, ContextsFit
  <2>9. QED
    BY <1>0, <1>1, <2>4, <2>5, <2>6, <2>7, <2>8 DEF Own, Live
<1>2. CASE p.kind = "mod"
  <2>1. HandleModification(n, p) /\ p.cp \in Cps
    BY <1>2, LockedAlive DEF SessionKinds, Handle, HandleAssociation, HandleHeartbeat,
       HandleEstablishment, HandleDeletion
  <2>2. p.seid = ctx[n][p.cp].up /\ Safe(n, p.cp)
    BY <1>2 DEF Sides, Books, ContextRequests, Safe
  <2>3. Live(p.seid)
    BY <2>1, <2>2 DEF Sides, SafeOwned, Own
  <2>4. slots[p.seid] \in Sess
    BY <2>3, LiveTyped
  <2>5. slots' = [slots EXCEPT ![p.seid].rules = p.seq]
    BY <2>1, <2>3 DEF HandleModification
  <2>6. slots'[p.seid].rules = p.seq
    BY <2>3, <2>4, <2>5 DEF Live, Sess
  <2>7. QED
    BY <1>0, <1>2, <2>6
<1>3. QED
  BY <1>1, <1>2

LEMMA OwnedUpf ==
  ASSUME WindowCovers, TypeInv, SeidTable, Kept, \A m \in Smfs : Sides(m), RepliesDead,
         UpfNext, NEW n \in Smfs
  PROVE  SafeOwned(n)' /\ GrantsOwned(n)'
<1>s. Sides(n) /\ pend' = pend
  BY UpfKeepsSmf
<1>1. CASE n \notin rnodes'
  BY <1>1 DEF SafeOwned, GrantsOwned
<1>2. ASSUME NEW r \in pend[n], HandleAssociation(n, r) PROVE SafeOwned(n)' /\ GrantsOwned(n)'
  BY <1>s, <1>2, OwnedAssociated
<1>3. CASE n \in rnodes' /\ \A r \in pend[n] : ~HandleAssociation(n, r)
  <2>1. n \in rnodes /\ ~Boot
    <3>1. ASSUME NEW m \in Smfs, NEW r \in pend[m], HandleAssociation(m, r),
                 rnodes' = rnodes \cup {m}
          PROVE  n \in rnodes /\ ~Boot
      <4>1. m # n
        BY <1>3, <3>1
      <4>2. ~Boot
        BY <3>1 DEF Boot, HandleAssociation, Dispatched
      <4>3. QED
        BY <1>3, <3>1, <4>1, <4>2
    <3>2. QED
      BY <1>3, <3>1, NodesByUpf
  <2>2. SafeOwned(n)'
    BY <1>3, <2>1, SafeOwnedUpf
  <2>3. ASSUME NEW p \in pend[n], NEW a \in Sent(n)', Grants(p, a)
        PROVE  /\ p.kind = "est" => Own(n, p.cp, a.up)'
               /\ p.kind = "mod" => slots'[p.seid].rules >= p.seq
    <3>1. CASE a \in Sent(n)
      BY <1>3, <2>1, <2>3, <3>1, GrantKept
    <3>2. CASE a \notin Sent(n)
      <4>1. PICK r \in pend[n] : /\ Handle(n, r)
                                 /\ \E c \in Nat : \E u \in Nat :
                                      Answer(n, r, c, u) /\ a = AnswerTo(r, c, u)
        BY <1>s, <3>2, SentByUpf DEF Sides
      <4>2. PICK c \in Nat, u \in Nat : Answer(n, r, c, u) /\ a = AnswerTo(r, c, u)
        BY <4>1
      <4>3. a.seq = r.seq /\ a.up = u
        BY <4>2 DEF AnswerTo
      <4>4. r = p
        BY <1>s, <2>3, <4>3 DEF Grants, Sides, Books, Numbered
      <4>5. QED
        BY <1>s, <2>1, <4>1, <4>2, <4>3, <4>4, GrantGiven
    <3>3. QED
      BY <3>1, <3>2
  <2>4. GrantsOwned(n)'
    BY <1>s, <2>3 DEF GrantsOwned, Grants
  <2>5. QED
    BY <2>2, <2>4
<1>4. QED
  BY <1>1, <1>2, <1>3

LEMMA KnownSmf ==
  ASSUME SlowRestart, TypeInv, NEW n \in Smfs, NEW m \in Smfs, SmfNext(m),
         Unasked(n), LinkRequests(n), Known(n)
  PROVE  Known(n)'
<1>1. UNCHANGED <<boot, rnodes, rx>>
  BY SmfKeepsUpf
<1>2. CASE m = n
  BY <1>1, <1>2, AssociatedBySmf DEF Known
<1>3. CASE m # n
  BY <1>1, <1>3, SmfAlone DEF Known, Associated, Sent, Untouched
<1>4. QED
  BY <1>2, <1>3

LEMMA BootCounts == ASSUME UpfNext PROVE boot' = (IF Boot THEN boot + 1 ELSE boot)
<1>1. ASSUME NEW n \in Smfs, NEW r \in pend[n], Handle(n, r) PROVE boot' = boot /\ ~Boot
  BY <1>1 DEF Handle, HandleAssociation, HandleHeartbeat, HandleEstablishment,
              HandleModification, HandleDeletion, Dispatched, Boot
<1>2. QED
  BY <1>1 DEF UpfNext, Repeated, upf, RxTimeout, NotifySessReport, ServeReport,
     TxTimeout, HandleReportResponse, Crash, Boot

LEMMA KnownUpf ==
  ASSUME TypeInv, UpfNext, NEW n \in Smfs, Unasked(n), Known(n), boot >= 1
  PROVE  Known(n)'
<1> SUFFICES ASSUME Associated(n)', boot' = 1 PROVE n \in rnodes'
  BY DEF Known
<1>1. boot \in Nat
  BY DEF TypeInv, TypeOK
<1>2. ~Boot /\ boot = 1
  BY <1>1, BootCounts
<1>3. rnodes \subseteq rnodes'
  BY <1>2, NodesByUpf
<1>4. CASE Associated(n)
  BY <1>2, <1>3, <1>4 DEF Known
<1>5. CASE ~Associated(n)
  BY <1>5, AssociatedByUpf DEF HandleAssociation
<1>6. QED
  BY <1>4, <1>5

-----------------------------------------------------------------------------
(* Reports of the sessions of SMF n, on their way through the UPF and back: *)
(* in a run of an SMF they are about sessions of that run, and a refusal is *)
(* about a context that is given up.                                        *)
TxKnown(n) ==
  \A t \in TxSeqs : tx[t] # Nil /\ tx[t].node = n
    => /\ t <= txSeq /\ n \in rnodes
       /\ seq[n] # 0 => ctx[n][tx[t].cp].state # "unused"
RefusalsFit(n) ==
  \A m \in replies : m.node = n
    => /\ tx[m.seq] # Nil /\ tx[m.seq].node = n
       /\ m.seid = 0 /\ seq[n] # 0 => Dead(n, tx[m.seq].cp)
ReportsCurrent(n) ==
  \A k \in DOMAIN reports :
    Live(reports[k]) /\ slots[reports[k]].node = n /\ seq[n] # 0
      => slots[reports[k]].inc = inc[n]
SessionsKnown(n) ==
  \A i : Live(i) /\ slots[i].node = n
    => /\ slots[i].inc <= inc[n]
       /\ slots[i].inc = inc[n] => ctx[n][slots[i].cp].state # "unused"
Reported(n) == TxKnown(n) /\ RefusalsFit(n) /\ ReportsCurrent(n) /\ SessionsKnown(n)

LEMMA AllRefusalsFit ==
  ASSUME TypeInv, \A n \in Smfs : Reported(n) PROVE RepliesDead
<1>1. \A m \in replies : m.node \in Smfs
  BY DEF TypeInv, TypeOK
<1>2. QED
  BY <1>1 DEF Reported, RefusalsFit, RepliesDead

LEMMA ReportsTyped ==
  ASSUME TypeInv
  PROVE  /\ tx \in [TxSeqs -> [node : Smfs, cp : Cps, count : Nat] \cup {Nil}]
         /\ \A t \in TxSeqs : tx[t] # Nil => /\ tx[t] \in [node : Smfs, cp : Cps, count : Nat]
                                            /\ tx[t].node \in Smfs /\ tx[t].cp \in Cps
         /\ \A m \in replies : m.node \in Smfs /\ m.seq \in TxSeqs
         /\ \A t \in TxSeqs : t \in Nat
         /\ txSeq \in Nat /\ reports \in Seq(Nat)
         /\ \A n \in Smfs : inc[n] \in Nat /\ seq[n] \in Nat
<1>1. tx \in [TxSeqs -> [node : Smfs, cp : Cps, count : Nat] \cup {Nil}]
  BY DEF TypeInv, TypeOK
<1>2. \A t \in TxSeqs : tx[t] # Nil => tx[t] \in [node : Smfs, cp : Cps, count : Nat]
  BY <1>1
<1>3. \A t \in TxSeqs : tx[t] # Nil => tx[t].node \in Smfs /\ tx[t].cp \in Cps
  BY <1>2
<1>4. replies \subseteq [node : Smfs, seq : TxSeqs, seid : Nat]
  BY DEF TypeInv, TypeOK
<1>5. \A m \in replies : m.node \in Smfs /\ m.seq \in TxSeqs
  BY <1>4
<1>6. QED
  BY <1>1, <1>2, <1>3, <1>5 DEF TypeInv, TypeOK, TxSeqs

LEMMA RunGoesOn ==
  ASSUME TypeInv, NEW n \in Smfs, Unasked(n), SmfStep(n), ~SmfRestart(n)
  PROVE  /\ inc'[n] = inc[n]
         /\ seq'[n] # 0 => seq[n] # 0 \/ Quiet(n)
         /\ replies' = replies \/ \E t \in TxSeqs : HandleReport(n, t)
<1>1. ASSUME NEW r, AsksLink(n, r)
      PROVE  inc' = inc /\ (seq[n] # 0 \/ Quiet(n)) /\ replies' = replies
  BY <1>1 DEF AsksLink, Asks
<1>2. ASSUME NEW c \in Cps, NEW r, AsksContext(n, r, c)
      PROVE  inc' = inc /\ seq[n] # 0 /\ replies' = replies
  BY <1>2 DEF AsksContext, Asks, Unasked
<1>3. ASSUME NEW c \in Cps, Ends(n, c) PROVE UNCHANGED <<inc, seq, replies>>
  BY <1>3 DEF Ends
<1>4. ASSUME NEW r, NEW ok, NEW u, LearnsAnswer(n, r, ok, u) PROVE UNCHANGED <<inc, seq, replies>>
  BY <1>4 DEF LearnsAnswer, Learns
<1>5. AllReleased(n) => UNCHANGED <<inc, seq, replies>>
  BY DEF AllReleased
<1>6. ASSUME NEW t \in TxSeqs, HandleReport(n, t) PROVE UNCHANGED <<inc, seq>>
  BY <1>6 DEF HandleReport, smf
<1>7. QED
  BY <1>1, <1>2, <1>3, <1>4, <1>5, <1>6 DEF SmfStep

(* Within a run of an SMF a context that was used stays used, and one that  *)
(* was given up stays so.                                                   *)
LEMMA ContextGoesOn ==
  ASSUME TypeInv, NEW n \in Smfs, Unasked(n), Books(n), SmfStep(n), ~SmfRestart(n),
         NEW c \in Cps
  PROVE  /\ ctx[n][c].state # "unused" => ctx'[n][c].state # "unused"
         /\ Dead(n, c) => Dead(n, c)'
<1> DEFINE Goal == /\ ctx[n][c].state # "unused" => ctx'[n][c].state # "unused"
                   /\ Dead(n, c) => Dead(n, c)'
<1> SUFFICES Goal
  OBVIOUS
<1>1. ASSUME NEW r, AsksLink(n, r) PROVE Goal
  <2>1. ctx' = ctx /\ asc'[n] = asc[n]
    BY <1>1 DEF AsksLink, Asks
  <2>2. QED
    BY <2>1 DEF Dead
<1>2. ASSUME NEW d \in Cps, NEW r, AsksContext(n, r, d) PROVE Goal
  <2>1. asc'[n] = asc[n] /\ asc[n] = "ok"
    BY <1>2 DEF AsksContext, Asks
  <2>2. /\ ctx[n][d].state = "unused" \/ (ctx[n][d].state = "Active" /\ ~ctx[n][d].tried)
        /\ ctx'[n][d].state \in {"ActivePending", "PFCPModification"}
        /\ \A e \in Cps : e # d => ctx'[n][e] = ctx[n][e]
    BY <1>2 DEF AsksContext, Becomes
  <2>3. ~Dead(n, d)
    BY <2>1, <2>2 DEF Dead
  <2>4. QED
    BY <2>1, <2>2, <2>3 DEF Dead
<1>3. ASSUME NEW d \in Cps, Ends(n, d) PROVE Goal
  <2>1. asc' = asc
    BY <1>3 DEF Ends
  <2>2. /\ ctx'[n][d].state \in {"removed", "InActivePending"}
        /\ \A e \in Cps : e # d => ctx'[n][e] = ctx[n][e]
    BY <1>3 DEF Ends, Becomes
  <2>3. QED
    BY <2>1, <2>2 DEF Dead
<1>4. ASSUME NEW r \in pend[n], NEW ok \in BOOLEAN, NEW u, LearnsAnswer(n, r, ok, u) PROVE Goal
  <2>1. CASE ctx'[n] = ctx[n]
    <3>1. asc'[n] = asc[n] \/ asc[n] = "setup" \/ asc'[n] = "release"
      BY <1>4, <2>1 DEF LearnsAnswer, Learns
    <3>2. asc[n] = "setup" => \A d \in Cps : ctx[n][d].state # "Active"
      BY DEF Books, ContextsFit
    <3>3. QED
      BY <2>1, <3>1, <3>2 DEF Dead
  <2>2. CASE ctx'[n] # ctx[n]
    <3>1. /\ asc'[n] = asc[n] /\ r.kind \in SessionKinds /\ ctx'[n][r.cp].state # "unused"
          /\ \A d \in Cps : d # r.cp => ctx'[n][d] = ctx[n][d]
      BY <1>4, <2>2 DEF LearnsAnswer, Learns, Becomes, SessionKinds
    <3>2. r.cp \in Cps /\ ctx[n][r.cp].state \in {"ActivePending", "PFCPModification"}
      BY <3>1, BooksTyped DEF Books, ContextRequests, SessionKinds
    <3>3. ~Dead(n, r.cp)
      BY <3>2 DEF Dead
    <3>4. QED
      BY <3>1, <3>3 DEF Dead
  <2>3. QED
    BY <2>1, <2>2
<1>5. CASE AllReleased(n)
  <2>1. ctx' = ctx /\ asc'[n] = "setup"
    BY <1>5 DEF AllReleased, TypeInv, TypeOK
  <2>2. QED
    BY <2>1 DEF Dead
<1>6. ASSUME NEW t \in TxSeqs, HandleReport(n, t) PROVE Goal
  <2>1. UNCHANGED <<asc, ctx>>
    BY <1>6 DEF HandleReport, smf
  <2>2. QED
    BY <1>6, <2>1 DEF Dead
<1>7. QED
  BY <1>1, <1>2, <1>3, <1>4, <1>5, <1>6 DEF SmfStep

(* Only a context that is given up has its report refused.                  *)
LEMMA RefusedDead ==
  ASSUME TypeInv, NEW n \in Smfs, Books(n), SafeOwned(n), TxKnown(n), seq[n] # 0,
         NEW t \in TxSeqs, HandleReport(n, t), NEW m \in replies', m \notin replies
  PROVE  /\ m.node = n /\ m.seq = t
         /\ m.seid = 0 => Dead(n, tx[t].cp)
<1> DEFINE c == tx[t].cp
<1>1. tx[t] # Nil /\ tx[t].node = n /\ ~Locked(ctx[n][c])
  BY DEF HandleReport
<1>2. /\ m.node = n /\ m.seq = t
      /\ m.seid = IF ctx[n][c].state \in {"unused", "removed"} \/ asc[n] # "ok"
                  THEN 0 ELSE ctx[n][c].up
  BY DEF HandleReport
<1>3. c \in Cps
  BY <1>1, ReportsTyped
<1>4. n \in rnodes /\ ctx[n][c].state # "unused"
  BY <1>1 DEF TxKnown
<1> HIDE DEF c
<1>5. ctx[n][c].state \in {"Active", "InActivePending", "removed"}
  <2>1. ctx[n][c].state \in States
    BY <1>3, BooksTyped
  <2>2. QED
    BY <1>1, <1>4, <2>1 DEF Locked, States
<1>6. ASSUME ~Dead(n, c) PROVE m.seid # 0
  <2>1. ctx[n][c].state = "Active" /\ asc[n] = "ok" /\ ~ctx[n][c].tried
    BY <1>5, <1>6 DEF Dead
  <2>2. Live(ctx[n][c].up)
    BY <1>3, <1>4, <2>1 DEF Safe, SafeOwned, Own
  <2>3. slots \in Seq(Sess \cup {Nil})
    BY DEF TypeInv, TypeOK
  <2>4. ctx[n][c].up # 0
    BY <2>2, <2>3 DEF Live
  <2>5. QED
    BY <1>2, <2>1, <2>4
<1>7. QED
  BY <1>2, <1>6 DEF c

LEMMA ReportedRestart ==
  ASSUME TypeInv, NEW n \in Smfs, Reported(n), SmfRestart(n)
  PROVE  Reported(n)'
<1>1. /\ UNCHANGED <<tx, txSeq, rnodes, slots>> /\ seq'[n] = 0 /\ inc'[n] = inc[n] + 1
      /\ \A m \in replies' : m.node # n
  BY DEF SmfRestart, upf, TypeInv, TypeOK
<1>2. TxKnown(n)' /\ RefusalsFit(n)' /\ ReportsCurrent(n)'
  BY <1>1 DEF Reported, TxKnown, RefusalsFit, ReportsCurrent
<1>3. ASSUME NEW i, Live(i), slots[i].node = n PROVE slots[i].inc <= inc[n] /\ slots[i].inc \in Nat
  <2>1. slots[i] \in Sess
    BY <1>3, LiveTyped
  <2>2. QED
    BY <1>3, <2>1 DEF Reported, SessionsKnown, Sess
<1>4. inc[n] \in Nat
  BY ReportsTyped
<1>5. \A i : Live(i) /\ slots[i].node = n => slots[i].inc <= inc'[n] /\ slots[i].inc # inc'[n]
  BY <1>1, <1>3, <1>4
<1>6. SessionsKnown(n)'
  BY <1>1, <1>5 DEF SessionsKnown, Live
<1>7. QED
  BY <1>2, <1>6 DEF Reported

LEMMA ReportedSmf ==
  ASSUME TypeInv, SeidTable, NEW n \in Smfs, Unasked(n), Books(n), SafeOwned(n), Reported(n),
         SmfNext(n), SmfStep(n)
  PROVE  Reported(n)'
<1>1. CASE SmfRestart(n)
  BY <1>1, ReportedRestart
<1>2. CASE ~SmfRestart(n)
  <2>0. UNCHANGED <<tx, txSeq, rnodes, slots, sess, reports>>
    BY SmfKeepsUpf
  <2>1. /\ inc'[n] = inc[n]
        /\ seq'[n] # 0 => seq[n] # 0 \/ Quiet(n)
        /\ replies' = replies \/ \E t \in TxSeqs : HandleReport(n, t)
    BY <1>2, RunGoesOn
  <2>2. Reported(n)
    OBVIOUS
  <2>3. TxKnown(n)'
    <3>1. ASSUME NEW t \in TxSeqs, tx[t] # Nil, tx[t].node = n
          PROVE  /\ t <= txSeq /\ n \in rnodes
                 /\ seq'[n] # 0 => ctx'[n][tx[t].cp].state # "unused"
      <4>1. tx[t].cp \in Cps
        BY <3>1, ReportsTyped
      <4>2. seq'[n] # 0 => seq[n] # 0
        BY <2>1, <3>1 DEF Quiet
      <4>3. ctx[n][tx[t].cp].state # "unused" => ctx'[n][tx[t].cp].state # "unused"
        BY <1>2, <4>1, ContextGoesOn
      <4>4. QED
        BY <2>2, <3>1, <4>2, <4>3 DEF Reported, TxKnown
    <3>2. QED
      BY <2>0, <3>1 DEF TxKnown
  <2>4. RefusalsFit(n)'
    <3>1. ASSUME NEW m \in replies', m.node = n
          PROVE  /\ tx[m.seq] # Nil /\ tx[m.seq].node = n
                 /\ m.seid = 0 /\ seq'[n] # 0 => Dead(n, tx[m.seq].cp)'
      <4>1. CASE m \in replies
        <5>1. /\ tx[m.seq] # Nil /\ tx[m.seq].node = n /\ m.seq \in TxSeqs
              /\ m.seid = 0 /\ seq[n] # 0 => Dead(n, tx[m.seq].cp)
          BY <2>2, <3>1, <4>1, ReportsTyped DEF Reported, RefusalsFit
        <5>2. seq'[n] # 0 => seq[n] # 0
          BY <2>1, <5>1 DEF Quiet
        <5>3. Dead(n, tx[m.seq].cp) => Dead(n, tx[m.seq].cp)'
          <6>1. tx[m.seq].cp \in Cps
            BY <5>1, ReportsTyped
          <6>2. PICK c \in Cps : c = tx[m.seq].cp
            BY <6>1
          <6>3. Dead(n, c) => Dead(n, c)'
            BY <1>2, ContextGoesOn
          <6>4. QED
            BY <2>0, <6>2, <6>3 DEF Dead
        <5>4. QED
          BY <5>1, <5>2, <5>3
      <4>2. CASE m \notin replies
        <5>1. PICK t \in TxSeqs : HandleReport(n, t)
          BY <2>1, <3>1, <4>2
        <5>2. m.seq = t /\ tx[t] # Nil /\ tx[t].node = n /\ UNCHANGED <<asc, ctx, seq>>
          BY <3>1, <4>2, <5>1 DEF HandleReport, smf
        <5>3. m.seid = 0 /\ seq[n] # 0 => Dead(n, tx[t].cp)
          BY <2>2, <3>1, <4>2, <5>1, RefusedDead DEF Reported
        <5>4. QED
          BY <2>0, <5>2, <5>3 DEF Dead
      <4>3. QED
        BY <4>1, <4>2
    <3>2. QED
      BY <2>0, <3>1 DEF RefusalsFit, Dead
  <2>5. ReportsCurrent(n)'
    <3>1. ASSUME NEW k \in DOMAIN reports, Live(reports[k]), slots[reports[k]].node = n, Quiet(n)
          PROVE  FALSE
      BY <3>1 DEF Quiet, SeidTable, Live
    <3>2. QED
      BY <2>0, <2>1, <2>2, <3>1 DEF Reported, ReportsCurrent, Live
  <2>6. SessionsKnown(n)'
    <3>1. ASSUME NEW i, Live(i), slots[i].node = n
          PROVE  /\ slots[i].inc <= inc'[n]
                 /\ slots[i].inc = inc'[n] => ctx'[n][slots[i].cp].state # "unused"
      <4>1. slots[i].cp \in Cps
        BY <3>1, LiveTyped
      <4>2. ctx[n][slots[i].cp].state # "unused" => ctx'[n][slots[i].cp].state # "unused"
        BY <1>2, <4>1, ContextGoesOn
      <4>3. QED
        BY <2>1, <2>2, <3>1, <4>2 DEF Reported, SessionsKnown
    <3>2. QED
      BY <2>0, <3>1 DEF SessionsKnown, Live
  <2>7. QED
    BY <2>3, <2>4, <2>5, <2>6 DEF Reported
<1>3. QED
  BY <1>1, <1>2

LEMMA ReportedOther ==
  ASSUME TypeInv, NEW n \in Smfs, NEW m \in Smfs, m # n, Reported(n), SmfNext(m)
  PROVE  Reported(n)'
<1>1. UNCHANGED <<tx, txSeq, rnodes, slots, reports>> /\ Untouched(n)
  BY SmfKeepsUpf, SmfAlone
<1>2. ASSUME NEW r \in replies', r.node = n PROVE r \in replies
  <2>1. CASE SmfRestart(m)
    BY <1>2, <2>1 DEF SmfRestart
  <2>2. ASSUME NEW t \in TxSeqs, HandleReport(m, t) PROVE r \in replies
    BY <1>2, <2>2 DEF HandleReport
  <2>3. CASE replies' = replies
    BY <1>2, <2>3
  <2>4. QED
    BY <2>1, <2>2, <2>3 DEF SmfNext, SetUpAssociation, Heartbeat, AllReleased, CreateContext,
       Modify, Release, RemoveContext, ReleaseOfUPF, GiveUp, TakeAnswer
<1>3. TxKnown(n)' /\ ReportsCurrent(n)' /\ SessionsKnown(n)'
  BY <1>1 DEF Reported, TxKnown, ReportsCurrent, SessionsKnown, Live, Untouched
<1>4. RefusalsFit(n)'
  BY <1>1, <1>2 DEF Reported, RefusalsFit, Dead, Untouched
<1>5. QED
  BY <1>3, <1>4 DEF Reported

(* What the UPF does to its reports.                                        *)
LEMMA ReportSteps ==
  ASSUME UpfNext, ~Boot
  PROVE  \/ UNCHANGED <<tx, txSeq, reports, replies>>
         \/ ServeReport
         \/ \E i \in DOMAIN slots : NotifySessReport(i)
         \/ \E t \in TxSeqs : TxTimeout(t)
         \/ \E m \in replies : HandleReportResponse(m)
<1>1. ASSUME NEW n \in Smfs, NEW r \in pend[n], Handle(n, r)
      PROVE  UNCHANGED <<tx, txSeq, reports, replies>>
  BY <1>1 DEF Handle, HandleAssociation, HandleHeartbeat, HandleEstablishment,
              HandleModification, HandleDeletion
<1>2. QED
  BY <1>1 DEF UpfNext, Repeated, upf, RxTimeout, Crash

LEMMA TxEnded ==
  ASSUME TypeInv, NEW t \in TxSeqs, EndTx(t)
  PROVE  /\ \A u \in TxSeqs : tx'[u] = IF u = t THEN Nil ELSE tx[u]
         /\ \A m \in replies' : m \in replies /\ m.seq # t
  BY ReportsTyped DEF EndTx

LEMMA TxAfter ==
  ASSUME TypeInv, UpfNext, ~Boot, NEW t \in TxSeqs, tx'[t] # Nil
  PROVE  \/ /\ tx[t] # Nil /\ tx'[t].node = tx[t].node /\ tx'[t].cp = tx[t].cp
            /\ txSeq' \in {txSeq, txSeq + 1}
         \/ /\ reports # << >> /\ Live(Head(reports)) /\ t = txSeq'
            /\ tx'[t].node = slots[Head(reports)].node /\ tx'[t].cp = slots[Head(reports)].cp
<1> DEFINE Goal == \/ /\ tx[t] # Nil /\ tx'[t].node = tx[t].node /\ tx'[t].cp = tx[t].cp
                      /\ txSeq' \in {txSeq, txSeq + 1}
                   \/ /\ reports # << >> /\ Live(Head(reports)) /\ t = txSeq'
                      /\ tx'[t].node = slots[Head(reports)].node /\ tx'[t].cp = slots[Head(reports)].cp
<1> SUFFICES Goal
  OBVIOUS
<1>0. tx \in [TxSeqs -> [node : Smfs, cp : Cps, count : Nat] \cup {Nil}]
  BY ReportsTyped
<1>1. CASE UNCHANGED <<tx, txSeq, reports, replies>>
  BY <1>1
<1>2. CASE ServeReport
  <2>1. CASE Live(Head(reports))
    <3> DEFINE new == [node |-> slots[Head(reports)].node, cp |-> slots[Head(reports)].cp, count |-> 0]
    <3>1. reports # << >> /\ txSeq' = txSeq + 1 /\ tx' = [tx EXCEPT ![txSeq + 1] = new]
      BY <1>2, <2>1 DEF ServeReport
    <3>2. CASE t = txSeq + 1
      BY <1>0, <2>1, <3>1, <3>2
    <3>3. CASE t # txSeq + 1
      BY <1>0, <3>1, <3>3
    <3>4. QED
      BY <3>2, <3>3
  <2>2. CASE ~Live(Head(reports))
    BY <1>2, <2>2 DEF ServeReport
  <2>3. QED
    BY <2>1, <2>2
<1>3. ASSUME NEW i, NotifySessReport(i) PROVE Goal
  BY <1>3 DEF NotifySessReport
<1>4. ASSUME NEW u \in TxSeqs, TxTimeout(u) PROVE Goal
  <2>1. txSeq' = txSeq /\ tx[u] # Nil
    BY <1>4 DEF TxTimeout
  <2>2. CASE EndTx(u)
    BY <2>1, <2>2, TxEnded
  <2>3. CASE tx' = [tx EXCEPT ![u].count = @ + 1]
    <3>1. tx[u] \in [node : Smfs, cp : Cps, count : Nat]
      BY <2>1, ReportsTyped
    <3>2. CASE t = u
      BY <1>0, <2>1, <2>3, <3>1, <3>2
    <3>3. CASE t # u
      BY <1>0, <2>1, <2>3, <3>3
    <3>4. QED
      BY <3>2, <3>3
  <2>4. QED
    BY <1>4, <2>2, <2>3 DEF TxTimeout
<1>5. ASSUME NEW m \in replies, HandleReportResponse(m) PROVE Goal
  <2>1. txSeq' = txSeq /\ EndTx(m.seq) /\ m.seq \in TxSeqs
    BY <1>5, ReportsTyped DEF HandleReportResponse
  <2>2. QED
    BY <2>1, TxEnded
<1>6. QED
  BY <1>1, <1>2, <1>3, <1>4, <1>5, ReportSteps

(* An answer that is still awaited is to the same report as before.         *)
LEMMA ReplyAfter ==
  ASSUME TypeInv, UpfNext, ~Boot, NEW m \in replies'
  PROVE  /\ m \in replies
         /\ tx[m.seq] # Nil /\ m.seq <= txSeq
              => /\ tx'[m.seq] # Nil
                 /\ tx'[m.seq].node = tx[m.seq].node /\ tx'[m.seq].cp = tx[m.seq].cp
<1> DEFINE Goal == /\ m \in replies
                   /\ tx[m.seq] # Nil /\ m.seq <= txSeq
                        => /\ tx'[m.seq] # Nil
                           /\ tx'[m.seq].node = tx[m.seq].node /\ tx'[m.seq].cp = tx[m.seq].cp
<1> SUFFICES Goal
  OBVIOUS
<1>0. tx \in [TxSeqs -> [node : Smfs, cp : Cps, count : Nat] \cup {Nil}] /\ txSeq \in Nat
  BY ReportsTyped
<1>1. CASE UNCHANGED <<tx, replies>>
  BY <1>1
<1>2. CASE ServeReport
  <2>1. m \in replies /\ m.seq \in TxSeqs /\ m.seq \in Nat
    BY <1>2, ReportsTyped DEF ServeReport
  <2>2. tx' = tx \/ \E v : tx' = [tx EXCEPT ![txSeq + 1] = v]
    BY <1>2 DEF ServeReport
  <2>3. m.seq <= txSeq => m.seq # txSeq + 1
    BY <1>0, <2>1
  <2>4. QED
    BY <1>0, <2>1, <2>2, <2>3
<1>4. ASSUME NEW u \in TxSeqs, TxTimeout(u) PROVE Goal
  <2>2. CASE EndTx(u)
    <3>1. m \in replies /\ m.seq # u /\ m.seq \in TxSeqs
      BY <2>2, TxEnded, ReportsTyped
    <3>2. QED
      BY <2>2, <3>1, TxEnded
  <2>3. CASE tx' = [tx EXCEPT ![u].count = @ + 1] /\ replies' = replies
    <3>0. tx[u] # Nil
      BY <1>4 DEF TxTimeout
    <3>1. m \in replies /\ m.seq \in TxSeqs /\ tx[u] \in [node : Smfs, cp : Cps, count : Nat]
      BY <2>3, <3>0, ReportsTyped
    <3>2. CASE m.seq = u
      <4>1. tx'[u] = [tx[u] EXCEPT !.count = @ + 1]
        BY <1>0, <2>3
      <4>2. tx'[u] \in [node : Smfs, cp : Cps, count : Nat]
        BY <3>1, <4>1
      <4>3. tx'[u] # Nil
        BY <4>2, PfcpAssumption
      <4>4. QED
        BY <3>1, <3>2, <4>1, <4>3
    <3>3. CASE m.seq # u
      BY <1>0, <2>3, <3>1, <3>3
    <3>4. QED
      BY <3>2, <3>3
  <2>4. QED
    BY <1>4, <2>2, <2>3 DEF TxTimeout
<1>5. ASSUME NEW w \in replies, HandleReportResponse(w) PROVE Goal
  <2>1. EndTx(w.seq) /\ w.seq \in TxSeqs
    BY <1>5, ReportsTyped DEF HandleReportResponse
  <2>2. m \in replies /\ m.seq # w.seq /\ m.seq \in TxSeqs
    BY <2>1, TxEnded, ReportsTyped
  <2>3. QED
    BY <2>1, <2>2, TxEnded
<1>6. QED
  BY <1>1, <1>2, <1>4, <1>5, ReportSteps DEF NotifySessReport

LEMMA ReportAfter ==
  ASSUME SlowRestart, TypeInv, UpfNext, ~Boot, NEW k \in DOMAIN reports'
  PROVE  \/ \E j \in DOMAIN reports : reports'[k] = reports[j]
         \/ /\ Live(reports'[k]) /\ slots' = slots
            /\ slots[reports'[k]].inc = inc[slots[reports'[k]].node]
<1>0. reports \in Seq(Nat)
  BY ReportsTyped
<1>1. CASE reports' = reports
  BY <1>1
<1>2. CASE ServeReport
  <2>1. reports # << >> /\ reports' = Tail(reports)
    BY <1>2 DEF ServeReport
  <2>2. k + 1 \in DOMAIN reports /\ reports'[k] = reports[k + 1]
    BY <1>0, <2>1
  <2>3. QED
    BY <2>2
<1>3. ASSUME NEW i \in DOMAIN slots, NotifySessReport(i)
      PROVE  \/ \E j \in DOMAIN reports : reports'[k] = reports[j]
             \/ /\ Live(reports'[k]) /\ slots' = slots
                /\ slots[reports'[k]].inc = inc[slots[reports'[k]].node]
  <2>1. /\ Live(i) /\ slots' = slots /\ slots[i].inc = inc[slots[i].node]
        /\ reports' = Append(reports, i) /\ i \in Nat
    BY <1>3, LiveTyped DEF NotifySessReport
  <2>2. reports'[k] = i \/ (k \in DOMAIN reports /\ reports'[k] = reports[k])
    BY <1>0, <2>1
  <2>3. QED
    BY <2>1, <2>2
<1>4. QED
  BY <1>1, <1>2, <1>3, ReportSteps DEF TxTimeout, HandleReportResponse

LEMMA SessionsKnownUpf ==
  ASSUME TypeInv, SeidTable, UpfNext, \A m \in Smfs : Books(m), NEW n \in Smfs, Reported(n)
  PROVE  SessionsKnown(n)'
<1>0. UNCHANGED <<inc, ctx>> /\ [Next]_vars /\ inc[n] \in Nat
  BY UpfKeepsSmf, ReportsTyped DEF Next
<1> SUFFICES ASSUME NEW i, Live(i)', slots'[i].node = n
             PROVE  /\ slots'[i].inc <= inc[n]
                    /\ slots'[i].inc = inc[n] => ctx[n][slots'[i].cp].state # "unused"
  BY <1>0 DEF SessionsKnown
<1>1. CASE Live(i) /\ slots'[i] = slots[i]
  BY <1>1 DEF Reported, SessionsKnown
<1>2. ASSUME Live(i), NEW v, slots'[i] = [slots[i] EXCEPT !.rules = v]
      PROVE  /\ slots'[i].inc <= inc[n]
             /\ slots'[i].inc = inc[n] => ctx[n][slots'[i].cp].state # "unused"
  <2>1. slots[i] \in Sess
    BY <1>2, LiveTyped
  <2>2. /\ slots'[i].node = slots[i].node /\ slots'[i].cp = slots[i].cp
        /\ slots'[i].inc = slots[i].inc
    BY <1>2, <2>1 DEF Sess
  <2>3. QED
    BY <1>2, <2>2 DEF Reported, SessionsKnown
<1>3. ASSUME NEW m \in Smfs, NEW r \in pend[m], HandleEstablishment(m, r), slots'[i] = New(m, r)
      PROVE  /\ slots'[i].inc <= inc[n]
             /\ slots'[i].inc = inc[n] => ctx[n][slots'[i].cp].state # "unused"
  <2>1. m = n /\ slots'[i].inc = inc[n] /\ slots'[i].cp = r.cp
    BY <1>3 DEF New
  <2>2. ctx[n][r.cp].state = "ActivePending"
    BY <1>3, <2>1 DEF HandleEstablishment, Books, ContextRequests
  <2>3. QED
    BY <1>0, <2>1, <2>2
<1>4. QED
  BY <1>0, <1>1, <1>2, <1>3, SessionAfter

LEMMA ReportedUpf ==
  ASSUME SlowRestart, TypeInv, SeidTable, UpfNext, \A m \in Smfs : Books(m),
         NEW n \in Smfs, Reported(n)
  PROVE  Reported(n)'
<1>0. UNCHANGED <<inc, ctx, seq, asc>> /\ [Next]_vars
  BY UpfKeepsSmf DEF Next
<1>1. SessionsKnown(n)'
  BY SessionsKnownUpf
<1>2. CASE Boot
  <2>1. (\A t \in TxSeqs : tx'[t] = Nil) /\ replies' = {} /\ reports' = << >>
    BY <1>2 DEF Boot
  <2>2. TxKnown(n)' /\ RefusalsFit(n)' /\ ReportsCurrent(n)'
    BY <2>1 DEF TxKnown, RefusalsFit, ReportsCurrent
  <2>3. QED
    BY <1>1, <2>2 DEF Reported
<1>3. CASE ~Boot
  <2>1. TxKnown(n)'
    <3> SUFFICES ASSUME NEW t \in TxSeqs, tx'[t] # Nil, tx'[t].node = n
                 PROVE  /\ t <= txSeq' /\ n \in rnodes'
                        /\ seq[n] # 0 => ctx[n][tx'[t].cp].state # "unused"
      BY <1>0 DEF TxKnown
    <3>1. rnodes \subseteq rnodes'
      BY <1>3, NodesByUpf
    <3>2. CASE /\ tx[t] # Nil /\ tx'[t].node = tx[t].node /\ tx'[t].cp = tx[t].cp
               /\ txSeq' \in {txSeq, txSeq + 1}
      <4>1. /\ t <= txSeq /\ n \in rnodes
            /\ seq[n] # 0 => ctx[n][tx[t].cp].state # "unused"
        BY <3>2 DEF Reported, TxKnown
      <4>2. t \in Nat /\ txSeq \in Nat
        BY ReportsTyped
      <4>3. QED
        BY <3>1, <3>2, <4>1, <4>2
    <3>3. CASE /\ reports # << >> /\ Live(Head(reports)) /\ t = txSeq'
               /\ tx'[t].node = slots[Head(reports)].node /\ tx'[t].cp = slots[Head(reports)].cp
      <4>1. 1 \in DOMAIN reports /\ reports[1] = Head(reports)
        BY <3>3, ReportsTyped
      <4>2. PICK i : i = Head(reports)
        OBVIOUS
      <4>3. Live(i) /\ slots[i].node = n
        BY <3>3, <4>2
      <4>4. n \in rnodes
        BY <4>3 DEF SeidTable, Live
      <4>5. seq[n] # 0 => slots[i].inc = inc[n]
        BY <4>1, <4>2, <4>3 DEF Reported, ReportsCurrent
      <4>6. seq[n] # 0 => ctx[n][slots[i].cp].state # "unused"
        BY <4>3, <4>5 DEF Reported, SessionsKnown
      <4>7. t \in Nat
        BY ReportsTyped
      <4>8. QED
        BY <3>1, <3>3, <4>2, <4>4, <4>6, <4>7
    <3>4. QED
      BY <1>3, <3>2, <3>3, TxAfter
  <2>2. RefusalsFit(n)'
    <3> SUFFICES ASSUME NEW m \in replies', m.node = n
                 PROVE  /\ tx'[m.seq] # Nil /\ tx'[m.seq].node = n
                        /\ m.seid = 0 /\ seq[n] # 0 => Dead(n, tx'[m.seq].cp)
      BY <1>0 DEF RefusalsFit, Dead
    <3>1. m \in replies /\ m.seq \in TxSeqs
      BY <1>3, ReplyAfter, ReportsTyped
    <3>2. /\ tx[m.seq] # Nil /\ tx[m.seq].node = n
          /\ m.seid = 0 /\ seq[n] # 0 => Dead(n, tx[m.seq].cp)
      BY <3>1 DEF Reported, RefusalsFit
    <3>3. m.seq <= txSeq
      BY <3>1, <3>2 DEF Reported, TxKnown
    <3>4. tx'[m.seq] # Nil /\ tx'[m.seq].node = tx[m.seq].node /\ tx'[m.seq].cp = tx[m.seq].cp
      BY <1>3, <3>2, <3>3, ReplyAfter
    <3>5. QED
      BY <3>2, <3>4
  <2>3. ReportsCurrent(n)'
    <3> SUFFICES ASSUME NEW k \in DOMAIN reports', NEW i, i = reports'[k], Live(i)',
                        slots'[i].node = n, seq[n] # 0
                 PROVE  slots'[i].inc = inc[n]
      BY <1>0 DEF ReportsCurrent, Live
    <3>1. i = reports'[k]
      OBVIOUS
    <3>2. Live(i)' /\ slots'[i].node = n
      OBVIOUS
    <3>3. CASE Live(i) /\ slots' = slots /\ slots[i].inc = inc[slots[i].node]
      BY <3>1, <3>2, <3>3
    <3>4. ASSUME NEW j \in DOMAIN reports, i = reports[j] PROVE slots'[i].inc = inc[n]
      <4>1. CASE Live(i) /\ slots'[i] = slots[i]
        BY <3>2, <3>4, <4>1 DEF Reported, ReportsCurrent
      <4>2. ASSUME Live(i), NEW v, slots'[i] = [slots[i] EXCEPT !.rules = v]
            PROVE  slots'[i].inc = inc[n]
        <5>1. slots[i] \in Sess
          BY <4>2, LiveTyped
        <5>2. slots'[i].node = slots[i].node /\ slots'[i].inc = slots[i].inc
          BY <4>2, <5>1 DEF Sess
        <5>3. QED
          BY <3>2, <3>4, <4>2, <5>2 DEF Reported, ReportsCurrent
      <4>3. ASSUME NEW m \in Smfs, NEW r, slots'[i] = New(m, r) PROVE slots'[i].inc = inc[n]
        BY <3>2, <4>3 DEF New
      <4>4. \/ Live(i) /\ slots'[i] = slots[i]
            \/ \E m \in Smfs : \E r \in pend[m] :
                 HandleModification(m, r) /\ Live(i) /\ slots'[i] = [slots[i] EXCEPT !.rules = r.seq]
            \/ \E m \in Smfs : \E r \in pend[m] : slots'[i] = New(m, r)
        BY <1>0, <3>2, SessionAfter
      <4>5. QED
        BY <4>1, <4>2, <4>3, <4>4
    <3>5. \/ \E j \in DOMAIN reports : reports'[k] = reports[j]
          \/ /\ Live(reports'[k]) /\ slots' = slots
             /\ slots[reports'[k]].inc = inc[slots[reports'[k]].node]
      BY <1>3, ReportAfter
    <3>6. CASE \E j \in DOMAIN reports : i = reports[j]
      BY <3>4, <3>6
    <3>7. QED
      BY <3>1, <3>3, <3>5, <3>6
  <2>4. QED
    BY <1>1, <2>1, <2>2, <2>3 DEF Reported
<1>4. QED
  BY <1>2, <1>3

-----------------------------------------------------------------------------
(* The invariant: the books of every SMF, and, as long as its sessions are  *)
(* kept apart, what the UPF has of them.                                    *)
Local(n) == Unasked(n) /\ LinkRequests(n) /\ Books(n) /\ AnswersAsked(n)
Shared(n) == Known(n) /\ SafeOwned(n) /\ GrantsOwned(n) /\ Reported(n)
OwnInv == /\ boot >= 1
          /\ \A n \in Smfs : Local(n)
          /\ Kept => \A n \in Smfs : Shared(n)

LEMMA OwnInit == Init => OwnInv
<1> SUFFICES ASSUME Init PROVE OwnInv
  OBVIOUS
<1>1. ASSUME NEW n \in Smfs PROVE Local(n) /\ Shared(n)
  <2>1. /\ seq[n] = 0 /\ asc[n] = "setup" /\ pend[n] = {} /\ answers[n] = {}
        /\ \A c \in Cps : ctx[n][c].state = "unused" /\ ctx[n][c].rules = 0
    BY DEF Init, FreshContext
  <2>2. slots = << >> /\ rnodes = {} /\ replies = {} /\ reports = << >> /\ \A t \in TxSeqs : tx[t] = Nil
    BY DEF Init
  <2>3. Sent(n) = {}
    BY <2>1 DEF Sent
  <2>4. Local(n)
    BY <2>1, <2>3 DEF Local, Unasked, LinkRequests, Books, Numbered, ContextRequests, ContextsFit,
                      AnswersAsked
  <2>5. Known(n) /\ SafeOwned(n) /\ GrantsOwned(n)
    BY <2>1, <2>2, <2>3 DEF Known, Associated, SafeOwned, GrantsOwned
  <2>6. Reported(n)
    BY <2>2 DEF Reported, TxKnown, RefusalsFit, ReportsCurrent, SessionsKnown, Live
  <2>7. QED
    BY <2>4, <2>5, <2>6 DEF Shared
<1>2. QED
  BY <1>1 DEF Init, OwnInv

LEMMA LocalNext ==
  ASSUME SlowRestart, ~UseAfterRelease, TypeInv, \A m \in Smfs : Local(m), [Next]_vars,
         NEW n \in Smfs
  PROVE  Local(n)'
<1>0. Local(n)
  OBVIOUS
<1>1. Unasked(n)' /\ LinkRequests(n)'
  BY <1>0, UnaskedNext, LinkNext DEF Local
<1>2. CASE UNCHANGED vars
  <2>1. Sent(n)' = Sent(n)
    BY <1>2, SentSame DEF vars, upf, smf
  <2>2. QED
    BY <1>0, <1>1, <1>2, <2>1 DEF vars, smf, Local, Books, Numbered, ContextRequests, ContextsFit,
                                  AnswersAsked
<1>3. CASE UpfNext
  <2>1. Books(n)'
    BY <1>0, <1>3, UpfKeepsSmf DEF Local, Books, Numbered, ContextRequests, ContextsFit
  <2>2. AnswersAsked(n)'
    BY <1>0, <1>3, AnswersAskedUpf DEF Local, Books
  <2>3. QED
    BY <1>1, <2>1, <2>2 DEF Local
<1>4. CASE SmfNext(n)
  <2>1. SmfStep(n)
    BY <1>0, <1>4, SmfSteps DEF Local, Books
  <2>2. Books(n)'
    BY <1>0, <2>1, BooksSmf DEF Local
  <2>3. AnswersAsked(n)'
    BY <1>0, <1>4, <2>1, AnswersAskedSmf DEF Local
  <2>4. QED
    BY <1>1, <2>2, <2>3 DEF Local
<1>5. ASSUME NEW m \in Smfs, m # n, SmfNext(m) PROVE Local(n)'
  <2>1. Untouched(n) /\ rx' = rx
    BY <1>5, SmfAlone, SmfKeepsUpf
  <2>2. Sent(n)' = Sent(n)
    BY <2>1, SentSame DEF Untouched
  <2>3. QED
    BY <1>0, <1>1, <2>1, <2>2 DEF Untouched, Local, Books, Numbered, ContextRequests, ContextsFit,
                                  AnswersAsked
<1>6. QED
  BY <1>2, <1>3, <1>4, <1>5 DEF Next

LEMMA SharedNext ==
  ASSUME WindowCovers, SlowRestart, ~UseAfterRelease, TypeInv, SeidTable, boot >= 1, Kept,
         \A m \in Smfs : Local(m) /\ Shared(m), [Next]_vars, NEW n \in Smfs
  PROVE  Shared(n)'
<1>0. Local(n) /\ Shared(n) /\ \A m \in Smfs : Books(m)
  BY DEF Local
<1>1. CASE UNCHANGED vars
  <2>1. Sent(n)' = Sent(n)
    BY <1>1, SentSame DEF vars, upf, smf
  <2>2. Known(n)' /\ SafeOwned(n)' /\ GrantsOwned(n)'
    BY <1>0, <1>1, <2>1 DEF vars, upf, smf, Shared, Known, Associated, SafeOwned, Safe, Own,
                            GrantsOwned, Live
  <2>3. Reported(n)'
    BY <1>0, <1>1 DEF vars, upf, smf, Shared, Reported, TxKnown, RefusalsFit, ReportsCurrent,
                      SessionsKnown, Live, Dead
  <2>4. QED
    BY <2>2, <2>3 DEF Shared
<1>2. CASE UpfNext
  <2>1. \A m \in Smfs : Sides(m)
    BY DEF Local, Shared, Sides
  <2>2. RepliesDead
    BY AllRefusalsFit DEF Shared
  <2>3. SafeOwned(n)' /\ GrantsOwned(n)'
    BY <1>2, <2>1, <2>2, OwnedUpf
  <2>4. Known(n)'
    BY <1>0, <1>2, KnownUpf DEF Local, Shared
  <2>5. Reported(n)'
    BY <1>0, <1>2, ReportedUpf DEF Shared
  <2>6. QED
    BY <2>3, <2>4, <2>5 DEF Shared
<1>3. ASSUME NEW m \in Smfs, SmfNext(m) PROVE Shared(n)'
  <2>1. Known(n)'
    BY <1>0, <1>3, KnownSmf DEF Local, Shared
  <2>2. CASE m = n
    <3>1. SmfStep(n)
      BY <1>0, <1>3, <2>2, SmfSteps DEF Local, Books
    <3>2. SafeOwned(n)' /\ GrantsOwned(n)'
      BY <1>0, <1>3, <2>2, <3>1, OwnedSmf DEF Local, Shared
    <3>3. Reported(n)'
      BY <1>0, <1>3, <2>2, <3>1, ReportedSmf DEF Local, Shared
    <3>4. QED
      BY <2>1, <3>2, <3>3 DEF Shared
  <2>3. CASE m # n
    <3>1. SafeOwned(n)' /\ GrantsOwned(n)'
      BY <1>0, <1>3, <2>3, OwnedOther DEF Local, Shared
    <3>2. Reported(n)'
      BY <1>0, <1>3, <2>3, ReportedOther DEF Shared
    <3>3. QED
      BY <2>1, <3>1, <3>2 DEF Shared
  <2>4. QED
    BY <2>2, <2>3
<1>4. QED
  BY <1>1, <1>2, <1>3 DEF Next

LEMMA OwnNext ==
  ASSUME WindowCovers, SlowRestart, ~UseAfterRelease, TypeInv, SeidTable, OwnInv, [Next]_vars
  PROVE  OwnInv'
<1>0. boot \in Nat
  BY DEF TypeInv, TypeOK
<1>1. boot' = boot \/ boot' = boot + 1
  <2>1. UpfNext => boot' = boot \/ boot' = boot + 1
    BY BootCounts
  <2>2. ASSUME NEW n \in Smfs, SmfNext(n) PROVE boot' = boot
    BY <2>2, SmfKeepsUpf
  <2>3. QED
    BY <2>1, <2>2 DEF Next, vars, upf
<1>2. boot' >= 1 /\ (boot' = 1 => boot = 1)
  BY <1>0, <1>1 DEF OwnInv
<1>3. \A n \in Smfs : Local(n)'
  BY LocalNext DEF OwnInv
<1>4. ASSUME Kept', NEW n \in Smfs PROVE Shared(n)'
  <2>1. Kept
    BY <1>2, <1>4 DEF Kept, OneSmf
  <2>2. QED
    BY <2>1, SharedNext DEF OwnInv
<1>5. QED
  BY <1>2, <1>3, <1>4 DEF OwnInv

LEMMA Owned ==
  ASSUME WindowCovers, SlowRestart, ~UseAfterRelease
  PROVE  Spec => [](TypeInv /\ SeidTable /\ OwnInv)
<1>1. TypeInv /\ SeidTable /\ OwnInv /\ [Next]_vars => OwnInv'
  BY OwnNext
<1>2. QED
  BY TypeInit, TypeNext, TableInit, TableNext, OwnInit, <1>1, PTL DEF Spec

(* No request of an SMF ever reaches the session of another context: when   *)
(* the UPF comes to execute a modification or a deletion, the SEID it names *)
(* is still that of the session it was meant for, or of none, although the  *)
(* UPF gives SEIDs out again at once and looks only at the SEID             *)
(* (handleSessionModificationRequest, LocalNode.NewSess).  It holds until   *)
(* the UPF is started again, and beyond that when there is one SMF.         *)
THEOREM RequestsFindTheirSession ==
  ASSUME WindowCovers, SlowRestart, ~UseAfterRelease
  PROVE  Spec => [](Kept => OwnSession)
<1>1. TypeInv /\ SeidTable /\ OwnInv => (Kept => OwnSession)
  <2> SUFFICES ASSUME TypeInv, SeidTable, OwnInv, Kept, NEW n \in Smfs, NEW r \in pend[n],
                      r.kind \in {"mod", "del"}, NeedDispatch(n, r), Live(r.seid)
               PROVE  /\ slots[r.seid].node = n /\ slots[r.seid].cp = r.cp
                      /\ slots[r.seid].inc = inc[n]
    BY DEF OwnSession
  <2>1. Sides(n)
    BY DEF OwnInv, Local, Shared, Sides
  <2>2. Own(n, r.cp, r.seid)
    BY <2>1, RequestOwn
  <2>3. QED
    BY <2>2 DEF Own
<1>2. QED
  BY <1>1, Owned, PTL

(* A context the SMF holds active has its session in the UPF, with rules no *)
(* older than the last it was told of, as long as both sides are associated *)
(* (HandlePDUSessionSMContextUpdate of the SMF, the session table of the    *)
(* UPF), through lost, repeated and late messages and restarts of the SMF.  *)
THEOREM ContextsAreServed ==
  ASSUME WindowCovers, SlowRestart, ~UseAfterRelease
  PROVE  Spec => [](Kept => ContextsServed)
<1>1. TypeInv /\ SeidTable /\ OwnInv => (Kept => ContextsServed)
  <2> SUFFICES ASSUME TypeInv, SeidTable, OwnInv, Kept, NEW n \in Smfs, NEW c \in Cps,
                      n \in rnodes, asc[n] = "ok", ctx[n][c].state = "Active", ~ctx[n][c].tried
               PROVE  Own(n, c, ctx[n][c].up)
    BY DEF ContextsServed, Own
  <2>1. SafeOwned(n)
    BY DEF OwnInv, Shared
  <2>2. QED
    BY <2>1 DEF SafeOwned, Safe
<1>2. QED
  BY <1>1, Owned, PTL
=============================================================================
