------------------------------ MODULE UpfPfcp ------------------------------
(***************************************************************************)
(* The PFCP server of the UPF (free5gc/NFs/upf/internal/pfcp) and the SMFs  *)
(* that drive it (free5gc/NFs/smf): associations, heartbeats, sessions and  *)
(* session reports over UDP.                                                *)
(*                                                                          *)
(* A datagram may be lost, repeated or delayed.  A request is repeated by   *)
(* its sender until it is answered or given up, so a copy of it can arrive  *)
(* at any time while it is pending: the UPF takes SMF requests from "pend"  *)
(* and an SMF takes the reports of the UPF from "tx".  Answers are          *)
(* messages of their own, in "answers" and "replies"; one that is lost is    *)
(* one that is not taken before its request is given up.                     *)
(***************************************************************************)
EXTENDS Naturals, FiniteSets, Sequences

CONSTANTS
  Smfs,             \* SMFs, each with one node ID and one address
  MaxSeq,           \* bound on the requests of one run of an SMF
  MaxCtx,           \* bound on the SM contexts of one run of an SMF
  MaxReports,       \* bound on the reports of one run of the UPF
  MaxRetrans,       \* pfcp.maxRetrans of upfcfg.yaml
  MaxRestarts,      \* bound on the restarts of an SMF and of the UPF together
  WindowCovers,     \* the UPF remembers a request as long as the SMF repeats it
  SlowRestart,      \* an SMF is away until the UPF has forgotten its requests, and
                    \* the sessions it left behind have nothing to report
  UseAfterRelease,  \* contexts are used again after the SMF asked for their deletion
  Nil,              \* a nil slot, an unknown transaction
  NoAnswer          \* a request received for which no answer was stored

Seqs == 1 .. MaxSeq
Cps == 1 .. MaxCtx                \* CP F-SEIDs, AllocateLocalSEID of the SMF
TxSeqs == 1 .. MaxReports

Sess == [node : Smfs, cp : Cps, inc : Nat, rules : Nat]
Requests == [kind : {"assoc", "hb", "est", "mod", "del"}, seq : Seqs,
             cp : Nat, seid : Nat, last : BOOLEAN]
Answers == [kind : {"assoc", "hb", "est", "mod", "del"}, seq : Seqs,
            cp : Nat, up : Nat, boot : Nat]
Contexts == [state : {"unused", "ActivePending", "Active", "PFCPModification",
                      "InActivePending", "removed"},
             up : Nat, rules : Nat, tried : BOOLEAN]

ASSUME PfcpAssumption ==
  /\ MaxSeq \in Nat /\ MaxCtx \in Nat /\ MaxReports \in Nat
  /\ MaxRetrans \in Nat /\ MaxRestarts \in Nat
  /\ WindowCovers \in BOOLEAN /\ SlowRestart \in BOOLEAN /\ UseAfterRelease \in BOOLEAN
  /\ Nil \notin Sess /\ Nil \notin Answers /\ NoAnswer \notin Answers
  /\ Nil \notin [node : Smfs, cp : Cps, count : Nat]
  /\ Nil # NoAnswer

VARIABLES
  boot,     \* how often the UPF was started, its recovery time stamp
  running,  \* the UPF process is up
  slots,    \* LocalNode.sess: the session of SEID i, or Nil
  free,     \* LocalNode.free
  rnodes,   \* PfcpServer.rnodes: the nodes with an association
  sess,     \* RemoteNode.sess of each of them: its SEIDs
  rx,       \* PfcpServer.rxTrans, by sender and sequence number
  tx,       \* PfcpServer.txTrans, by sequence number: the reports under way
  txSeq,    \* PfcpServer.txSeq
  reports,  \* the channel srCh: SEIDs the data plane has something to report of
  inc,      \* runs of each SMF
  seq,      \* getSeqNumber of each SMF
  asc,      \* what the association goroutine of each SMF does
  seen,     \* UPF.RecoveryTimeStamp of each SMF, 0 when zero
  ctx,      \* the SM contexts of each SMF with their PFCP session
  pend,     \* the requests each SMF waits for an answer to
  answers,  \* answers on their way to each SMF
  replies,  \* answers to reports on their way to the UPF
  served    \* history: how often the running UPF has executed each request

upf == <<boot, running, slots, free, rnodes, sess, rx, tx, txSeq, reports>>
smf == <<inc, seq, asc, seen, ctx, pend>>
vars == <<upf, smf, answers, replies, served>>

FreshContext == [state |-> "unused", up |-> 0, rules |-> 0, tried |-> FALSE]

Init ==
  /\ boot = 1 /\ running = TRUE
  /\ slots = << >> /\ free = << >> /\ rnodes = {}
  /\ sess = [n \in Smfs |-> {}]
  /\ rx = [n \in Smfs |-> [q \in Seqs |-> Nil]]
  /\ tx = [t \in TxSeqs |-> Nil]
  /\ txSeq = 0 /\ reports = << >>
  /\ inc = [n \in Smfs |-> 1]
  /\ seq = [n \in Smfs |-> 0]
  /\ asc = [n \in Smfs |-> "setup"]
  /\ seen = [n \in Smfs |-> 0]
  /\ ctx = [n \in Smfs |-> [c \in Cps |-> FreshContext]]
  /\ pend = [n \in Smfs |-> {}]
  /\ answers = [n \in Smfs |-> {}]
  /\ replies = {}
  /\ served = [n \in Smfs |-> [q \in Seqs |-> 0]]

-----------------------------------------------------------------------------
(***************************************************************************)
(* The SMF.  Its lock on a context is held from a request about the         *)
(* context until that request is answered or given up.                      *)
(***************************************************************************)
\* Mutant: the lock is not held while the session is being established.
LockedLate(c) == c.state = "PFCPModification"

Locked(c) == c.state \in {"ActivePending", "PFCPModification"}
Busy(n) == \E r \in pend[n] : r.kind \in {"assoc", "hb"}
Usable(c) == UseAfterRelease \/ ~c.tried

\* Nothing of an earlier run of the SMF is remembered or under way.
Quiet(n) == /\ \A q \in Seqs : rx[n][q] = Nil
            /\ \A t \in TxSeqs : tx[t] # Nil => tx[t].node # n
            /\ \A k \in DOMAIN reports : reports[k] \notin sess[n]

Send(n, kind, c, seid, last) ==
  /\ seq[n] < MaxSeq
  /\ seq' = [seq EXCEPT ![n] = @ + 1]
  /\ pend' = [pend EXCEPT ![n] = @ \cup
       {[kind |-> kind, seq |-> seq[n] + 1, cp |-> c, seid |-> seid, last |-> last]}]

SetUpAssociation(n) ==
  /\ asc[n] = "setup" /\ ~Busy(n)
  /\ (SlowRestart /\ seq[n] = 0) => Quiet(n)
  /\ Send(n, "assoc", 0, 0, FALSE)
  /\ UNCHANGED <<upf, inc, asc, seen, ctx, answers, replies, served>>

Heartbeat(n) ==
  /\ asc[n] = "ok" /\ ~Busy(n)
  /\ Send(n, "hb", 0, 0, FALSE)
  /\ UNCHANGED <<upf, inc, asc, seen, ctx, answers, replies, served>>

SetContext(n, c, state) == ctx' = [ctx EXCEPT ![n][c].state = state]

\* The UE asks for a PDU session: a UPF is only selected while associated.
CreateContext(n, c) ==
  /\ asc[n] = "ok"
  /\ ctx[n][c].state = "unused"
  /\ \A d \in Cps : d < c => ctx[n][d].state # "unused"
  /\ Send(n, "est", c, 0, FALSE)
  /\ SetContext(n, c, "ActivePending")
  /\ UNCHANGED <<upf, inc, asc, seen, answers, replies, served>>

Modify(n, c) ==
  /\ asc[n] = "ok"
  /\ ctx[n][c].state = "Active" /\ Usable(ctx[n][c])
  /\ Send(n, "mod", c, ctx[n][c].up, FALSE)
  /\ SetContext(n, c, "PFCPModification")
  /\ UNCHANGED <<upf, inc, asc, seen, answers, replies, served>>

\* The deletion of the session is asked for: by the UE, which has to complete
\* the release, or by the AMF, after which the context is removed in any case.
Release(n, c, last) ==
  /\ asc[n] = "ok" /\ Usable(ctx[n][c])
  /\ ctx[n][c].state \in (IF last THEN {"Active", "InActivePending"} ELSE {"Active"})
  /\ Send(n, "del", c, ctx[n][c].up, last)
  /\ ctx' = [ctx EXCEPT ![n][c].state = "PFCPModification", ![n][c].tried = TRUE]
  /\ UNCHANGED <<upf, inc, asc, seen, answers, replies, served>>

\* The UE completes the release, or the AMF releases the context while the SMF
\* is not associated and sends no request.
RemoveContext(n, c) ==
  /\ \/ ctx[n][c].state = "InActivePending"
     \/ ctx[n][c].state = "Active" /\ asc[n] # "ok"
  /\ SetContext(n, c, "removed")
  /\ UNCHANGED <<upf, inc, seq, asc, seen, pend, answers, replies, served>>

\* releaseAllResourcesOfUPF asks the AMF: the context is removed at once, or
\* kept until the UE or the AMF ends it.
ReleaseOfUPF(n, c) ==
  /\ asc[n] = "release"
  /\ ctx[n][c].state = "Active"
  /\ \/ SetContext(n, c, "removed")
     \/ ctx' = [ctx EXCEPT ![n][c].state = "InActivePending", ![n][c].tried = TRUE]
  /\ UNCHANGED <<upf, inc, seq, asc, seen, pend, answers, replies, served>>

\* Mutant: the SMF sets up a new association and keeps its contexts.
AllKept(n) ==
  /\ asc[n] = "release"
  /\ asc' = [asc EXCEPT ![n] = "setup"]
  /\ UNCHANGED <<upf, inc, seq, seen, ctx, pend, answers, replies, served>>

AllReleased(n) ==
  /\ asc[n] = "release"
  /\ \A c \in Cps : ctx[n][c].state # "Active" /\ ~Locked(ctx[n][c])
  /\ asc' = [asc EXCEPT ![n] = "setup"]
  /\ UNCHANGED <<upf, inc, seq, seen, ctx, pend, answers, replies, served>>

\* What the sender of r does once it is answered, or has given up (ok = FALSE).
ConcludeAssociation(n, ok) ==
  /\ asc' = IF ok THEN [asc EXCEPT ![n] = "ok"] ELSE asc
  /\ UNCHANGED <<seen, ctx>>

ConcludeHeartbeat(n, ok, stamp) ==
  LET lost == ~ok \/ (seen[n] # 0 /\ stamp > seen[n])
  IN /\ asc' = IF lost THEN [asc EXCEPT ![n] = "release"] ELSE asc
     /\ seen' = [seen EXCEPT ![n] = IF lost THEN 0 ELSE IF @ = 0 THEN stamp ELSE @]
     /\ UNCHANGED ctx

ConcludeEstablishment(n, c, ok, seid) ==
  /\ ctx' = [ctx EXCEPT ![n][c].state = IF ok THEN "Active" ELSE "removed",
                        ![n][c].up = IF ok THEN seid ELSE @]
  /\ UNCHANGED <<asc, seen>>

ConcludeModification(n, r, ok) ==
  /\ ctx' = [ctx EXCEPT ![n][r.cp].state = "Active",
                        ![n][r.cp].rules = IF ok THEN r.seq ELSE @]
  /\ UNCHANGED <<asc, seen>>

ConcludeDeletion(n, r, ok) ==
  /\ SetContext(n, r.cp, IF r.last THEN "removed"
                         ELSE IF ok THEN "InActivePending" ELSE "Active")
  /\ UNCHANGED <<asc, seen>>

Conclude(n, r, ok, up, stamp) ==
  /\ pend' = [pend EXCEPT ![n] = @ \ {r}]
  /\ CASE r.kind = "assoc" -> ConcludeAssociation(n, ok)
       [] r.kind = "hb"    -> ConcludeHeartbeat(n, ok, stamp)
       [] r.kind = "est"   -> ConcludeEstablishment(n, r.cp, ok, up)
       [] r.kind = "mod"   -> ConcludeModification(n, r, ok)
       [] r.kind = "del"   -> ConcludeDeletion(n, r, ok)

\* An answer of another type or for another SEID counts as a failure.
TakeAnswer(n, r, a) ==
  /\ r \in pend[n] /\ a \in answers[n] /\ a.seq = r.seq
  /\ answers' = [answers EXCEPT ![n] = {b \in @ : b.seq # r.seq}]
  /\ Conclude(n, r, a.kind = r.kind /\ a.cp = r.cp, a.up, a.boot)
  /\ UNCHANGED <<upf, inc, seq, replies, served>>

\* The request was never answered, or all its answers were lost.
GiveUp(n, r) ==
  /\ r \in pend[n]
  /\ answers' = [answers EXCEPT ![n] = {a \in @ : a.seq # r.seq}]
  /\ Conclude(n, r, FALSE, 0, 0)
  /\ UNCHANGED <<upf, inc, seq, replies, served>>

\* HandlePfcpSessionReportRequest waits for the lock of the context, and
\* answers SEID 0 when the SMF has no session for the report.
HandleReport(n, t) ==
  /\ tx[t] # Nil /\ tx[t].node = n
  /\ LET c == ctx[n][tx[t].cp] IN
       /\ ~Locked(c)
       /\ replies' = replies \cup
            {[node |-> n, seq |-> t,
              seid |-> IF c.state \in {"unused", "removed"} \/ asc[n] # "ok" THEN 0 ELSE c.up]}
  /\ UNCHANGED <<upf, smf, answers, served>>

SmfRestart(n) ==
  /\ inc[n] + boot <= MaxRestarts + 1
  /\ inc' = [inc EXCEPT ![n] = @ + 1]
  /\ seq' = [seq EXCEPT ![n] = 0]
  /\ asc' = [asc EXCEPT ![n] = "setup"]
  /\ seen' = [seen EXCEPT ![n] = 0]
  /\ ctx' = [ctx EXCEPT ![n] = [c \in Cps |-> FreshContext]]
  /\ pend' = [pend EXCEPT ![n] = {}]
  /\ served' = [served EXCEPT ![n] = [q \in Seqs |-> 0]]
  /\ answers' = [answers EXCEPT ![n] = {}]
  /\ replies' = {m \in replies : m.node # n}
  /\ UNCHANGED upf

-----------------------------------------------------------------------------
(***************************************************************************)
(* The UPF: one goroutine handles requests, answers to its own requests,    *)
(* reports and the end of transactions, one at a time.                      *)
(***************************************************************************)
\* Mutant: a request that was answered is dispatched again.
NeedDispatchAgain(n, r) == rx[n][r.seq] # NoAnswer

\* RxTransaction.recv: a request is dispatched when it is new.
NeedDispatch(n, r) == rx[n][r.seq] = Nil

Dispatched(n, r) ==
  /\ running /\ r \in pend[n]
  /\ NeedDispatch(n, r)
  /\ served' = [served EXCEPT ![n][r.seq] = @ + 1]

\* Mutant: the request is stored in the place of its answer.
AnswerStoringRequest(n, r, cp, up) ==
  /\ rx' = [rx EXCEPT ![n][r.seq] = r]
  /\ answers' = [answers EXCEPT ![n] = @ \cup
       {[kind |-> r.kind, seq |-> r.seq, cp |-> cp, up |-> up, boot |-> boot]}]

\* RxTransaction.send stores the answer and sends it.
Answer(n, r, cp, up) ==
  LET a == [kind |-> r.kind, seq |-> r.seq, cp |-> cp, up |-> up, boot |-> boot]
  IN /\ rx' = [rx EXCEPT ![n][r.seq] = a]
     /\ answers' = [answers EXCEPT ![n] = @ \cup {a}]

StoreNoAnswer(n, r) ==
  /\ rx' = [rx EXCEPT ![n][r.seq] = NoAnswer]
  /\ UNCHANGED answers

Repeated(n, r) ==
  /\ running /\ r \in pend[n]
  /\ ~NeedDispatch(n, r) /\ rx[n][r.seq] # NoAnswer
  /\ answers' = [answers EXCEPT ![n] = @ \cup {rx[n][r.seq]}]
  /\ UNCHANGED <<upf, smf, replies, served>>

Live(i) == i \in DOMAIN slots /\ slots[i] # Nil

\* The order in which Go ranges over a map is any.
Orders(S) == {f \in UNION {[1 .. k -> S] : k \in 0 .. Cardinality(S)} :
                /\ \A i, j \in DOMAIN f : f[i] = f[j] => i = j
                /\ \A s \in S : \E i \in DOMAIN f : f[i] = s}

\* Mutant: the SEIDs are not freed.
DeleteSessionsLeaky(S) ==
  /\ slots' = [i \in DOMAIN slots |-> IF i \in S THEN Nil ELSE slots[i]]
  /\ UNCHANGED free

\* Mutant: the slots are not cleared.
DeleteSessionsStale(S) ==
  /\ UNCHANGED slots
  /\ \E order \in Orders(S) : free' = free \o order

\* The sessions of S are closed, their SEIDs freed.
DeleteSessions(S) ==
  /\ slots' = [i \in DOMAIN slots |-> IF i \in S THEN Nil ELSE slots[i]]
  /\ \E order \in Orders(S) : free' = free \o order

\* Mutant: the sessions of the existing association are kept.
HandleAssociationKeeping(n, r) ==
  /\ r.kind = "assoc" /\ Dispatched(n, r)
  /\ rnodes' = rnodes \cup {n}
  /\ Answer(n, r, 0, 0)
  /\ UNCHANGED <<boot, running, slots, free, sess, tx, txSeq, reports, smf, replies>>

HandleAssociation(n, r) ==
  /\ r.kind = "assoc" /\ Dispatched(n, r)
  /\ DeleteSessions(sess[n])
  /\ rnodes' = rnodes \cup {n}
  /\ sess' = [sess EXCEPT ![n] = {}]
  /\ Answer(n, r, 0, 0)
  /\ UNCHANGED <<boot, running, tx, txSeq, reports, smf, replies>>

HandleHeartbeat(n, r) ==
  /\ r.kind = "hb" /\ Dispatched(n, r)
  /\ Answer(n, r, 0, 0)
  /\ UNCHANGED <<boot, running, slots, free, rnodes, sess, tx, txSeq, reports, smf, replies>>

HandleEstablishment(n, r) ==
  /\ r.kind = "est" /\ Dispatched(n, r)
  /\ \/ /\ n \notin rnodes
        /\ StoreNoAnswer(n, r)
        /\ UNCHANGED <<slots, free, sess>>
     \/ /\ n \in rnodes
        /\ LET new == [node |-> n, cp |-> r.cp, inc |-> inc[n], rules |-> 0]
               last == Len(free)
               seid == IF last > 0 THEN free[last] ELSE Len(slots) + 1
           IN /\ IF last > 0
                   THEN /\ free' = SubSeq(free, 1, last - 1)
                        /\ slots' = [slots EXCEPT ![seid] = new]
                   ELSE /\ slots' = Append(slots, new)
                        /\ UNCHANGED free
              /\ sess' = [sess EXCEPT ![n] = @ \cup {seid}]
              /\ Answer(n, r, r.cp, seid)
  /\ UNCHANGED <<boot, running, rnodes, tx, txSeq, reports, smf, replies>>

\* The session is looked up by its SEID alone.
HandleModification(n, r) ==
  /\ r.kind = "mod" /\ Dispatched(n, r)
  /\ IF Live(r.seid)
       THEN /\ slots' = [slots EXCEPT ![r.seid].rules = r.seq]
            /\ Answer(n, r, slots[r.seid].cp, 0)
       ELSE Answer(n, r, 0, 0) /\ UNCHANGED slots
  /\ UNCHANGED <<boot, running, free, rnodes, sess, tx, txSeq, reports, smf, replies>>

\* RemoteNode.DeleteSess of the node of session i.
DeleteSession(i) ==
  /\ DeleteSessions({i})
  /\ sess' = [sess EXCEPT ![slots[i].node] = @ \ {i}]

HandleDeletion(n, r) ==
  /\ r.kind = "del" /\ Dispatched(n, r)
  /\ IF Live(r.seid)
       THEN DeleteSession(r.seid) /\ Answer(n, r, slots[r.seid].cp, 0)
       ELSE Answer(n, r, 0, 0) /\ UNCHANGED <<slots, free, sess>>
  /\ UNCHANGED <<boot, running, rnodes, tx, txSeq, reports, smf, replies>>

\* RxTransaction.handleTimeout.
RxTimeout(n, q) ==
  /\ running /\ rx[n][q] # Nil
  /\ WindowCovers => \A r \in pend[n] : r.seq # q
  /\ rx' = [rx EXCEPT ![n][q] = Nil]
  /\ UNCHANGED <<boot, running, slots, free, rnodes, sess, tx, txSeq, reports,
                 smf, answers, replies, served>>

\* The data plane, or the timer of a periodic report, has news of session i.
NotifySessReport(i) ==
  /\ running /\ Live(i)
  /\ SlowRestart => slots[i].inc = inc[slots[i].node]
  /\ txSeq + Len(reports) < MaxReports
  /\ reports' = Append(reports, i)
  /\ UNCHANGED <<boot, running, slots, free, rnodes, sess, rx, tx, txSeq,
                 smf, answers, replies, served>>

ServeReport ==
  /\ running /\ reports # << >>
  /\ reports' = Tail(reports)
  /\ IF Live(Head(reports))
       THEN /\ txSeq' = txSeq + 1
            /\ tx' = [tx EXCEPT ![txSeq + 1] =
                 [node |-> slots[Head(reports)].node, cp |-> slots[Head(reports)].cp, count |-> 0]]
       ELSE UNCHANGED <<txSeq, tx>>
  /\ UNCHANGED <<boot, running, slots, free, rnodes, sess, rx, smf, answers, replies, served>>

\* The transaction is forgotten: what still comes in answer to it is ignored.
EndTx(t) ==
  /\ tx' = [tx EXCEPT ![t] = Nil]
  /\ replies' = {m \in replies : m.seq # t}

\* TxTransaction.handleTimeout: the report is sent again or given up.
TxTimeout(t) ==
  /\ running /\ tx[t] # Nil
  /\ \/ /\ tx[t].count < MaxRetrans
        /\ tx' = [tx EXCEPT ![t].count = @ + 1]
        /\ UNCHANGED replies
     \/ /\ tx[t].count >= MaxRetrans
        /\ EndTx(t)
  /\ UNCHANGED <<boot, running, slots, free, rnodes, sess, rx, txSeq, reports,
                 smf, answers, served>>

\* LocalNode.RemoteSess goes through the slots in order and reads every one on
\* the way to the session: at a nil slot the process panics and ends.
IsSession(i, n, c) == slots[i] # Nil /\ slots[i].node = n /\ slots[i].cp = c
Panics(n, c) == \E i \in DOMAIN slots :
                  slots[i] = Nil /\ \A j \in 1 .. i - 1 : ~IsSession(j, n, c)
RemoteSess(i, n, c) == /\ IsSession(i, n, c)
                       /\ \A j \in 1 .. i - 1 : ~IsSession(j, n, c)

DeleteRejected(n, c) ==
  \/ /\ Panics(n, c)
     /\ running' = FALSE
     /\ UNCHANGED <<slots, free, sess>>
  \/ /\ \E i \in DOMAIN slots : RemoteSess(i, n, c) /\ DeleteSession(i)
     /\ ~Panics(n, c)
     /\ UNCHANGED running
  \/ /\ \A i \in DOMAIN slots : slots[i] # Nil /\ ~IsSession(i, n, c)
     /\ UNCHANGED <<running, slots, free, sess>>

HandleReportResponse(m) ==
  /\ running /\ m \in replies
  /\ EndTx(m.seq)
  /\ IF m.seid = 0 THEN DeleteRejected(m.node, tx[m.seq].cp)
                   ELSE UNCHANGED <<running, slots, free, sess>>
  /\ UNCHANGED <<boot, rnodes, rx, txSeq, reports, smf, answers, served>>

Crash ==
  /\ running
  /\ \A n \in Smfs : inc[n] + boot <= MaxRestarts + 1
  /\ running' = FALSE
  /\ UNCHANGED <<boot, slots, free, rnodes, sess, rx, tx, txSeq, reports,
                 smf, answers, replies, served>>

Boot ==
  /\ ~running /\ boot <= MaxRestarts
  /\ boot' = boot + 1
  /\ running' = TRUE
  /\ slots' = << >> /\ free' = << >> /\ rnodes' = {}
  /\ sess' = [n \in Smfs |-> {}]
  /\ rx' = [n \in Smfs |-> [q \in Seqs |-> Nil]]
  /\ tx' = [t \in TxSeqs |-> Nil]
  /\ txSeq' = 0 /\ reports' = << >>
  /\ replies' = {}
  /\ served' = [n \in Smfs |-> [q \in Seqs |-> 0]]
  /\ UNCHANGED <<smf, answers>>

SmfNext(n) ==
  \/ SetUpAssociation(n) \/ Heartbeat(n) \/ AllReleased(n) \/ SmfRestart(n)
  \/ \E c \in Cps : \/ CreateContext(n, c) \/ Modify(n, c)
                    \/ \E last \in BOOLEAN : Release(n, c, last)
                    \/ RemoveContext(n, c) \/ ReleaseOfUPF(n, c)
  \/ \E r \in pend[n] : GiveUp(n, r) \/ \E a \in answers[n] : TakeAnswer(n, r, a)
  \/ \E t \in TxSeqs : HandleReport(n, t)

Handle(n, r) ==
  \/ HandleAssociation(n, r) \/ HandleHeartbeat(n, r) \/ HandleEstablishment(n, r)
  \/ HandleModification(n, r) \/ HandleDeletion(n, r)

UpfNext ==
  \/ \E n \in Smfs : \/ \E r \in pend[n] : Handle(n, r) \/ Repeated(n, r)
                     \/ \E q \in Seqs : RxTimeout(n, q)
  \/ \E i \in DOMAIN slots : NotifySessReport(i)
  \/ ServeReport
  \/ \E t \in TxSeqs : TxTimeout(t)
  \/ \E m \in replies : HandleReportResponse(m)
  \/ Crash \/ Boot

Next == UpfNext \/ \E n \in Smfs : SmfNext(n)

Spec == Init /\ [][Next]_vars

-----------------------------------------------------------------------------
(* Type invariant of the two sides and of what is on its way between them: *)
(* a stored answer is an answer, never a request (RxTransaction.send).      *)
TypeOK ==
  /\ boot \in Nat /\ running \in BOOLEAN
  /\ slots \in Seq(Sess \cup {Nil}) /\ free \in Seq(Nat)
  /\ rnodes \subseteq Smfs /\ sess \in [Smfs -> SUBSET Nat]
  /\ rx \in [Smfs -> [Seqs -> Answers \cup {Nil, NoAnswer}]]
  /\ tx \in [TxSeqs -> [node : Smfs, cp : Cps, count : Nat] \cup {Nil}]
  /\ txSeq \in Nat /\ reports \in Seq(Nat)
  /\ inc \in [Smfs -> Nat] /\ seq \in [Smfs -> Nat] /\ seen \in [Smfs -> Nat]
  /\ asc \in [Smfs -> {"setup", "ok", "release"}]
  /\ ctx \in [Smfs -> [Cps -> Contexts]]
  /\ pend \in [Smfs -> SUBSET Requests]
  /\ answers \in [Smfs -> SUBSET Answers]
  /\ replies \subseteq [node : Smfs, seq : TxSeqs, seid : Nat]
  /\ served \in [Smfs -> [Seqs -> Nat]]

\* The session table seen as a pool of SEIDs: it implements the abstract one.
InUse == {i \in DOMAIN slots : slots[i] # Nil}
Owner(s) == [node |-> s.node, cp |-> s.cp, inc |-> s.inc]
Pool == INSTANCE SeidPool WITH
          Owners <- [node : Smfs, cp : Cps, inc : Nat],
          owner <- [i \in InUse |-> Owner(slots[i])]

\* A SEID in use never passes from one session to another, whatever requests,
\* rejected reports, restarts and repeated datagrams come in between
\* (LocalNode.NewSess and DeleteSess).
SeidsPooled == Pool!Spec

\* LocalNode and RemoteNode agree: every SEID is either free, once, or belongs
\* to a session, and the session is listed by its own node and by no other.
SeidTable ==
  /\ \A i, j \in DOMAIN free : free[i] = free[j] => i = j
  /\ \A i \in DOMAIN slots : slots[i] = Nil <=> \E j \in DOMAIN free : free[j] = i
  /\ \A j \in DOMAIN free : free[j] \in DOMAIN slots
  /\ \A n \in Smfs : sess[n] = {i \in DOMAIN slots : slots[i] # Nil /\ slots[i].node = n}
  /\ \A n \in Smfs : sess[n] # {} => n \in rnodes

\* However often a request is repeated, the UPF executes it once.
AtMostOnce == \A n \in Smfs, q \in Seqs : served[n][q] <= 1

\* A request that is still to be executed names a session of its own context,
\* or none: SEIDs are given out again at once, and are looked up without a
\* look at the sender.
OwnSession ==
  \A n \in Smfs : \A r \in pend[n] :
    (running /\ r.kind \in {"mod", "del"} /\ NeedDispatch(n, r) /\ Live(r.seid))
      => /\ slots[r.seid].node = n /\ slots[r.seid].cp = r.cp
         /\ slots[r.seid].inc = inc[n]

\* An active context has its session in the UPF, with no rules older than the
\* last ones the UPF confirmed.
ContextsServed ==
  \A n \in Smfs : \A c \in Cps :
    (running /\ n \in rnodes /\ asc[n] = "ok"
       /\ ctx[n][c].state = "Active" /\ ~ctx[n][c].tried)
      => /\ Live(ctx[n][c].up)
         /\ LET s == slots[ctx[n][c].up]
            IN s.node = n /\ s.cp = c /\ s.inc = inc[n] /\ s.rules >= ctx[n][c].rules

\* Once an SMF is associated, nothing of its earlier runs is left.
CleanStart ==
  \A n \in Smfs : \A i \in DOMAIN slots :
    (running /\ asc[n] = "ok" /\ Live(i) /\ slots[i].node = n) => slots[i].inc = inc[n]
=============================================================================
