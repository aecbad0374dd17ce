-------------------------- MODULE AgentRuntimeProofs --------------------------
(* What the reducer shows of a provider, proved for any number of sources,       *)
(* sessions, queue entries, faults and restarts.                                 *)
(*                                                                               *)
(* The invariant reads the completion queue from the view to the worker.  What   *)
(* the view knows of a provider is a position in one of its revisions (Stands);  *)
(* each message in the queue tells the truth about such a position (Good); the   *)
(* positions rise from the view through the queue to the worker (Ahead, InOrder, *)
(* Emits); and the events of a revision come after one of its snapshots          *)
(* (Announced).  A chunk is determined by its position and its index, so that    *)
(* chunks that fit together are chunks of the same facts.                        *)
(*                                                                               *)
(* The predicates are about values; Inv says which values they are about.        *)
EXTENDS AgentRuntime, FiniteSetTheorems, TLAPS

-------------------------------------------------------------------------------
(* The providers: rs are the revisions of one, R those of all. *)

Revisions == [p \in Providers |-> provider[p].revisions]

\* Revision e reached the sequence n.
Knows(rs, e, n) == e \in 1..Len(rs) /\ n \in 1..Len(rs[e].known)

\* Revisions follow each other in time, none is empty.
Ordered(rs) ==
    /\ Len(rs) > 0
    /\ \A e \in 1..Len(rs) : Len(rs[e].known) > 0
    /\ \A e, f \in 1..Len(rs) : e < f => TimeOf(rs[e], Len(rs[e].known)) <= rs[f].since

\* An event is a step from one sequence number to the next.
Change(revision, n, o) ==
    /\ o \in Observation /\ n - 1 \in 1..Len(revision.known) /\ n \in 1..Len(revision.known)
    /\ o.value = revision.known[n][o.session]
    /\ o.at = TimeOf(revision, n) /\ o.until = None
    /\ \A s \in Sessions \ {o.session} : revision.known[n][s] = revision.known[n - 1][s]

TrueEvent(rs, e) ==
    /\ e.epoch \in 1..Len(rs)
    /\ e.op = "Upsert" => e.seq \in Nat /\ Change(rs[e.epoch], e.seq, e.item)
    /\ e.op # "Upsert" => e.seq = None

Outbox(rs, box, p) ==
    \A i \in 1..Len(box) :
        /\ box[i].source = p
        /\ box[i].op = "Upsert" => box[i].epoch = Len(rs) /\ TrueEvent(rs, box[i])

History(pv) ==
    \A p \in Providers : Ordered(pv[p].revisions) /\ Outbox(pv[p].revisions, pv[p].outbox, p)

\* A chunk of a complete snapshot is one of the parts of its facts.
PartOf(facts, c) ==
    /\ c.items \subseteq facts
    /\ c.complete => /\ c.index + 1 \in 1..Len(Parts(facts))
                     /\ c.items = Parts(facts)[c.index + 1]
                     /\ c.final = (c.index + 1 = Len(Parts(facts)))
TrueChunk(rs, c) ==
    /\ Knows(rs, c.epoch, c.watermark)
    /\ c.covers = (rs[c.epoch].most # None)
    /\ PartOf(FactsAt(rs[c.epoch], c.watermark), c)

-------------------------------------------------------------------------------
(* Hooks have leases, providers have none. *)

Leases(box, q, timers) ==
    /\ \A e \in box : e.source \in Hooks /\ e.op = "Upsert" /\ e.item \in Observation
    /\ \A i \in 1..Len(q) : q[i].kind = "ScheduleExpiry" => q[i].key.source \notin Providers
    /\ \A k \in ExpiryKey : k.source \in Providers => timers[k] = None

-------------------------------------------------------------------------------
(* The queue q, of messages m; g is what the providers are registered with. *)

Good(R, m) ==
    /\ m.kind = "Event" =>
          /\ m.body.op = "Upsert" => m.body.item \in Observation
          /\ m.body.source \in Providers => TrueEvent(R[m.body.source], m.body)
          /\ m.body.source \notin Providers => m.body.op = "Upsert"
    /\ m.kind = "Snapshot" =>
          m.body.source \in Providers /\ TrueChunk(R[m.body.source], m.body)
    /\ m.kind = "EvidenceExpired" => \A k \in m.keys : k.source \notin Providers

\* A message of the stream of p
Of(m, p) == m.kind \in {"Event", "Snapshot"} /\ m.body.source = p

ChunkOf(m, p, epoch) == m.kind = "Snapshot" /\ m.body.source = p /\ m.body.epoch = epoch

\* A position in the stream, sequence n of an epoch, is not after that of a message: a
\* snapshot has everything that was said before it.
NotAfter(epoch, n, m) ==
    /\ epoch <= m.body.epoch
    /\ m.kind = "Snapshot" /\ epoch = m.body.epoch /\ n # None => n <= m.body.watermark

PositionOf(m) == IF m.kind = "Snapshot" THEN m.body.watermark ELSE m.body.seq

\* The revision that a provider is registered with, as far as it is.
IsRegistered(its, rs) ==
    /\ its \in [epoch : Nat, most : Capabilities]
    /\ its.epoch \in 1..Len(rs)

InOrder(q) ==
    \A i, j \in 1..Len(q) : \A p \in Providers :
        i < j /\ Of(q[i], p) /\ Of(q[j], p) =>
            NotAfter(q[i].body.epoch, PositionOf(q[i]), q[j])

Registered(q, R, g) ==
    \A i \in 1..Len(q) : \A p \in Providers :
        Of(q[i], p) => IsRegistered(g[p], R[p]) /\ q[i].body.epoch <= g[p].epoch

\* Whether the view of p, now st, will be in this epoch before it takes message n.
Announced(st, q, p, epoch, n) ==
    \/ st # None /\ st.epoch = epoch
    \/ \E h \in 1..Len(q) : h < n /\ ChunkOf(q[h], p, epoch)

EventsAnnounced(S, q) ==
    \A i \in 1..Len(q) : \A p \in Providers :
        q[i].kind = "Event" /\ q[i].body.source = p
            => Announced(S[p], q, p, q[i].body.epoch, i)

-------------------------------------------------------------------------------
(* The worker w *)

\* A provider whose events are polled is registered with its present revision, or it has
\* still to say that it started again; and its snapshot was sent.
UpToDate(its, pv) ==
    /\ IsRegistered(its, pv.revisions)
    /\ \/ its.epoch = Len(pv.revisions)
       \/ Len(pv.outbox) > 0 /\ pv.outbox[1].op = "Reset"

\* The chunks that are left of a snapshot
Emits(cs, p, its, rs, q, st) ==
    /\ Len(cs) > 0
    /\ \A i \in 1..Len(cs) :
          /\ TrueChunk(rs, cs[i]) /\ cs[i].source = p /\ cs[i].epoch = its.epoch
          /\ cs[i].final = (i = Len(cs))
          /\ cs[i].watermark = cs[1].watermark
    /\ \A i \in 1..Len(q) :
          Of(q[i], p) => NotAfter(q[i].body.epoch, PositionOf(q[i]),
                                  [kind |-> "Snapshot", body |-> cs[1]])
    /\ st # None => NotAfter(st.epoch, st.last, [kind |-> "Snapshot", body |-> cs[1]])

Working(w, polled, g, pv, q, S) ==
    /\ w.todo \cap polled = {}
    /\ w.pc \in {"loop", "gap"} => w.todo = {}
    /\ w.pc \in {"snapshot", "emit"} =>
          w.at \in w.todo /\ IsRegistered(g[w.at], pv[w.at].revisions)
    /\ w.pc = "gap" =>
          /\ w.at \in Providers /\ IsRegistered(g[w.at], pv[w.at].revisions)
          /\ Announced(S[w.at], q, w.at, g[w.at].epoch, Len(q) + 1)
    /\ w.pc = "emit" =>
          /\ UpToDate(g[w.at], pv[w.at])
          /\ Emits(w.chunks, w.at, g[w.at], pv[w.at].revisions, q, S[w.at])
    /\ \A p \in polled :
          UpToDate(g[p], pv[p]) /\ Announced(S[p], q, p, g[p].epoch, Len(q) + 1)

-------------------------------------------------------------------------------
(* The view: the stream st of a provider and what was collected of a snapshot, pd *)

\* The view is a position in a revision, up to the one the provider is registered with.
Stands(st, its, rs) ==
    st # None =>
        /\ IsRegistered(its, rs) /\ st.epoch \in 1..its.epoch
        /\ st.last # None => Knows(rs, st.epoch, st.last)
        /\ st.complete /\ ~st.reconciling => st.last # None

Ahead(st, q, p) ==
    st # None => \A i \in 1..Len(q) : Of(q[i], p) => NotAfter(st.epoch, st.last, q[i])

\* What was collected of a snapshot are its first parts.
FirstParts(facts, pd) ==
    /\ pd.items \subseteq facts
    /\ pd.complete => /\ pd.next \in 0..Len(Parts(facts))
                      /\ pd.items = UNION {Parts(facts)[i] : i \in 1..pd.next}
Collected(st, pd, rs) ==
    pd # None =>
        /\ st # None /\ Knows(rs, st.epoch, pd.watermark)
        /\ pd.covers = (rs[st.epoch].most # None)
        /\ FirstParts(FactsAt(rs[st.epoch], pd.watermark), pd)

\* No evidence e is later than the view, and where nothing is missing it is what the
\* provider knew.
Horizon(st, rs) == TimeOf(rs[st.epoch], IF st.last = None THEN 1 ELSE st.last)

Claim(st, rs, live, e) ==
    /\ live \/ e # None => st # None
    /\ e # None => e.at <= Horizon(st, rs)

Honest(st, rs, s, live, e) ==
    live /\ st.complete /\ ~st.reconciling /\ rs[st.epoch].most # None =>
        (IF e = None THEN None ELSE e.value) = rs[st.epoch].known[st.last][s]

Seen(st, rs, p, s, r) ==
    r # None => /\ Claim(st, rs, p \in r.live, r.evidence[p])
                /\ Honest(st, rs, s, p \in r.live, r.evidence[p])

View(st, pd, its, rs, q, p, known) ==
    /\ Stands(st, its, rs) /\ Ahead(st, q, p) /\ Collected(st, pd, rs)
    /\ \A s \in Sessions : Seen(st, rs, p, s, known[s])

-------------------------------------------------------------------------------

Types == Shape /\ TypeOK /\ clock \in Nat /\ sent \in Nat

Queue(q, R, g, S) ==
    /\ \A i \in 1..Len(q) : Good(R, q[i])
    /\ InOrder(q) /\ Registered(q, R, g) /\ EventsAnnounced(S, q)

Views ==
    \A p \in Providers :
        View(streams[p], pending[p], registered[p], Revisions[p], completions, p, sessions)

Inv ==
    /\ Types /\ History(provider) /\ Leases(inbox, requests, expiries)
    /\ Queue(completions, Revisions, registered, streams)
    /\ Working(worker, active, registered, provider, completions, streams)
    /\ Views

-------------------------------------------------------------------------------
(* Facts and parts *)

LEMMA NoneIsDistinct ==
  ASSUME Shape
  PROVE  /\ None \notin Nat /\ None \notin Values
         /\ None \notin Evidence /\ None \notin Record /\ None \notin Stream
  BY DEF Shape, NoneIsNothing

LEMMA SourcesAreApart ==
  ASSUME Shape
  PROVE
    /\ Providers \subseteq Sources /\ Hooks \subseteq Sources
    /\ \A x \in Sources : x \in Hooks <=> x \notin Providers
  BY DEF Shape

\* What a provider has to say is one observation of each session it knows.
LEMMA FactFields ==
  ASSUME NEW r, NEW n, NEW o \in FactsAt(r, n)
  PROVE  /\ r.most # None /\ o.session \in Sessions /\ r.known[n][o.session] # None
         /\ o.value = r.known[n][o.session] /\ o.authority = r.most
         /\ o.at = TimeOf(r, n) /\ o.until = None
  BY DEF FactsAt, Item

LEMMA FactOfSession ==
  ASSUME NEW r, NEW n, NEW s \in Sessions, r.most # None, r.known[n][s] # None
  PROVE  \E o \in FactsAt(r, n) : o.session = s
  <1> DEFINE o == Item(s, r.known[n][s], r.most, TimeOf(r, n), None)
  <1>1. o.session = s
    BY DEF Item
  <1>2. o \in FactsAt(r, n)
    BY DEF FactsAt
  <1> QED
    BY <1>1, <1>2

LEMMA FactsAreFinite ==
  ASSUME Shape, NEW r, NEW n PROVE IsFiniteSet(FactsAt(r, n))
  <1>1. CASE r.most = None
    BY <1>1, FS_EmptySet DEF FactsAt
  <1>2. CASE r.most # None
    <2> DEFINE S == {s \in Sessions : r.known[n][s] # None}
               f == [s \in S |-> Item(s, r.known[n][s], r.most, TimeOf(r, n), None)]
    <2>1. FactsAt(r, n) = {Item(s, r.known[n][s], r.most, TimeOf(r, n), None) : s \in S}
      BY <1>2 DEF FactsAt
    <2>2. f \in Surjection(S, FactsAt(r, n))
      BY <2>1 DEF Surjection
    <2>3. IsFiniteSet(S)
      BY FS_Subset DEF Shape
    <2> QED
      BY <2>2, <2>3, FS_Surjection
  <1> QED
    BY <1>1, <1>2

\* The parts of a finite set are the singletons of a sequence that has all of it.
LEMMA SequenceOfAll ==
  ASSUME NEW F, IsFiniteSet(F)
  PROVE  /\ Cardinality(F) \in Nat
         /\ SetToSeq(F) \in [1..Cardinality(F) -> F]
         /\ \A o \in F : \E i \in 1..Cardinality(F) : SetToSeq(F)[i] = o
  <1> DEFINE n == Cardinality(F)
  <1>1. n \in Nat /\ ExistsBijection(1..n, F)
    BY FS_CardinalityType
  <1>2. \E f \in [1..n -> F] : IsInjective(f)
    <2>1. PICK f \in Bijection(1..n, F) : TRUE
      BY <1>1 DEF ExistsBijection
    <2>2. f \in [1..n -> F] /\ \A a, b \in 1..n : f[a] = f[b] => a = b
      BY <2>1 DEF Bijection, Injection, Surjection, IsInjective
    <2> QED
      BY <2>2 DEF IsInjective
  <1>3. SetToSeq(F) \in [1..n -> F] /\ IsInjective(SetToSeq(F))
    BY <1>2 DEF SetToSeq
  <1>4. SetToSeq(F) \in Injection(1..n, F)
    BY <1>3 DEF Injection, IsInjective
  <1>5. Cardinality(1..n) = n
    BY <1>1, FS_Interval
  <1>6. SetToSeq(F) \in Surjection(1..n, F)
    BY <1>4, <1>5, FS_Injection
  <1> QED
    BY <1>1, <1>3, <1>6 DEF Surjection

LEMMA PartsOfFacts ==
  ASSUME NEW F, IsFiniteSet(F)
  PROVE  /\ Len(Parts(F)) \in Nat /\ Len(Parts(F)) > 0
         /\ DOMAIN Parts(F) = 1..Len(Parts(F))
         /\ \A i \in 1..Len(Parts(F)) : Parts(F)[i] \subseteq F
         /\ UNION {Parts(F)[i] : i \in 1..Len(Parts(F))} = F
  <1>1. CASE F = {}
    <2>1. Parts(F) = <<{}>>
      BY <1>1 DEF Parts
    <2> QED
      BY <1>1, <2>1
  <1>2. CASE F # {}
    <2> DEFINE n == Cardinality(F)
               q == [i \in 1..n |-> {SetToSeq(F)[i]}]
    <2>1. Parts(F) = q
      BY <1>2 DEF Parts
    <2>2. n \in Nat /\ n # 0
      BY <1>2, FS_EmptySet, FS_CardinalityType
    <2>3. q \in Seq(SUBSET F) /\ Len(q) = n /\ DOMAIN q = 1..n
      BY <2>2, SequenceOfAll
    <2>4. UNION {q[i] : i \in 1..n} = F
      BY SequenceOfAll
    <2> QED
      BY <2>1, <2>2, <2>3, <2>4
  <1> QED
    BY <1>1, <1>2

-------------------------------------------------------------------------------
(* Providers only learn *)

\* A provider keeps what it knew in each of its revisions.
Extends(qs, rs) ==
    /\ Len(rs) <= Len(qs)
    /\ \A e \in 1..Len(rs) :
          /\ qs[e].most = rs[e].most /\ qs[e].since = rs[e].since
          /\ Len(rs[e].known) <= Len(qs[e].known)
          /\ \A n \in 1..Len(rs[e].known) : qs[e].known[n] = rs[e].known[n]

LEMMA LengthsAreNumbers ==
  ASSUME NEW rs \in Seq(Revision)
  PROVE  Len(rs) \in Nat /\ \A e \in 1..Len(rs) : /\ rs[e] \in Revision
                                                  /\ Len(rs[e].known) \in Nat
                                                  /\ rs[e].since \in Nat
  <1>1. Len(rs) \in Nat /\ \A e \in 1..Len(rs) : rs[e] \in Revision
    OBVIOUS
  <1>2. ASSUME NEW r \in Revision PROVE Len(r.known) \in Nat /\ r.since \in Nat
    BY DEF Revision
  <1> QED
    BY <1>1, <1>2

LEMMA ExtendsItself ==
  ASSUME NEW rs \in Seq(Revision) PROVE Extends(rs, rs)
  BY LengthsAreNumbers DEF Extends

LEMMA FactsStay ==
  ASSUME NEW r, NEW q, NEW n, q.most = r.most, q.since = r.since, q.known[n] = r.known[n]
  PROVE  FactsAt(q, n) = FactsAt(r, n) /\ TimeOf(q, n) = TimeOf(r, n)
  BY DEF FactsAt, TimeOf

LEMMA KnowledgeStays ==
  ASSUME NEW rs \in Seq(Revision), NEW qs \in Seq(Revision), Extends(qs, rs),
         NEW e, NEW n, Knows(rs, e, n)
  PROVE  /\ Knows(qs, e, n)
         /\ FactsAt(qs[e], n) = FactsAt(rs[e], n)
         /\ TimeOf(qs[e], n) = TimeOf(rs[e], n)
         /\ qs[e].most = rs[e].most
         /\ qs[e].known[n] = rs[e].known[n]
  <1>1. e \in 1..Len(rs) /\ n \in 1..Len(rs[e].known)
    BY DEF Knows
  <1>2. e \in 1..Len(qs)
    BY <1>1, LengthsAreNumbers DEF Extends
  <1>3. n \in 1..Len(qs[e].known)
    <2> DEFINE a == Len(rs[e].known)
               b == Len(qs[e].known)
    <2>1. a <= b
      BY <1>1 DEF Extends
    <2>2. a \in Nat /\ b \in Nat
      BY <1>1, <1>2, LengthsAreNumbers
    <2>3. n \in 1..a
      BY <1>1
    <2> HIDE DEF a, b
    <2>4. n \in 1..b
      BY <2>1, <2>2, <2>3
    <2> QED
      BY <2>4 DEF b
  <1>4. /\ qs[e].most = rs[e].most /\ qs[e].since = rs[e].since
        /\ qs[e].known[n] = rs[e].known[n]
    BY <1>1 DEF Extends
  <1> QED
    BY <1>2, <1>3, <1>4, FactsStay DEF Knows

LEMMA ChangeStays ==
  ASSUME NEW rs \in Seq(Revision), NEW qs \in Seq(Revision), Extends(qs, rs),
         NEW e \in 1..Len(rs), NEW n \in Nat, NEW o, Change(rs[e], n, o)
  PROVE  Change(qs[e], n, o)
  <1>1. Knows(rs, e, n) /\ Knows(rs, e, n - 1)
    BY DEF Change, Knows
  <1>2. /\ Knows(qs, e, n) /\ TimeOf(qs[e], n) = TimeOf(rs[e], n)
        /\ qs[e].known[n] = rs[e].known[n]
    BY <1>1, KnowledgeStays
  <1>3. Knows(qs, e, n - 1) /\ qs[e].known[n - 1] = rs[e].known[n - 1]
    BY <1>1, KnowledgeStays
  <1> QED
    BY <1>2, <1>3 DEF Change, Knows

LEMMA TrueEventStays ==
  ASSUME NEW rs \in Seq(Revision), NEW qs \in Seq(Revision), Extends(qs, rs),
         NEW e, TrueEvent(rs, e)
  PROVE  TrueEvent(qs, e)
  <1>1. e.epoch \in 1..Len(rs) /\ e.epoch \in 1..Len(qs)
    BY LengthsAreNumbers DEF TrueEvent, Extends
  <1>2. /\ e.op = "Upsert" => e.seq \in Nat /\ Change(rs[e.epoch], e.seq, e.item)
        /\ e.op # "Upsert" => e.seq = None
    BY DEF TrueEvent
  <1>3. e.op = "Upsert" => e.seq \in Nat /\ Change(qs[e.epoch], e.seq, e.item)
    BY <1>1, <1>2, ChangeStays
  <1> QED
    BY <1>1, <1>2, <1>3 DEF TrueEvent

LEMMA TrueChunkStays ==
  ASSUME NEW rs \in Seq(Revision), NEW qs \in Seq(Revision), Extends(qs, rs),
         NEW c, TrueChunk(rs, c)
  PROVE  TrueChunk(qs, c)
  <1>1. Knows(rs, c.epoch, c.watermark)
    BY DEF TrueChunk
  <1>2. /\ Knows(qs, c.epoch, c.watermark)
        /\ FactsAt(qs[c.epoch], c.watermark) = FactsAt(rs[c.epoch], c.watermark)
        /\ qs[c.epoch].most = rs[c.epoch].most
    BY <1>1, KnowledgeStays
  <1> QED
    BY <1>2 DEF TrueChunk

AllRevisions == [Providers -> Seq(Revision)]
Learn(Q, R) == \A p \in Providers : Extends(Q[p], R[p])

LEMMA GoodStays ==
  ASSUME NEW R \in AllRevisions, NEW Q \in AllRevisions, Learn(Q, R), NEW m, Good(R, m)
  PROVE  Good(Q, m)
  <1>1. ASSUME NEW p \in Providers
        PROVE  R[p] \in Seq(Revision) /\ Q[p] \in Seq(Revision) /\ Extends(Q[p], R[p])
    BY DEF AllRevisions, Learn
  <1>2. ASSUME m.kind = "Event", m.body.source \in Providers
        PROVE  TrueEvent(Q[m.body.source], m.body)
    BY <1>1, <1>2, TrueEventStays DEF Good
  <1>3. ASSUME m.kind = "Snapshot"
        PROVE  m.body.source \in Providers /\ TrueChunk(Q[m.body.source], m.body)
    BY <1>1, <1>3, TrueChunkStays DEF Good
  <1> QED
    BY <1>2, <1>3 DEF Good

-------------------------------------------------------------------------------
(* The queue when the worker goes on: the view does not change. *)

\* A registration is only replaced by one of a later revision.
Rise(h, Q, g, R) ==
    \A p \in Providers :
        IsRegistered(g[p], R[p]) => IsRegistered(h[p], Q[p]) /\ g[p].epoch <= h[p].epoch

\* A message that may be added to the queue
Fresh(m, q, R, g, S) ==
    /\ Good(R, m)
    /\ \A p \in Providers : Of(m, p) =>
          /\ IsRegistered(g[p], R[p]) /\ m.body.epoch <= g[p].epoch
          /\ \A i \in 1..Len(q) :
                Of(q[i], p) => NotAfter(q[i].body.epoch, PositionOf(q[i]), m)
          /\ S[p] # None => NotAfter(S[p].epoch, S[p].last, m)
          /\ m.kind = "Event" => Announced(S[p], q, p, m.body.epoch, Len(q) + 1)

Plain(m) == m.kind \notin {"Event", "Snapshot", "EvidenceExpired"}

\* The queue r is q, m and statuses.
Longer(r, q, m) ==
    /\ Len(q) \in Nat /\ Len(r) \in Nat /\ Len(q) <= Len(r)
    /\ \A i \in 1..Len(q) : r[i] = q[i]
    /\ \A i \in 1..Len(r) : i <= Len(q) \/ (i = Len(q) + 1 /\ r[i] = m) \/ Plain(r[i])

LEMMA LongerBy ==
  ASSUME NEW q, NEW r, NEW m, Longer(r, q, m), NEW i \in 1..Len(r)
  PROVE  \/ i \in 1..Len(q) /\ r[i] = q[i]
         \/ i = Len(q) + 1 /\ r[i] = m
         \/ Plain(r[i]) /\ \A p : ~Of(r[i], p)
  BY DEF Longer, Plain, Of

LEMMA AnnouncedStays ==
  ASSUME NEW q, NEW r, NEW m, Longer(r, q, m), NEW st, NEW p, NEW epoch, NEW n,
         Announced(st, q, p, epoch, n)
  PROVE  Announced(st, r, p, epoch, n)
  BY DEF Announced, Longer

LEMMA QueueGoesOn ==
  ASSUME NEW R \in AllRevisions, NEW Q \in AllRevisions, Learn(Q, R),
         NEW g, NEW h, Rise(h, Q, g, R), NEW S,
         NEW q, NEW r, NEW m, Longer(r, q, m), Queue(q, R, g, S), Fresh(m, q, R, g, S),
         \A p \in Providers : IsRegistered(g[p], R[p]) => g[p].epoch \in Nat /\ h[p].epoch \in Nat,
         \A i \in 1..Len(r) : \A p \in Providers : Of(r[i], p) => r[i].body.epoch \in Nat
  PROVE  Queue(r, Q, h, S)
  <1>1. ASSUME NEW i \in 1..Len(r) PROVE Good(Q, r[i])
    <2>1. CASE i \in 1..Len(q) /\ r[i] = q[i]
      BY <2>1, GoodStays DEF Queue
    <2>2. CASE r[i] = m
      BY <2>2, GoodStays DEF Fresh
    <2>3. CASE Plain(r[i])
      BY <2>3 DEF Plain, Good
    <2> QED
      BY <2>1, <2>2, <2>3, LongerBy
  <1>2. InOrder(r)
    <2> SUFFICES ASSUME NEW i \in 1..Len(r), NEW j \in 1..Len(r), NEW p \in Providers,
                        i < j, Of(r[i], p), Of(r[j], p)
                 PROVE  NotAfter(r[i].body.epoch, PositionOf(r[i]), r[j])
      BY DEF InOrder
    <2>1. \/ i \in 1..Len(q) /\ r[i] = q[i]
          \/ i = Len(q) + 1
      <3>1. ~Plain(r[i])
        BY DEF Plain, Of
      <3> QED
        BY <3>1, LongerBy
    <2>2. \/ j \in 1..Len(q) /\ r[j] = q[j]
          \/ j = Len(q) + 1 /\ r[j] = m
      <3>1. ~Plain(r[j])
        BY DEF Plain, Of
      <3> QED
        BY <3>1, LongerBy
    <2>3. Len(q) \in Nat /\ Len(r) \in Nat
      BY DEF Longer
    <2>4. i \in 1..Len(q) /\ r[i] = q[i]
      BY <2>1, <2>2, <2>3
    <2> QED
      BY <2>2, <2>4 DEF Queue, InOrder, Fresh
  <1>3. Registered(r, Q, h)
    <2> SUFFICES ASSUME NEW i \in 1..Len(r), NEW p \in Providers, Of(r[i], p)
                 PROVE  IsRegistered(h[p], Q[p]) /\ r[i].body.epoch <= h[p].epoch
      BY DEF Registered
    <2>1. \/ i \in 1..Len(q) /\ r[i] = q[i]
          \/ i = Len(q) + 1 /\ r[i] = m
      <3>1. ~Plain(r[i])
        BY DEF Plain, Of
      <3> QED
        BY <3>1, LongerBy
    <2>2. IsRegistered(g[p], R[p]) /\ r[i].body.epoch <= g[p].epoch
      BY <2>1 DEF Queue, Registered, Fresh
    <2>3. IsRegistered(h[p], Q[p]) /\ g[p].epoch <= h[p].epoch
      BY <2>2 DEF Rise
    <2>4. r[i].body.epoch \in Nat /\ g[p].epoch \in Nat /\ h[p].epoch \in Nat
      BY <2>2
    <2> QED
      BY <2>2, <2>3, <2>4
  <1>4. EventsAnnounced(S, r)
    <2> SUFFICES ASSUME NEW i \in 1..Len(r), NEW p \in Providers,
                        r[i].kind = "Event", r[i].body.source = p
                 PROVE  Announced(S[p], r, p, r[i].body.epoch, i)
      BY DEF EventsAnnounced
    <2>1. Of(r[i], p)
      BY DEF Of
    <2>2. \/ i \in 1..Len(q) /\ r[i] = q[i]
          \/ i = Len(q) + 1 /\ r[i] = m
      <3>1. ~Plain(r[i])
        BY DEF Plain
      <3> QED
        BY <3>1, LongerBy
    <2>3. Announced(S[p], q, p, r[i].body.epoch, i)
      BY <2>1, <2>2 DEF Queue, EventsAnnounced, Fresh
    <2> QED
      BY <2>3, AnnouncedStays
  <1> QED
    BY <1>1, <1>2, <1>3, <1>4 DEF Queue

\* The view stays ahead of the queue, and what it shows is still what the provider knew.
LEMMA ViewStays ==
  ASSUME NEW rs \in Seq(Revision), NEW qs \in Seq(Revision), Extends(qs, rs),
         NEW its, NEW theirs,
         IsRegistered(its, rs) => /\ IsRegistered(theirs, qs) /\ its.epoch <= theirs.epoch
                                  /\ its.epoch \in Nat /\ theirs.epoch \in Nat,
         NEW st, NEW pd, NEW known, NEW p \in Providers,
         NEW q, NEW r, NEW m, Longer(r, q, m), View(st, pd, its, rs, q, p, known),
         Of(m, p) /\ st # None => NotAfter(st.epoch, st.last, m)
  PROVE  View(st, pd, theirs, qs, r, p, known)
  <1>1. st # None => /\ IsRegistered(its, rs) /\ st.epoch \in 1..its.epoch
                     /\ st.epoch \in 1..Len(rs) /\ st.epoch \in 1..Len(qs)
    BY LengthsAreNumbers DEF View, Stands, IsRegistered, Extends
  <1>2. Stands(st, theirs, qs)
    BY <1>1, KnowledgeStays DEF View, Stands
  <1>3. Ahead(st, r, p)
    BY LongerBy DEF View, Ahead
  <1>4. Collected(st, pd, qs)
    <2> SUFFICES ASSUME pd # None PROVE Collected(st, pd, qs)
      BY DEF Collected
    <2>1. /\ st # None /\ Knows(rs, st.epoch, pd.watermark)
          /\ pd.covers = (rs[st.epoch].most # None)
          /\ FirstParts(FactsAt(rs[st.epoch], pd.watermark), pd)
      BY DEF View, Collected
    <2>2. /\ Knows(qs, st.epoch, pd.watermark)
          /\ FactsAt(qs[st.epoch], pd.watermark) = FactsAt(rs[st.epoch], pd.watermark)
          /\ qs[st.epoch].most = rs[st.epoch].most
      BY <2>1, KnowledgeStays
    <2> QED
      BY <2>1, <2>2 DEF Collected
  <1>5. ASSUME NEW s \in Sessions PROVE Seen(st, qs, p, s, known[s])
    <2> DEFINE z == known[s]
    <2>1. Seen(st, rs, p, s, z)
      BY DEF View
    <2>2. st # None => /\ qs[st.epoch].most = rs[st.epoch].most
                       /\ qs[st.epoch].since = rs[st.epoch].since
      BY <1>1 DEF Extends
    <2>3. st # None => Horizon(st, qs) = Horizon(st, rs)
      BY <2>2 DEF Horizon, TimeOf
    <2>4. st # None /\ st.complete /\ ~st.reconciling =>
             qs[st.epoch].known[st.last] = rs[st.epoch].known[st.last]
      BY KnowledgeStays DEF View, Stands
    <2>5. z # None => Claim(st, qs, p \in z.live, z.evidence[p])
      BY <2>1, <2>3 DEF Seen, Claim
    <2>6. z # None => Honest(st, qs, s, p \in z.live, z.evidence[p])
      BY <2>1, <2>2, <2>4 DEF Seen, Claim, Honest
    <2> QED
      BY <2>5, <2>6 DEF Seen
  <1> QED
    BY <1>2, <1>3, <1>4, <1>5 DEF View


-------------------------------------------------------------------------------
(* Types *)

LEMMA Messages ==
  /\ Status \in Message
  /\ \A e \in Event : Envelope(e) \in Message
  /\ \A c \in Chunk : [kind |-> "Snapshot", body |-> c] \in Message
  /\ \A ks \in SUBSET ExpiryKey : Expired(ks) \in Message
  /\ \A p \in Providers, m \in Capabilities : Contract(p, m) \in Message
  /\ stored \in SUBSET Sessions => Loaded \in Message
  BY DEF Status, Envelope, Expired, Contract, Loaded, Message

LEMMA Posted ==
  ASSUME Shape, NEW q \in Seq(Message), Len(q) <= Capacity, NEW m \in Message
  PROVE  /\ Post(q, m) \in Seq(Message) /\ Len(Post(q, m)) <= Capacity
         /\ Longer(Post(q, m), q, m)
         /\ Len(q) < Capacity =>
               /\ Len(Post(q, m)) = Len(q) + 1 /\ Post(q, m)[Len(q) + 1] = m
  <1>1. CASE Len(q) < Capacity
    <2>1. Post(q, m) = Append(q, m)
      BY <1>1 DEF Post
    <2>2. Len(Append(q, m)) = Len(q) + 1 /\ Append(q, m) \in Seq(Message)
      OBVIOUS
    <2> QED
      BY <1>1, <2>1, <2>2 DEF Longer, Shape
  <1>2. CASE ~(Len(q) < Capacity)
    BY <1>2 DEF Post, Longer
  <1> QED
    BY <1>1, <1>2

LEMMA Submitted ==
  ASSUME Shape, NEW q \in Seq(RequestMessage), Len(q) <= RequestCapacity,
         NEW m \in RequestMessage
  PROVE  /\ Submit(q, m) \in Seq(RequestMessage) /\ Len(Submit(q, m)) <= RequestCapacity
         /\ \A i \in 1..Len(Submit(q, m)) : Submit(q, m)[i] = m \/ \E j \in 1..Len(q) : Submit(q, m)[i] = q[j]
  BY DEF Submit, Shape

LEMMA StaysTheSame ==
  ASSUME NEW q \in Seq(Message) PROVE Longer(q, q, Status)
  BY DEF Longer

LEMMA PlainIsFresh ==
  ASSUME NEW m, Plain(m), NEW q, NEW R, NEW g, NEW S PROVE Fresh(m, q, R, g, S)
  BY DEF Fresh, Plain, Good, Of

LEMMA PlainMessages ==
  /\ Plain(Status) /\ Plain(Loaded)
  /\ \A p, m : Plain(Contract(p, m))
  BY DEF Plain, Status, Loaded, Contract

LEMMA Observations ==
  ASSUME NEW s \in Sessions, NEW v \in Values \cup {None}, NEW a \in Authorities,
         NEW t \in Nat, NEW u \in Nat \cup {None}
  PROVE  /\ Item(s, v, a, t, u) \in Observation
         /\ Item(s, v, a, t, u).session = s /\ Item(s, v, a, t, u).value = v
         /\ Item(s, v, a, t, u).authority = a /\ Item(s, v, a, t, u).at = t
         /\ Item(s, v, a, t, u).until = u
  BY DEF Item, Observation

LEMMA AllAreRevisions ==
  ASSUME NEW pv \in [Providers -> ProviderState]
  PROVE  /\ [p \in Providers |-> pv[p].revisions] \in AllRevisions
         /\ \A p \in Providers : /\ pv[p].revisions \in Seq(Revision)
                                 /\ pv[p].outbox \in Seq(Event)
  BY DEF AllRevisions, ProviderState

LEMMA KnownIsTyped ==
  ASSUME NEW rs \in Seq(Revision), NEW e, NEW n, Knows(rs, e, n), Shape
  PROVE  /\ rs[e] \in Revision /\ rs[e].known \in Seq([Sessions -> Values \cup {None}])
         /\ rs[e].most \in Capabilities /\ rs[e].most \in Authorities \cup {None}
         /\ rs[e].known[n] \in [Sessions -> Values \cup {None}]
         /\ TimeOf(rs[e], n) \in Nat
         /\ e \in Nat /\ n \in Nat /\ n > 0
  <1>1. rs[e] \in Revision
    BY DEF Knows
  <1>2. /\ rs[e].known \in Seq([Sessions -> Values \cup {None}])
        /\ rs[e].most \in Capabilities /\ rs[e].since \in Nat
    BY <1>1 DEF Revision
  <1>3. n \in 1..Len(rs[e].known) /\ e \in 1..Len(rs)
    BY DEF Knows
  <1>4. rs[e].known[n] \in [Sessions -> Values \cup {None}]
    BY <1>2, <1>3
  <1>5. n \in Nat /\ n > 0 /\ e \in Nat
    BY <1>2, <1>3
  <1> QED
    BY <1>1, <1>2, <1>4, <1>5 DEF TimeOf, Shape

LEMMA FactsAreObservations ==
  ASSUME NEW rs \in Seq(Revision), NEW e, NEW n, Knows(rs, e, n), Shape
  PROVE  FactsAt(rs[e], n) \subseteq Observation
  <1> SUFFICES ASSUME NEW o \in FactsAt(rs[e], n) PROVE o \in Observation
    OBVIOUS
  <1>1. PICK s \in Sessions : o = Item(s, rs[e].known[n][s], rs[e].most, TimeOf(rs[e], n), None)
    BY DEF FactsAt
  <1>2. rs[e].most # None
    BY FactFields
  <1>3. /\ rs[e].known[n][s] \in Values \cup {None} /\ rs[e].most \in Authorities
        /\ TimeOf(rs[e], n) \in Nat
    BY <1>2, KnownIsTyped
  <1> QED
    BY ZenonT(40), <1>1, <1>3, Observations

\* The revision that a provider is in
LEMMA PresentRevision ==
  ASSUME Types, History(provider), NEW p \in Providers
  PROVE  /\ provider[p].revisions \in Seq(Revision) /\ provider[p].outbox \in Seq(Event)
         /\ Epoch(p) \in Nat /\ Epoch(p) > 0
         /\ Sequence(p) \in Nat /\ Sequence(p) > 0
         /\ Knows(provider[p].revisions, Epoch(p), Sequence(p))
         /\ Current(p) \in Revision /\ Current(p).most \in Capabilities
         /\ Truth(p) \in [Sessions -> Values \cup {None}]
         /\ Changes(p) \in Nat
  <1> DEFINE rs == provider[p].revisions
  <1>1. rs \in Seq(Revision) /\ provider[p].outbox \in Seq(Event)
    BY AllAreRevisions DEF Types, TypeOK
  <1>2. Ordered(rs)
    BY DEF History
  <1>3. Len(rs) \in Nat /\ Len(rs) > 0 /\ Len(rs) \in 1..Len(rs)
    BY <1>1, <1>2 DEF Ordered
  <1>4. Len(rs[Len(rs)].known) \in Nat /\ Len(rs[Len(rs)].known) > 0
    BY <1>1, <1>2, <1>3, LengthsAreNumbers DEF Ordered
  <1>5. Knows(rs, Len(rs), Len(rs[Len(rs)].known))
    <2> DEFINE n == Len(rs[Len(rs)].known)
    <2>1. n \in 1..n
      BY <1>4
    <2> QED
      BY <2>1, <1>3 DEF Knows
  <1>6. Shape
    BY DEF Types
  <1> HIDE DEF rs
  <1>7. /\ Epoch(p) = Len(rs) /\ Current(p) = rs[Len(rs)] /\ Sequence(p) = Len(rs[Len(rs)].known)
        /\ Truth(p) = rs[Len(rs)].known[Len(rs[Len(rs)].known)]
        /\ Changes(p) = TimeOf(rs[Len(rs)], Len(rs[Len(rs)].known))
    BY DEF rs, Epoch, Current, Sequence, Truth, Changes
  <1>8. /\ rs[Len(rs)] \in Revision /\ rs[Len(rs)].most \in Capabilities
        /\ rs[Len(rs)].known[Len(rs[Len(rs)].known)] \in [Sessions -> Values \cup {None}]
        /\ TimeOf(rs[Len(rs)], Len(rs[Len(rs)].known)) \in Nat
    BY <1>1, <1>5, <1>6, KnownIsTyped
  <1> QED
    BY <1>1, <1>3, <1>4, <1>5, <1>7, <1>8 DEF rs

-------------------------------------------------------------------------------
(* Hooks and providers *)

LEMMA Learning ==
  ASSUME NEW rs \in Seq(Revision), Ordered(rs), NEW qs \in Seq(Revision), Len(qs) = Len(rs),
         \A e \in 1..Len(rs) : e # Len(rs) => qs[e] = rs[e],
         qs[Len(rs)].most = rs[Len(rs)].most, qs[Len(rs)].since = rs[Len(rs)].since,
         NEW t \in [Sessions -> Values \cup {None}],
         qs[Len(rs)].known = Append(rs[Len(rs)].known, t)
  PROVE  Extends(qs, rs) /\ Ordered(qs)
  <1> DEFINE l == Len(rs)
  <1>1. l \in Nat /\ l > 0 /\ l \in 1..l /\ rs[l] \in Revision /\ l = Len(rs)
    BY LengthsAreNumbers DEF Ordered
  <1>5. /\ Len(qs[l].known) = Len(rs[l].known) + 1
        /\ \A n \in 1..Len(rs[l].known) : qs[l].known[n] = rs[l].known[n]
        /\ Len(rs[l].known) \in Nat
    <2>1. rs[l].known \in Seq([Sessions -> Values \cup {None}])
      BY <1>1 DEF Revision
    <2> QED
      BY <2>1
  <1>4. qs[l].most = rs[l].most /\ qs[l].since = rs[l].since
    OBVIOUS
  <1>6. Len(qs) = l /\ \A e \in 1..l : e # l => qs[e] = rs[e]
    OBVIOUS
  <1> HIDE DEF l
  <1>7. Extends(qs, rs)
    <2> SUFFICES ASSUME NEW e \in 1..l
                 PROVE  /\ qs[e].most = rs[e].most /\ qs[e].since = rs[e].since
                        /\ Len(rs[e].known) <= Len(qs[e].known)
                        /\ \A n \in 1..Len(rs[e].known) : qs[e].known[n] = rs[e].known[n]
      BY <1>1, <1>6 DEF Extends
    <2>1. CASE e = l
      BY <2>1, <1>4, <1>5
    <2>2. CASE e # l
      <3>1. qs[e] = rs[e] /\ Len(rs[e].known) \in Nat
        BY <2>2, <1>1, <1>6, LengthsAreNumbers
      <3> QED
        BY <3>1
    <2> QED
      BY <2>1, <2>2
  <1>8. Ordered(qs)
    <2>1. ASSUME NEW e \in 1..l PROVE Len(qs[e].known) > 0
      <3>1. CASE e = l
        BY <3>1, <1>5
      <3>2. CASE e # l
        BY <3>2, <1>1, <1>6 DEF Ordered
      <3> QED
        BY <3>1, <3>2
    <2>2. ASSUME NEW e \in 1..l, NEW f \in 1..l, e < f
          PROVE  TimeOf(qs[e], Len(qs[e].known)) <= qs[f].since
      <3>1. e # l /\ qs[e] = rs[e]
        BY <2>2, <1>1, <1>6
      <3>2. qs[f].since = rs[f].since
        BY <1>1, <1>7 DEF Extends
      <3> QED
        BY <2>2, <3>1, <3>2, <1>1 DEF Ordered
    <2> QED
      BY <1>1, <1>6, <2>1, <2>2 DEF Ordered
  <1> QED
    BY <1>7, <1>8

LEMMA TimeIsNumber ==
  ASSUME NEW r, NEW n \in Nat, r.since \in Nat PROVE TimeOf(r, n) \in Int
  BY DEF TimeOf

LEMMA Restarting ==
  ASSUME NEW rs \in Seq(Revision), Ordered(rs), NEW r \in Revision, Len(r.known) > 0,
         r.since = TimeOf(rs[Len(rs)], Len(rs[Len(rs)].known))
  PROVE  /\ Append(rs, r) \in Seq(Revision) /\ Extends(Append(rs, r), rs)
         /\ Ordered(Append(rs, r))
  <1> DEFINE l == Len(rs)
             qs == Append(rs, r)
  <1>1. l \in Nat /\ l > 0 /\ l \in 1..l
    BY DEF Ordered
  <1>2. /\ qs \in Seq(Revision) /\ Len(qs) = l + 1 /\ qs[l + 1] = r
        /\ \A e \in 1..l : qs[e] = rs[e]
    OBVIOUS
  <1> HIDE DEF qs
  <1>3. Extends(qs, rs)
    BY <1>1, <1>2, LengthsAreNumbers DEF Extends
  <1>4. ASSUME NEW e \in 1..l + 1, NEW f \in 1..l + 1, e < f
        PROVE  TimeOf(qs[e], Len(qs[e].known)) <= qs[f].since
    <2>1. e \in 1..l /\ qs[e] = rs[e]
      BY <1>1, <1>2, <1>4
    <2>2. CASE f \in 1..l
      BY <2>1, <2>2, <1>2, <1>4 DEF Ordered
    <2>3. CASE f = l + 1
      <3>1. qs[f].since = TimeOf(rs[l], Len(rs[l].known))
        BY <2>3, <1>2
      <3>2. CASE e = l
        <4>1. TimeOf(rs[l], Len(rs[l].known)) \in Nat
          BY <1>1, LengthsAreNumbers DEF TimeOf, Ordered
        <4> QED
          BY <2>1, <3>1, <3>2, <4>1
      <3>3. CASE e # l
        <4>1. e < l /\ TimeOf(rs[e], Len(rs[e].known)) <= rs[l].since
          BY <3>3, <2>1, <1>1 DEF Ordered
        <4>2. /\ Len(rs[l].known) \in Nat /\ Len(rs[l].known) > 0 /\ rs[l].since \in Nat
              /\ Len(rs[e].known) \in Nat /\ rs[e].since \in Nat
          BY <1>1, <2>1, LengthsAreNumbers DEF Ordered
        <4>3. rs[l].since <= TimeOf(rs[l], Len(rs[l].known))
          BY <4>2 DEF TimeOf
        <4>4. /\ TimeOf(rs[e], Len(rs[e].known)) \in Int
              /\ TimeOf(rs[l], Len(rs[l].known)) \in Int
          BY <4>2, TimeIsNumber
        <4>5. TimeOf(qs[e], Len(qs[e].known)) = TimeOf(rs[e], Len(rs[e].known))
          BY <2>1
        <4> QED
          BY <3>1, <4>1, <4>2, <4>3, <4>4, <4>5
      <3> QED
        BY <3>2, <3>3
    <2> QED
      BY <1>1, <2>2, <2>3
  <1>5. \A e \in 1..l + 1 : Len(qs[e].known) > 0
    <2> SUFFICES ASSUME NEW e \in 1..l + 1 PROVE Len(qs[e].known) > 0
      OBVIOUS
    <2>1. e \in 1..l \/ e = l + 1
      BY <1>1
    <2> QED
      BY <2>1, <1>2 DEF Ordered
  <1>6. Ordered(qs)
    BY <1>1, <1>2, <1>4, <1>5 DEF Ordered
  <1> QED
    BY <1>2, <1>3, <1>6 DEF qs

\* What is up to date stays so: a provider says first that it started again.
LEMMA UpToDateStays ==
  ASSUME NEW its, NEW pv, NEW pw, pv.revisions \in Seq(Revision), pw.revisions \in Seq(Revision),
         Extends(pw.revisions, pv.revisions), UpToDate(its, pv),
         \/ Len(pw.revisions) = Len(pv.revisions)
            /\ (Len(pv.outbox) > 0 => Len(pw.outbox) > 0 /\ pw.outbox[1] = pv.outbox[1])
         \/ Len(pw.outbox) > 0 /\ pw.outbox[1].op = "Reset"
  PROVE  UpToDate(its, pw)
  <1>1. Len(pv.revisions) \in Nat /\ Len(pw.revisions) \in Nat
    OBVIOUS
  <1>2. IsRegistered(its, pw.revisions)
    BY <1>1 DEF UpToDate, IsRegistered, Extends
  <1> QED
    BY <1>2 DEF UpToDate

LEMMA EmitsStay ==
  ASSUME NEW rs \in Seq(Revision), NEW qs \in Seq(Revision), Extends(qs, rs),
         NEW cs, NEW p, NEW its, NEW q, NEW st, Emits(cs, p, its, rs, q, st)
  PROVE  Emits(cs, p, its, qs, q, st)
  <1>1. \A i \in 1..Len(cs) : TrueChunk(qs, cs[i])
    BY TrueChunkStays DEF Emits
  <1> QED
    BY <1>1 DEF Emits

\* A step of hooks and providers, after which they know pv
LEMMA OutsideStep ==
  ASSUME Inv, NEW pv \in [Providers -> ProviderState], provider' = pv,
         UNCHANGED <<stateVars, completions, registered, worker, active>>,
         History(pv),
         \A p \in Providers : Extends(pv[p].revisions, provider[p].revisions),
         \A p \in Providers : UpToDate(registered[p], provider[p])
                                => UpToDate(registered[p], pv[p])
  PROVE  /\ Queue(completions, Revisions, registered, streams)'
         /\ Working(worker, active, registered, provider, completions, streams)'
         /\ Views'
  <1> DEFINE R == [p \in Providers |-> provider[p].revisions]
             Q == [p \in Providers |-> pv[p].revisions]
  <1>1. /\ Revisions = R /\ Revisions' = Q
        /\ streams' = streams /\ pending' = pending /\ sessions' = sessions
    BY DEF Revisions, stateVars
  <1>2. /\ R \in AllRevisions /\ Q \in AllRevisions
        /\ \A p \in Providers : R[p] \in Seq(Revision) /\ Q[p] \in Seq(Revision)
        /\ provider \in [Providers -> ProviderState]
    BY AllAreRevisions DEF Inv, Types, TypeOK, AllRevisions
  <1>3. Learn(Q, R)
    BY DEF Learn
  <1>4. ASSUME NEW p \in Providers, IsRegistered(registered[p], R[p])
        PROVE  IsRegistered(registered[p], Q[p]) /\ registered[p].epoch \in Nat
    <2>1. Len(R[p]) \in Nat /\ Len(Q[p]) \in Nat /\ Len(R[p]) <= Len(Q[p])
      BY <1>2, <1>3 DEF Learn, Extends
    <2> QED
      BY <2>1, <1>4 DEF IsRegistered
  <1>5. Rise(registered, Q, registered, R)
    BY <1>4 DEF Rise
  <1>6. completions \in Seq(Message) /\ Longer(completions, completions, Status)
    BY StaysTheSame DEF Inv, Types, TypeOK
  <1>7. Fresh(Status, completions, R, registered, streams)
    BY PlainIsFresh, PlainMessages
  <1>8. Queue(completions, R, registered, streams)
    BY <1>1 DEF Inv
  <1>9. ASSUME NEW i \in 1..Len(completions), NEW p \in Providers, Of(completions[i], p)
        PROVE  completions[i].body.epoch \in Nat
    BY <1>6, <1>9 DEF Of, Message, Event, Chunk, Status
  <1>10. Queue(completions, Q, registered, streams)
    BY <1>2, <1>3, <1>4, <1>5, <1>6, <1>7, <1>8, <1>9, QueueGoesOn
  <1>11. Working(worker, active, registered, pv, completions, streams)
    <2>1. Working(worker, active, registered, provider, completions, streams)
      BY DEF Inv
    <2>2. active \subseteq Providers /\ worker.todo \subseteq Providers
      BY DEF Inv, Types, TypeOK
    <2>3. ASSUME worker.pc = "emit"
          PROVE  Emits(worker.chunks, worker.at, registered[worker.at],
                       pv[worker.at].revisions, completions, streams[worker.at])
      <3>1. worker.at \in Providers
        BY <2>1, <2>2, <2>3 DEF Working
      <3>2. Emits(worker.chunks, worker.at, registered[worker.at],
                  provider[worker.at].revisions, completions, streams[worker.at])
        BY <2>1, <2>3 DEF Working
      <3>3. /\ pv[worker.at].revisions \in Seq(Revision)
            /\ provider[worker.at].revisions \in Seq(Revision)
        BY <3>1, <1>2
      <3> QED
        BY <3>1, <3>2, <3>3, EmitsStay
    <2>4. ASSUME NEW p \in Providers, IsRegistered(registered[p], provider[p].revisions)
          PROVE  IsRegistered(registered[p], pv[p].revisions)
      BY <1>4, <2>4
    <2> QED
      BY <2>1, <2>2, <2>3, <2>4 DEF Working
  <1>12. ASSUME NEW p \in Providers
         PROVE  View(streams[p], pending[p], registered[p], Q[p], completions, p, sessions)
    <2>1. View(streams[p], pending[p], registered[p], R[p], completions, p, sessions)
      BY <1>1 DEF Inv, Views
    <2>2. ~Of(Status, p)
      BY DEF Of, Status
    <2>3. IsRegistered(registered[p], R[p]) =>
             /\ IsRegistered(registered[p], Q[p]) /\ registered[p].epoch <= registered[p].epoch
             /\ registered[p].epoch \in Nat /\ registered[p].epoch \in Nat
      BY <1>4
    <2>4. R[p] \in Seq(Revision) /\ Q[p] \in Seq(Revision) /\ Extends(Q[p], R[p])
      BY <1>2, <1>3 DEF Learn
    <2> QED
      BY <2>1, <2>2, <2>3, <2>4, <1>6, ViewStays
  <1> QED
    BY <1>1, <1>10, <1>11, <1>12 DEF Views

LEMMA ProvidersStep ==
  ASSUME Inv, OutsideOnly, NEW p \in Providers, NEW its \in ProviderState,
         provider' = [provider EXCEPT ![p] = its],
         Extends(its.revisions, provider[p].revisions), Ordered(its.revisions),
         Outbox(its.revisions, its.outbox, p),
         \/ Len(its.revisions) = Len(provider[p].revisions)
            /\ (Len(provider[p].outbox) > 0
                   => Len(its.outbox) > 0 /\ its.outbox[1] = provider[p].outbox[1])
         \/ Len(its.outbox) > 0 /\ its.outbox[1].op = "Reset"
  PROVE  Inv'
  <1> DEFINE pv == [provider EXCEPT ![p] = its]
  <1>1. provider \in [Providers -> ProviderState]
    BY DEF Inv, Types, TypeOK
  <1>2. pv \in [Providers -> ProviderState] /\ pv[p] = its
    BY <1>1
  <1>3. \A x \in Providers : x # p => pv[x] = provider[x]
    BY <1>1
  <1>4. provider' = pv
    OBVIOUS
  <1> HIDE DEF pv
  <1>5. ASSUME NEW x \in Providers
        PROVE  /\ provider[x].revisions \in Seq(Revision) /\ pv[x].revisions \in Seq(Revision)
               /\ Extends(pv[x].revisions, provider[x].revisions)
               /\ Ordered(pv[x].revisions) /\ Outbox(pv[x].revisions, pv[x].outbox, x)
    <2>1. provider[x].revisions \in Seq(Revision) /\ pv[x].revisions \in Seq(Revision)
      BY <1>1, <1>2, AllAreRevisions
    <2>2. Ordered(provider[x].revisions) /\ Outbox(provider[x].revisions, provider[x].outbox, x)
      BY DEF Inv, History
    <2> QED
      BY <2>1, <2>2, <1>2, <1>3, ExtendsItself
  <1>6. History(pv)
    BY <1>5 DEF History
  <1>7. \A x \in Providers : UpToDate(registered[x], provider[x]) => UpToDate(registered[x], pv[x])
    BY <1>2, <1>3, <1>5, UpToDateStays
  <1>8. /\ UNCHANGED <<sessions, streams, pending, inbox, sent, stored, clock, requests,
                       completions, notice, worker, active, reconcile, registered, expiries>>
        /\ UNCHANGED stateVars
    BY DEF OutsideOnly, stateVars, channels, workerVars
  <1>9. /\ Queue(completions, Revisions, registered, streams)'
        /\ Working(worker, active, registered, provider, completions, streams)'
        /\ Views'
    BY <1>2, <1>4, <1>5, <1>6, <1>7, <1>8, OutsideStep
  <1>10. TypeOK'
    BY <1>2, <1>4, <1>8 DEF Inv, Types, TypeOK, StateTypeOK
  <1>11. Leases(inbox, requests, expiries)'
    BY <1>8 DEF Inv
  <1>12. Types'
    BY <1>8, <1>10 DEF Inv, Types
  <1> QED
    BY <1>4, <1>6, <1>9, <1>11, <1>12 DEF Inv

LEMMA ChangesKeepInv ==
  ASSUME Inv, NEW p \in Providers, NEW s \in Sessions, NEW v \in Values \cup {None},
         ProviderChanges(p, s, v)
  PROVE  Inv'
  <1> DEFINE rs == provider[p].revisions
             box == provider[p].outbox
             l == Len(rs)
             t == [Truth(p) EXCEPT ![s] = v]
             r == [rs[l] EXCEPT !.known = Append(@, t)]
             qs == [rs EXCEPT ![l] = r]
             n == Sequence(p)
  <1>0. /\ provider[p].revisions = rs /\ provider[p].outbox = box
        /\ l = Len(rs) /\ n = Sequence(p)
        /\ qs = [rs EXCEPT ![Len(rs)] = r]
    OBVIOUS
  <1>1. /\ rs \in Seq(Revision) /\ box \in Seq(Event)
        /\ Epoch(p) = l /\ l \in Nat /\ l > 0 /\ n \in Nat /\ n > 0
        /\ Current(p) = rs[l] /\ Current(p) \in Revision /\ Current(p).most \in Capabilities
        /\ n = Len(rs[l].known) /\ Truth(p) = rs[l].known[n]
        /\ Truth(p) \in [Sessions -> Values \cup {None}]
        /\ Changes(p) = TimeOf(rs[l], n) /\ Changes(p) \in Nat
    BY SMTT(40), PresentRevision DEF Inv, Epoch, Current, Sequence, Truth, Changes
  <1>2. t \in [Sessions -> Values \cup {None}] /\ t[s] = v
        /\ \A x \in Sessions \ {s} : t[x] = Truth(p)[x]
    BY SMTT(40), <1>1
  <1>3. Ordered(rs) /\ Outbox(rs, box, p)
    BY DEF Inv, History
  <1>4. /\ r \in Revision /\ r.most = rs[Len(rs)].most /\ r.since = rs[Len(rs)].since
        /\ r.known = Append(rs[Len(rs)].known, t)
    <2>1. /\ rs[l].known \in Seq([Sessions -> Values \cup {None}])
          /\ rs[l] \in [most : Capabilities, since : Nat,
                        known : Seq([Sessions -> Values \cup {None}])]
      BY <1>1 DEF Revision
    <2>2. Append(rs[l].known, t) \in Seq([Sessions -> Values \cup {None}])
      BY <2>1, <1>2
    <2> QED
      BY <2>1, <2>2 DEF Revision
  <1>7. ASSUME NEW out PROVE Learned(p, s, v, out) = [revisions |-> qs, outbox |-> out]
    BY <1>1 DEF Learned
  <1> HIDE DEF t, r, qs, rs, box, l, n
  <1>5. /\ qs \in Seq(Revision) /\ Len(qs) = l /\ Extends(qs, rs) /\ Ordered(qs)
        /\ qs[l].known = Append(rs[l].known, t)
        /\ qs[l].since = rs[l].since /\ qs[l].most = rs[l].most
    <2>1. /\ qs \in Seq(Revision) /\ Len(qs) = Len(rs) /\ Extends(qs, rs) /\ Ordered(qs)
          /\ qs[Len(rs)].known = Append(rs[Len(rs)].known, t)
          /\ qs[Len(rs)].since = rs[Len(rs)].since /\ qs[Len(rs)].most = rs[Len(rs)].most
      <3>1. rs \in [1..l -> Revision] /\ l \in 1..l /\ l \in Nat
        BY SMTT(40), <1>0, <1>1
      <3>2. /\ qs \in [1..l -> Revision] /\ qs[l] = r
            /\ \A e \in 1..l : e # l => qs[e] = rs[e]
        BY ZenonT(40), <3>1, <1>0, <1>4
      <3>3. /\ qs \in Seq(Revision) /\ Len(qs) = Len(rs)
            /\ \A e \in 1..Len(rs) : e # Len(rs) => qs[e] = rs[e]
        <4>1. qs \in [1..l -> Revision] /\ l \in Nat
          BY <3>1, <3>2
        <4>2. qs \in Seq(Revision) /\ Len(qs) = l
          BY ONLY <4>1
        <4>3. l = Len(rs)
          BY SMTT(40), <1>0
        <4> QED
          BY ZenonT(40), <3>2, <4>2, <4>3
      <3>4. /\ qs[Len(rs)].most = rs[Len(rs)].most /\ qs[Len(rs)].since = rs[Len(rs)].since
            /\ qs[Len(rs)].known = Append(rs[Len(rs)].known, t)
        BY ZenonT(40), <3>2, <1>0, <1>4
      <3>5. Extends(qs, rs) /\ Ordered(qs)
        BY <3>3, <3>4, <1>1, <1>2, <1>3, Learning
      <3> QED
        BY <3>3, <3>4, <3>5
    <2> QED
      BY <2>1, <1>0
  <1>8. Shape /\ Current(p).most # None /\ Current(p).most \in Authorities
    BY <1>1 DEF Inv, Types, Shape, ProviderChanges
  <1>9. ASSUME NEW out \in Seq(Event), provider' = [provider EXCEPT ![p] = Learned(p, s, v, out)],
               Outbox(qs, out, p),
               Len(box) > 0 => Len(out) > 0 /\ out[1] = box[1]
        PROVE  Inv'
    <2> DEFINE its == [revisions |-> qs, outbox |-> out]
    <2>1. its \in ProviderState /\ its.revisions = qs /\ its.outbox = out
      BY <1>5 DEF ProviderState
    <2>2. provider' = [provider EXCEPT ![p] = its]
      BY <1>7, <1>9
    <2>3. OutsideOnly
      BY DEF ProviderChanges
    <2> HIDE DEF its
    <2> QED
      <3>1. /\ Extends(its.revisions, provider[p].revisions) /\ Ordered(its.revisions)
            /\ Outbox(its.revisions, its.outbox, p)
        BY <2>1, <1>0, <1>5, <1>9
      <3>2. /\ Len(its.revisions) = Len(provider[p].revisions)
            /\ Len(provider[p].outbox) > 0
                  => Len(its.outbox) > 0 /\ its.outbox[1] = provider[p].outbox[1]
        BY <2>1, <1>0, <1>5, <1>9
      <3> QED
        BY <2>1, <2>2, <2>3, <3>1, <3>2, ProvidersStep
  <1>10. Outbox(qs, box, p) /\ Len(box) \in Nat
    <2> SUFFICES ASSUME NEW i \in 1..Len(box)
                 PROVE  /\ box[i].source = p
                        /\ box[i].op = "Upsert" => box[i].epoch = Len(qs) /\ TrueEvent(qs, box[i])
      BY <1>1 DEF Outbox
    <2>1. /\ box[i].source = p
          /\ box[i].op = "Upsert" => box[i].epoch = Len(rs) /\ TrueEvent(rs, box[i])
      BY <1>3 DEF Outbox
    <2> QED
      BY <2>1, <1>0, <1>1, <1>5, TrueEventStays
  <1>11. ASSUME NEW m \in Event, provider' = [provider EXCEPT ![p] = Learned(p, s, v, Append(box, m))],
                m.source = p, m.op = "Upsert" => m.epoch = Len(qs) /\ TrueEvent(qs, m)
         PROVE  Inv'
    <2> DEFINE out == Append(box, m)
    <2>1. /\ out \in Seq(Event) /\ Len(out) = Len(box) + 1 /\ Len(box) \in Nat
          /\ \A i \in 1..Len(box) : out[i] = box[i]
          /\ out[Len(box) + 1] = m
      BY <1>1
    <2>2. provider' = [provider EXCEPT ![p] = Learned(p, s, v, out)]
      BY <1>11
    <2> HIDE DEF out
    <2>3. Outbox(qs, out, p)
      <3> SUFFICES ASSUME NEW i \in 1..Len(out)
                   PROVE  /\ out[i].source = p
                          /\ out[i].op = "Upsert" => out[i].epoch = Len(qs) /\ TrueEvent(qs, out[i])
        BY DEF Outbox
      <3>1. i \in 1..Len(box) \/ i = Len(box) + 1
        BY <2>1
      <3> QED
        BY <3>1, <2>1, <1>10, <1>11 DEF Outbox
    <2>4. Len(box) > 0 => Len(out) > 0 /\ out[1] = box[1]
      BY <2>1
    <2> QED
      BY <2>1, <2>2, <2>3, <2>4, <1>9
  <1>12. CASE provider' = [provider EXCEPT ![p] =
                             Learned(p, s, v, Append(box, ChangeEvent(p, s, v)))]
    <2> DEFINE m == ChangeEvent(p, s, v)
               o == Item(s, v, Current(p).most, Changes(p) + 1, None)
    <2>1. /\ o \in Observation /\ o.session = s /\ o.value = v /\ o.at = Changes(p) + 1
          /\ o.until = None
      <3>1. Changes(p) + 1 \in Nat /\ None \in Nat \cup {None}
        BY <1>1
      <3> QED
        BY <3>1, <1>8 DEF Item, Observation
    <2>2. /\ m.source = p /\ m.epoch = l /\ m.seq = n + 1 /\ m.op = "Upsert" /\ m.item = o
      BY <1>0, <1>1 DEF ChangeEvent
    <2>3. m \in Event
      <3>1. UpsertId(n + 1) \in EventId /\ p \in Sources
        <4>1. n + 1 \in Nat /\ p \in Sources
          BY <1>1, <1>8, SourcesAreApart
        <4> QED
          BY <4>1 DEF UpsertId, EventId
      <3> HIDE DEF o
      <3>2. m = [source |-> p, epoch |-> l, id |-> UpsertId(n + 1), seq |-> n + 1,
                 op |-> "Upsert", item |-> o]
        BY <1>0, <1>1 DEF ChangeEvent, o
      <3> QED
        BY <3>1, <3>2, <2>1, <1>1 DEF Event
    <2> HIDE DEF m, o
    <2>4. Change(qs[l], n + 1, o)
      <3>1. /\ Len(qs[l].known) = n + 1 /\ qs[l].known[n + 1] = t /\ qs[l].known[n] = Truth(p)
        <4>1. rs[l].known \in Seq([Sessions -> Values \cup {None}])
          BY <1>1 DEF Revision
        <4> QED
          BY <4>1, <1>1, <1>2, <1>5
      <3>2. n + 1 - 1 = n /\ n \in 1..(n + 1) /\ n + 1 \in 1..(n + 1)
        BY <1>1
      <3>3. TimeOf(qs[l], n + 1) = TimeOf(rs[l], n) + 1
        <4>1. rs[l].since \in Nat /\ qs[l].since = rs[l].since /\ n \in Nat
          BY <1>1, <1>5 DEF Revision
        <4> QED
          BY <4>1 DEF TimeOf
      <3> QED
        BY SMTT(40), <3>1, <3>2, <3>3, <2>1, <1>1, <1>2 DEF Change
    <2>5. TrueEvent(qs, m)
      <3>1. l \in 1..Len(qs) /\ n + 1 \in Nat
        BY <1>1, <1>5
      <3> QED
        BY <3>1, <2>2, <2>4 DEF TrueEvent
    <2> QED
      BY <2>2, <2>3, <2>5, <1>5, <1>11, <1>12 DEF m
  <1>13. CASE provider' = [provider EXCEPT ![p] =
                             Learned(p, s, v, Append(box, Report(p, "Gap")))]
    <2>1. Report(p, "Gap") \in Event /\ Report(p, "Gap").source = p /\ Report(p, "Gap").op = "Gap"
      BY <1>1, <1>8 DEF Report, Event, UpsertId, EventId, Shape
    <2> QED
      BY <2>1, <1>11, <1>13
  <1>14. CASE provider' = [provider EXCEPT ![p] = Learned(p, s, v, box)]
    BY <1>1, <1>9, <1>10, <1>14
  <1> QED
    BY <1>0, <1>12, <1>13, <1>14 DEF ProviderChanges

LEMMA RestartsKeepInv ==
  ASSUME Inv, NEW p \in Providers, NEW most \in Capabilities, ProviderRestarts(p, most)
  PROVE  Inv'
  <1> DEFINE rs == provider[p].revisions
             r == [most |-> most, since |-> Changes(p), known |-> <<Truth(p)>>]
             out == <<Report(p, "Reset")>>
             its == [revisions |-> Append(rs, r), outbox |-> out]
  <1>1. /\ rs \in Seq(Revision) /\ Epoch(p) = Len(rs) /\ Epoch(p) \in Nat
        /\ Truth(p) \in [Sessions -> Values \cup {None}] /\ Changes(p) \in Nat
        /\ Changes(p) = TimeOf(rs[Len(rs)], Len(rs[Len(rs)].known))
    BY PresentRevision DEF Inv, Epoch, Current, Sequence, Truth, Changes
  <1>2. r \in Revision /\ Len(r.known) > 0 /\ r.since = Changes(p)
    BY <1>1 DEF Revision
  <1>3. Ordered(rs)
    BY DEF Inv, History
  <1> HIDE DEF r
  <1>4. Append(rs, r) \in Seq(Revision) /\ Extends(Append(rs, r), rs) /\ Ordered(Append(rs, r))
    BY <1>1, <1>2, <1>3, Restarting
  <1>5. /\ Report(p, "Reset") \in Event /\ Report(p, "Reset").source = p
        /\ Report(p, "Reset").op = "Reset"
    BY <1>1 DEF Report, Event, UpsertId, EventId, Inv, Types, Shape
  <1>6. out \in Seq(Event) /\ Len(out) = 1 /\ out[1] = Report(p, "Reset")
    BY <1>5
  <1> HIDE DEF out
  <1>7. Outbox(Append(rs, r), out, p)
    BY <1>5, <1>6 DEF Outbox
  <1>8. /\ its \in ProviderState /\ its.revisions = Append(rs, r) /\ its.outbox = out
    BY <1>4, <1>6 DEF ProviderState
  <1>9. provider' = [provider EXCEPT ![p] = its] /\ OutsideOnly
    BY DEF ProviderRestarts, r, out
  <1> HIDE DEF its
  <1> QED
    <2>1. Len(its.outbox) > 0 /\ its.outbox[1].op = "Reset"
      <3>1. its.outbox = out
        BY <1>8
      <3> QED
        BY <3>1, <1>5, <1>6
    <2>2. Outbox(its.revisions, its.outbox, p) /\ Ordered(its.revisions)
          /\ Extends(its.revisions, provider[p].revisions)
      BY <1>4, <1>7, <1>8
    <2>3. its \in ProviderState
      BY <1>8
    <2> QED
      BY <2>1, <2>2, <2>3, <1>9, ProvidersStep

LEMMA TimePassesKeepsInv ==
  ASSUME Inv, Tick \/ \E h \in Hooks, s \in Sessions, v \in Values, e \in 1..HookEpochs :
                         HookReports(h, s, v, e)
  PROVE  Inv'
  <1>1. /\ UNCHANGED <<sessions, streams, pending, provider, stored, requests,
                       completions, notice, worker, active, reconcile, registered, expiries>>
    BY DEF Tick, HookReports, stateVars, channels, workerVars
  <1>2. /\ inbox' \in SUBSET Event /\ clock' \in Nat /\ sent' \in Nat
        /\ \A e \in inbox' : e.source \in Hooks /\ e.op = "Upsert" /\ e.item \in Observation
    <2>1. /\ inbox \in SUBSET Event /\ clock \in Nat /\ sent \in Nat /\ Lease \in Nat
          /\ \A e \in inbox : e.source \in Hooks /\ e.op = "Upsert" /\ e.item \in Observation
      BY DEF Inv, Types, TypeOK, Leases, Shape
    <2>2. CASE Tick
      BY <2>1, <2>2 DEF Tick
    <2>3. ASSUME NEW h \in Hooks, NEW s \in Sessions, NEW v \in Values, NEW e \in 1..HookEpochs,
                 HookReports(h, s, v, e)
          PROVE  /\ inbox' \in SUBSET Event /\ clock' \in Nat /\ sent' \in Nat
                 /\ \A x \in inbox' : x.source \in Hooks /\ x.op = "Upsert" /\ x.item \in Observation
      <3> DEFINE o == Item(s, v, "Authoritative", clock, clock + Lease)
                 m == [source |-> h, epoch |-> e, id |-> UpsertId(sent'), seq |-> None,
                       op |-> "Upsert", item |-> o]
      <3>1. sent' = sent + 1 /\ sent' \in Nat /\ inbox' = inbox \cup {m} /\ clock' = clock
        BY <2>1, <2>3 DEF HookReports
      <3>2. o \in Observation
        <4>1. "Authoritative" \in Authorities /\ clock + Lease \in Nat /\ v \in Values \cup {None}
          BY <2>1 DEF Authorities
        <4> QED
          BY <4>1, <2>1, Observations
      <3>3. UpsertId(sent') \in EventId /\ h \in Sources /\ e \in Nat
        BY <3>1 DEF UpsertId, EventId, Inv, Types, Shape
      <3> HIDE DEF o
      <3>4. m \in Event /\ m.source = h /\ m.op = "Upsert" /\ m.item = o
        BY <3>2, <3>3 DEF Event
      <3> HIDE DEF m
      <3> QED
        BY <3>1, <3>2, <3>4, <2>1
    <2> QED
      BY <2>2, <2>3
  <1>3. Types'
    BY <1>1, <1>2 DEF Inv, Types, TypeOK, StateTypeOK
  <1>4. Leases(inbox, requests, expiries)'
    BY <1>1, <1>2 DEF Inv, Leases
  <1>5. Revisions' = Revisions
    BY <1>1 DEF Revisions
  <1> QED
    BY <1>1, <1>3, <1>4, <1>5 DEF Inv, Views

-------------------------------------------------------------------------------
(* The worker *)

\* What the worker posts keeps the queue and the view as they have to be.
LEMMA WorkerStep ==
  ASSUME Inv, Types', Revisions' = Revisions, UNCHANGED stateVars,
         Rise(registered', Revisions, registered, Revisions),
         NEW m, Longer(completions', completions, m),
         Fresh(m, completions, Revisions, registered, streams)
  PROVE  Queue(completions, Revisions, registered, streams)' /\ Views'
  <1>1. streams' = streams /\ pending' = pending /\ sessions' = sessions
    BY DEF stateVars
  <1>2. Revisions \in AllRevisions /\ \A p \in Providers : Revisions[p] \in Seq(Revision)
    BY AllAreRevisions DEF Inv, Types, TypeOK, AllRevisions, Revisions
  <1>3. Learn(Revisions, Revisions)
    BY <1>2, ExtendsItself DEF Learn
  <1>4. ASSUME NEW p \in Providers, IsRegistered(registered[p], Revisions[p])
        PROVE  registered[p].epoch \in Nat /\ registered'[p].epoch \in Nat
    <2>1. IsRegistered(registered'[p], Revisions[p])
      BY <1>4 DEF Rise
    <2> QED
      BY <1>4, <2>1 DEF IsRegistered
  <1>5. ASSUME NEW i \in 1..Len(completions'), NEW p \in Providers, Of(completions'[i], p)
        PROVE  completions'[i].body.epoch \in Nat
    <2>1. completions' \in Seq(Message)
      BY DEF Types, TypeOK
    <2>2. completions'[i] \in Message
      BY <2>1
    <2> QED
      BY <2>2, <1>5 DEF Of, Message, Event, Chunk
  <1>6. Queue(completions, Revisions, registered, streams)
    BY DEF Inv
  <1>7. Queue(completions', Revisions, registered', streams)
    BY <1>2, <1>3, <1>4, <1>5, <1>6, QueueGoesOn
  <1>8. ASSUME NEW p \in Providers
        PROVE  View(streams[p], pending[p], registered'[p], Revisions[p], completions', p, sessions)
    <2>1. View(streams[p], pending[p], registered[p], Revisions[p], completions, p, sessions)
      BY DEF Inv, Views
    <2>2. Of(m, p) /\ streams[p] # None => NotAfter(streams[p].epoch, streams[p].last, m)
      BY DEF Fresh
    <2>3. IsRegistered(registered[p], Revisions[p]) =>
             /\ IsRegistered(registered'[p], Revisions[p])
             /\ registered[p].epoch <= registered'[p].epoch
             /\ registered[p].epoch \in Nat /\ registered'[p].epoch \in Nat
      BY <1>4 DEF Rise
    <2>4. Revisions[p] \in Seq(Revision) /\ Extends(Revisions[p], Revisions[p])
      BY <1>2, ExtendsItself
    <2> QED
      BY <2>1, <2>2, <2>3, <2>4, ViewStays
  <1> QED
    BY <1>1, <1>7, <1>8 DEF Views

LEMMA LongerAgain ==
  ASSUME NEW q, NEW r, NEW s, NEW m, Longer(r, q, m), NEW n, Plain(n), Longer(s, r, n)
  PROVE  Longer(s, q, m)
  <1>1. /\ Len(q) \in Nat /\ Len(r) \in Nat /\ Len(s) \in Nat
        /\ Len(q) <= Len(r) /\ Len(r) <= Len(s)
    BY DEF Longer
  <1>2. \A i \in 1..Len(q) : s[i] = q[i]
    BY <1>1 DEF Longer
  <1>3. ASSUME NEW i \in 1..Len(s)
        PROVE  i <= Len(q) \/ (i = Len(q) + 1 /\ s[i] = m) \/ Plain(s[i])
    <2>1. CASE i <= Len(r)
      <3>1. i \in 1..Len(r) /\ s[i] = r[i]
        BY <2>1, <1>1 DEF Longer
      <3> QED
        BY <3>1 DEF Longer
    <2>2. CASE ~(i <= Len(r))
      BY <2>2 DEF Longer
    <2> QED
      BY <2>1, <2>2
  <1> QED
    BY <1>1, <1>2, <1>3 DEF Longer

LEMMA RegisteredStays ==
  ASSUME Inv, registered' = registered, Revisions' = Revisions
  PROVE  Rise(registered', Revisions, registered, Revisions)
  <1>1. ASSUME NEW p \in Providers, IsRegistered(registered[p], Revisions[p])
        PROVE  registered[p].epoch <= registered[p].epoch
    BY <1>1 DEF IsRegistered
  <1> QED
    BY <1>1 DEF Rise

LEMMA AnnouncedLater ==
  ASSUME NEW q, NEW r, NEW m, Longer(r, q, m), NEW st, NEW p, NEW epoch,
         Announced(st, q, p, epoch, Len(q) + 1)
  PROVE  Announced(st, r, p, epoch, Len(r) + 1)
  BY DEF Announced, Longer

\* The providers that are polled after a step of the worker.
Polled(polled, g, pv, q, S) ==
    \A p \in polled : UpToDate(g[p], pv[p]) /\ Announced(S[p], q, p, g[p].epoch, Len(q) + 1)

LEMMA PolledStay ==
  ASSUME Inv, UNCHANGED <<streams, registered, provider>>, active' \subseteq active,
         NEW m, Longer(completions', completions, m)
  PROVE  Polled(active', registered', provider', completions', streams')
  <1>1. \A p \in active : /\ UpToDate(registered[p], provider[p])
                          /\ Announced(streams[p], completions, p, registered[p].epoch,
                                       Len(completions) + 1)
    BY DEF Inv, Working
  <1>2. \A p \in active : Announced(streams[p], completions', p, registered[p].epoch,
                                    Len(completions') + 1)
    BY <1>1, AnnouncedLater
  <1> QED
    BY <1>1, <1>2 DEF Polled

\* In most steps the worker is at its loop, or asks the providers that are not polled.
LEMMA WorksOn ==
  ASSUME Polled(active', registered', provider', completions', streams'),
         worker'.todo \cap active' = {},
         worker'.pc = "refresh" \/ (worker'.pc = "loop" /\ worker'.todo = {})
  PROVE  Working(worker, active, registered, provider, completions, streams)'
  BY DEF Working, Polled

\* A step of the worker that posts nothing about a session
LEMMA PlainStep ==
  ASSUME Inv, TypeOK', clock' = clock, sent' = sent, inbox' = inbox,
         provider' = provider, UNCHANGED stateVars, registered' = registered,
         NEW m, Longer(completions', completions, m),
         Fresh(m, completions, Revisions, registered, streams),
         Leases(inbox, requests, expiries)',
         active' \subseteq active,
         worker'.todo \cap active' = {},
         worker'.pc = "refresh" \/ (worker'.pc = "loop" /\ worker'.todo = {})
  PROVE  Inv'
  <1>1. Types'
    BY DEF Inv, Types
  <1>2. Revisions' = Revisions /\ History(provider)'
    BY DEF Revisions, Inv
  <1>3. Queue(completions, Revisions, registered, streams)' /\ Views'
    BY <1>1, <1>2, RegisteredStays, WorkerStep
  <1>4. streams' = streams
    BY DEF stateVars
  <1>5. Working(worker, active, registered, provider, completions, streams)'
    BY <1>4, PolledStay, WorksOn
  <1> QED
    BY <1>1, <1>2, <1>3, <1>5 DEF Inv

LEMMA PostsPlain ==
  ASSUME Inv, NEW m \in Message, Plain(m)
  PROVE  /\ Post(completions, m) \in Seq(Message) /\ Len(Post(completions, m)) <= Capacity
         /\ Longer(Post(completions, m), completions, m)
         /\ Fresh(m, completions, Revisions, registered, streams)
  BY Posted, PlainIsFresh DEF Inv, Types, TypeOK

LEMMA StaysQueue ==
  ASSUME Inv
  PROVE  /\ Longer(completions, completions, Status)
         /\ Fresh(Status, completions, Revisions, registered, streams)
  BY StaysTheSame, PlainIsFresh, PlainMessages DEF Inv, Types, TypeOK

WorkerState ==
    [pc : {"loop", "refresh", "snapshot", "emit", "gap"}, at : Providers \cup {None},
     todo : SUBSET Providers, chunks : Seq(Chunk), asked : BOOLEAN]

LEMMA IdleWorkers ==
  /\ Idle \in WorkerState /\ Idle.pc = "loop" /\ Idle.todo = {}
  /\ \A asked \in BOOLEAN :
        LET w == [Idle EXCEPT !.pc = "refresh", !.todo = Providers, !.asked = asked]
        IN  w \in WorkerState /\ w.pc = "refresh"
  /\ \A p \in Providers :
        LET w == [Idle EXCEPT !.pc = "gap", !.at = p]
        IN  w \in WorkerState /\ w.pc = "gap" /\ w.at = p /\ w.todo = {}
  <1>1. /\ Idle \in WorkerState /\ Idle.pc = "loop" /\ Idle.todo = {}
    BY DEF Idle, WorkerState
  <1>2. ASSUME NEW asked \in BOOLEAN, NEW w,
               w = [Idle EXCEPT !.pc = "refresh", !.todo = Providers, !.asked = asked]
        PROVE  w \in WorkerState /\ w.pc = "refresh"
    BY <1>1, <1>2 DEF WorkerState
  <1>3. ASSUME NEW p \in Providers, NEW w, w = [Idle EXCEPT !.pc = "gap", !.at = p]
        PROVE  w \in WorkerState /\ w.pc = "gap" /\ w.at = p /\ w.todo = {}
    BY <1>1, <1>3 DEF WorkerState
  <1> QED
    BY <1>1, <1>2, <1>3

LEMMA RefreshStarts ==
  ASSUME Inv, NEW asked \in BOOLEAN, StartRefresh(asked), UNCHANGED stateVars,
         UNCHANGED <<provider, inbox, sent, clock>>, stored' \in SUBSET Sessions,
         requests' \in Seq(RequestMessage), Len(requests') <= RequestCapacity,
         \A i \in 1..Len(requests') : \E j \in 1..Len(requests) : requests'[i] = requests[j]
  PROVE  Inv'
  <1>1. /\ completions' \in Seq(Message) /\ Len(completions') <= Capacity
        /\ Longer(completions', completions, Status)
        /\ Fresh(Status, completions, Revisions, registered, streams)
    BY Messages, PlainMessages, PostsPlain DEF StartRefresh
  <1>2. /\ worker' \in WorkerState /\ worker'.pc = "refresh" /\ active' = {}
        /\ UNCHANGED <<reconcile, registered, expiries, notice>>
    BY IdleWorkers DEF StartRefresh
  <1>3. TypeOK'
    BY <1>1, <1>2 DEF Inv, Types, TypeOK, StateTypeOK, stateVars, WorkerState
  <1>4. Leases(inbox, requests, expiries)'
    <2>1. Leases(inbox, requests, expiries)
      BY DEF Inv
    <2>2. \A i \in 1..Len(requests') : requests'[i].kind = "ScheduleExpiry"
                                         => requests'[i].key.source \notin Providers
      BY <2>1 DEF Leases
    <2> QED
      BY <1>2, <2>1, <2>2 DEF Leases
  <1> QED
    BY <1>1, <1>2, <1>3, <1>4, PlainStep

LEMMA RequestsKeepInv ==
  ASSUME Inv, HandleRequest PROVE Inv'
  <1> DEFINE r == Head(requests)
  <1>1. /\ requests \in Seq(RequestMessage) /\ requests # <<>> /\ requests' = Tail(requests)
        /\ Len(requests) <= RequestCapacity /\ RequestCapacity \in Nat
        /\ Leases(inbox, requests, expiries)
        /\ worker.pc = "loop" /\ worker.todo = {}
        /\ UNCHANGED <<sessions, streams, pending, provider, inbox, sent, clock>>
        /\ UNCHANGED stateVars
    BY DEF Inv, Types, TypeOK, Shape, HandleRequest, AtLoop, stateVars, Working
  <1>2. /\ r \in RequestMessage /\ Len(requests) \in Nat /\ Len(requests) > 0
        /\ r = requests[1] /\ 1 \in 1..Len(requests)
        /\ requests' \in Seq(RequestMessage) /\ Len(requests') = Len(requests) - 1
        /\ \A i \in 1..Len(requests') : requests'[i] = requests[i + 1]
    BY <1>1
  <1>3. /\ Len(requests') <= RequestCapacity
        /\ \A i \in 1..Len(requests') : \E j \in 1..Len(requests) : requests'[i] = requests[j]
    <2>1. \A i \in 1..Len(requests') : i + 1 \in 1..Len(requests)
      BY <1>2
    <2> QED
      BY <1>1, <1>2, <2>1
  <1> HIDE DEF r
  <1>4. CASE r.kind = "RefreshProviders" /\ StartRefresh(TRUE) /\ UNCHANGED stored
    <2>1. stored' \in SUBSET Sessions
      BY <1>4 DEF Inv, Types, TypeOK
    <2> QED
      BY <1>1, <1>2, <1>3, <1>4, <2>1, RefreshStarts
  <1>5. ASSUME StaysAtLoop, notice' = notice, stored' \in SUBSET Sessions,
               expiries' \in [ExpiryKey -> Nat \cup {None}],
               \A k \in ExpiryKey : k.source \in Providers => expiries'[k] = None,
               completions' \in Seq(Message), Len(completions') <= Capacity,
               NEW m, Longer(completions', completions, m),
               Fresh(m, completions, Revisions, registered, streams)
        PROVE  Inv'
    <2>1. UNCHANGED <<worker, active, reconcile, registered>>
      BY <1>5 DEF StaysAtLoop
    <2>2. TypeOK'
      BY <1>1, <1>2, <1>3, <1>5, <2>1 DEF Inv, Types, TypeOK, StateTypeOK
    <2>3. Leases(inbox, requests, expiries)'
      <3>1. \A i \in 1..Len(requests') : requests'[i].kind = "ScheduleExpiry"
                                           => requests'[i].key.source \notin Providers
        BY <1>1, <1>3 DEF Leases
      <3> QED
        BY <1>1, <1>5, <3>1 DEF Leases
    <2> QED
      BY <1>1, <1>5, <2>1, <2>2, <2>3, PlainStep
  <1>6. /\ expiries \in [ExpiryKey -> Nat \cup {None}] /\ stored \in SUBSET Sessions
        /\ \A k \in ExpiryKey : k.source \in Providers => expiries[k] = None
        /\ completions \in Seq(Message) /\ Len(completions) <= Capacity
    BY DEF Inv, Types, TypeOK, Leases
  <1>7. CASE /\ r.kind = "RefreshMetadata"
             /\ completions' = IF StoreWorks THEN Post(completions, Loaded) ELSE completions
             /\ StaysAtLoop /\ UNCHANGED <<expiries, notice, stored>>
    <2>1. CASE StoreWorks
      BY <2>1, <1>5, <1>6, <1>7, Messages, PlainMessages, PostsPlain
    <2>2. CASE ~StoreWorks
      BY <2>2, <1>5, <1>6, <1>7, StaysQueue
    <2> QED
      BY <2>1, <2>2
  <1>8. CASE /\ r.kind = "PersistMetadata"
             /\ stored' \in {stored, IF StoreWorks THEN stored \cup {r.session} ELSE stored}
             /\ completions' = Post(completions, Status)
             /\ StaysAtLoop /\ UNCHANGED <<expiries, notice>>
    <2>1. r.session \in Sessions
      BY <1>2, <1>8 DEF RequestMessage
    <2>2. stored' \in SUBSET Sessions
      BY <2>1, <1>6, <1>8
    <2> QED
      BY <2>2, <1>5, <1>6, <1>8, Messages, PlainMessages, PostsPlain
  <1>9. CASE /\ r.kind = "ScheduleExpiry"
             /\ expiries' = [expiries EXCEPT ![r.key] = Later(@, r.until)]
             /\ StaysAtLoop /\ UNCHANGED <<completions, notice, stored>>
    <2>1. r.key \in ExpiryKey /\ r.until \in Nat /\ r.key.source \notin Providers
      BY <1>1, <1>2, <1>9 DEF RequestMessage, Leases
    <2>2. Later(expiries[r.key], r.until) \in Nat \cup {None}
      BY <2>1, <1>6 DEF Later
    <2>3. expiries' \in [ExpiryKey -> Nat \cup {None}]
      BY <2>2, <1>6, <1>9
    <2>4. \A k \in ExpiryKey : k.source \in Providers => expiries'[k] = None
      BY <2>1, <1>6, <1>9
    <2> QED
      BY <2>3, <2>4, <1>5, <1>6, <1>9, StaysQueue
  <1> QED
    BY <1>4, <1>7, <1>8, <1>9 DEF HandleRequest, r

LEMMA ReceiverKeepsInv ==
  ASSUME Inv, PollReceiver PROVE Inv'
  <1>1. PICK e \in inbox : /\ inbox' = inbox \ {e}
                           /\ PostEnvelope(Envelope(e), {e.item.session})
    BY DEF PollReceiver
  <1>2. /\ e \in Event /\ e.source \in Hooks /\ e.op = "Upsert" /\ e.item \in Observation
        /\ e.item.session \in Sessions /\ Shape
        /\ Leases(inbox, requests, expiries) /\ worker.pc = "loop" /\ worker.todo = {}
        /\ completions \in Seq(Message) /\ Len(completions) <= Capacity
    BY DEF Inv, Types, TypeOK, Leases, Observation, PollReceiver, AtLoop, Working
  <1>3. /\ UNCHANGED <<sessions, streams, pending, provider, sent, stored, clock, requests,
                       worker, active, reconcile, registered, expiries>>
        /\ UNCHANGED stateVars
    BY DEF PollReceiver, stateVars, workerVars
  <1> DEFINE m == Envelope(e)
  <1>4. m.kind = "Event" /\ m.body = e /\ m \in Message
    BY <1>2, Messages DEF Envelope
  <1>5. completions' = Post(completions, m) /\ notice' = IF Fits THEN notice ELSE Dropped({e.item.session})
    BY <1>1 DEF PostEnvelope
  <1> HIDE DEF m
  <1>6. /\ completions' \in Seq(Message) /\ Len(completions') <= Capacity
        /\ Longer(completions', completions, m)
    BY <1>2, <1>4, <1>5, Posted
  <1>7. e.source \notin Providers
    BY <1>2 DEF Shape
  <1>8. Fresh(m, completions, Revisions, registered, streams)
    <2>1. Good(Revisions, m)
      BY <1>2, <1>4, <1>7 DEF Good
    <2>2. \A p \in Providers : ~Of(m, p)
      BY <1>4, <1>7 DEF Of
    <2> QED
      BY <2>1, <2>2 DEF Fresh
  <1>9. notice' \in [sessions : SUBSET Sessions, unattributed : BOOLEAN]
    BY <1>2, <1>5 DEF Dropped, Inv, Types, TypeOK
  <1>10. TypeOK'
    BY <1>1, <1>3, <1>6, <1>9 DEF Inv, Types, TypeOK, StateTypeOK
  <1>11. Leases(inbox, requests, expiries)'
    BY <1>1, <1>2, <1>3 DEF Leases
  <1>12. Revisions' = Revisions
    BY <1>3 DEF Revisions
  <1>13. Types'
    BY <1>3, <1>10 DEF Inv, Types
  <1>14. Queue(completions, Revisions, registered, streams)' /\ Views'
    BY <1>3, <1>6, <1>8, <1>12, <1>13, RegisteredStays, WorkerStep
  <1>15. Working(worker, active, registered, provider, completions, streams)'
    <2>1. Working(worker, active, registered, provider, completions, streams)
      BY DEF Inv
    <2>2. active' \subseteq active
      BY <1>3
    <2>3. Polled(active', registered', provider', completions', streams')
      BY <1>3, <1>6, <2>2, PolledStay
    <2> QED
      BY <1>2, <1>3, <2>1, <2>3, WorksOn
  <1> QED
    BY <1>3, <1>11, <1>13, <1>14, <1>15 DEF Inv

LEMMA PollFailsKeepsInv ==
  ASSUME Inv, NEW p \in Providers, PollFails(p) PROVE Inv'
  <1>1. /\ completions' \in Seq(Message) /\ Len(completions') <= Capacity
        /\ Longer(completions', completions, Status)
        /\ Fresh(Status, completions, Revisions, registered, streams)
    BY Messages, PlainMessages, PostsPlain DEF PollFails
  <1>2. /\ UNCHANGED <<sessions, streams, pending, provider, inbox, sent, stored, clock, requests,
                       worker, registered, expiries, notice>>
        /\ UNCHANGED stateVars /\ active' = active \ {p} /\ reconcile' = TRUE
        /\ worker.pc = "loop" /\ worker.todo = {}
    BY DEF PollFails, Interrupted, WorkerOnly, stateVars, AtLoop, Inv, Working
  <1>3. TypeOK'
    BY <1>1, <1>2 DEF Inv, Types, TypeOK, StateTypeOK
  <1>4. Leases(inbox, requests, expiries)'
    BY <1>2 DEF Inv
  <1> QED
    BY <1>1, <1>2, <1>3, <1>4, PlainStep

LEMMA TimedRefreshKeepsInv ==
  ASSUME Inv, StartTimedRefresh PROVE Inv'
  <1>1. /\ StartRefresh(FALSE) /\ UNCHANGED stateVars
        /\ UNCHANGED <<provider, inbox, sent, clock, stored, requests>>
    BY DEF StartTimedRefresh, WorkerOnly, stateVars
  <1>2. /\ stored' \in SUBSET Sessions /\ requests' \in Seq(RequestMessage)
        /\ Len(requests') <= RequestCapacity /\ requests' = requests
    BY <1>1 DEF Inv, Types, TypeOK
  <1> QED
    BY <1>1, <1>2, RefreshStarts

LEMMA ReloadKeepsInv ==
  ASSUME Inv, ReloadMetadata PROVE Inv'
  <1>1. /\ UNCHANGED <<sessions, streams, pending, provider, inbox, sent, stored, clock, requests,
                       notice, worker, active, reconcile, registered, expiries>>
        /\ UNCHANGED stateVars
        /\ worker.pc = "loop" /\ worker.todo = {} /\ stored \in SUBSET Sessions
    BY DEF ReloadMetadata, WorkerOnly, workerVars, stateVars, Due, AtLoop, Inv, Working, Types, TypeOK
  <1>2. /\ completions' \in Seq(Message) /\ Len(completions') <= Capacity
        /\ Longer(completions', completions, Loaded)
        /\ Fresh(Loaded, completions, Revisions, registered, streams)
    BY <1>1, Messages, PlainMessages, PostsPlain DEF ReloadMetadata
  <1>3. TypeOK'
    BY <1>1, <1>2 DEF Inv, Types, TypeOK, StateTypeOK
  <1>4. Leases(inbox, requests, expiries)'
    BY <1>1 DEF Inv
  <1> QED
    BY <1>1, <1>2, <1>3, <1>4, PlainStep

LEMMA ExpiriesKeepInv ==
  ASSUME Inv, EmitDueExpiries PROVE Inv'
  <1> DEFINE due == {k \in ExpiryKey : expiries[k] # None /\ expiries[k] <= clock}
             m == Expired(due)
  <1>1. /\ UNCHANGED <<sessions, streams, pending, provider, inbox, sent, stored, clock, requests,
                       notice, worker, active, reconcile, registered>>
        /\ UNCHANGED stateVars
        /\ worker.pc = "loop" /\ worker.todo = {} /\ Shape
        /\ completions \in Seq(Message) /\ Len(completions) <= Capacity
        /\ Leases(inbox, requests, expiries)
    BY DEF EmitDueExpiries, WorkerOnly, stateVars, AtLoop, Inv, Working, Types, TypeOK
  <1>2. m \in Message /\ m.kind = "EvidenceExpired" /\ m.keys = due
    BY Messages DEF Expired
  <1>3. \A k \in due : k.source \notin Providers
    BY <1>1 DEF Leases
  <1>4. /\ expiries' = [k \in ExpiryKey |-> IF k \in due THEN None ELSE expiries[k]]
        /\ completions' = Post(completions, m)
    BY DEF EmitDueExpiries
  <1>5. /\ expiries' \in [ExpiryKey -> Nat \cup {None}]
        /\ \A k \in ExpiryKey : k.source \in Providers => expiries'[k] = None
    BY <1>1, <1>4 DEF Inv, Types, TypeOK, Leases
  <1> HIDE DEF due, m
  <1>6. Fresh(m, completions, Revisions, registered, streams)
    BY <1>2, <1>3 DEF Fresh, Good, Of
  <1>7. /\ completions' \in Seq(Message) /\ Len(completions') <= Capacity
        /\ Longer(completions', completions, m)
    BY <1>1, <1>2, <1>4, Posted
  <1>8. TypeOK'
    BY <1>1, <1>5, <1>7 DEF Inv, Types, TypeOK, StateTypeOK
  <1>9. Leases(inbox, requests, expiries)'
    BY <1>1, <1>5 DEF Leases
  <1> QED
    BY <1>1, <1>6, <1>7, <1>8, <1>9, PlainStep

LEMMA FinishKeepsInv ==
  ASSUME Inv, FinishRefresh PROVE Inv'
  <1>1. /\ completions' \in Seq(Message) /\ Len(completions') <= Capacity
        /\ Longer(completions', completions, Status)
        /\ Fresh(Status, completions, Revisions, registered, streams)
    BY Messages, PlainMessages, PostsPlain DEF FinishRefresh
  <1>2. /\ UNCHANGED <<sessions, streams, pending, provider, inbox, sent, stored, clock, requests,
                       active, registered, expiries, notice>>
        /\ UNCHANGED stateVars
        /\ worker' = Idle /\ reconcile' = (active = {} \/ (worker.asked /\ reconcile))
    BY DEF FinishRefresh, WorkerOnly, stateVars
  <1>3. worker' \in WorkerState /\ worker'.pc = "loop" /\ worker'.todo = {} /\ reconcile' \in BOOLEAN
    BY <1>2, IdleWorkers
  <1>4. TypeOK'
    BY <1>1, <1>2, <1>3 DEF Inv, Types, TypeOK, StateTypeOK, WorkerState
  <1>5. Leases(inbox, requests, expiries)'
    BY <1>2 DEF Inv
  <1> QED
    BY <1>1, <1>2, <1>3, <1>4, <1>5, PlainStep

LEMMA DeadlineKeepsInv ==
  ASSUME Inv, DeadlinePasses PROVE Inv'
  <1>1. /\ UNCHANGED <<sessions, streams, pending, provider, inbox, sent, stored, clock, requests,
                       completions, active, reconcile, registered, expiries, notice>>
        /\ UNCHANGED stateVars
        /\ worker' = [worker EXCEPT !.todo = {}] /\ worker.pc = "refresh"
    BY DEF DeadlinePasses, RefreshOnly, WorkerOnly, stateVars
  <1>2. worker \in WorkerState
    BY DEF Inv, Types, TypeOK, WorkerState
  <1>3. worker' \in WorkerState /\ worker'.pc = "refresh" /\ worker'.todo = {}
    BY <1>1, <1>2 DEF WorkerState
  <1>4. TypeOK'
    BY <1>1, <1>3 DEF Inv, Types, TypeOK, StateTypeOK, WorkerState
  <1>5. Leases(inbox, requests, expiries)'
    BY <1>1 DEF Inv
  <1> QED
    BY <1>1, <1>3, <1>4, <1>5, StaysQueue, PlainStep

LEMMA ControlEvents ==
  ASSUME Shape, NEW p \in Providers, NEW op \in {"Gap", "Reset"}, registered[p].epoch \in Nat
  PROVE  /\ Envelope(Control(p, op)) \in Message
         /\ Envelope(Control(p, op)).kind = "Event"
         /\ Envelope(Control(p, op)).body = Control(p, op)
         /\ Control(p, op).source = p /\ Control(p, op).epoch = registered[p].epoch
         /\ Control(p, op).op = op /\ Control(p, op).seq = None
  <1>1. p \in Sources
    BY SourcesAreApart
  <1>2. Control(p, op) \in Event
    BY <1>1 DEF Control, Event, EventId
  <1> QED
    BY <1>2, Messages DEF Envelope, Control

\* An event of the revision that a provider is registered with may be posted once the
\* view is to be in that revision.
LEMMA EventIsFresh ==
  ASSUME Inv, NEW p \in Providers, NEW e \in Event, e.source = p,
         IsRegistered(registered[p], provider[p].revisions), e.epoch = registered[p].epoch,
         TrueEvent(provider[p].revisions, e),
         Announced(streams[p], completions, p, registered[p].epoch, Len(completions) + 1)
  PROVE  Fresh(Envelope(e), completions, Revisions, registered, streams)
  <1> DEFINE m == Envelope(e)
  <1>1. m.kind = "Event" /\ m.body = e
    BY DEF Envelope
  <1>2. Revisions[p] = provider[p].revisions
    BY DEF Revisions
  <1> HIDE DEF m
  <1>3. Good(Revisions, m)
    <2>1. e.op = "Upsert" => e.item \in Observation
      BY ZenonT(40) DEF TrueEvent, Change
    <2> QED
      BY SMTT(40), <1>1, <1>2, <2>1 DEF Good
  <1>4. ASSUME NEW x \in Providers, Of(m, x) PROVE x = p
    BY <1>1, <1>4 DEF Of
  <1>5. ASSUME NEW i \in 1..Len(completions), Of(completions[i], p)
        PROVE  NotAfter(completions[i].body.epoch, PositionOf(completions[i]), m)
    BY <1>1, <1>5 DEF Inv, Queue, Registered, NotAfter
  <1>6. streams[p] # None => NotAfter(streams[p].epoch, streams[p].last, m)
    <2>1. Stands(streams[p], registered[p], provider[p].revisions)
      BY <1>2 DEF Inv, Views, View
    <2> QED
      BY <1>1, <2>1 DEF Stands, NotAfter
  <1>7. registered[p].epoch <= registered[p].epoch
    BY DEF IsRegistered
  <1> QED
    BY <1>1, <1>2, <1>3, <1>4, <1>5, <1>6, <1>7 DEF Fresh, m

\* The provider that is polled has its event taken.
LEMMA TakenEvent ==
  ASSUME Inv, NEW p \in active, Len(provider[p].outbox) > 0,
         provider' = [provider EXCEPT ![p].outbox = Tail(@)]
  PROVE  /\ provider' \in [Providers -> ProviderState]
         /\ Revisions' = Revisions /\ History(provider)'
         /\ \A x \in Providers : provider'[x].revisions = provider[x].revisions
         /\ \A x \in Providers : x # p => provider'[x] = provider[x]
  <1>1. p \in Providers /\ provider \in [Providers -> ProviderState]
    BY DEF Inv, Types, TypeOK
  <1> DEFINE box == provider[p].outbox
             its == [provider[p] EXCEPT !.outbox = Tail(@)]
  <1>2. /\ box \in Seq(Event) /\ Len(box) > 0 /\ provider[p] \in ProviderState
        /\ Tail(box) \in Seq(Event) /\ Len(Tail(box)) = Len(box) - 1
        /\ \A i \in 1..Len(Tail(box)) : i + 1 \in 1..Len(box) /\ Tail(box)[i] = box[i + 1]
    BY <1>1 DEF ProviderState
  <1>3. /\ its \in ProviderState /\ its.revisions = provider[p].revisions
        /\ its.outbox = Tail(box)
    BY <1>2 DEF ProviderState
  <1>4. provider' = [provider EXCEPT ![p] = its]
    BY <1>1
  <1> HIDE DEF its, box
  <1>5. /\ provider' \in [Providers -> ProviderState]
        /\ provider'[p] = its
        /\ \A x \in Providers : x # p => provider'[x] = provider[x]
    BY <1>1, <1>3, <1>4
  <1>6. \A x \in Providers : provider'[x].revisions = provider[x].revisions
    BY <1>3, <1>5
  <1>7. Outbox(provider[p].revisions, Tail(box), p)
    BY <1>1, <1>2 DEF Inv, History, Outbox, box
  <1>8. History(provider)'
    <2> SUFFICES ASSUME NEW x \in Providers
                 PROVE  /\ Ordered(provider'[x].revisions)
                        /\ Outbox(provider'[x].revisions, provider'[x].outbox, x)
      BY DEF History
    <2>1. Ordered(provider[x].revisions) /\ Outbox(provider[x].revisions, provider[x].outbox, x)
      BY DEF Inv, History
    <2> QED
      BY <2>1, <1>3, <1>5, <1>7
  <1> QED
    BY <1>5, <1>6, <1>8 DEF Revisions

LEMMA PollKeepsInv ==
  ASSUME Inv, NEW p \in Providers, PollProvider(p) PROVE Inv'
  <1> DEFINE box == provider[p].outbox
             e == Head(box)
             labelled == [e EXCEPT !.epoch = registered[p].epoch]
             g == registered[p]
  <1>1. /\ p \in active /\ worker.pc = "loop" /\ worker.todo = {} /\ Shape
        /\ box \in Seq(Event) /\ box # <<>>
        /\ provider' = [provider EXCEPT ![p].outbox = Tail(@)]
        /\ UNCHANGED <<sessions, streams, pending, inbox, sent, stored, clock, requests,
                       registered, expiries>>
        /\ UNCHANGED stateVars
    BY AllAreRevisions DEF PollProvider, WorkerOnly, stateVars, AtLoop, Inv, Working, Types, TypeOK
  <1>2. Len(box) > 0 /\ Len(box) \in Nat /\ e \in Event /\ e = box[1] /\ 1 \in 1..Len(box)
    BY <1>1
  <1>3. /\ provider' \in [Providers -> ProviderState]
        /\ Revisions' = Revisions /\ History(provider)'
        /\ \A x \in Providers : provider'[x].revisions = provider[x].revisions
        /\ \A x \in Providers : x # p => provider'[x] = provider[x]
    BY <1>1, <1>2, TakenEvent
  <1>4. /\ UpToDate(g, provider[p])
        /\ Announced(streams[p], completions, p, g.epoch, Len(completions) + 1)
        /\ IsRegistered(g, provider[p].revisions) /\ g.epoch \in Nat
    BY <1>1 DEF Inv, Working, UpToDate, IsRegistered
  <1>5. /\ e.source = p
        /\ e.op = "Upsert" => /\ e.epoch = Len(provider[p].revisions)
                              /\ TrueEvent(provider[p].revisions, e)
                              /\ g.epoch = Len(provider[p].revisions)
    <2>1. Outbox(provider[p].revisions, box, p)
      BY SMTT(40) DEF Inv, History
    <2> QED
      BY <2>1, <1>2, <1>4 DEF Outbox, UpToDate
  <1>6. e.op = "Upsert" => labelled = e /\ e.item \in Observation
    <2>1. e.op = "Upsert" => e.epoch = g.epoch
      BY <1>5
    <2>2. e.op = "Upsert" => labelled = e
      BY <1>2, <2>1 DEF Event
    <2> QED
      BY ZenonT(40), <2>2, <1>5 DEF TrueEvent, Change
  <1>7. completions \in Seq(Message) /\ Len(completions) <= Capacity
    BY DEF Inv, Types, TypeOK
  <1> HIDE DEF e, labelled
  \* What the worker does then, after the message m or nothing new
  <1>8. ASSUME worker' \in WorkerState, active' \in SUBSET active, reconcile' \in BOOLEAN,
               NEW m, completions' \in Seq(Message), Len(completions') <= Capacity,
               Longer(completions', completions, m),
               Fresh(m, completions, Revisions, registered, streams),
               notice' \in [sessions : SUBSET Sessions, unattributed : BOOLEAN],
               p \in active' => e.op = "Upsert",
               \/ worker' = worker
               \/ worker'.pc = "gap" /\ worker'.at = p /\ worker'.todo = {}
        PROVE  Inv'
    <2>1. TypeOK'
      BY <1>1, <1>3, <1>8 DEF Inv, Types, TypeOK, StateTypeOK, WorkerState
    <2>2. Types' /\ Leases(inbox, requests, expiries)'
      BY <2>1, <1>1 DEF Inv, Types
    <2>3. Queue(completions, Revisions, registered, streams)' /\ Views'
      BY <2>2, <1>1, <1>3, <1>8, RegisteredStays, WorkerStep
    <2>4. Polled(active', registered', provider', completions', streams')
      <3> SUFFICES ASSUME NEW x \in active'
                   PROVE  /\ UpToDate(registered[x], provider'[x])
                          /\ Announced(streams[x], completions', x, registered[x].epoch,
                                       Len(completions') + 1)
        BY <1>1 DEF Polled
      <3>1. /\ x \in active /\ x \in Providers /\ UpToDate(registered[x], provider[x])
            /\ Announced(streams[x], completions, x, registered[x].epoch, Len(completions) + 1)
        BY <1>8 DEF Inv, Working, Types, TypeOK
      <3>2. Announced(streams[x], completions', x, registered[x].epoch, Len(completions') + 1)
        BY <3>1, <1>8, AnnouncedLater
      <3>3. CASE x # p
        BY <3>1, <3>2, <3>3, <1>3
      <3>4. CASE x = p
        <4>1. g.epoch = Len(provider[p].revisions)
          BY <3>4, <1>5, <1>8
        <4> QED
          BY <3>2, <3>4, <4>1, <1>3, <1>4 DEF UpToDate
      <3> QED
        BY <3>3, <3>4
    <2>5. Working(worker, active, registered, provider, completions, streams)'
      <3>1. CASE worker' = worker
        BY <3>1, <2>4, <1>1, WorksOn
      <3>2. CASE worker'.pc = "gap" /\ worker'.at = p /\ worker'.todo = {}
        <4>1. IsRegistered(registered'[p], provider'[p].revisions)
          BY <1>1, <1>3, <1>4
        <4>2. Announced(streams'[p], completions', p, registered'[p].epoch, Len(completions') + 1)
          BY <1>1, <1>4, <1>8, AnnouncedLater
        <4> QED
          BY <3>2, <4>1, <4>2, <2>4 DEF Working, Polled
      <3> QED
        BY <1>8, <3>1, <3>2
    <2> QED
      BY <2>2, <2>3, <2>5, <1>3 DEF Inv
  <1>9. /\ worker \in WorkerState /\ active \subseteq Providers /\ reconcile \in BOOLEAN
        /\ notice \in [sessions : SUBSET Sessions, unattributed : BOOLEAN]
    BY DEF Inv, Types, TypeOK, WorkerState
  <1>10. \A about \in SUBSET Sessions :
            (IF Fits THEN notice ELSE Dropped(about))
                \in [sessions : SUBSET Sessions, unattributed : BOOLEAN]
    BY <1>9 DEF Dropped
  <1> DEFINE gap == [Idle EXCEPT !.pc = "gap", !.at = p]
  <1>11. gap \in WorkerState /\ gap.pc = "gap" /\ gap.at = p /\ gap.todo = {}
    BY IdleWorkers
  <1> HIDE DEF gap
  <1>12. ASSUME PostEnvelope(Envelope(labelled), {e.item.session}), e.op = "Upsert"
         PROVE  /\ completions' \in Seq(Message) /\ Len(completions') <= Capacity
                /\ Longer(completions', completions, Envelope(e))
                /\ Fresh(Envelope(e), completions, Revisions, registered, streams)
                /\ notice' \in [sessions : SUBSET Sessions, unattributed : BOOLEAN]
    <2>1. Envelope(e) \in Message
      BY <1>2, Messages
    <2>2. completions' = Post(completions, Envelope(e))
      BY <1>6, <1>12 DEF PostEnvelope
    <2>3. Fresh(Envelope(e), completions, Revisions, registered, streams)
      BY <1>2, <1>4, <1>5, <1>12, EventIsFresh
    <2>4. {e.item.session} \in SUBSET Sessions
      BY <1>6, <1>12 DEF Observation
    <2>5. notice' \in [sessions : SUBSET Sessions, unattributed : BOOLEAN]
      BY <2>4, <1>10, <1>12 DEF PostEnvelope
    <2> QED
      BY <2>1, <2>2, <2>3, <2>5, <1>1, <1>7, Posted
  <1>13. CASE /\ e.op = "Upsert" /\ Fits
              /\ PostEnvelope(Envelope(labelled), {e.item.session})
              /\ UNCHANGED <<worker, active, reconcile, faults>>
    BY <1>8, <1>9, <1>12, <1>13
  <1>14. CASE /\ e.op = "Upsert" /\ ~Fits
              /\ PostEnvelope(Envelope(labelled), {e.item.session})
              /\ worker' = [Idle EXCEPT !.pc = "gap", !.at = p]
              /\ Interrupted(p) /\ UNCHANGED faults
    <2>1. worker' = gap /\ active' = active \ {p} /\ reconcile' = TRUE
      BY <1>14 DEF Interrupted, gap
    <2> QED
      BY <2>1, <1>8, <1>9, <1>11, <1>12, <1>14
  <1>15. CASE /\ worker' = [Idle EXCEPT !.pc = "gap", !.at = p]
              /\ Interrupted(p) /\ UNCHANGED <<completions, notice>>
    <2>1. worker' = gap /\ active' = active \ {p} /\ reconcile' = TRUE
      BY <1>15 DEF Interrupted, gap
    <2> QED
      BY <2>1, <1>7, <1>8, <1>9, <1>11, <1>15, StaysQueue
  <1>16. CASE /\ e.op = "Reset"
              /\ PostEnvelope(Envelope(Control(p, "Reset")), {})
              /\ Interrupted(p) /\ UNCHANGED <<worker, faults>>
    <2> DEFINE c == Control(p, "Reset")
    <2>1. /\ Envelope(c) \in Message /\ c.source = p /\ c.epoch = g.epoch
          /\ c.op = "Reset" /\ c.seq = None /\ c \in Event
      <3>1. p \in Sources
        BY <1>1, SourcesAreApart
      <3>2. c \in Event
        BY <3>1, <1>4 DEF Control, Event, EventId
      <3> QED
        BY <3>2, <1>1, <1>4, ControlEvents
    <2> HIDE DEF c
    <2>2. TrueEvent(provider[p].revisions, c)
      BY <2>1, <1>4 DEF TrueEvent, IsRegistered
    <2>3. Fresh(Envelope(c), completions, Revisions, registered, streams)
      BY <2>1, <2>2, <1>4, EventIsFresh
    <2>4. completions' = Post(completions, Envelope(c))
          /\ notice' \in [sessions : SUBSET Sessions, unattributed : BOOLEAN]
      BY <1>10, <1>16 DEF PostEnvelope, c
    <2>5. /\ completions' \in Seq(Message) /\ Len(completions') <= Capacity
          /\ Longer(completions', completions, Envelope(c))
      BY <2>1, <2>4, <1>1, <1>7, Posted
    <2>6. active' = active \ {p} /\ reconcile' = TRUE /\ worker' = worker
      BY <1>16 DEF Interrupted
    <2> QED
      BY <2>3, <2>4, <2>5, <2>6, <1>8, <1>9
  <1> QED
    BY <1>13, <1>14, <1>15, <1>16 DEF PollProvider, e, labelled

LEMMA GapKeepsInv ==
  ASSUME Inv, EmitGap PROVE Inv'
  <1> DEFINE p == worker.at
             c == Control(p, "Gap")
             m == Envelope(c)
  <1>1. /\ worker.pc = "gap" /\ worker.todo = {} /\ Shape /\ p \in Providers
        /\ IsRegistered(registered[p], provider[p].revisions) /\ registered[p].epoch \in Nat
        /\ Announced(streams[p], completions, p, registered[p].epoch, Len(completions) + 1)
        /\ completions \in Seq(Message) /\ Len(completions) <= Capacity
        /\ UNCHANGED <<sessions, streams, pending, provider, inbox, sent, stored, clock, requests,
                       active, reconcile, registered, expiries>>
        /\ UNCHANGED stateVars /\ worker' = Idle
    BY DEF EmitGap, WorkerOnly, stateVars, Inv, Working, Types, TypeOK, IsRegistered
  <1>2. /\ m \in Message /\ c.source = p /\ c.epoch = registered[p].epoch
        /\ c.op = "Gap" /\ c.seq = None /\ c \in Event
    <2>1. p \in Sources
      BY <1>1, SourcesAreApart
    <2>2. c \in Event
      BY <2>1, <1>1 DEF Control, Event, EventId
    <2> QED
      BY <2>2, <1>1, ControlEvents
  <1>3. completions' = Post(Post(completions, m), Status)
        /\ notice' = IF Fits THEN notice ELSE Dropped({})
    BY DEF EmitGap
  <1> HIDE DEF p, c
  <1>4. TrueEvent(provider[p].revisions, c)
    BY <1>1, <1>2 DEF TrueEvent, IsRegistered
  <1>5. Fresh(m, completions, Revisions, registered, streams)
    BY <1>1, <1>2, <1>4, EventIsFresh
  <1> HIDE DEF m
  <1> DEFINE q == Post(completions, m)
  <1>6. q \in Seq(Message) /\ Len(q) <= Capacity /\ Longer(q, completions, m)
    BY <1>1, <1>2, Posted
  <1>7. completions' = Post(q, Status)
    BY <1>3
  <1> HIDE DEF q
  <1>8. /\ completions' \in Seq(Message) /\ Len(completions') <= Capacity
        /\ Longer(completions', q, Status)
    BY <1>1, <1>6, <1>7, Messages, Posted
  <1>9. Longer(completions', completions, m)
    BY <1>6, <1>8, PlainMessages, LongerAgain
  <1>10. notice' \in [sessions : SUBSET Sessions, unattributed : BOOLEAN]
    BY <1>3 DEF Dropped, Inv, Types, TypeOK
  <1>11. worker' \in WorkerState /\ worker'.pc = "loop" /\ worker'.todo = {}
    BY <1>1, IdleWorkers
  <1>12. TypeOK'
    BY <1>1, <1>8, <1>10, <1>11 DEF Inv, Types, TypeOK, StateTypeOK, WorkerState
  <1>13. Leases(inbox, requests, expiries)'
    BY <1>1 DEF Inv
  <1>14. active' \subseteq active /\ worker'.todo \cap active' = {}
    BY <1>1, <1>11
  <1> QED
    BY <1>1, <1>5, <1>9, <1>11, <1>12, <1>13, <1>14, PlainStep

LEMMA RefreshGoesOn ==
  ASSUME NEW w \in WorkerState, NEW p
  PROVE  LET v == [Idle EXCEPT !.pc = "refresh", !.todo = w.todo \ {p}, !.asked = w.asked]
         IN  v \in WorkerState /\ v.pc = "refresh" /\ v.todo = w.todo \ {p}
  <1>1. w.todo \ {p} \in SUBSET Providers /\ w.asked \in BOOLEAN
    BY DEF WorkerState
  <1>2. Idle \in WorkerState
    BY IdleWorkers
  <1> DEFINE todo == w.todo \ {p}
             v == [Idle EXCEPT !.pc = "refresh", !.todo = todo, !.asked = w.asked]
  <1>3. todo \in SUBSET Providers
    BY <1>1
  <1> HIDE DEF todo
  <1>4. v \in WorkerState /\ v.pc = "refresh" /\ v.todo = todo
    BY <1>1, <1>2, <1>3 DEF WorkerState
  <1> QED
    BY <1>4 DEF todo

LEMMA GivenUpKeepsInv ==
  ASSUME Inv, NEW p \in Providers, GiveUp(p), RefreshOnly PROVE Inv'
  <1>1. /\ completions' \in Seq(Message) /\ Len(completions') <= Capacity
        /\ Longer(completions', completions, Status)
        /\ Fresh(Status, completions, Revisions, registered, streams)
    BY Messages, PlainMessages, PostsPlain DEF GiveUp
  <1>2. /\ UNCHANGED <<sessions, streams, pending, provider, inbox, sent, stored, clock, requests,
                       active, reconcile, registered, expiries, notice>>
        /\ UNCHANGED stateVars /\ worker' = Refreshed(p)
        /\ worker \in WorkerState /\ worker.todo \cap active = {}
    BY DEF GiveUp, RefreshOnly, WorkerOnly, stateVars, Inv, Types, TypeOK, WorkerState, Working
  <1>3. worker' \in WorkerState /\ worker'.pc = "refresh" /\ worker'.todo = worker.todo \ {p}
    BY <1>2, RefreshGoesOn DEF Refreshed
  <1>4. TypeOK'
    BY <1>1, <1>2, <1>3 DEF Inv, Types, TypeOK, StateTypeOK, WorkerState
  <1>5. Leases(inbox, requests, expiries)'
    BY <1>2 DEF Inv
  <1>6. active' \subseteq active /\ worker'.todo \cap active' = {}
    BY <1>2, <1>3
  <1> QED
    BY <1>1, <1>2, <1>3, <1>4, <1>5, <1>6, PlainStep

LEMMA ProbeKeepsInv ==
  ASSUME Inv, NEW p \in Providers, Probe(p) PROVE Inv'
  <1>1. CASE GiveUp(p)
    BY <1>1, GivenUpKeepsInv DEF Probe
  <1>2. CASE /\ worker' = [worker EXCEPT !.pc = "snapshot", !.at = p]
             /\ registered' = [registered EXCEPT ![p] =
                                 [epoch |-> Epoch(p), most |-> Current(p).most]]
             /\ completions' = IF registered[p] = None \/ registered[p].epoch = Epoch(p)
                               THEN completions
                               ELSE Post(completions, Contract(p, Current(p).most))
             /\ UNCHANGED <<faults, notice>>
    <2> DEFINE its == [epoch |-> Epoch(p), most |-> Current(p).most]
               rs == provider[p].revisions
    <2>1. /\ rs \in Seq(Revision) /\ Epoch(p) = Len(rs) /\ Epoch(p) \in Nat /\ Epoch(p) > 0
          /\ Current(p).most \in Capabilities
      BY PresentRevision DEF Inv, Epoch
    <2>2. /\ its \in [epoch : Nat, most : Capabilities] /\ its.epoch = Len(rs)
          /\ IsRegistered(its, rs)
      BY <2>1 DEF IsRegistered
    <2>3. registered' = [registered EXCEPT ![p] = its]
      BY <1>2
    <2> HIDE DEF its
    <2>4. registered \in [Providers -> [epoch : Nat, most : Capabilities] \cup {None}]
      BY DEF Inv, Types, TypeOK
    <2>5. /\ registered' \in [Providers -> [epoch : Nat, most : Capabilities] \cup {None}]
          /\ registered'[p] = its /\ \A x \in Providers : x # p => registered'[x] = registered[x]
      BY <2>2, <2>3, <2>4
    <2>6. /\ UNCHANGED <<sessions, streams, pending, provider, inbox, sent, stored, clock, requests,
                         active, reconcile, expiries, notice>>
          /\ UNCHANGED stateVars
          /\ worker \in WorkerState /\ worker.todo \cap active = {} /\ p \in worker.todo
          /\ worker.pc = "refresh"
      BY <1>2 DEF Probe, RefreshOnly, WorkerOnly, stateVars, Inv, Types, TypeOK, WorkerState, Working
    <2>7. /\ worker' \in WorkerState /\ worker'.pc = "snapshot" /\ worker'.at = p
          /\ worker'.todo = worker.todo
      BY <1>2, <2>6 DEF WorkerState
    <2>8. Revisions' = Revisions /\ Revisions[p] = rs
      BY <2>6 DEF Revisions
    <2>9. Rise(registered', Revisions, registered, Revisions)
      <3> SUFFICES ASSUME NEW x \in Providers, IsRegistered(registered[x], Revisions[x])
                   PROVE  /\ IsRegistered(registered'[x], Revisions[x])
                          /\ registered[x].epoch <= registered'[x].epoch
        BY DEF Rise
      <3>1. CASE x = p
        BY <3>1, <2>1, <2>2, <2>5, <2>8 DEF IsRegistered
      <3>2. CASE x # p
        BY <3>2, <2>5 DEF IsRegistered
      <3> QED
        BY <3>1, <3>2
    <2>10. \E m \in {Status, Contract(p, Current(p).most)} :
              /\ completions' \in Seq(Message) /\ Len(completions') <= Capacity
              /\ Longer(completions', completions, m)
              /\ Fresh(m, completions, Revisions, registered, streams)
      <3>1. CASE completions' = completions
        BY <3>1, StaysQueue DEF Inv, Types, TypeOK
      <3>2. CASE completions' = Post(completions, Contract(p, Current(p).most))
        BY <3>2, <2>1, Messages, PlainMessages, PostsPlain
      <3> QED
        BY <3>1, <3>2, <1>2
    <2>11. PICK m : /\ completions' \in Seq(Message) /\ Len(completions') <= Capacity
                    /\ Longer(completions', completions, m)
                    /\ Fresh(m, completions, Revisions, registered, streams)
      BY <2>10
    <2>12. TypeOK'
      BY <2>5, <2>6, <2>7, <2>11 DEF Inv, Types, TypeOK, StateTypeOK, WorkerState
    <2>13. Types' /\ Leases(inbox, requests, expiries)' /\ History(provider)'
      BY <2>6, <2>12 DEF Inv, Types
    <2>14. Queue(completions, Revisions, registered, streams)' /\ Views'
      BY <2>6, <2>8, <2>9, <2>11, <2>13, WorkerStep
    <2>15. Working(worker, active, registered, provider, completions, streams)'
      <3>1. ASSUME NEW x \in active
            PROVE  /\ UpToDate(registered'[x], provider[x])
                   /\ Announced(streams[x], completions', x, registered'[x].epoch,
                                Len(completions') + 1)
        <4>1. /\ x \in Providers /\ x # p /\ UpToDate(registered[x], provider[x])
              /\ Announced(streams[x], completions, x, registered[x].epoch, Len(completions) + 1)
          BY <2>6 DEF Inv, Working, Types, TypeOK
        <4> QED
          BY <4>1, <2>5, <2>11, AnnouncedLater
      <3>2. IsRegistered(registered'[p], rs)
        BY <2>2, <2>5
      <3> QED
        BY <3>1, <3>2, <2>6, <2>7 DEF Working
    <2> QED
      BY <2>13, <2>14, <2>15 DEF Inv
  <1> QED
    BY <1>1, <1>2 DEF Probe

\* No message about a provider is of a later position than its present one.
LEMMA NothingIsLater ==
  ASSUME Inv, NEW p \in Providers, registered[p].epoch = Epoch(p), NEW c,
         c.epoch = Epoch(p), c.watermark = Sequence(p)
  PROVE  LET m == [kind |-> "Snapshot", body |-> c]
         IN  /\ \A i \in 1..Len(completions) : Of(completions[i], p) =>
                   NotAfter(completions[i].body.epoch, PositionOf(completions[i]), m)
             /\ streams[p] # None => NotAfter(streams[p].epoch, streams[p].last, m)
  <1> DEFINE m == [kind |-> "Snapshot", body |-> c]
             rs == provider[p].revisions
  <1>1. /\ Revisions[p] = rs /\ Epoch(p) = Len(rs) /\ Sequence(p) = Len(rs[Len(rs)].known)
        /\ Epoch(p) \in Nat /\ Sequence(p) \in Nat
        /\ m.kind = "Snapshot" /\ m.body = c
    BY PresentRevision DEF Inv, Revisions, Epoch, Sequence, Current
  <1> HIDE DEF m, rs
  <1>2. ASSUME NEW i \in 1..Len(completions), Of(completions[i], p)
        PROVE  NotAfter(completions[i].body.epoch, PositionOf(completions[i]), m)
    <2> DEFINE b == completions[i].body
               n == PositionOf(completions[i])
    <2>1. b.epoch <= Epoch(p)
      BY <1>2 DEF Inv, Queue, Registered
    <2>2. Good(Revisions, completions[i]) /\ b.source = p
      BY <1>2 DEF Inv, Queue, Of
    <2>3. n # None => n \in 1..Len(rs[b.epoch].known)
      <3>1. CASE completions[i].kind = "Snapshot"
        BY SMTT(40), <3>1, <2>2, <1>1 DEF Good, TrueChunk, Knows, PositionOf
      <3>2. CASE completions[i].kind = "Event"
        <4>1. TrueEvent(rs, b) /\ n = b.seq
          BY <3>2, <2>2, <1>1 DEF Good, PositionOf
        <4> QED
          BY <4>1 DEF TrueEvent, Change
      <3> QED
        BY <3>1, <3>2, <1>2 DEF Of
    <2> HIDE DEF b, n
    <2>4. b.epoch = Epoch(p) /\ n # None => n <= Sequence(p)
      BY <2>3, <1>1
    <2>5. b.epoch <= c.epoch /\ (b.epoch = c.epoch /\ n # None => n <= c.watermark)
      BY <2>1, <2>4
    <2> QED
      BY <2>5, <1>1 DEF NotAfter, b, n
  <1>3. streams[p] # None => NotAfter(streams[p].epoch, streams[p].last, m)
    <2> DEFINE st == streams[p]
    <2>1. Stands(st, registered[p], rs)
      BY <1>1 DEF Inv, Views, View
    <2>2. st # None => /\ st.epoch \in 1..Epoch(p)
                       /\ st.last # None => st.last \in 1..Len(rs[st.epoch].known)
      BY <2>1 DEF Stands, Knows
    <2>3. st # None => /\ st.epoch <= Epoch(p)
                       /\ st.last # None /\ st.epoch = Epoch(p) => st.last <= Sequence(p)
      BY <2>2, <1>1
    <2> QED
      BY <2>3, <1>1 DEF NotAfter
  <1> QED
    BY <1>2, <1>3 DEF m

\* The chunks of a snapshot of some facts
LEMMA SnapshotIsCut ==
  ASSUME Inv, NEW p \in Providers, registered[p].epoch = Epoch(p),
         IsRegistered(registered[p], provider[p].revisions),
         NEW facts \in SUBSET Facts(p), NEW complete \in BOOLEAN, complete => facts = Facts(p)
  PROVE  LET cs == Chunks(p, facts, complete)
         IN  /\ cs \in Seq(Chunk)
             /\ Emits(cs, p, registered[p], provider[p].revisions, completions, streams[p])
  <1> DEFINE cs == Chunks(p, facts, complete)
             rs == provider[p].revisions
             e == Epoch(p)
             n == Sequence(p)
             parts == Parts(facts)
             l == Len(parts)
  <1>1. /\ rs \in Seq(Revision) /\ e = Len(rs) /\ e \in Nat /\ n \in Nat /\ Knows(rs, e, n)
        /\ Current(p) = rs[e] /\ Shape /\ p \in Sources
    BY PresentRevision, SourcesAreApart DEF Inv, Epoch, Current, Types
  <1>2. Facts(p) = FactsAt(rs[e], n)
    BY <1>1 DEF Facts
  <1>3. IsFiniteSet(facts) /\ facts \subseteq FactsAt(rs[e], n) /\ facts \subseteq Observation
    <2>1. IsFiniteSet(FactsAt(rs[e], n)) /\ FactsAt(rs[e], n) \subseteq Observation
      BY <1>1, FactsAreFinite, FactsAreObservations
    <2> QED
      BY <2>1, <1>2, FS_Subset
  <1>4. /\ l \in Nat /\ l > 0 /\ DOMAIN parts = 1..l
        /\ \A i \in 1..l : parts[i] \subseteq facts
    BY <1>3, PartsOfFacts
  <1> DEFINE c(i) == [source |-> p, epoch |-> registered[p].epoch, index |-> i - 1,
                      final |-> i = l, watermark |-> n, complete |-> complete,
                      covers |-> Current(p).most # None, items |-> parts[i]]
  <1>5. cs = [i \in 1..l |-> c(i)]
    BY <1>4 DEF Chunks
  <1> HIDE DEF cs, rs, e, n, parts, l
  <1>6. ASSUME NEW i \in 1..l
        PROVE  /\ c(i) \in Chunk /\ c(i).source = p /\ c(i).epoch = registered[p].epoch
               /\ c(i).index = i - 1 /\ c(i).final = (i = l) /\ c(i).watermark = n
               /\ c(i).complete = complete /\ c(i).items = parts[i]
               /\ c(i).covers = (Current(p).most # None)
    <2>1. i - 1 \in Nat /\ parts[i] \in SUBSET Observation /\ registered[p].epoch \in Nat
      BY <1>1, <1>3, <1>4 DEF e
    <2> QED
      BY <2>1, <1>1 DEF Chunk
  <1> HIDE DEF c
  <1>7. cs \in Seq(Chunk) /\ Len(cs) = l /\ \A i \in 1..l : cs[i] = c(i)
    <2>1. cs \in [1..l -> Chunk] /\ \A i \in 1..l : cs[i] = c(i)
      BY <1>5, <1>6
    <2> QED
      BY <2>1, <1>4
  <1>8. ASSUME NEW i \in 1..l PROVE TrueChunk(rs, cs[i])
    <2>1. cs[i] = c(i)
      BY <1>7
    <2>2. Knows(rs, cs[i].epoch, cs[i].watermark) /\ cs[i].epoch = e /\ cs[i].watermark = n
      BY <2>1, <1>1, <1>6 DEF e
    <2>3. cs[i].covers = (rs[e].most # None)
      BY <2>1, <1>1, <1>6
    <2>4. PartOf(FactsAt(rs[e], n), cs[i])
      <3>1. cs[i].items = parts[i] /\ cs[i].items \subseteq FactsAt(rs[e], n)
        BY <2>1, <1>3, <1>4, <1>6
      <3>2. CASE ~cs[i].complete
        BY <3>1, <3>2 DEF PartOf
      <3>3. CASE cs[i].complete
        <4>1. facts = FactsAt(rs[e], n) /\ parts = Parts(FactsAt(rs[e], n))
          BY <3>3, <2>1, <1>2, <1>6 DEF parts
        <4>2. cs[i].index + 1 = i
          BY <2>1, <1>4, <1>6
        <4>3. cs[i].final = (i = l)
          BY <2>1, <1>6
        <4> QED
          BY <3>1, <4>1, <4>2, <4>3 DEF PartOf, l
      <3> QED
        BY <3>2, <3>3
    <2> QED
      BY <2>2, <2>3, <2>4 DEF TrueChunk
  <1>9. 1 \in 1..l
    BY <1>4
  <1>10. cs[1].epoch = e /\ cs[1].watermark = n
    BY <1>6, <1>7, <1>9 DEF e
  <1>11. LET m == [kind |-> "Snapshot", body |-> cs[1]]
         IN  /\ \A i \in 1..Len(completions) : Of(completions[i], p) =>
                   NotAfter(completions[i].body.epoch, PositionOf(completions[i]), m)
             /\ streams[p] # None => NotAfter(streams[p].epoch, streams[p].last, m)
    BY <1>10, NothingIsLater DEF e, n
  <1>12. Emits(cs, p, registered[p], rs, completions, streams[p])
    BY <1>4, <1>6, <1>7, <1>8, <1>9, <1>11 DEF Emits
  <1> QED
    BY <1>7, <1>12 DEF cs, rs

LEMMA SnapshotKeepsInv ==
  ASSUME Inv, Snapshot PROVE Inv'
  <1> DEFINE p == worker.at
  <1>1. /\ worker.pc = "snapshot" /\ p \in worker.todo /\ p \in Providers
        /\ IsRegistered(registered[p], provider[p].revisions)
        /\ worker \in WorkerState /\ worker.todo \cap active = {}
    BY DEF Snapshot, Inv, Working, Types, TypeOK, WorkerState
  <1>2. CASE GiveUp(p)
    BY <1>1, <1>2, GivenUpKeepsInv DEF Snapshot
  <1>3. ASSUME NEW facts \in SUBSET Facts(p), NEW complete \in BOOLEAN,
               complete => facts = Facts(p), Epoch(p) = registered[p].epoch,
               worker' = [worker EXCEPT !.pc = "emit", !.chunks = Chunks(p, facts, complete)],
               UNCHANGED <<registered, completions, notice>>
        PROVE  Inv'
    <2> DEFINE cs == Chunks(p, facts, complete)
    <2>1. /\ cs \in Seq(Chunk)
          /\ Emits(cs, p, registered[p], provider[p].revisions, completions, streams[p])
      BY <1>1, <1>3, SnapshotIsCut
    <2>2. worker' = [worker EXCEPT !.pc = "emit", !.chunks = cs]
      BY <1>3
    <2> HIDE DEF cs
    <2>3. /\ worker' \in WorkerState /\ worker'.pc = "emit" /\ worker'.at = p
          /\ worker'.todo = worker.todo /\ worker'.chunks = cs
      BY <2>1, <2>2, <1>1 DEF WorkerState
    <2>4. /\ UNCHANGED <<sessions, streams, pending, provider, inbox, sent, stored, clock, requests,
                         completions, active, reconcile, registered, expiries, notice>>
      BY <1>3 DEF Snapshot, RefreshOnly, WorkerOnly, stateVars
    <2>5. TypeOK'
      BY <2>3, <2>4 DEF Inv, Types, TypeOK, StateTypeOK, WorkerState
    <2>6. Types' /\ Leases(inbox, requests, expiries)' /\ History(provider)'
      BY <2>4, <2>5 DEF Inv, Types
    <2>7. Revisions' = Revisions
      BY <2>4 DEF Revisions
    <2>8. Queue(completions, Revisions, registered, streams)' /\ Views'
      BY <2>4, <2>7 DEF Inv, Views
    <2>9. UpToDate(registered[p], provider[p])
      BY <1>1, <1>3 DEF UpToDate, Epoch
    <2>10. Working(worker, active, registered, provider, completions, streams)'
      BY <1>1, <2>1, <2>3, <2>4, <2>9 DEF Inv, Working
    <2> QED
      BY <2>6, <2>8, <2>10 DEF Inv
  <1>4. \A f \in Facts(p) : Facts(p) \ {f} \in SUBSET Facts(p)
    OBVIOUS
  <1> QED
    BY <1>2, <1>3, <1>4 DEF Snapshot

LEMMA ChunkKeepsInv ==
  ASSUME Inv, EmitChunk PROVE Inv'
  <1> DEFINE p == worker.at
             cs == worker.chunks
             c == Head(cs)
             m == [kind |-> "Snapshot", body |-> c]
             g == registered[p]
             rs == provider[p].revisions
  <1>1. /\ worker.pc = "emit" /\ p \in worker.todo /\ p \in Providers /\ Shape
        /\ IsRegistered(g, rs) /\ UpToDate(g, provider[p])
        /\ Emits(cs, p, g, rs, completions, streams[p])
        /\ worker \in WorkerState /\ worker.todo \cap active = {} /\ active \subseteq Providers
        /\ completions \in Seq(Message) /\ Len(completions) <= Capacity /\ Len(completions) \in Nat
        /\ Revisions[p] = rs
    BY DEF EmitChunk, Inv, Working, Types, TypeOK, WorkerState, Revisions
  <1>2. /\ UNCHANGED <<sessions, streams, pending, provider, inbox, sent, stored, clock, requests,
                       reconcile, registered, expiries>>
        /\ UNCHANGED stateVars
        /\ completions' = Post(completions, m)
        /\ notice' = IF Fits THEN notice ELSE Dropped({o.session : o \in c.items})
        /\ \/ /\ Fits /\ ~c.final /\ worker' = [worker EXCEPT !.chunks = Tail(@)]
              /\ UNCHANGED active
           \/ worker' = Refreshed(p) /\ active' = Sent(Fits, p)
    BY DEF EmitChunk, WorkerOnly, stateVars, PostEnvelope
  <1>3. cs \in Seq(Chunk) /\ Len(cs) \in Nat /\ Len(cs) > 0 /\ c = cs[1] /\ 1 \in 1..Len(cs)
    <2>1. cs \in Seq(Chunk) /\ Len(cs) > 0
      BY <1>1 DEF WorkerState, Emits
    <2> QED
      BY <2>1
  <1> HIDE DEF cs, c, m, g, rs, p
  <1>4. /\ c \in Chunk /\ TrueChunk(rs, c) /\ c.source = p /\ c.epoch = g.epoch
        /\ c.final = (1 = Len(cs))
    <2>1. \A i \in 1..Len(cs) : /\ TrueChunk(rs, cs[i]) /\ cs[i].source = p
                               /\ cs[i].epoch = g.epoch /\ cs[i].final = (i = Len(cs))
      BY <1>1 DEF Emits
    <2>2. cs[1] \in Chunk
      BY <1>3
    <2> QED
      BY <2>1, <2>2, <1>3
  <1>5. m.kind = "Snapshot" /\ m.body = c /\ m \in Message
    BY <1>4, Messages DEF m
  <1>6. /\ \A i \in 1..Len(completions) : Of(completions[i], p) =>
                NotAfter(completions[i].body.epoch, PositionOf(completions[i]), m)
        /\ streams[p] # None => NotAfter(streams[p].epoch, streams[p].last, m)
    BY <1>1, <1>3 DEF Emits, m
  <1>7. Good(Revisions, m)
    BY <1>1, <1>4, <1>5 DEF Good
  <1>8. Fresh(m, completions, Revisions, registered, streams)
    <2>1. \A x \in Providers : Of(m, x) => x = p
      BY <1>4, <1>5 DEF Of
    <2>2. c.epoch <= g.epoch
      BY <1>1, <1>4 DEF IsRegistered
    <2> QED
      BY <2>1, <2>2, <1>1, <1>5, <1>6, <1>7 DEF Fresh, g
  <1>9. /\ completions' \in Seq(Message) /\ Len(completions') <= Capacity
        /\ Longer(completions', completions, m)
        /\ Fits => /\ Len(completions') = Len(completions) + 1
                   /\ completions'[Len(completions) + 1] = m
    BY <1>1, <1>2, <1>5, Posted DEF Fits
  <1>10. notice' \in [sessions : SUBSET Sessions, unattributed : BOOLEAN]
    <2>1. {o.session : o \in c.items} \in SUBSET Sessions
      BY <1>4 DEF Chunk, Observation
    <2> DEFINE about == {o.session : o \in c.items}
    <2>2. about \in SUBSET Sessions /\ notice' = IF Fits THEN notice ELSE Dropped(about)
      BY <2>1, <1>2
    <2> HIDE DEF about
    <2> QED
      BY <2>2 DEF Dropped, Inv, Types, TypeOK
  <1>11. Revisions' = Revisions
    BY <1>2 DEF Revisions
  <1>12. ASSUME worker' \in WorkerState, active' \in SUBSET Providers,
                Working(worker, active, registered, provider, completions, streams)'
         PROVE  Inv'
    <2>1. TypeOK'
      BY <1>2, <1>9, <1>10, <1>12 DEF Inv, Types, TypeOK, StateTypeOK, WorkerState
    <2>2. Types' /\ Leases(inbox, requests, expiries)' /\ History(provider)'
      BY <2>1, <1>2 DEF Inv, Types
    <2>3. Queue(completions, Revisions, registered, streams)' /\ Views'
      BY <2>2, <1>2, <1>8, <1>9, <1>11, RegisteredStays, WorkerStep
    <2> QED
      BY <2>2, <2>3, <1>12 DEF Inv
  <1>13. ASSUME NEW x \in active
         PROVE  /\ UpToDate(registered[x], provider[x])
                /\ Announced(streams[x], completions', x, registered[x].epoch,
                             Len(completions') + 1)
    <2>1. /\ UpToDate(registered[x], provider[x])
          /\ Announced(streams[x], completions, x, registered[x].epoch, Len(completions) + 1)
      BY DEF Inv, Working
    <2> QED
      BY <2>1, <1>9, AnnouncedLater
  <1>14. CASE /\ Fits /\ ~c.final /\ worker' = [worker EXCEPT !.chunks = Tail(@)]
              /\ UNCHANGED active
    <2> DEFINE rest == Tail(cs)
    <2>1. Len(cs) > 1
      <3>1. ~c.final
        BY <1>14
      <3>2. Len(cs) # 1
        BY <3>1, <1>4
      <3> DEFINE k == Len(cs)
      <3>3. k \in Nat /\ k > 0 /\ k # 1
        BY <3>2, <1>3
      <3> HIDE DEF k
      <3>4. k > 1
        BY <3>3
      <3> QED
        BY <3>4 DEF k
    <2>2. /\ rest \in Seq(Chunk) /\ Len(rest) = Len(cs) - 1 /\ Len(rest) \in Nat /\ Len(rest) > 0
          /\ \A i \in 1..Len(rest) : i + 1 \in 1..Len(cs) /\ rest[i] = cs[i + 1]
      BY <1>3, <2>1
    <2>3. worker' = [worker EXCEPT !.chunks = rest]
      BY <1>14 DEF cs
    <2> HIDE DEF rest
    <2>4. /\ worker' \in WorkerState /\ worker'.pc = "emit" /\ worker'.at = p
          /\ worker'.todo = worker.todo /\ worker'.chunks = rest
      BY <2>2, <2>3, <1>1 DEF WorkerState, p
    <2>5. /\ \A i \in 1..Len(rest) :
                /\ TrueChunk(rs, rest[i]) /\ rest[i].source = p /\ rest[i].epoch = g.epoch
                /\ rest[i].final = (i = Len(rest)) /\ rest[i].watermark = c.watermark
          /\ 1 \in 1..Len(rest)
      <3>1. ASSUME NEW i \in 1..Len(rest) PROVE (i + 1 = Len(cs)) = (i = Len(rest))
        BY <2>2, <1>3
      <3> QED
        BY SMTT(40), <3>1, <2>2, <1>1, <1>3 DEF Emits
    <2>6. ASSUME NEW epoch, NEW n, NotAfter(epoch, n, m)
          PROVE  NotAfter(epoch, n, [kind |-> "Snapshot", body |-> rest[1]])
      <3>1. rest[1].epoch = c.epoch /\ rest[1].watermark = c.watermark
        BY <2>5, <1>4
      <3> QED
        BY <3>1, <2>6, <1>5 DEF NotAfter
    <2>7. ASSUME NEW i \in 1..Len(completions'), Of(completions'[i], p)
          PROVE  NotAfter(completions'[i].body.epoch, PositionOf(completions'[i]), m)
      <3>1. \/ i \in 1..Len(completions) /\ completions'[i] = completions[i]
            \/ completions'[i] = m
        <4>1. ~Plain(completions'[i])
          BY <2>7 DEF Of, Plain
        <4> QED
          BY <4>1, <1>9, LongerBy
      <3>2. CASE completions'[i] = m
        <4>1. c.epoch \in Nat /\ c.watermark \in Nat
          BY <1>4 DEF Chunk
        <4>2. PositionOf(m) = c.watermark
          BY <1>5 DEF PositionOf
        <4> QED
          BY <3>2, <4>1, <4>2, <1>5 DEF NotAfter
      <3> QED
        BY <3>1, <3>2, <2>7, <1>6
    <2>8. Emits(rest, p, g, rs, completions', streams[p])
      <3>1. \A i \in 1..Len(rest) : rest[i].watermark = rest[1].watermark
        BY <2>5
      <3> QED
        BY <3>1, <2>2, <2>5, <2>6, <2>7, <1>6 DEF Emits
    <2>9. Working(worker, active, registered, provider, completions, streams)'
      BY <2>4, <2>8, <1>1, <1>2, <1>13, <1>14 DEF Working, g, rs
    <2> QED
      BY <2>4, <2>9, <1>1, <1>12, <1>14
  <1>15. CASE worker' = Refreshed(p) /\ active' = Sent(Fits, p)
    <2>1. worker' \in WorkerState /\ worker'.pc = "refresh" /\ worker'.todo = worker.todo \ {p}
      BY <1>1, <1>15, RefreshGoesOn DEF Refreshed
    <2>2. active' \in SUBSET Providers /\ worker'.todo \cap active' = {}
      BY <2>1, <1>1, <1>15 DEF Sent
    <2>3. ASSUME Fits
          PROVE  Announced(streams[p], completions', p, g.epoch, Len(completions') + 1)
      <3>1. ChunkOf(completions'[Len(completions) + 1], p, g.epoch)
        BY <2>3, <1>4, <1>5, <1>9 DEF ChunkOf
      <3>2. /\ Len(completions) + 1 \in 1..Len(completions')
            /\ Len(completions) + 1 < Len(completions') + 1
        BY <2>3, <1>1, <1>9
      <3> QED
        BY <3>1, <3>2 DEF Announced
    <2>4. Polled(active', registered', provider', completions', streams')
      <3> SUFFICES ASSUME NEW x \in active'
                   PROVE  /\ UpToDate(registered[x], provider[x])
                          /\ Announced(streams[x], completions', x, registered[x].epoch,
                                       Len(completions') + 1)
        BY <1>2 DEF Polled
      <3>1. x \in active \/ (x = p /\ Fits)
        BY <1>15 DEF Sent
      <3> QED
        BY <3>1, <2>3, <1>1, <1>13 DEF g
    <2>5. Working(worker, active, registered, provider, completions, streams)'
      BY <2>1, <2>2, <2>4, WorksOn
    <2> QED
      BY <2>1, <2>2, <2>5, <1>12
  <1> QED
    BY <1>2, <1>14, <1>15

-------------------------------------------------------------------------------

LEMMA InitEstablishesInv ==
  ASSUME Shape, Init PROVE Inv
  <1>1. /\ sessions = [s \in Sessions |-> None] /\ streams = [x \in Sources |-> None]
        /\ pending = [x \in Sources |-> None]
        /\ sent = 0 /\ clock = 0 /\ inbox = {}
        /\ requests = <<[kind |-> "RefreshProviders"]>>
        /\ completions = IF StoreWorks THEN <<Loaded>> ELSE <<>>
        /\ notice = Nothing /\ worker = Idle /\ active = {} /\ reconcile = FALSE
        /\ registered = [p \in Providers |-> None] /\ expiries = [k \in ExpiryKey |-> None]
        /\ stored \in SUBSET Sessions
    BY DEF Init, StateInit
  <1>2. ASSUME NEW p \in Providers
        PROVE  /\ provider[p] \in ProviderState
               /\ Ordered(provider[p].revisions) /\ provider[p].outbox = <<>>
    <2>1. provider[p] \in {[revisions |-> <<[most |-> m, since |-> 0, known |-> <<t>>]>>,
                            outbox |-> <<>>] : t \in Beginnings, m \in Capabilities \ {None}}
      BY DEF Init
    <2>2. PICK t \in Beginnings, m \in Capabilities :
             provider[p] = [revisions |-> <<[most |-> m, since |-> 0, known |-> <<t>>]>>,
                            outbox |-> <<>>]
      BY <2>1
    <2> DEFINE r == [most |-> m, since |-> 0, known |-> <<t>>]
    <2>3. t \in [Sessions -> Values \cup {None}]
      BY DEF Shape
    <2>4. r \in Revision /\ Len(r.known) = 1
      BY <2>3 DEF Revision
    <2>5. provider[p] = [revisions |-> <<r>>, outbox |-> <<>>]
      BY <2>2
    <2> HIDE DEF r
    <2>6. <<r>> \in Seq(Revision) /\ Len(<<r>>) = 1 /\ <<r>>[1] = r
      BY <2>4
    <2>7. provider[p] \in ProviderState
      BY <2>5, <2>6 DEF ProviderState
    <2>8. Ordered(<<r>>)
      BY SMTT(40), <2>4, <2>6 DEF Ordered
    <2> QED
      BY <2>5, <2>7, <2>8
  <1>3. provider \in [Providers -> ProviderState]
    <2>1. provider \in [Providers ->
             {[revisions |-> <<[most |-> m, since |-> 0, known |-> <<t>>]>>, outbox |-> <<>>] :
                 t \in Beginnings, m \in Capabilities \ {None}}]
      BY DEF Init
    <2> QED
      BY <2>1, <1>2
  <1>4. History(provider)
    BY <1>2 DEF History, Outbox
  <1>5. /\ completions \in Seq(Message) /\ Len(completions) <= Capacity
        /\ \A i \in 1..Len(completions) : Plain(completions[i])
    <2>1. Loaded \in Message /\ Plain(Loaded)
      BY <1>1, Messages, PlainMessages
    <2>2. CASE StoreWorks
      <3>1. completions = <<Loaded>>
        BY <2>2, <1>1
      <3> HIDE DEF Loaded
      <3>2. Len(completions) = 1 /\ completions \in Seq(Message) /\ completions[1] = Loaded
        BY <3>1, <2>1
      <3> QED
        BY <3>2, <2>1 DEF Shape
    <2>3. CASE ~StoreWorks
      BY <2>3, <1>1 DEF Shape
    <2> QED
      BY <2>2, <2>3
  <1>6. /\ requests \in Seq(RequestMessage) /\ Len(requests) <= RequestCapacity
        /\ Len(requests) = 1 /\ requests[1].kind = "RefreshProviders"
    <2>1. [kind |-> "RefreshProviders"] \in RequestMessage
      BY DEF RequestMessage
    <2> QED
      BY <2>1, <1>1 DEF Shape
  <1>7. worker \in WorkerState /\ worker.pc = "loop" /\ worker.todo = {}
    BY <1>1, IdleWorkers
  <1>8. notice \in [sessions : SUBSET Sessions, unattributed : BOOLEAN]
    BY <1>1 DEF Nothing
  <1>9. TypeOK
    <2>1. StateTypeOK
      BY <1>1 DEF StateTypeOK
    <2> QED
      BY <2>1, <1>1, <1>3, <1>5, <1>6, <1>7, <1>8 DEF TypeOK, WorkerState
  <1>10. Types
    BY <1>1, <1>9 DEF Types
  <1>11. Leases(inbox, requests, expiries)
    BY <1>1, <1>6 DEF Leases
  <1>12. Queue(completions, Revisions, registered, streams)
    BY <1>5 DEF Queue, Plain, Good, InOrder, Registered, EventsAnnounced, Of
  <1>13. Working(worker, active, registered, provider, completions, streams)
    BY <1>1, <1>7 DEF Working
  <1>14. Views
    <2> SUFFICES ASSUME NEW p \in Providers
                 PROVE  View(streams[p], pending[p], registered[p], Revisions[p], completions, p,
                             sessions)
      BY DEF Views
    <2>1. p \in Sources
      BY SourcesAreApart
    <2>2. streams[p] = None /\ pending[p] = None /\ \A s \in Sessions : sessions[s] = None
      BY <2>1, <1>1
    <2> QED
      BY <2>2 DEF View, Stands, Ahead, Collected, Seen
  <1> QED
    BY <1>4, <1>10, <1>11, <1>12, <1>13, <1>14 DEF Inv

-------------------------------------------------------------------------------
(* The view takes the head m of the queue. *)

\* Its stream of p, then st, moves to the position of m or stays where it is.
Moves(st, tt, m, p) ==
    \/ /\ ~Of(m, p)
       /\ tt = st \/ (st # None /\ tt # None /\ tt.epoch = st.epoch /\ tt.last = st.last)
    \/ /\ Of(m, p)
       /\ tt # None /\ tt.epoch = m.body.epoch
       /\ \/ tt.last \in {None, PositionOf(m)}
          \/ st # None /\ st.epoch = tt.epoch /\ tt.last = st.last

LEMMA TailIsShorter ==
  ASSUME NEW q \in Seq(Message), q # <<>>
  PROVE  /\ Head(q) = q[1] /\ Len(q) \in Nat /\ Len(q) > 0 /\ 1 \in 1..Len(q)
         /\ q[1] \in Message
         /\ Tail(q) \in Seq(Message) /\ Len(Tail(q)) \in Nat /\ Len(q) = Len(Tail(q)) + 1
         /\ \A i \in 1..Len(Tail(q)) : i + 1 \in 1..Len(q) /\ Tail(q)[i] = q[i + 1]
         /\ \A i \in 1..Len(q) : i # 1 => i - 1 \in 1..Len(Tail(q)) /\ Tail(q)[i - 1] = q[i]
  <1>1. /\ Len(q) \in Nat /\ Len(q) > 0 /\ Head(q) = q[1] /\ q[1] \in Message
        /\ Tail(q) \in Seq(Message) /\ Len(Tail(q)) = Len(q) - 1
        /\ \A i \in 1..Len(Tail(q)) : Tail(q)[i] = q[i + 1]
    OBVIOUS
  <1>2. Len(Tail(q)) \in Nat /\ Len(q) = Len(Tail(q)) + 1
    BY <1>1
  <1>3. \A i \in 1..Len(q) : i # 1 => i - 1 \in 1..Len(Tail(q)) /\ (i - 1) + 1 = i
    BY <1>1, <1>2
  <1>4. \A i \in 1..Len(Tail(q)) : i + 1 \in 1..Len(q)
    BY <1>1, <1>2
  <1> QED
    BY <1>1, <1>2, <1>3, <1>4

\* What the view comes after, it comes after when it has moved.
LEMMA MovedIsNotAfter ==
  ASSUME NEW st, NEW tt, NEW m, NEW p, Moves(st, tt, m, p), tt # None, NEW n,
         st # None => NotAfter(st.epoch, st.last, n),
         Of(m, p) => NotAfter(m.body.epoch, PositionOf(m), n)
  PROVE  NotAfter(tt.epoch, tt.last, n)
  BY DEF Moves, NotAfter

LEMMA AnnouncedAfterHead ==
  ASSUME NEW q \in Seq(Message), q # <<>>, NEW st, NEW tt, NEW p, Moves(st, tt, Head(q), p),
         NEW epoch, NEW n \in Nat, Announced(st, q, p, epoch, n + 1),
         st # None /\ st.epoch = epoch /\ Of(Head(q), p) => Head(q).body.epoch = epoch
  PROVE  Announced(tt, Tail(q), p, epoch, n)
  <1> DEFINE m == Head(q)
  <1>1. CASE st # None /\ st.epoch = epoch
    <2>1. tt # None /\ tt.epoch = epoch
      BY <1>1 DEF Moves
    <2> QED
      BY <2>1 DEF Announced
  <1>2. ASSUME NEW h \in 1..Len(q), h < n + 1, ChunkOf(q[h], p, epoch)
        PROVE  Announced(tt, Tail(q), p, epoch, n)
    <2>1. CASE h = 1
      <3>1. Of(m, p) /\ m.body.epoch = epoch
        BY <2>1, <1>2, TailIsShorter DEF ChunkOf, Of
      <3> QED
        BY <3>1 DEF Announced, Moves
    <2>2. CASE h # 1
      <3>1. h - 1 \in 1..Len(Tail(q)) /\ Tail(q)[h - 1] = q[h] /\ h - 1 < n
        BY <2>2, <1>2, TailIsShorter
      <3> QED
        BY <3>1, <1>2 DEF Announced
    <2> QED
      BY <2>1, <2>2
  <1> QED
    BY <1>1, <1>2 DEF Announced

LEMMA HeadIsTaken ==
  ASSUME Inv, completions # <<>>, completions' = Tail(completions),
         UNCHANGED <<provider, registered, worker, active>>,
         \A p \in Providers : Moves(streams[p], streams'[p], Head(completions), p)
  PROVE  /\ Queue(completions, Revisions, registered, streams)'
         /\ Working(worker, active, registered, provider, completions, streams)'
         /\ \A p \in Providers : Ahead(streams'[p], completions', p)
         /\ Revisions' = Revisions
  <1> DEFINE q == completions
             t == Tail(completions)
             m == Head(completions)
  <1>1. /\ q \in Seq(Message) /\ q # <<>> /\ completions' = t
        /\ Queue(q, Revisions, registered, streams)
        /\ Working(worker, active, registered, provider, q, streams)
        /\ Revisions' = Revisions
    BY DEF Inv, Types, TypeOK, Revisions
  <1>2. /\ m = q[1] /\ Len(q) \in Nat /\ 1 \in 1..Len(q) /\ m \in Message
        /\ t \in Seq(Message) /\ Len(t) \in Nat /\ Len(q) = Len(t) + 1
        /\ \A i \in 1..Len(t) : i + 1 \in 1..Len(q) /\ t[i] = q[i + 1]
    BY <1>1, TailIsShorter
  <1>3. \A p \in Providers : Ahead(streams[p], q, p)
    BY DEF Inv, Views, View
  <1>4. ASSUME NEW p \in Providers
        PROVE  Moves(streams[p], streams'[p], m, p) /\ Moves(streams[p], streams'[p], Head(q), p)
    OBVIOUS
  <1>5. ASSUME NEW x, NEW p \in Providers, x \in Message, Of(x, p)
        PROVE  x.body.epoch \in Nat
    BY <1>5 DEF Of, Message, Event, Chunk
  <1>6. ASSUME NEW p \in Providers, streams[p] # None PROVE streams[p].epoch \in Nat
    BY <1>6, SourcesAreApart DEF Inv, Types, TypeOK, StateTypeOK, Stream
  <1> HIDE DEF q, t, m
  <1>7. Len(t) + 1 \in Nat /\ Len(q) + 1 = (Len(t) + 1) + 1 /\ m = Head(q) /\ t = Tail(q)
    BY <1>2 DEF m, q, t
  <1>8. \A i \in 1..Len(t) : Good(Revisions, t[i])
    BY <1>1, <1>2 DEF Queue
  <1>9. ASSUME NEW i \in 1..Len(t), NEW p \in Providers, Of(m, p), Of(t[i], p)
        PROVE  NotAfter(m.body.epoch, PositionOf(m), t[i])
    <2>1. i + 1 \in 1..Len(q) /\ t[i] = q[i + 1] /\ 1 < i + 1
      BY <1>2
    <2> QED
      BY <2>1, <1>1, <1>2, <1>9 DEF Queue, InOrder
  <1>10. InOrder(t)
    <2> SUFFICES ASSUME NEW i \in 1..Len(t), NEW j \in 1..Len(t), NEW p \in Providers,
                        i < j, Of(t[i], p), Of(t[j], p)
                 PROVE  NotAfter(t[i].body.epoch, PositionOf(t[i]), t[j])
      BY DEF InOrder
    <2>1. /\ i + 1 \in 1..Len(q) /\ t[i] = q[i + 1] /\ j + 1 \in 1..Len(q) /\ t[j] = q[j + 1]
          /\ i + 1 < j + 1
      BY <1>2
    <2> QED
      BY <2>1, <1>1 DEF Queue, InOrder
  <1>11. Registered(t, Revisions, registered)
    BY <1>1, <1>2 DEF Queue, Registered
  <1>12. EventsAnnounced(streams', t)
    <2> SUFFICES ASSUME NEW i \in 1..Len(t), NEW p \in Providers,
                        t[i].kind = "Event", t[i].body.source = p
                 PROVE  Announced(streams'[p], t, p, t[i].body.epoch, i)
      BY DEF EventsAnnounced
    <2> DEFINE epoch == t[i].body.epoch
    <2>1. i + 1 \in 1..Len(q) /\ t[i] = q[i + 1] /\ i \in Nat /\ Of(t[i], p) /\ t[i] \in Message
      BY <1>2 DEF Of
    <2>2. Announced(streams[p], q, p, epoch, i + 1)
      BY <2>1, <1>1 DEF Queue, EventsAnnounced
    <2>3. ASSUME streams[p] # None, streams[p].epoch = epoch, Of(m, p)
          PROVE  m.body.epoch = epoch
      <3>1. streams[p].epoch <= m.body.epoch /\ m.body.epoch <= epoch
        BY <2>1, <2>3, <1>2, <1>3, <1>9 DEF Ahead, NotAfter
      <3>2. m.body.epoch \in Nat /\ epoch \in Nat
        BY <2>1, <2>3, <1>2, <1>5
      <3> QED
        BY <3>1, <3>2, <2>3
    <2> HIDE DEF epoch
    <2>4. streams[p] # None /\ streams[p].epoch = epoch /\ Of(Head(q), p) => Head(q).body.epoch = epoch
      BY <2>3, <1>7
    <2>5. Announced(streams'[p], Tail(q), p, epoch, i)
      BY <2>1, <2>2, <2>4, <1>1, <1>4, AnnouncedAfterHead
    <2> QED
      BY <2>5, <1>7 DEF epoch
  <1>13. ASSUME NEW p \in Providers PROVE Ahead(streams'[p], t, p)
    <2> SUFFICES ASSUME streams'[p] # None, NEW i \in 1..Len(t), Of(t[i], p)
                 PROVE  NotAfter(streams'[p].epoch, streams'[p].last, t[i])
      BY DEF Ahead
    <2>1. streams[p] # None => NotAfter(streams[p].epoch, streams[p].last, t[i])
      BY <1>2, <1>3 DEF Ahead
    <2> QED
      BY <2>1, <1>4, <1>9, MovedIsNotAfter
  <1>14. ASSUME NEW p \in Providers, IsRegistered(registered[p], Revisions[p]),
                Announced(streams[p], q, p, registered[p].epoch, Len(q) + 1)
         PROVE  Announced(streams'[p], t, p, registered[p].epoch, Len(t) + 1)
    <2> DEFINE epoch == registered[p].epoch
    <2>1. ASSUME streams[p] # None, streams[p].epoch = epoch, Of(m, p)
          PROVE  m.body.epoch = epoch
      <3>1. streams[p].epoch <= m.body.epoch /\ m.body.epoch <= epoch
        BY <2>1, <1>1, <1>2, <1>3 DEF Ahead, NotAfter, Queue, Registered
      <3>2. m.body.epoch \in Nat /\ epoch \in Nat
        BY <2>1, <1>2, <1>5, <1>14 DEF IsRegistered
      <3> QED
        BY <3>1, <3>2, <2>1
    <2> HIDE DEF epoch
    <2>2. streams[p] # None /\ streams[p].epoch = epoch /\ Of(Head(q), p) => Head(q).body.epoch = epoch
      BY <2>1, <1>7
    <2>3. Announced(streams[p], q, p, epoch, (Len(t) + 1) + 1)
      BY <1>7, <1>14 DEF epoch
    <2>4. Announced(streams'[p], Tail(q), p, epoch, Len(t) + 1)
      BY <2>2, <2>3, <1>1, <1>4, <1>7, AnnouncedAfterHead
    <2> QED
      BY <2>4, <1>7 DEF epoch
  <1>15. \A p \in Providers : Revisions[p] = provider[p].revisions
    BY DEF Revisions
  <1>16. Working(worker, active, registered, provider, t, streams')
    <2>1. active \subseteq Providers /\ worker.todo \subseteq Providers
      BY DEF Inv, Types, TypeOK
    <2>2. ASSUME NEW p \in active
          PROVE  /\ UpToDate(registered[p], provider[p])
                 /\ Announced(streams'[p], t, p, registered[p].epoch, Len(t) + 1)
      <3>1. /\ p \in Providers /\ UpToDate(registered[p], provider[p])
            /\ Announced(streams[p], q, p, registered[p].epoch, Len(q) + 1)
        BY <2>1, <1>1 DEF Working
      <3>2. IsRegistered(registered[p], Revisions[p])
        BY <3>1, <1>15 DEF UpToDate
      <3> QED
        BY <3>1, <3>2, <1>14
    <2>3. ASSUME worker.pc = "gap"
          PROVE  Announced(streams'[worker.at], t, worker.at, registered[worker.at].epoch, Len(t) + 1)
      <3>1. /\ worker.at \in Providers
            /\ IsRegistered(registered[worker.at], provider[worker.at].revisions)
            /\ Announced(streams[worker.at], q, worker.at, registered[worker.at].epoch, Len(q) + 1)
        BY <2>3, <1>1 DEF Working
      <3> QED
        BY <3>1, <1>14, <1>15
    <2>4. ASSUME worker.pc = "emit"
          PROVE  Emits(worker.chunks, worker.at, registered[worker.at],
                       provider[worker.at].revisions, t, streams'[worker.at])
      <3> DEFINE p == worker.at
                 n == [kind |-> "Snapshot", body |-> worker.chunks[1]]
      <3>1. /\ p \in Providers
            /\ Emits(worker.chunks, p, registered[p], provider[p].revisions, q, streams[p])
        BY <2>1, <2>4, <1>1 DEF Working
      <3> HIDE DEF p
      <3>2. /\ \A i \in 1..Len(q) : Of(q[i], p) => NotAfter(q[i].body.epoch, PositionOf(q[i]), n)
            /\ streams[p] # None => NotAfter(streams[p].epoch, streams[p].last, n)
        BY <3>1 DEF Emits
      <3>3. Of(m, p) => NotAfter(m.body.epoch, PositionOf(m), n)
        BY <3>2, <1>2
      <3> HIDE DEF n
      <3>4. streams'[p] # None => NotAfter(streams'[p].epoch, streams'[p].last, n)
        BY <3>1, <3>2, <3>3, <1>4, MovedIsNotAfter
      <3>5. \A i \in 1..Len(t) : Of(t[i], p) => NotAfter(t[i].body.epoch, PositionOf(t[i]), n)
        BY <3>2, <1>2
      <3>6. Emits(worker.chunks, p, registered[p], provider[p].revisions, t, streams'[p])
        BY <3>1, <3>4, <3>5 DEF Emits, n
      <3> QED
        BY <3>6 DEF p
    <2> QED
      BY <2>2, <2>3, <2>4, <1>1 DEF Working
  <1>17. Queue(t, Revisions, registered, streams')
    BY <1>8, <1>10, <1>11, <1>12 DEF Queue
  <1> QED
    BY <1>1, <1>13, <1>16, <1>17

-------------------------------------------------------------------------------
(* What is shown of provider p, when the view moves or a record changes *)

\* A record that says of p what another one says
SameOf(r, z, p) ==
    r # None => z # None /\ (p \in r.live <=> p \in z.live) /\ r.evidence[p] = z.evidence[p]

\* A record that says nothing of p
Silent(r, p) == r # None => p \notin r.live /\ r.evidence[p] = None

\* The stream keeps its position, and shows no more than before.
Stays(st, tt) ==
    /\ st # None /\ tt # None /\ tt.epoch = st.epoch /\ tt.last = st.last
    /\ tt.complete /\ ~tt.reconciling => st.complete /\ ~st.reconciling

LEMMA SameIsSeen ==
  ASSUME NEW st, NEW rs, NEW p, NEW s, NEW r, NEW z, Seen(st, rs, p, s, z), SameOf(r, z, p)
  PROVE  Seen(st, rs, p, s, r)
  BY DEF Seen, SameOf, Claim, Honest

LEMMA SilentIsSeen ==
  ASSUME NEW st, NEW rs, NEW p, NEW s, NEW r, Silent(r, p) PROVE Seen(st, rs, p, s, r)
  BY DEF Seen, Silent, Claim, Honest

LEMMA SeenByStream ==
  ASSUME NEW st, NEW tt, NEW rs, NEW p, NEW s, NEW r, Seen(st, rs, p, s, r), Stays(st, tt)
  PROVE  Seen(tt, rs, p, s, r)
  <1>1. Horizon(tt, rs) = Horizon(st, rs)
    BY DEF Stays, Horizon
  <1> QED
    BY <1>1 DEF Seen, Stays, Claim, Honest

\* Nothing is known of a provider without a stream.
LEMMA NothingSeen ==
  ASSUME NEW rs, NEW p, NEW s, NEW r, Seen(None, rs, p, s, r) PROVE Silent(r, p)
  BY DEF Seen, Silent, Claim

LEMMA StandsOn ==
  ASSUME NEW st, NEW tt, NEW its, NEW rs, Stands(st, its, rs), Stays(st, tt)
  PROVE  Stands(tt, its, rs)
  BY DEF Stands, Stays

LEMMA CollectedOn ==
  ASSUME NEW st, NEW tt, NEW pd, NEW rs, Collected(st, pd, rs), Stays(st, tt)
  PROVE  Collected(tt, pd, rs)
  BY DEF Collected, Stays

\* The time of a revision rises, and all of it is before the next one.
LEMMA HorizonsAreOrdered ==
  ASSUME NEW rs \in Seq(Revision), Ordered(rs), Shape,
         NEW st \in Stream, NEW e \in 1..Len(rs), NEW n \in 1..Len(rs[e].known),
         st.epoch \in 1..Len(rs), st.last # None => Knows(rs, st.epoch, st.last),
         st.epoch <= e, st.epoch = e /\ st.last # None => st.last <= n
  PROVE  /\ Horizon(st, rs) \in Nat /\ TimeOf(rs[e], n) \in Nat
         /\ Horizon(st, rs) <= TimeOf(rs[e], n)
  <1> DEFINE d == st.epoch
             k == IF st.last = None THEN 1 ELSE st.last
             l == Len(rs[d].known)
             since == rs[d].since
             after == rs[e].since
  <1>1. /\ d \in 1..Len(rs) /\ l \in Nat /\ l > 0 /\ since \in Nat
        /\ after \in Nat /\ e \in Nat /\ d \in Nat /\ n \in Nat /\ n > 0
    <2>1. Len(rs[d].known) \in Nat /\ Len(rs[d].known) > 0 /\ rs[d].since \in Nat
      BY LengthsAreNumbers DEF Ordered
    <2>2. Len(rs[e].known) \in Nat /\ rs[e].since \in Nat
      BY LengthsAreNumbers
    <2> QED
      BY <2>1, <2>2
  <1>2. k \in 1..l
    <2>1. st.last # None => st.last \in 1..Len(rs[st.epoch].known)
      BY DEF Knows
    <2> HIDE DEF l
    <2>2. 1 \in 1..l
      BY <1>1
    <2> QED
      BY <2>1, <2>2 DEF l
  <1>3. Horizon(st, rs) = since + k - 1 /\ TimeOf(rs[e], n) = after + n - 1
    BY DEF Horizon, TimeOf
  <1>4. d < e => since + l - 1 <= after
    BY <1>1 DEF Ordered, TimeOf
  <1>5. d = e => since = after /\ k <= n
    BY <1>1
  <1>6. d <= e
    OBVIOUS
  <1> HIDE DEF d, k, l, since, after
  <1>7. k \in Nat /\ k > 0 /\ k <= l
    BY <1>1, <1>2
  <1>8. since + k - 1 \in Nat /\ after + n - 1 \in Nat
    BY <1>1, <1>7
  <1>9. since + k - 1 <= after + n - 1
    <2>1. CASE d < e
      BY <2>1, <1>1, <1>4, <1>7
    <2>2. CASE d = e
      BY <2>2, <1>1, <1>5, <1>7
    <2> QED
      BY <2>1, <2>2, <1>1, <1>6
  <1> QED
    BY <1>3, <1>8, <1>9

\* What a claim says is no later than a position that the view comes to.
LEMMA ClaimsAreEarlier ==
  ASSUME NEW rs \in Seq(Revision), Ordered(rs), Shape,
         NEW st \in Stream \cup {None}, NEW its, Stands(st, its, rs),
         NEW e \in 1..Len(rs), NEW n \in 1..Len(rs[e].known),
         st # None => st.epoch <= e /\ (st.epoch = e /\ st.last # None => st.last <= n),
         NEW p, NEW s, NEW r, r # None, r.evidence[p] # None, r.evidence[p].at \in Nat,
         Seen(st, rs, p, s, r)
  PROVE  r.evidence[p].at <= TimeOf(rs[e], n)
  <1>1. st # None /\ r.evidence[p].at <= Horizon(st, rs)
    BY DEF Seen, Claim
  <1>2. st \in Stream /\ st.epoch \in 1..its.epoch /\ IsRegistered(its, rs)
        /\ (st.last # None => Knows(rs, st.epoch, st.last))
    BY <1>1 DEF Stands
  <1>3. st.epoch \in 1..Len(rs)
    BY <1>2 DEF IsRegistered
  <1>4. /\ Horizon(st, rs) \in Nat /\ TimeOf(rs[e], n) \in Nat
        /\ Horizon(st, rs) <= TimeOf(rs[e], n)
    BY <1>1, <1>2, <1>3, HorizonsAreOrdered
  <1> QED
    BY <1>1, <1>4

\* Records and what they say
LEMMA Records ==
  ASSUME Shape, NEW r \in Record \cup {None}, NEW x \in Sources, NEW o \in Observation
  PROVE  /\ Observed(r, x, o) \in Record
         /\ x \in Observed(r, x, o).live
         /\ Observed(r, x, o).evidence[x] =
               Updated(IF r = None THEN None ELSE r.evidence[x], o)
         /\ \A p \in Sources : p # x =>
               SameOf(Observed(r, x, o), r, p) \/ Silent(Observed(r, x, o), p)
  <1> DEFINE old == IF r = None THEN NewRecord ELSE r
             z == Observed(r, x, o)
             u == Updated(old.evidence[x], o)
  <1>1. NewRecord \in Record /\ \A p \in Sources : NewRecord.evidence[p] = None /\ p \notin NewRecord.live
    BY DEF NewRecord, Record
  <1>2. old \in Record
    BY <1>1
  <1>3. /\ old.evidence \in [Sources -> Evidence \cup {None}] /\ old.live \in SUBSET Sources
        /\ old.metadata \in BOOLEAN /\ old.dropped \in BOOLEAN
    BY <1>2 DEF Record
  <1>4. u \in Evidence \cup {None}
    BY <1>3 DEF Updated, NotOlder, Observation, Evidence
  <1> HIDE DEF u
  <1>5. z = [old EXCEPT !.mode = "LiveObserved", !.live = @ \cup {x}, !.expired = FALSE,
                        !.evidence[x] = u]
    BY DEF Observed, u
  <1> HIDE DEF old, z
  <1>6. /\ z \in Record /\ z.live = old.live \cup {x} /\ z.evidence = [old.evidence EXCEPT ![x] = u]
    BY <1>2, <1>3, <1>4, <1>5 DEF Record
  <1>7. /\ x \in z.live /\ z.evidence[x] = u
        /\ \A p \in Sources : p # x => z.evidence[p] = old.evidence[p] /\ (p \in z.live <=> p \in old.live)
    BY <1>3, <1>6
  <1>8. u = Updated(IF r = None THEN None ELSE r.evidence[x], o)
    BY <1>1 DEF u, old
  <1>9. \A p \in Sources : p # x => SameOf(z, r, p) \/ Silent(z, p)
    BY <1>1, <1>7 DEF SameOf, Silent, old
  <1> QED
    BY <1>6, <1>7, <1>8, <1>9 DEF z

\* The view of p after a step that is about other sources.
LEMMA OthersView ==
  ASSUME Inv, NEW p \in Providers, streams'[p] = streams[p], pending'[p] = pending[p],
         registered' = registered, Revisions' = Revisions,
         Ahead(streams'[p], completions', p),
         \A s \in Sessions : SameOf(sessions'[s], sessions[s], p) \/ Silent(sessions'[s], p)
  PROVE  View(streams[p], pending[p], registered[p], Revisions[p], completions, p, sessions)'
  <1>1. View(streams[p], pending[p], registered[p], Revisions[p], completions, p, sessions)
    BY DEF Inv, Views
  <1>2. ASSUME NEW s \in Sessions PROVE Seen(streams[p], Revisions[p], p, s, sessions'[s])
    <2>1. Seen(streams[p], Revisions[p], p, s, sessions[s])
      BY <1>1 DEF View
    <2> QED
      BY <2>1, SameIsSeen, SilentIsSeen
  <1> QED
    BY <1>1, <1>2 DEF View

-------------------------------------------------------------------------------
(* The view reduces what it takes. *)

RequestsFit(q) ==
    /\ q \in Seq(RequestMessage) /\ Len(q) <= RequestCapacity
    /\ \A i \in 1..Len(q) : q[i].kind = "ScheduleExpiry" => q[i].key.source \notin Providers

LEMMA SubmitFits ==
  ASSUME Shape, NEW q, RequestsFit(q), NEW m \in RequestMessage,
         m.kind = "ScheduleExpiry" => m.key.source \notin Providers
  PROVE  RequestsFit(Submit(q, m))
  <1>1. /\ Submit(q, m) \in Seq(RequestMessage) /\ Len(Submit(q, m)) <= RequestCapacity
        /\ \A i \in 1..Len(Submit(q, m)) :
              Submit(q, m)[i] = m \/ \E j \in 1..Len(q) : Submit(q, m)[i] = q[j]
    BY Submitted DEF RequestsFit
  <1> QED
    BY <1>1 DEF RequestsFit

LEMMA RequestsFitNow ==
  ASSUME Inv PROVE RequestsFit(requests) /\ Shape
  BY DEF Inv, Types, TypeOK, Leases, RequestsFit

LEMMA FollowFits ==
  ASSUME Inv, NEW x \in Sources, NEW items \in SUBSET Observation, Follow(x, items),
         x \in Providers => \A o \in items : o.until = None
  PROVE  RequestsFit(requests')
  <1>1. RequestsFit(requests) /\ Shape
    BY RequestsFitNow
  <1>2. CASE items = {}
    BY <1>1, <1>2 DEF Follow
  <1>3. CASE items # {}
    <2>1. PICK o \in items : requests' = FollowUp(x, o, requests)
      BY <1>3 DEF Follow
    <2> DEFINE m == [kind |-> "PersistMetadata", session |-> o.session]
               n == [kind |-> "ScheduleExpiry", until |-> o.until,
                     key |-> [session |-> o.session, source |-> x]]
               noted == Submit(requests, m)
    <2>2. o.session \in Sessions /\ o.until \in Nat \cup {None}
      BY DEF Observation
    <2>3. m \in RequestMessage /\ m.kind # "ScheduleExpiry"
      BY <2>2 DEF RequestMessage
    <2>4. o.until # None => n \in RequestMessage /\ n.key.source = x
      BY <2>2 DEF RequestMessage, ExpiryKey
    <2>5. requests' = IF o.until = None THEN noted ELSE Submit(noted, n)
      BY <2>1 DEF FollowUp
    <2> HIDE DEF m, n
    <2>6. RequestsFit(noted)
      BY <2>3, <1>1, SubmitFits
    <2> HIDE DEF noted
    <2>7. o.until # None => RequestsFit(Submit(noted, n))
      BY <2>4, <2>6, <1>1, SubmitFits
    <2> QED
      BY <2>5, <2>6, <2>7
  <1> QED
    BY <1>2, <1>3

\* A reduction keeps the invariant if it moves each stream to the message at most, and
\* keeps the view.
LEMMA ReductionKeepsInv ==
  ASSUME Inv, completions # <<>>, completions' = Tail(completions),
         UNCHANGED <<outside, notice, workerVars>>, RequestsFit(requests'), StateTypeOK',
         \A p \in Providers : Moves(streams[p], streams'[p], Head(completions), p),
         \A p \in Providers :
            Ahead(streams'[p], completions', p) /\ Revisions' = Revisions
            /\ registered' = registered =>
               View(streams[p], pending[p], registered[p], Revisions[p], completions, p, sessions)'
  PROVE  Inv'
  <1>1. UNCHANGED <<provider, inbox, sent, stored, clock, notice, worker, active, reconcile,
                    registered, expiries>>
    BY DEF outside, workerVars
  <1>2. /\ completions' \in Seq(Message) /\ Len(completions') <= Capacity
    <2>1. completions \in Seq(Message) /\ Len(completions) <= Capacity /\ Capacity \in Nat
      BY DEF Inv, Types, TypeOK, Shape
    <2> DEFINE t == Tail(completions)
    <2>2. t \in Seq(Message) /\ Len(t) \in Nat /\ Len(completions) = Len(t) + 1
      BY <2>1, TailIsShorter
    <2>3. completions' = t
      OBVIOUS
    <2> HIDE DEF t
    <2> QED
      BY <2>1, <2>2, <2>3
  <1>3. TypeOK'
    BY <1>1, <1>2 DEF Inv, Types, TypeOK, RequestsFit
  <1>4. Types' /\ History(provider)'
    BY <1>1, <1>3 DEF Inv, Types
  <1>5. Leases(inbox, requests, expiries)'
    BY <1>1 DEF Inv, Leases, RequestsFit
  <1>6. /\ Queue(completions, Revisions, registered, streams)'
        /\ Working(worker, active, registered, provider, completions, streams)'
        /\ \A p \in Providers : Ahead(streams'[p], completions', p)
        /\ Revisions' = Revisions
    BY <1>1, HeadIsTaken
  <1>7. Views'
    BY <1>1, <1>6 DEF Views
  <1> QED
    BY <1>4, <1>5, <1>6, <1>7 DEF Inv

LEMMA StateTypes ==
  ASSUME Inv
  PROVE  /\ sessions \in [Sessions -> Record \cup {None}]
         /\ streams \in [Sources -> Stream \cup {None}]
         /\ pending \in [Sources -> Pending \cup {None}]
         /\ Shape /\ Providers \subseteq Sources
         /\ None \notin Record /\ None \notin Stream /\ None \notin Nat /\ None \notin Evidence
         /\ None \notin Values
  BY SourcesAreApart, NoneIsDistinct DEF Inv, Types, TypeOK, StateTypeOK

LEMMA Domains ==
  ASSUME Inv PROVE DOMAIN sessions = Sessions /\ DOMAIN provider = Providers
  <1>1. sessions \in [Sessions -> Record \cup {None}]
    BY StateTypes
  <1>2. provider \in [Providers -> ProviderState]
    BY DEF Inv, Types, TypeOK
  <1> QED
    BY <1>1, <1>2

\* The stream of a hook or of a provider that an event or a chunk belongs to
LEMMA StreamsAreTyped ==
  ASSUME Inv, NEW x \in Sources, NEW epoch \in Nat
  PROVE  StreamOf(x, epoch) \in Stream
  <1>1. FreshStream(epoch) \in Stream
    BY DEF FreshStream, Stream
  <1> QED
    BY <1>1, StateTypes DEF StreamOf

LEMMA StreamsStayTyped ==
  ASSUME NEW st \in Stream, NEW epoch \in Nat, NEW last \in Nat \cup {None},
         NEW seen \in SUBSET EventId, NEW r \in BOOLEAN, NEW c \in BOOLEAN
  PROVE  /\ [st EXCEPT !.epoch = epoch, !.last = None, !.seen = {}, !.reconciling = TRUE] \in Stream
         /\ [st EXCEPT !.epoch = epoch, !.last = None, !.reconciling = TRUE] \in Stream
         /\ [st EXCEPT !.seen = seen, !.reconciling = TRUE] \in Stream
         /\ [st EXCEPT !.seen = seen, !.last = last, !.reconciling = r] \in Stream
         /\ [st EXCEPT !.last = last, !.complete = c, !.reconciling = r] \in Stream
         /\ [st EXCEPT !.reconciling = TRUE, !.complete = FALSE] \in Stream
         /\ [st EXCEPT !.reconciling = TRUE] \in Stream
  BY DEF Stream

\* The head of the queue, as the view meets it
LEMMA HeadFacts ==
  ASSUME Inv, completions # <<>>
  PROVE  LET m == Head(completions)
         IN  /\ m \in Message /\ Good(Revisions, m)
             /\ \A p \in Providers : Of(m, p) =>
                   /\ IsRegistered(registered[p], Revisions[p])
                   /\ m.body.epoch <= registered[p].epoch
                   /\ streams[p] # None => NotAfter(streams[p].epoch, streams[p].last, m)
                   /\ m.kind = "Event" => streams[p] # None /\ streams[p].epoch = m.body.epoch
  <1> DEFINE m == Head(completions)
  <1>1. completions \in Seq(Message) /\ Queue(completions, Revisions, registered, streams)
    BY DEF Inv, Types, TypeOK
  <1>2. m = completions[1] /\ 1 \in 1..Len(completions) /\ m \in Message
    BY <1>1, TailIsShorter
  <1> HIDE DEF m
  <1>3. Good(Revisions, m)
    BY <1>1, <1>2 DEF Queue
  <1>4. ASSUME NEW p \in Providers, Of(m, p)
        PROVE  /\ IsRegistered(registered[p], Revisions[p]) /\ m.body.epoch <= registered[p].epoch
               /\ streams[p] # None => NotAfter(streams[p].epoch, streams[p].last, m)
               /\ m.kind = "Event" => streams[p] # None /\ streams[p].epoch = m.body.epoch
    <2>1. IsRegistered(registered[p], Revisions[p]) /\ m.body.epoch <= registered[p].epoch
      BY <1>1, <1>2, <1>4 DEF Queue, Registered
    <2>2. Ahead(streams[p], completions, p)
      BY DEF Inv, Views, View
    <2>3. streams[p] # None => NotAfter(streams[p].epoch, streams[p].last, m)
      BY <1>2, <1>4, <2>2 DEF Ahead
    <2>4. ASSUME m.kind = "Event"
          PROVE  streams[p] # None /\ streams[p].epoch = m.body.epoch
      <3>1. Announced(streams[p], completions, p, m.body.epoch, 1)
        BY <2>4, <1>1, <1>2, <1>4 DEF Queue, EventsAnnounced, Of
      <3>2. \A h \in 1..Len(completions) : ~(h < 1)
        OBVIOUS
      <3> QED
        BY <3>1, <3>2 DEF Announced
    <2> QED
      BY <2>1, <2>3, <2>4
  <1> QED
    BY <1>2, <1>3, <1>4 DEF m

\* What an event e of a hook or a provider does to the streams and the sessions
LEMMA EventsAreTyped ==
  ASSUME Inv, NEW e \in Event, e.op = "Upsert" => e.item \in Observation, ApplyEvent(e)
  PROVE  StateTypeOK'
  <1> DEFINE x == e.source
             st == StreamOf(x, e.epoch)
  <1>1. x \in Sources /\ e.epoch \in Nat /\ e.id \in EventId /\ e.seq \in Nat \cup {None}
    BY DEF Event
  <1>2. st \in Stream
    BY <1>1, StreamsAreTyped
  <1>3. /\ sessions \in [Sessions -> Record \cup {None}]
        /\ streams \in [Sources -> Stream \cup {None}]
        /\ pending \in [Sources -> Pending \cup {None}] /\ Shape
    BY StateTypes
  <1>4. st.seen \cup {e.id} \in SUBSET EventId /\ st.last \in Nat \cup {None}
        /\ st.reconciling \in BOOLEAN /\ st.complete \in BOOLEAN
    BY <1>1, <1>2 DEF Stream
  <1>5. CASE RefuseEvent(e)
    <2> DEFINE tt == IF WrongEpoch(st, e)
                     THEN [st EXCEPT !.epoch = e.epoch, !.last = None, !.seen = {},
                                     !.reconciling = TRUE]
                     ELSE st
    <2>1. tt \in Stream
      BY ZenonT(40), <1>1, <1>2, StreamsStayTyped
    <2>2. streams' = [streams EXCEPT ![x] = tt] /\ UNCHANGED <<sessions, pending>>
      BY <1>5 DEF RefuseEvent
    <2> HIDE DEF tt, st
    <2> QED
      BY SMTT(40), <2>1, <2>2, <1>1, <1>3 DEF StateTypeOK
  <1>6. CASE ApplyControl(e)
    <2> DEFINE tt == [st EXCEPT !.seen = @ \cup {e.id}, !.reconciling = TRUE]
    <2>1. tt \in Stream
      BY <1>2, <1>4 DEF Stream
    <2>2. streams' = [streams EXCEPT ![x] = tt] /\ UNCHANGED <<sessions, pending>>
      BY <1>6 DEF ApplyControl
    <2> HIDE DEF tt, st
    <2> QED
      BY <2>1, <2>2, <1>1, <1>3 DEF StateTypeOK
  <1>7. CASE ApplyUpsert(e)
    <2> DEFINE last == IF e.seq = None THEN st.last ELSE e.seq
               r == st.reconciling \/ SkipsAhead(st, e)
               tt == [st EXCEPT !.seen = @ \cup {e.id}, !.last = last, !.reconciling = r]
               z == Observed(sessions[e.item.session], x, e.item)
    <2>1. /\ streams' = [streams EXCEPT ![x] = tt] /\ pending' = pending
          /\ sessions' = [sessions EXCEPT ![e.item.session] = z]
          /\ e.item \in Observation
      BY <1>7 DEF ApplyUpsert
    <2>2. last \in Nat \cup {None} /\ r \in BOOLEAN
      BY <1>1, <1>4 DEF SkipsAhead
    <2> HIDE DEF last, r
    <2>3. tt \in Stream
      BY <2>2, <1>2, <1>4 DEF Stream
    <2>4. e.item.session \in Sessions
      BY <2>1 DEF Observation
    <2>5. z \in Record
      BY <2>1, <2>4, <1>1, <1>3, Records
    <2> HIDE DEF tt, z, st
    <2> QED
      BY <2>1, <2>3, <2>4, <2>5, <1>1, <1>3 DEF StateTypeOK
  <1> QED
    BY <1>5, <1>6, <1>7 DEF ApplyEvent

\* Sources apart from that of the event keep their stream; of them the sessions say
\* the same.
LEMMA EventsAreOfOneSource ==
  ASSUME Inv, NEW e \in Event, e.op = "Upsert" => e.item \in Observation, ApplyEvent(e),
         NEW p \in Providers, p # e.source
  PROVE  /\ streams'[p] = streams[p] /\ pending'[p] = pending[p]
         /\ \A s \in Sessions : SameOf(sessions'[s], sessions[s], p) \/ Silent(sessions'[s], p)
  <1>1. /\ sessions \in [Sessions -> Record \cup {None}] /\ p \in Sources /\ e.source \in Sources
        /\ streams \in [Sources -> Stream \cup {None}] /\ Shape
    BY StateTypes DEF Event
  <1>2. \A s \in Sessions : SameOf(sessions[s], sessions[s], p)
    BY DEF SameOf
  <1>3. CASE RefuseEvent(e) \/ ApplyControl(e)
    BY <1>1, <1>2, <1>3 DEF RefuseEvent, ApplyControl
  <1>4. CASE ApplyUpsert(e)
    <2> DEFINE z == Observed(sessions[e.item.session], e.source, e.item)
    <2>1. /\ streams'[p] = streams[p] /\ pending' = pending /\ e.item \in Observation
          /\ sessions' = [sessions EXCEPT ![e.item.session] = z]
      BY <1>1, <1>4 DEF ApplyUpsert
    <2>2. e.item.session \in Sessions
      BY <2>1 DEF Observation
    <2>3. SameOf(z, sessions[e.item.session], p) \/ Silent(z, p)
      BY <2>1, <2>2, <1>1, Records
    <2> HIDE DEF z
    <2> QED
      BY <2>1, <2>2, <2>3, <1>1, <1>2
  <1> QED
    BY <1>3, <1>4 DEF ApplyEvent

\* An event of the provider that the view knows, in the epoch of the view
LEMMA OwnEvents ==
  ASSUME Inv, NEW e \in Event, e.op = "Upsert" => e.item \in Observation, ApplyEvent(e),
         NEW p \in Providers, e.source = p,
         streams[p] # None, streams[p].epoch = e.epoch, TrueEvent(Revisions[p], e)
  PROVE  /\ Stays(streams[p], streams'[p]) \/ ApplyUpsert(e)
         /\ pending' = pending
         /\ streams'[p] # None /\ streams'[p].epoch = e.epoch
         /\ streams'[p].last \in {streams[p].last, e.seq}
         /\ ~ApplyUpsert(e) => sessions' = sessions
  <1> DEFINE st == streams[p]
  <1>1. /\ p \in Sources /\ streams \in [Sources -> Stream \cup {None}] /\ st \in Stream
        /\ None \notin Stream /\ StreamOf(p, e.epoch) = st
    BY StateTypes DEF StreamOf
  <1> HIDE DEF st
  <1>2. ~WrongEpoch(st, e)
    BY DEF WrongEpoch, st
  <1>3. CASE RefuseEvent(e)
    <2>1. streams' = [streams EXCEPT ![p] = st] /\ UNCHANGED <<sessions, pending>>
      BY <1>1, <1>2, <1>3 DEF RefuseEvent
    <2>2. streams'[p] = st
      BY <1>1, <2>1
    <2> QED
      BY <2>1, <2>2 DEF Stays, st
  <1>4. CASE ApplyControl(e)
    <2> DEFINE tt == [st EXCEPT !.seen = @ \cup {e.id}, !.reconciling = TRUE]
    <2>1. streams' = [streams EXCEPT ![p] = tt] /\ UNCHANGED <<sessions, pending>>
      BY <1>1, <1>4 DEF ApplyControl
    <2>2. /\ tt.epoch = st.epoch /\ tt.last = st.last /\ tt.reconciling = TRUE
          /\ tt \in Stream
      <3>1. st.seen \cup {e.id} \in SUBSET EventId
        BY <1>1 DEF Stream, Event
      <3> QED
        BY <3>1, <1>1 DEF Stream
    <2> HIDE DEF tt
    <2>3. streams'[p] = tt /\ tt # None
      BY <1>1, <2>1, <2>2
    <2> QED
      BY <2>1, <2>2, <2>3 DEF Stays, st
  <1>5. CASE ApplyUpsert(e)
    <2> DEFINE last == IF e.seq = None THEN st.last ELSE e.seq
               r == st.reconciling \/ SkipsAhead(st, e)
               tt == [st EXCEPT !.seen = @ \cup {e.id}, !.last = last, !.reconciling = r]
    <2>1. streams' = [streams EXCEPT ![p] = tt] /\ pending' = pending
      BY <1>1, <1>5 DEF ApplyUpsert
    <2>2. last \in {st.last, e.seq} /\ last \in Nat \cup {None} /\ r \in BOOLEAN
      BY <1>1 DEF Stream, Event, SkipsAhead
    <2> HIDE DEF last, r
    <2>3. tt.epoch = st.epoch /\ tt.last = last /\ tt \in Stream
      <3>1. st.seen \cup {e.id} \in SUBSET EventId
        BY <1>1 DEF Stream, Event
      <3> QED
        BY <3>1, <2>2, <1>1 DEF Stream
    <2> HIDE DEF tt
    <2>4. streams'[p] = tt /\ tt # None
      BY <1>1, <2>1, <2>3
    <2> QED
      BY <2>1, <2>2, <2>3, <2>4, <1>5 DEF st
  <1> QED
    BY <1>3, <1>4, <1>5 DEF ApplyEvent

\* An event that is applied brings the view to the position of the event.
LEMMA AppliedEvent ==
  ASSUME Inv, NEW e \in Event, e.op = "Upsert", e.item \in Observation, ApplyUpsert(e),
         NEW p \in Providers, e.source = p,
         streams[p] # None, streams[p].epoch = e.epoch, TrueEvent(Revisions[p], e),
         View(streams[p], pending[p], registered[p], Revisions[p], completions, p, sessions)
  PROVE  /\ Stands(streams'[p], registered[p], Revisions[p])
         /\ \A s \in Sessions : Seen(streams'[p], Revisions[p], p, s, sessions'[s])
         /\ streams'[p] # None /\ streams'[p].epoch = e.epoch
  <1> DEFINE st == streams[p]
             tt == streams'[p]
             rs == Revisions[p]
             n == e.seq
             o == e.item
             d == e.epoch
             z == Observed(sessions[o.session], p, o)
  <1>1. /\ p \in Sources /\ streams \in [Sources -> Stream \cup {None}] /\ st \in Stream
        /\ None \notin Stream /\ StreamOf(p, d) = st /\ Shape
        /\ sessions \in [Sessions -> Record \cup {None}] /\ None \notin Nat
        /\ None \notin Record /\ None \notin Evidence
    BY StateTypes DEF StreamOf
  <1>2. /\ n \in Nat /\ Change(rs[d], n, o) /\ d \in 1..Len(rs) /\ st.epoch = d
    BY DEF TrueEvent
  <1>3. /\ rs \in Seq(Revision) /\ Ordered(rs)
    BY AllAreRevisions DEF Inv, Types, TypeOK, History, Revisions
  <1>4. /\ n \in 1..Len(rs[d].known) /\ n - 1 \in 1..Len(rs[d].known)
        /\ o.value = rs[d].known[n][o.session] /\ o.at = TimeOf(rs[d], n) /\ o.until = None
        /\ \A s \in Sessions \ {o.session} : rs[d].known[n][s] = rs[d].known[n - 1][s]
        /\ o.session \in Sessions
    BY ZenonT(40), <1>2 DEF Change, Observation
  <1>5. /\ ~Stale(st, e)
        /\ streams' = [streams EXCEPT ![p] =
             [st EXCEPT !.seen = @ \cup {e.id}, !.last = IF n = None THEN @ ELSE n,
                        !.reconciling = @ \/ SkipsAhead(st, e)]]
        /\ sessions' = [sessions EXCEPT ![o.session] = z]
    BY <1>1 DEF ApplyUpsert, Accepted
  <1>6. /\ tt \in Stream /\ tt.epoch = d /\ tt.last = n /\ tt.complete = st.complete
        /\ tt.reconciling = (st.reconciling \/ SkipsAhead(st, e))
    <2> DEFINE r == st.reconciling \/ SkipsAhead(st, e)
               seen == st.seen \cup {e.id}
    <2>1. seen \in SUBSET EventId /\ r \in BOOLEAN
      BY <1>1 DEF Stream, Event, SkipsAhead
    <2>2. tt = [st EXCEPT !.seen = seen, !.last = n, !.reconciling = r]
      BY <1>1, <1>2, <1>5
    <2> HIDE DEF r, seen, tt, st
    <2>3. tt \in Stream /\ tt.epoch = st.epoch /\ tt.last = n /\ tt.complete = st.complete
          /\ tt.reconciling = r
      BY <2>1, <2>2, <1>1, <1>2 DEF Stream
    <2> QED
      BY <2>3, <1>2 DEF r
  <1>7. st.last # None => st.last \in Nat /\ st.last < n
    <2>1. st.last # None => st.last \in Nat /\ ~(n <= st.last)
      BY <1>1, <1>5 DEF Stale, Stream
    <2> QED
      BY <2>1, <1>2
  <1>8. Stands(st, registered[p], rs) /\ \A s \in Sessions : Seen(st, rs, p, s, sessions[s])
    BY SMTT(40) DEF View
  <1>9. /\ \A s \in Sessions : s # o.session => sessions'[s] = sessions[s]
        /\ sessions'[o.session] = z
    BY ZenonT(40), <1>1, <1>4, <1>5
  <1>10. /\ z \in Record /\ p \in z.live
         /\ z.evidence[p] = Updated(IF sessions[o.session] = None THEN None
                                    ELSE sessions[o.session].evidence[p], o)
    <2>1. sessions[o.session] \in Record \cup {None} /\ p \in Sources /\ Shape
      BY ZenonT(40), <1>1, <1>4
    <2> HIDE DEF st, tt, rs, n, d
    <2> QED
      BY <2>1, Records
  <1>11. Horizon(tt, rs) = TimeOf(rs[d], n)
    BY <1>1, <1>2, <1>6 DEF Horizon
  <1> HIDE DEF st, tt, rs, n, o, d, z
  <1>12. TimeOf(rs[d], n) \in Nat
    BY <1>1, <1>2, <1>3, <1>4, KnownIsTyped DEF Knows
  <1>13. Stands(tt, registered[p], rs)
    <2>1. st # None
      BY DEF st
    <2> QED
      BY <2>1, <1>1, <1>2, <1>4, <1>6, <1>8 DEF Stands, Knows
  \* No evidence is later than the event.
  <1>14. ASSUME NEW s \in Sessions, sessions[s] # None, sessions[s].evidence[p] # None
         PROVE  /\ sessions[s].evidence[p].at \in Nat
                /\ sessions[s].evidence[p].at <= TimeOf(rs[d], n)
    <2>1. sessions[s].evidence[p].at \in Nat
      <3>1. sessions[s] \in Record
        BY <1>1, <1>14
      <3>2. sessions[s].evidence[p] \in Evidence
        BY <3>1, <1>1, <1>14 DEF Record
      <3> QED
        BY <3>2 DEF Evidence
    <2>2. st # None => st.epoch <= d /\ (st.epoch = d /\ st.last # None => st.last <= n)
      <3>1. d \in Nat /\ n \in Nat
        BY <1>2
      <3> QED
        BY <3>1, <1>2, <1>7
    <2>3. st \in Stream \cup {None} /\ Seen(st, rs, p, s, sessions[s])
      BY <1>1, <1>8
    <2> QED
      BY <2>1, <2>2, <2>3, <1>1, <1>2, <1>3, <1>4, <1>8, <1>14, ClaimsAreEarlier
  <1>15. ASSUME NEW s \in Sessions, s # o.session PROVE Seen(tt, rs, p, s, sessions'[s])
    <2> DEFINE r == sessions[s]
    <2>1. Seen(st, rs, p, s, r) /\ sessions'[s] = r
      BY <1>8, <1>9, <1>15
    <2>2. CASE r # None
      <3>1. Claim(tt, rs, p \in r.live, r.evidence[p])
        BY <2>2, <1>1, <1>6, <1>11, <1>14 DEF Claim
      <3>2. Honest(tt, rs, s, p \in r.live, r.evidence[p])
        <4> SUFFICES ASSUME p \in r.live, tt.complete, ~tt.reconciling, rs[d].most # None
                     PROVE  (IF r.evidence[p] = None THEN None ELSE r.evidence[p].value)
                               = rs[d].known[n][s]
          BY <1>6 DEF Honest
        <4>1. st.complete /\ ~st.reconciling /\ ~SkipsAhead(st, e)
          BY <1>6
        <4>2. st.last # None
          <5>1. st # None
            BY DEF st
          <5> QED
            BY <5>1, <4>1, <1>8 DEF Stands
        <4>3. n = st.last + 1 /\ n - 1 = st.last
          <5>1. n = st.last + 1
            BY <4>1, <4>2 DEF SkipsAhead, n
          <5> QED
            BY <5>1, <4>2, <1>7
        <4>4. (IF r.evidence[p] = None THEN None ELSE r.evidence[p].value)
                 = rs[st.epoch].known[st.last][s]
          BY <2>1, <2>2, <4>1, <1>2 DEF Seen, Honest
        <4>5. rs[d].known[n][s] = rs[d].known[n - 1][s]
          BY <1>4, <1>15
        <4> QED
          BY <4>3, <4>4, <4>5, <1>2
      <3> QED
        BY <2>1, <3>1, <3>2 DEF Seen
    <2>3. CASE r = None
      BY <2>1, <2>3 DEF Seen
    <2> QED
      BY <2>2, <2>3
  <1>16. Seen(tt, rs, p, o.session, sessions'[o.session])
    <2> DEFINE old == IF sessions[o.session] = None THEN None ELSE sessions[o.session].evidence[p]
    <2>1. z.evidence[p] = Updated(old, o)
      BY <1>10
    <2>2. old = None \/ old.at <= o.at
      BY <1>4, <1>14
    <2> HIDE DEF old
    <2>3. NotOlder(old, o)
      BY <2>2 DEF NotOlder
    <2> DEFINE new == [value |-> o.value, authority |-> o.authority, at |-> o.at,
                       until |-> o.until]
    <2>4. z.evidence[p] = IF o.value = None THEN None ELSE new
      BY <2>1, <2>3 DEF Updated
    <2>5. z # None /\ p \in z.live /\ tt # None
      BY <1>1, <1>6, <1>10
    <2>6. o.value # None => new # None
      <3>1. o.value # None => new \in Evidence
        BY DEF Evidence, Observation, o
      <3> QED
        BY <3>1, <1>1
    <2>7. Claim(tt, rs, p \in z.live, z.evidence[p])
      <3>1. z.evidence[p] # None => z.evidence[p].at = TimeOf(rs[d], n)
        BY <2>4, <1>4
      <3> QED
        BY <3>1, <2>5, <1>11, <1>12 DEF Claim
    <2>8. (IF z.evidence[p] = None THEN None ELSE z.evidence[p].value) = o.value
      BY <2>4, <2>6
    <2>9. Honest(tt, rs, o.session, p \in z.live, z.evidence[p])
      BY <2>8, <1>4, <1>6 DEF Honest
    <2> QED
      BY <2>7, <2>9, <1>9 DEF Seen
  <1>17. \A s \in Sessions : Seen(tt, rs, p, s, sessions'[s])
    BY <1>15, <1>16
  <1> QED
    BY <1>1, <1>6, <1>13, <1>17 DEF tt, rs, d

LEMMA ReduceEventKeepsInv ==
  ASSUME Inv, ReduceEvent PROVE Inv'
  <1> DEFINE m == Head(completions)
             e == m.body
             x == e.source
             items == IF Accepted(e) /\ e.op = "Upsert" THEN {e.item} ELSE {}
  <1>1. /\ completions # <<>> /\ m.kind = "Event" /\ completions' = Tail(completions)
        /\ UNCHANGED <<outside, notice, workerVars>> /\ ApplyEvent(e) /\ Follow(x, items)
    BY DEF ReduceEvent, Taken
  <1>2. m \in Message /\ Good(Revisions, m)
    BY <1>1, HeadFacts
  <1>3. e \in Event
    BY <1>1, <1>2 DEF Message
  <1>4. /\ e.op = "Upsert" => e.item \in Observation
        /\ x \in Providers => TrueEvent(Revisions[x], e)
        /\ x \notin Providers => e.op = "Upsert"
    BY <1>1, <1>2 DEF Good
  <1>5. x \in Providers => /\ streams[x] # None /\ streams[x].epoch = e.epoch
                           /\ IsRegistered(registered[x], Revisions[x])
    <2> SUFFICES ASSUME x \in Providers
                 PROVE  /\ streams[x] # None /\ streams[x].epoch = e.epoch
                        /\ IsRegistered(registered[x], Revisions[x])
      OBVIOUS
    <2>1. Of(m, x)
      BY <1>1 DEF Of
    <2> QED
      BY <2>1, <1>1, HeadFacts
  <1> HIDE DEF m
  <1>6. x \in Sources /\ items \in SUBSET Observation
    BY SMTT(40), <1>3, <1>4 DEF Event
  <1>7. x \in Providers => \A o \in items : o.until = None
    BY ZenonT(40), <1>4 DEF TrueEvent, Change
  <1> HIDE DEF items
  <1>8. RequestsFit(requests')
    BY <1>1, <1>6, <1>7, FollowFits
  <1>9. StateTypeOK'
    BY <1>1, <1>3, <1>4, EventsAreTyped
  <1>10. ASSUME NEW p \in Providers, p # x
         PROVE  /\ streams'[p] = streams[p] /\ pending'[p] = pending[p]
                /\ \A s \in Sessions : SameOf(sessions'[s], sessions[s], p) \/ Silent(sessions'[s], p)
    BY <1>1, <1>3, <1>4, <1>10, EventsAreOfOneSource
  <1>11. ASSUME x \in Providers
         PROVE  /\ Stays(streams[x], streams'[x]) \/ ApplyUpsert(e)
                /\ pending' = pending
                /\ streams'[x] # None /\ streams'[x].epoch = e.epoch
                /\ streams'[x].last \in {streams[x].last, e.seq}
                /\ ~ApplyUpsert(e) => sessions' = sessions
    BY <1>1, <1>3, <1>4, <1>5, <1>11, OwnEvents
  <1>12. ASSUME NEW p \in Providers PROVE Moves(streams[p], streams'[p], m, p)
    <2>1. CASE p = x
      <3>1. Of(m, p) /\ PositionOf(m) = e.seq
        BY <2>1, <1>1 DEF Of, PositionOf
      <3> QED
        BY <2>1, <3>1, <1>5, <1>11 DEF Moves
    <2>2. CASE p # x
      <3>1. ~Of(m, p)
        BY <2>2 DEF Of
      <3> QED
        BY <2>2, <3>1, <1>10 DEF Moves
    <2> QED
      BY <2>1, <2>2
  <1>13. ASSUME NEW p \in Providers, Ahead(streams'[p], completions', p),
                Revisions' = Revisions, registered' = registered
         PROVE  View(streams[p], pending[p], registered[p], Revisions[p], completions, p, sessions)'
    <2>1. CASE p # x
      BY <2>1, <1>10, <1>13, OthersView
    <2>2. CASE p = x /\ ~ApplyUpsert(e)
      <3>1. Stays(streams[p], streams'[p]) /\ pending' = pending /\ sessions' = sessions
        BY <2>2, <1>11
      <3>2. View(streams[p], pending[p], registered[p], Revisions[p], completions, p, sessions)
        BY DEF Inv, Views
      <3>3. /\ Stands(streams'[p], registered[p], Revisions[p])
            /\ Collected(streams'[p], pending[p], Revisions[p])
            /\ \A s \in Sessions : Seen(streams'[p], Revisions[p], p, s, sessions[s])
        BY <3>1, <3>2, StandsOn, CollectedOn, SeenByStream DEF View
      <3> QED
        BY <3>1, <3>3, <1>13 DEF View
    <2>3. CASE p = x /\ ApplyUpsert(e)
      <3>1. View(streams[p], pending[p], registered[p], Revisions[p], completions, p, sessions)
        BY DEF Inv, Views
      <3>2. e.op = "Upsert" /\ pending' = pending
        BY <2>3, <1>11 DEF ApplyUpsert
      <3>3. /\ Stands(streams'[p], registered[p], Revisions[p])
            /\ \A s \in Sessions : Seen(streams'[p], Revisions[p], p, s, sessions'[s])
            /\ streams'[p] # None /\ streams'[p].epoch = e.epoch
        BY SMTT(40), <2>3, <3>1, <3>2, <1>3, <1>4, <1>5, AppliedEvent
      <3>4. Collected(streams'[p], pending[p], Revisions[p])
        BY <2>3, <3>1, <3>3, <1>5 DEF View, Collected
      <3> QED
        BY <3>2, <3>3, <3>4, <1>13 DEF View
    <2> QED
      BY <2>1, <2>2, <2>3
  <1>14. \A p \in Providers : Moves(streams[p], streams'[p], Head(completions), p)
    BY <1>12 DEF m
  <1> HIDE DEF e
  <1>15. \A p \in Providers :
            Ahead(streams'[p], completions', p) /\ Revisions' = Revisions
            /\ registered' = registered =>
               View(streams[p], pending[p], registered[p], Revisions[p], completions, p, sessions)'
    BY <1>13
  <1> QED
    BY <1>1, <1>8, <1>9, <1>14, <1>15, ReductionKeepsInv

-------------------------------------------------------------------------------
(* The view takes a chunk c of a snapshot of provider p. *)

Incoming(c, p) ==
    /\ c \in Chunk /\ p \in Providers /\ c.source = p
    /\ Revisions[p] \in Seq(Revision) /\ Ordered(Revisions[p]) /\ TrueChunk(Revisions[p], c)
    /\ IsRegistered(registered[p], Revisions[p]) /\ c.epoch <= registered[p].epoch
    /\ streams[p] # None =>
          /\ streams[p].epoch <= c.epoch
          /\ streams[p].epoch = c.epoch /\ streams[p].last # None
                => streams[p].last <= c.watermark

LEMMA ChunksCome ==
  ASSUME Inv, completions # <<>>, Head(completions).kind = "Snapshot"
  PROVE  Incoming(Head(completions).body, Head(completions).body.source)
  <1> DEFINE m == Head(completions)
             c == m.body
             p == c.source
  <1>1. m \in Message /\ Good(Revisions, m)
    BY HeadFacts
  <1>2. c \in Chunk
    BY <1>1 DEF Message
  <1>3. p \in Providers /\ TrueChunk(Revisions[p], c)
    BY <1>1 DEF Good
  <1>4. Of(m, p)
    BY DEF Of
  <1>5. /\ IsRegistered(registered[p], Revisions[p]) /\ c.epoch <= registered[p].epoch
        /\ streams[p] # None => NotAfter(streams[p].epoch, streams[p].last, m)
    BY <1>3, <1>4, HeadFacts
  <1>6. Revisions[p] \in Seq(Revision) /\ Ordered(Revisions[p])
    BY <1>3, AllAreRevisions DEF Inv, Types, TypeOK, History, Revisions
  <1> QED
    BY <1>2, <1>3, <1>5, <1>6 DEF Incoming, NotAfter

\* The stream that the chunk belongs to shows no more than the one before.
LEMMA ChunkStream ==
  ASSUME Inv, NEW c, NEW p, Incoming(c, p)
  PROVE  LET st == SnapshotStream(c)
         IN  /\ st \in Stream /\ st # None /\ st.epoch = c.epoch
             /\ st.last = None \/ (/\ streams[p] # None /\ streams[p].epoch = c.epoch
                                   /\ streams[p].last = st.last)
             /\ Stands(st, registered[p], Revisions[p])
             /\ \A s \in Sessions : Seen(st, Revisions[p], p, s, sessions[s])
  <1> DEFINE st == SnapshotStream(c)
             old == streams[p]
             rs == Revisions[p]
             its == registered[p]
             d == c.epoch
  <1>1. /\ p \in Sources /\ old \in Stream \cup {None} /\ None \notin Stream /\ Shape
        /\ p \in Providers /\ c.source = p /\ d \in Nat
        /\ sessions \in [Sessions -> Record \cup {None}]
        /\ None \notin Evidence
    BY StateTypes DEF Incoming, Chunk
  <1>2. /\ rs \in Seq(Revision) /\ Ordered(rs) /\ d \in 1..Len(rs)
        /\ 1 \in 1..Len(rs[d].known) /\ IsRegistered(its, rs) /\ d \in 1..its.epoch
    <2>1. rs \in Seq(Revision) /\ Ordered(rs) /\ IsRegistered(its, rs) /\ d <= its.epoch
          /\ d \in 1..Len(rs)
      BY DEF Incoming, TrueChunk, Knows
    <2>2. Len(rs[d].known) \in Nat /\ Len(rs[d].known) > 0 /\ d \in Nat /\ d > 0
      BY <2>1, LengthsAreNumbers DEF Ordered
    <2>3. its.epoch \in Nat
      BY <2>1 DEF IsRegistered
    <2> DEFINE l == Len(rs[d].known)
    <2>4. 1 \in 1..l
      <3> HIDE DEF l
      <3>1. l \in Nat /\ l > 0
        BY <2>2 DEF l
      <3> QED
        BY <3>1
    <2> QED
      BY <2>1, <2>2, <2>3, <2>4
  <1>3. /\ Stands(old, its, rs) /\ \A s \in Sessions : Seen(old, rs, p, s, sessions[s])
    BY <1>1 DEF Inv, Views, View
  <1>4. old # None => old.epoch <= d
    BY DEF Incoming
  <1>5. st = IF old = None THEN FreshStream(d)
             ELSE IF old.epoch = d THEN old
             ELSE [old EXCEPT !.epoch = d, !.last = None, !.reconciling = TRUE]
    BY <1>1 DEF SnapshotStream, StreamOf, FreshStream
  <1> HIDE DEF st, old, rs, its, d
  <1>6. CASE old = None
    <2>1. /\ st \in Stream /\ st.epoch = d /\ st.last = None /\ st.complete = FALSE
      BY <1>1, <1>5, <1>6 DEF FreshStream, Stream
    <2>2. Stands(st, its, rs)
      BY <2>1, <1>2 DEF Stands
    <2>3. \A s \in Sessions : Seen(st, rs, p, s, sessions[s])
      BY <1>3, <1>6, NothingSeen, SilentIsSeen
    <2> QED
      BY <2>1, <2>2, <2>3, <1>1 DEF st, old, rs, its, d
  <1>7. CASE old # None /\ old.epoch = d
    <2>1. st = old
      BY <1>5, <1>7
    <2> QED
      BY <2>1, <1>1, <1>3, <1>7 DEF st, old, rs, its, d
  <1>8. CASE old # None /\ old.epoch # d
    <2>1. /\ st \in Stream /\ st.epoch = d /\ st.last = None /\ st.reconciling = TRUE
      <3>1. st = [old EXCEPT !.epoch = d, !.last = None, !.reconciling = TRUE]
        BY <1>5, <1>8
      <3>2. old \in Stream
        BY <1>1, <1>8
      <3> QED
        BY <3>1, <3>2, <1>1 DEF Stream
    <2>2. Stands(st, its, rs)
      BY <2>1, <1>2 DEF Stands
    <2>3. Horizon(st, rs) = TimeOf(rs[d], 1)
      BY <2>1 DEF Horizon
    <2>4. ASSUME NEW s \in Sessions PROVE Seen(st, rs, p, s, sessions[s])
      <3> DEFINE r == sessions[s]
      <3>1. CASE r # None
        <4>1. r.evidence[p] # None => r.evidence[p].at <= TimeOf(rs[d], 1)
          <5> SUFFICES ASSUME r.evidence[p] # None PROVE r.evidence[p].at <= TimeOf(rs[d], 1)
            OBVIOUS
          <5>1. r.evidence[p] \in Evidence
            <6>1. r \in Record
              BY <1>1, <3>1
            <6> QED
              BY <6>1, <1>1 DEF Record
          <5>2. r.evidence[p].at \in Nat
            BY <5>1 DEF Evidence
          <5>3. old # None => old.epoch <= d /\ (old.epoch = d /\ old.last # None => old.last <= 1)
            BY <1>4, <1>8
          <5>4. Seen(old, rs, p, s, r)
            BY <1>3
          <5> HIDE DEF r
          <5> QED
            BY <5>2, <5>3, <5>4, <3>1, <1>1, <1>2, <1>3, ClaimsAreEarlier
        <4>2. st # None
          BY <2>1, <1>1
        <4> QED
          BY <2>1, <2>3, <4>1, <4>2 DEF Seen, Claim, Honest
      <3>2. CASE r = None
        BY <3>2 DEF Seen
      <3> QED
        BY <3>1, <3>2
    <2> QED
      BY <2>1, <2>2, <2>4, <1>1 DEF st, old, rs, its, d
  <1> QED
    BY <1>6, <1>7, <1>8

\* What was collected before the chunk is of its epoch.
LEMMA ChunkPending ==
  ASSUME Inv, NEW c, NEW p, Incoming(c, p)
  PROVE  LET pd == PendingBefore(c)
             r  == Revisions[p][c.epoch]
         IN  /\ pd \in Pending /\ pd.covers = (r.most # None)
             /\ FirstParts(FactsAt(r, pd.watermark), pd)
  <1> DEFINE pd == PendingBefore(c)
             rs == Revisions[p]
             r  == rs[c.epoch]
             fresh == [next |-> 0, watermark |-> c.watermark, complete |-> c.complete,
                       covers |-> c.covers, items |-> {}]
  <1>1. /\ p \in Sources /\ p \in Providers /\ c.source = p /\ Shape /\ c \in Chunk
        /\ pending[p] \in Pending \cup {None}
        /\ TrueChunk(rs, c)
    BY StateTypes DEF Incoming
  <1>2. Collected(streams[p], pending[p], rs)
    BY <1>1 DEF Inv, Views, View
  <1>3. pd = IF pending[p] = None \/ StreamOf(p, c.epoch).epoch # c.epoch
             THEN fresh ELSE pending[p]
    BY <1>1 DEF PendingBefore
  <1>4. CASE pending[p] = None \/ StreamOf(p, c.epoch).epoch # c.epoch
    <2>1. pd = fresh
      BY <1>3, <1>4
    <2>2. fresh \in Pending /\ fresh.covers = c.covers /\ fresh.items = {} /\ fresh.next = 0
      BY <1>1 DEF Pending, Chunk
    <2>3. c.covers = (r.most # None)
      BY <1>1 DEF TrueChunk
    <2> DEFINE F == FactsAt(r, c.watermark)
    <2>4. Len(Parts(F)) \in Nat
      BY <1>1, FactsAreFinite, PartsOfFacts
    <2>5. FirstParts(F, fresh)
      <3> HIDE DEF F
      <3>1. {Parts(F)[i] : i \in 1..0} = {}
        OBVIOUS
      <3>2. 0 \in 0..Len(Parts(F))
        BY <2>4
      <3> QED
        BY <3>1, <3>2, <2>2 DEF FirstParts
    <2> QED
      BY <2>1, <2>2, <2>3, <2>5
  <1>5. CASE ~(pending[p] = None \/ StreamOf(p, c.epoch).epoch # c.epoch)
    <2>1. pd = pending[p] /\ pd # None /\ StreamOf(p, c.epoch).epoch = c.epoch
      BY <1>3, <1>5
    <2>2. /\ streams[p] # None /\ pd.covers = (rs[streams[p].epoch].most # None)
          /\ FirstParts(FactsAt(rs[streams[p].epoch], pd.watermark), pd)
      BY <2>1, <1>2 DEF Collected
    <2>3. streams[p].epoch = c.epoch
      BY <2>1, <2>2 DEF StreamOf
    <2> QED
      BY <2>1, <2>2, <2>3, <1>1
  <1> QED
    BY <1>4, <1>5

\* The next chunk adds the next part.
LEMMA NextPart ==
  ASSUME NEW F, NEW pd \in Pending, FirstParts(F, pd), NEW c, PartOf(F, c),
         pd.next = c.index, pd.complete = c.complete, Len(Parts(F)) \in Nat
  PROVE  /\ pd.items \cup c.items \subseteq F
         /\ c.complete => /\ pd.next + 1 \in 1..Len(Parts(F))
                          /\ pd.items \cup c.items
                                = UNION {Parts(F)[i] : i \in 1..(pd.next + 1)}
                          /\ c.final = (pd.next + 1 = Len(Parts(F)))
  <1> DEFINE k == pd.next
             P == Parts(F)
  <1>1. k \in Nat
    BY DEF Pending
  <1>2. pd.items \cup c.items \subseteq F
    BY DEF FirstParts, PartOf
  <1>3. ASSUME c.complete
        PROVE  /\ k + 1 \in 1..Len(P) /\ c.items = P[k + 1] /\ c.final = (k + 1 = Len(P))
               /\ pd.items = UNION {P[i] : i \in 1..k}
    BY <1>3 DEF FirstParts, PartOf
  <1> HIDE DEF k, P
  <1>4. 1..(k + 1) = (1..k) \cup {k + 1}
    BY <1>1
  <1>5. UNION {P[i] : i \in 1..(k + 1)} = (UNION {P[i] : i \in 1..k}) \cup P[k + 1]
    <2>1. \A i \in 1..(k + 1) : i \in 1..k \/ i = k + 1
      BY <1>1
    <2>2. k + 1 \in 1..(k + 1) /\ \A i \in 1..k : i \in 1..(k + 1)
      BY <1>1
    <2>3. ASSUME NEW o \in UNION {P[i] : i \in 1..(k + 1)}
          PROVE  o \in (UNION {P[i] : i \in 1..k}) \cup P[k + 1]
      <3>1. PICK i \in 1..(k + 1) : o \in P[i]
        OBVIOUS
      <3> QED
        BY <3>1, <2>1
    <2>4. ASSUME NEW o \in (UNION {P[i] : i \in 1..k}) \cup P[k + 1]
          PROVE  o \in UNION {P[i] : i \in 1..(k + 1)}
      <3>1. CASE o \in P[k + 1]
        BY <3>1, <2>2
      <3>2. CASE o \in UNION {P[i] : i \in 1..k}
        <4>1. PICK i \in 1..k : o \in P[i]
          BY <3>2
        <4> QED
          BY <4>1, <2>2
      <3> QED
        BY <3>1, <3>2
    <2> QED
      BY <2>3, <2>4
  <1>6. ASSUME c.complete
        PROVE  pd.items \cup c.items = UNION {P[i] : i \in 1..(k + 1)}
    <2>1. c.items = P[k + 1] /\ pd.items = UNION {P[i] : i \in 1..k}
      BY <1>3, <1>6
    <2> QED
      BY <2>1, <1>5
  <1> QED
    BY <1>2, <1>3, <1>6 DEF k, P

\* What a source no longer reports is gone from a record, and nothing else.
LEMMA TombstonedRecords ==
  ASSUME NEW r \in Record \cup {None}, None \notin Record, NEW x \in Sources
  PROVE  /\ Tombstoned(r, x) \in Record \cup {None}
         /\ \A p \in Sources : p # x => SameOf(Tombstoned(r, x), r, p)
         /\ r # None => /\ Tombstoned(r, x) # None /\ Tombstoned(r, x).evidence[x] = None
                        /\ (x \in Tombstoned(r, x).live <=> x \in r.live)
  <1>1. CASE r = None
    BY <1>1 DEF Tombstoned, SameOf
  <1>2. CASE r # None
    <2> DEFINE z == [r EXCEPT !.evidence[x] = None]
    <2>1. r \in Record /\ r.evidence \in [Sources -> Evidence \cup {None}]
      BY <1>2 DEF Record
    <2>2. /\ z \in Record /\ z.live = r.live
          /\ z.evidence = [r.evidence EXCEPT ![x] = None]
      BY <2>1 DEF Record
    <2>3. Tombstoned(r, x) = z
      BY <1>2 DEF Tombstoned
    <2> HIDE DEF z
    <2>4. /\ z.evidence[x] = None /\ \A p \in Sources : p # x => z.evidence[p] = r.evidence[p]
      BY <2>1, <2>2
    <2>5. z # None
      BY <2>2
    <2> QED
      BY <2>2, <2>3, <2>4, <2>5, <1>2 DEF SameOf
  <1> QED
    BY <1>1, <1>2

\* The sessions after the last chunk
LEMMA SnapshotRecords ==
  ASSUME Inv, NEW c, NEW p, Incoming(c, p), ApplySnapshot(c), NEW s \in Sessions
  PROVE  LET items == PendingBefore(c).items \cup c.items
         IN  /\ sessions'[s] \in Record \cup {None}
             /\ \A x \in Sources :
                   x # p => SameOf(sessions'[s], sessions[s], x) \/ Silent(sessions'[s], x)
             /\ \/ \E o \in items : /\ o.session = s /\ o \in Observation
                                    /\ sessions'[s] = Observed(sessions[s], p, o)
                \/ /\ \A o \in items : o.session # s
                   /\ c.complete /\ c.covers
                   /\ sessions'[s] = Tombstoned(sessions[s], p)
                \/ ~(c.complete /\ c.covers) /\ sessions'[s] = sessions[s]
  <1> DEFINE pd == PendingBefore(c)
             items == pd.items \cup c.items
             r == sessions[s]
             o == CHOOSE o \in About(items, s) : TRUE
  <1>1. /\ pd \in Pending /\ c \in Chunk /\ p \in Sources /\ c.source = p /\ Shape
        /\ r \in Record \cup {None} /\ None \notin Record
    BY StateTypes, ChunkPending DEF Incoming
  <1>2. items \subseteq Observation
    BY <1>1 DEF Pending, Chunk
  <1>3. sessions'[s] = IF About(items, s) # {} THEN Observed(r, p, o)
                       ELSE IF c.complete /\ c.covers THEN Tombstoned(r, p) ELSE r
    BY <1>1 DEF ApplySnapshot
  <1> HIDE DEF items, r
  <1>4. CASE About(items, s) # {}
    <2>1. o \in items /\ o.session = s
      BY <1>4 DEF About
    <2> HIDE DEF o
    <2>2. o \in Observation /\ sessions'[s] = Observed(r, p, o)
      BY <2>1, <1>2, <1>3, <1>4
    <2>3. /\ Observed(r, p, o) \in Record
          /\ \A x \in Sources :
                x # p => SameOf(Observed(r, p, o), r, x) \/ Silent(Observed(r, p, o), x)
      BY <2>2, <1>1, Records
    <2> QED
      BY <2>1, <2>2, <2>3 DEF items, r
  <1>5. CASE About(items, s) = {} /\ c.complete /\ c.covers
    <2>1. sessions'[s] = Tombstoned(r, p)
      BY <1>3, <1>5
    <2>2. \A i \in items : i.session # s
      BY <1>5 DEF About
    <2> QED
      BY <2>1, <2>2, <1>1, <1>5, TombstonedRecords DEF items, r
  <1>6. CASE About(items, s) = {} /\ ~(c.complete /\ c.covers)
    <2>1. sessions'[s] = r
      BY <1>3, <1>6
    <2>2. \A x \in Sources : SameOf(r, r, x)
      BY DEF SameOf
    <2> QED
      BY <2>1, <2>2, <1>1, <1>6 DEF items, r
  <1> QED
    BY <1>4, <1>5, <1>6

\* The stream after a chunk, and what is collected of the snapshot
LEMMA ChunkSteps ==
  ASSUME Inv, NEW c, NEW p, Incoming(c, p), ApplyChunk(c)
  PROVE  /\ StateTypeOK'
         /\ streams'[p] # None /\ streams'[p].epoch = c.epoch
         /\ \/ streams'[p].last \in {None, c.watermark}
            \/ streams[p] # None /\ streams[p].epoch = c.epoch /\ streams'[p].last = streams[p].last
         /\ \A x \in Sources : x # p =>
               /\ streams'[x] = streams[x] /\ pending'[x] = pending[x]
               /\ \A s \in Sessions :
                     SameOf(sessions'[s], sessions[s], x) \/ Silent(sessions'[s], x)
         /\ ~ApplySnapshot(c) => /\ sessions' = sessions
                                 /\ Stays(SnapshotStream(c), streams'[p])
         /\ DropSnapshot(c) => pending'[p] = None
         /\ CollectChunk(c) => LET pd == PendingBefore(c) IN
               /\ pending'[p].next = pd.next + 1
               /\ pending'[p].items = pd.items \cup c.items
               /\ pending'[p].watermark = pd.watermark /\ pending'[p].complete = pd.complete
               /\ pending'[p].covers = pd.covers
         /\ ApplySnapshot(c) =>
               /\ pending'[p] = None /\ streams'[p].last = c.watermark
               /\ streams'[p].complete = c.complete /\ streams'[p].reconciling = ~c.complete
  <1> DEFINE pd == PendingBefore(c)
             st == SnapshotStream(c)
  <1>1. /\ p \in Sources /\ c.source = p /\ c \in Chunk /\ Shape
        /\ sessions \in [Sessions -> Record \cup {None}]
        /\ streams \in [Sources -> Stream \cup {None}]
        /\ pending \in [Sources -> Pending \cup {None}]
        /\ None \notin Stream
    BY StateTypes DEF Incoming
  <1>2. /\ st \in Stream /\ st # None /\ st.epoch = c.epoch
        /\ st.last = None \/ (/\ streams[p] # None /\ streams[p].epoch = c.epoch
                              /\ streams[p].last = st.last)
    BY ChunkStream
  <1>3. pd \in Pending
    BY ChunkPending
  <1>4. \A s \in Sessions, x \in Sources : SameOf(sessions[s], sessions[s], x)
    BY DEF SameOf
  <1> HIDE DEF pd, st
  <1>5. CASE DropSnapshot(c)
    <2> DEFINE tt == [st EXCEPT !.reconciling = TRUE]
    <2>1. /\ pending' = [pending EXCEPT ![p] = None] /\ streams' = [streams EXCEPT ![p] = tt]
          /\ sessions' = sessions
      BY <1>1, <1>5 DEF DropSnapshot, st
    <2>2. tt \in Stream /\ tt.epoch = st.epoch /\ tt.last = st.last /\ tt.reconciling = TRUE
      BY <1>2 DEF Stream
    <2> HIDE DEF tt
    <2>3. streams'[p] = tt /\ tt # None
      BY <2>1, <2>2, <1>1
    <2>4. Stays(st, streams'[p])
      BY <2>2, <2>3, <1>2 DEF Stays
    <2>5. ~CollectChunk(c) /\ ~ApplySnapshot(c)
      BY <1>5 DEF DropSnapshot, CollectChunk, ApplySnapshot
    <2>6. StateTypeOK'
      BY <2>1, <2>2, <1>1 DEF StateTypeOK
    <2>7. pending'[p] = None
      BY <2>1, <1>1
    <2>8. \A x \in Sources : x # p => streams'[x] = streams[x] /\ pending'[x] = pending[x]
      BY <2>1, <1>1
    <2> QED
      BY <2>1, <2>2, <2>3, <2>4, <2>5, <2>6, <2>7, <2>8, <1>2, <1>4 DEF st
  <1>6. CASE CollectChunk(c)
    <2> DEFINE pe == [pd EXCEPT !.next = @ + 1, !.items = @ \cup c.items]
    <2>1. /\ pending' = [pending EXCEPT ![p] = pe] /\ streams' = [streams EXCEPT ![p] = st]
          /\ sessions' = sessions
      BY <1>1, <1>6 DEF CollectChunk, st, pd
    <2>2. /\ pe \in Pending /\ pe.next = pd.next + 1 /\ pe.items = pd.items \cup c.items
          /\ pe.watermark = pd.watermark /\ pe.complete = pd.complete /\ pe.covers = pd.covers
      <3>1. pd.next + 1 \in Nat /\ pd.items \cup c.items \in SUBSET Observation
        BY <1>1, <1>3 DEF Pending, Chunk
      <3> QED
        BY <3>1, <1>3 DEF Pending
    <2> HIDE DEF pe
    <2>3. streams'[p] = st /\ pending'[p] = pe
      BY <2>1, <1>1
    <2>4. Stays(st, streams'[p])
      BY <2>3, <1>2 DEF Stays
    <2>5. ~DropSnapshot(c) /\ ~ApplySnapshot(c)
      BY <1>6 DEF DropSnapshot, CollectChunk, ApplySnapshot
    <2>6. StateTypeOK'
      BY <2>1, <2>2, <1>1, <1>2 DEF StateTypeOK
    <2>7. \A x \in Sources : x # p => streams'[x] = streams[x] /\ pending'[x] = pending[x]
      BY <2>1, <1>1
    <2> QED
      BY <2>1, <2>2, <2>3, <2>4, <2>5, <2>6, <2>7, <1>2, <1>4 DEF st, pd
  <1>7. CASE ApplySnapshot(c)
    <2> DEFINE tt == [st EXCEPT !.last = c.watermark, !.complete = c.complete,
                                !.reconciling = ~c.complete]
    <2>1. /\ pending' = [pending EXCEPT ![p] = None] /\ streams' = [streams EXCEPT ![p] = tt]
      BY <1>1, <1>7 DEF ApplySnapshot, st
    <2>2. /\ tt \in Stream /\ tt.epoch = st.epoch /\ tt.last = c.watermark
          /\ tt.complete = c.complete /\ tt.reconciling = ~c.complete
      BY <1>1, <1>2 DEF Stream, Chunk
    <2> HIDE DEF tt
    <2>3. streams'[p] = tt /\ tt # None /\ pending'[p] = None
      BY <2>1, <2>2, <1>1
    <2>4. ~DropSnapshot(c) /\ ~CollectChunk(c)
      BY <1>7 DEF DropSnapshot, CollectChunk, ApplySnapshot
    <2>5. \A s \in Sessions :
             /\ sessions'[s] \in Record \cup {None}
             /\ \A x \in Sources :
                   x # p => SameOf(sessions'[s], sessions[s], x) \/ Silent(sessions'[s], x)
      BY <1>7, SnapshotRecords
    <2>6. DOMAIN sessions' = Sessions /\ sessions' = [s \in Sessions |-> sessions'[s]]
      BY <1>7 DEF ApplySnapshot
    <2>7. StateTypeOK'
      <3>1. sessions' \in [Sessions -> Record \cup {None}]
        BY <2>5, <2>6
      <3> QED
        BY <3>1, <2>1, <2>2, <1>1 DEF StateTypeOK
    <2>8. \A x \in Sources : x # p => streams'[x] = streams[x] /\ pending'[x] = pending[x]
      BY <2>1, <1>1
    <2> QED
      BY <2>2, <2>3, <2>4, <2>5, <2>7, <2>8, <1>2, <1>7
  <1> QED
    BY <1>5, <1>6, <1>7 DEF ApplyChunk

\* What is shown of a provider after its snapshot is what the provider knew.
LEMMA SnapshotIsSeen ==
  ASSUME Inv, NEW c, NEW p, Incoming(c, p), ApplyChunk(c), ApplySnapshot(c),
         NEW s \in Sessions
  PROVE  Seen(streams'[p], Revisions[p], p, s, sessions'[s])
  <1> DEFINE pd == PendingBefore(c)
             items == pd.items \cup c.items
             rs == Revisions[p]
             d == c.epoch
             w == c.watermark
             F == FactsAt(rs[d], w)
             tt == streams'[p]
             r == sessions[s]
             z == sessions'[s]
  <1>1. /\ p \in Sources /\ p \in Providers /\ c \in Chunk /\ Shape
        /\ r \in Record \cup {None} /\ None \notin Record /\ None \notin Evidence
        /\ None \notin Nat /\ None \notin Values
        /\ rs \in Seq(Revision) /\ Ordered(rs) /\ TrueChunk(rs, c) /\ Knows(rs, d, w)
    BY StateTypes DEF Incoming, TrueChunk
  <1>2. /\ tt # None /\ tt.epoch = d /\ tt.last = w /\ tt.complete = c.complete
        /\ tt.reconciling = ~c.complete
    BY ChunkSteps
  <1>3. /\ d \in 1..Len(rs) /\ w \in 1..Len(rs[d].known) /\ w # None
        /\ TimeOf(rs[d], w) \in Nat
    <2>1. w \in Nat /\ TimeOf(rs[d], w) \in Nat
      BY <1>1, KnownIsTyped
    <2> QED
      BY <2>1, <1>1 DEF Knows
  <1>4. Horizon(tt, rs) = TimeOf(rs[d], w)
    BY <1>2, <1>3 DEF Horizon
  \* The parts are all the facts, if the snapshot is complete.
  <1>5. items \subseteq F /\ (c.complete => items = F)
    <2>1. ShapeMatches(pd, c) /\ c.final
      BY DEF ApplySnapshot
    <2>2. /\ pd.next = c.index /\ pd.watermark = w /\ pd.complete = c.complete
      BY <2>1 DEF ShapeMatches
    <2>3. pd \in Pending /\ FirstParts(FactsAt(rs[d], pd.watermark), pd)
      BY ChunkPending
    <2>4. PartOf(F, c)
      BY <1>1 DEF TrueChunk
    <2>5. Len(Parts(F)) \in Nat /\ UNION {Parts(F)[i] : i \in 1..Len(Parts(F))} = F
      BY <1>1, FactsAreFinite, PartsOfFacts
    <2>6. FirstParts(F, pd)
      BY <2>2, <2>3
    <2> HIDE DEF F, pd
    <2>7. /\ pd.items \cup c.items \subseteq F
          /\ c.complete => /\ pd.items \cup c.items
                                 = UNION {Parts(F)[i] : i \in 1..(pd.next + 1)}
                           /\ c.final = (pd.next + 1 = Len(Parts(F)))
      BY <2>2, <2>3, <2>4, <2>5, <2>6, NextPart
    <2>8. c.complete => pd.next + 1 = Len(Parts(F))
      BY <2>1, <2>7
    <2> QED
      BY <2>5, <2>7, <2>8
  <1>6. r # None /\ r.evidence[p] # None
           => r.evidence[p].at \in Nat /\ r.evidence[p].at <= TimeOf(rs[d], w)
    <2> SUFFICES ASSUME r # None, r.evidence[p] # None
                 PROVE  r.evidence[p].at \in Nat /\ r.evidence[p].at <= TimeOf(rs[d], w)
      OBVIOUS
    <2>1. r.evidence[p] \in Evidence
      <3>1. r \in Record
        BY <1>1
      <3> QED
        BY <3>1, <1>1 DEF Record
    <2>2. r.evidence[p].at \in Nat
      BY <2>1 DEF Evidence
    <2> DEFINE st == SnapshotStream(c)
    <2>3. /\ st \in Stream \cup {None} /\ st.epoch = d
          /\ Stands(st, registered[p], rs) /\ Seen(st, rs, p, s, r)
          /\ st.last # None => st.last <= w
      <3>1. streams[p] # None /\ streams[p].epoch = d /\ streams[p].last # None
               => streams[p].last <= w
        BY DEF Incoming
      <3> QED
        BY <3>1, ChunkStream
    <2>4. st # None => st.epoch <= d /\ (st.epoch = d /\ st.last # None => st.last <= w)
      <3>1. d \in Nat
        BY <1>1 DEF Chunk
      <3> QED
        BY <2>3, <3>1
    <2> HIDE DEF st, r
    <2> QED
      BY <2>2, <2>3, <2>4, <1>1, <1>3, ClaimsAreEarlier
  <1>7. \/ \E o \in items : o.session = s /\ o \in Observation /\ z = Observed(r, p, o)
        \/ (\A o \in items : o.session # s) /\ c.complete /\ c.covers /\ z = Tombstoned(r, p)
        \/ ~(c.complete /\ c.covers) /\ z = r
    BY SnapshotRecords
  <1>8. c.covers = (rs[d].most # None)
    BY <1>1 DEF TrueChunk
  <1> HIDE DEF items, rs, d, w, F, tt, r, z
  <1>9. ASSUME NEW o \in items, o.session = s, o \in Observation, z = Observed(r, p, o)
        PROVE  Seen(tt, rs, p, s, z)
    <2>1. o \in FactsAt(rs[d], w)
      BY <1>5, <1>9 DEF F
    <2>2. o.value = rs[d].known[w][s] /\ o.value # None /\ o.at = TimeOf(rs[d], w)
      BY <2>1, <1>9, FactFields
    <2> DEFINE old == IF r = None THEN None ELSE r.evidence[p]
               new == [value |-> o.value, authority |-> o.authority, at |-> o.at,
                       until |-> o.until]
    <2>3. z \in Record /\ p \in z.live /\ z.evidence[p] = Updated(old, o)
      BY <1>1, <1>9, Records
    <2>4. old = None \/ old.at <= o.at
      BY <2>2, <1>6
    <2> HIDE DEF old
    <2>5. z.evidence[p] = new
      BY <2>2, <2>3, <2>4 DEF Updated, NotOlder
    <2>6. new # None
      <3>1. new \in Evidence
        BY <2>2, <1>9 DEF Observation, Evidence
      <3> QED
        BY <3>1, <1>1
    <2>7. Claim(tt, rs, p \in z.live, z.evidence[p])
      BY <2>2, <2>5, <1>2, <1>3, <1>4 DEF Claim
    <2>8. (IF z.evidence[p] = None THEN None ELSE z.evidence[p].value) = rs[d].known[w][s]
      BY <2>2, <2>5, <2>6
    <2>9. Honest(tt, rs, s, p \in z.live, z.evidence[p])
      BY <2>8, <1>2 DEF Honest
    <2> QED
      BY <2>7, <2>9 DEF Seen
  <1>10. ASSUME \A o \in items : o.session # s, c.complete, c.covers, z = Tombstoned(r, p)
         PROVE  Seen(tt, rs, p, s, z)
    <2>1. rs[d].known[w][s] = None
      <3> SUFFICES ASSUME rs[d].known[w][s] # None PROVE FALSE
        OBVIOUS
      <3>1. rs[d].most # None
        BY <1>8, <1>10
      <3>2. \E o \in FactsAt(rs[d], w) : o.session = s
        BY <3>1, FactOfSession
      <3> QED
        BY <3>2, <1>5, <1>10 DEF F
    <2>2. z # None => z.evidence[p] = None
      BY <1>1, <1>10, TombstonedRecords DEF Tombstoned
    <2> QED
      BY <2>1, <2>2, <1>2 DEF Seen, Claim, Honest
  <1>11. ASSUME ~(c.complete /\ c.covers), z = r PROVE Seen(tt, rs, p, s, z)
    <2>1. r # None => Claim(tt, rs, p \in r.live, r.evidence[p])
      BY <1>2, <1>4, <1>6 DEF Claim
    <2>2. tt.complete /\ ~tt.reconciling => rs[d].most = None
      BY <1>2, <1>8, <1>11
    <2> QED
      BY <2>1, <2>2, <1>2, <1>11 DEF Seen, Honest
  <1>12. Seen(tt, rs, p, s, z)
    BY <1>7, <1>9, <1>10, <1>11
  <1> QED
    BY <1>12 DEF tt, rs, z

LEMMA ChunkIsSeen ==
  ASSUME Inv, NEW c, NEW p, Incoming(c, p), ApplyChunk(c)
  PROVE  /\ Stands(streams'[p], registered[p], Revisions[p])
         /\ Collected(streams'[p], pending'[p], Revisions[p])
         /\ \A s \in Sessions : Seen(streams'[p], Revisions[p], p, s, sessions'[s])
  <1> DEFINE st == SnapshotStream(c)
             tt == streams'[p]
             rs == Revisions[p]
             its == registered[p]
             pd == PendingBefore(c)
             F == FactsAt(rs[c.epoch], c.watermark)
  <1>1. /\ st \in Stream /\ st # None /\ st.epoch = c.epoch /\ Stands(st, its, rs)
        /\ \A s \in Sessions : Seen(st, rs, p, s, sessions[s])
    BY ChunkStream
  <1>2. /\ Knows(rs, c.epoch, c.watermark) /\ IsRegistered(its, rs)
        /\ c.epoch <= its.epoch /\ c.epoch \in 1..its.epoch
    <2>1. Knows(rs, c.epoch, c.watermark) /\ IsRegistered(its, rs) /\ c.epoch <= its.epoch
      BY DEF Incoming, TrueChunk
    <2>2. c.epoch \in Nat /\ c.epoch > 0 /\ its.epoch \in Nat
      <3>1. rs \in Seq(Revision) /\ Shape
        BY StateTypes DEF Incoming
      <3>2. Len(rs) \in Nat /\ c.epoch \in 1..Len(rs) /\ its.epoch \in Nat
        BY <2>1, <3>1, LengthsAreNumbers DEF Knows, IsRegistered
      <3> QED
        BY <3>2
    <2> QED
      BY <2>1, <2>2
  <1>3. CASE DropSnapshot(c) \/ CollectChunk(c)
    <2>1. ~ApplySnapshot(c) /\ Stays(st, tt) /\ sessions' = sessions
      <3>1. ~ApplySnapshot(c)
        BY <1>3 DEF DropSnapshot, CollectChunk, ApplySnapshot
      <3> QED
        BY <3>1, ChunkSteps
    <2>2. Stands(tt, its, rs) /\ \A s \in Sessions : Seen(tt, rs, p, s, sessions[s])
      BY <2>1, <1>1, StandsOn, SeenByStream
    <2>3. Collected(tt, pending'[p], rs)
      <3>1. CASE DropSnapshot(c)
        BY <3>1, ChunkSteps DEF Collected
      <3>2. CASE CollectChunk(c)
        <4> DEFINE pe == pending'[p]
        <4>1. /\ pe.next = pd.next + 1 /\ pe.items = pd.items \cup c.items
              /\ pe.watermark = pd.watermark /\ pe.complete = pd.complete
              /\ pe.covers = pd.covers /\ tt # None /\ tt.epoch = c.epoch
          BY <3>2, ChunkSteps
        <4>2. /\ pd.next = c.index /\ pd.watermark = c.watermark /\ pd.complete = c.complete
          BY <3>2 DEF CollectChunk, ShapeMatches
        <4>3. /\ pd \in Pending /\ pd.covers = (rs[c.epoch].most # None)
              /\ FirstParts(FactsAt(rs[c.epoch], pd.watermark), pd)
          BY ChunkPending
        <4>4. FirstParts(F, pd) /\ PartOf(F, c)
          BY <4>2, <4>3 DEF Incoming, TrueChunk
        <4>5. Len(Parts(F)) \in Nat
          BY StateTypes, FactsAreFinite, PartsOfFacts
        <4> HIDE DEF F, pd, pe, tt
        <4>6. /\ pd.items \cup c.items \subseteq F
              /\ c.complete => /\ pd.next + 1 \in 1..Len(Parts(F))
                               /\ pd.items \cup c.items
                                     = UNION {Parts(F)[i] : i \in 1..(pd.next + 1)}
          BY <4>2, <4>3, <4>4, <4>5, NextPart
        <4>7. \A i \in 1..Len(Parts(F)) : i \in 0..Len(Parts(F))
          BY <4>5
        <4>8. FirstParts(F, pe)
          BY <4>1, <4>2, <4>6, <4>7 DEF FirstParts
        <4> QED
          BY <4>1, <4>2, <4>3, <4>8, <1>2 DEF Collected, F, pe
      <3> QED
        BY <3>1, <3>2, <1>3
    <2> QED
      BY <2>1, <2>2, <2>3
  <1>4. CASE ApplySnapshot(c)
    <2>1. /\ tt # None /\ tt.epoch = c.epoch /\ tt.last = c.watermark /\ pending'[p] = None
          /\ tt.reconciling = ~c.complete /\ tt.complete = c.complete
      BY <1>4, ChunkSteps
    <2>2. c.watermark # None
      BY StateTypes DEF Incoming, Chunk
    <2>3. Stands(tt, its, rs)
      BY <2>1, <2>2, <1>2 DEF Stands
    <2>4. Collected(tt, pending'[p], rs)
      BY <2>1 DEF Collected
    <2> QED
      BY <2>3, <2>4, <1>4, SnapshotIsSeen
  <1> QED
    BY <1>3, <1>4 DEF ApplyChunk

LEMMA ReduceChunkKeepsInv ==
  ASSUME Inv, ReduceChunk PROVE Inv'
  <1> DEFINE m == Head(completions)
             c == m.body
             x == c.source
             pd == PendingBefore(c)
  <1>1. /\ completions # <<>> /\ m.kind = "Snapshot" /\ completions' = Tail(completions)
        /\ UNCHANGED <<outside, notice, workerVars>> /\ ApplyChunk(c)
        /\ IF ShapeMatches(pd, c) /\ c.final THEN Follow(x, c.items) ELSE UNCHANGED requests
    BY DEF ReduceChunk, Taken
  <1>2. Incoming(c, x)
    BY <1>1, ChunksCome
  <1> HIDE DEF m
  <1>3. /\ x \in Providers /\ x \in Sources /\ c \in Chunk /\ c.items \in SUBSET Observation
    BY <1>2, StateTypes DEF Incoming, Chunk
  <1>4. \A o \in c.items : o.until = None
    BY <1>2, FactFields DEF Incoming, TrueChunk, PartOf
  <1> HIDE DEF c, x, pd
  <1>5. RequestsFit(requests')
    <2>1. CASE Follow(x, c.items)
      BY <2>1, <1>3, <1>4, FollowFits
    <2>2. CASE UNCHANGED requests
      BY <2>2, RequestsFitNow
    <2> QED
      BY <2>1, <2>2, <1>1
  <1>6. /\ StateTypeOK'
        /\ streams'[x] # None /\ streams'[x].epoch = c.epoch
        /\ \/ streams'[x].last \in {None, c.watermark}
           \/ streams[x] # None /\ streams[x].epoch = c.epoch /\ streams'[x].last = streams[x].last
        /\ \A y \in Sources : y # x =>
              /\ streams'[y] = streams[y] /\ pending'[y] = pending[y]
              /\ \A s \in Sessions :
                    SameOf(sessions'[s], sessions[s], y) \/ Silent(sessions'[s], y)
    BY <1>1, <1>2, ChunkSteps
  <1>7. ASSUME NEW p \in Providers PROVE Moves(streams[p], streams'[p], m, p)
    <2>1. CASE p = x
      <3>1. Of(m, p) /\ PositionOf(m) = c.watermark /\ m.body.epoch = c.epoch
        BY <2>1, <1>1 DEF Of, PositionOf, x, c
      <3> QED
        BY <2>1, <3>1, <1>6 DEF Moves
    <2>2. CASE p # x
      <3>1. ~Of(m, p) /\ p \in Sources
        BY <2>2, StateTypes DEF Of, x, c
      <3> QED
        BY <2>2, <3>1, <1>6 DEF Moves
    <2> QED
      BY <2>1, <2>2
  <1>8. ASSUME NEW p \in Providers, Ahead(streams'[p], completions', p),
               Revisions' = Revisions, registered' = registered
        PROVE  View(streams[p], pending[p], registered[p], Revisions[p], completions, p, sessions)'
    <2>1. CASE p # x
      <3>1. p \in Sources
        BY StateTypes
      <3> QED
        BY <2>1, <3>1, <1>6, <1>8, OthersView
    <2>2. CASE p = x
      <3>1. /\ Stands(streams'[x], registered[x], Revisions[x])
            /\ Collected(streams'[x], pending'[x], Revisions[x])
            /\ \A s \in Sessions : Seen(streams'[x], Revisions[x], x, s, sessions'[s])
        BY <1>1, <1>2, ChunkIsSeen
      <3> QED
        BY <2>2, <3>1, <1>8 DEF View
    <2> QED
      BY <2>1, <2>2
  <1>9. \A p \in Providers : Moves(streams[p], streams'[p], Head(completions), p)
    BY <1>7 DEF m
  <1>10. \A p \in Providers :
            Ahead(streams'[p], completions', p) /\ Revisions' = Revisions
            /\ registered' = registered =>
               View(streams[p], pending[p], registered[p], Revisions[p], completions, p, sessions)'
    BY <1>8
  <1>11. /\ completions # <<>> /\ completions' = Tail(completions) /\ StateTypeOK'
         /\ UNCHANGED <<outside, notice, workerVars>>
    BY <1>1, <1>6
  <1> QED
    BY <1>5, <1>9, <1>10, <1>11, ReductionKeepsInv

-------------------------------------------------------------------------------
(* The other messages, and what the UI does of itself *)

\* A message that is not about the stream of a provider
LEMMA QuietReduction ==
  ASSUME Inv, NEW kind, Taken(kind), kind \notin {"Event", "Snapshot"},
         UNCHANGED <<requests, streams, pending>>,
         sessions' \in [Sessions -> Record \cup {None}],
         \A p \in Providers, s \in Sessions :
            SameOf(sessions'[s], sessions[s], p) \/ Silent(sessions'[s], p)
  PROVE  Inv'
  <1>1. /\ completions # <<>> /\ completions' = Tail(completions)
        /\ UNCHANGED <<outside, notice, workerVars>>
        /\ Head(completions).kind \notin {"Event", "Snapshot"}
    BY DEF Taken
  <1>2. RequestsFit(requests')
    BY RequestsFitNow
  <1>3. StateTypeOK'
    BY StateTypes DEF StateTypeOK
  <1>4. \A p \in Providers : Moves(streams[p], streams'[p], Head(completions), p)
    BY <1>1 DEF Moves, Of
  <1>5. ASSUME NEW p \in Providers, Ahead(streams'[p], completions', p),
               Revisions' = Revisions, registered' = registered
        PROVE  View(streams[p], pending[p], registered[p], Revisions[p], completions, p, sessions)'
    <2>1. streams'[p] = streams[p] /\ pending'[p] = pending[p]
      OBVIOUS
    <2>2. \A s \in Sessions : SameOf(sessions'[s], sessions[s], p) \/ Silent(sessions'[s], p)
      OBVIOUS
    <2> QED
      BY <2>1, <2>2, <1>5, OthersView
  <1>6. \A p \in Providers :
            Ahead(streams'[p], completions', p) /\ Revisions' = Revisions
            /\ registered' = registered =>
               View(streams[p], pending[p], registered[p], Revisions[p], completions, p, sessions)'
    BY <1>5
  <1> QED
    BY <1>1, <1>2, <1>3, <1>4, <1>6, ReductionKeepsInv

LEMMA SameAsItself ==
  \A r, p : SameOf(r, r, p)
  BY DEF SameOf

LEMMA ReduceStatusKeepsInv ==
  ASSUME Inv, ReduceStatus PROVE Inv'
  <1>1. Taken("Status") /\ UNCHANGED <<requests, streams, pending>> /\ sessions' = sessions
    BY DEF ReduceStatus, stateVars
  <1> QED
    BY <1>1, StateTypes, SameAsItself, QuietReduction

LEMMA ReduceMetadataKeepsInv ==
  ASSUME Inv, ReduceMetadata PROVE Inv'
  <1> DEFINE loaded == Head(completions).sessions
  <1>1. /\ Taken("MetadataLoaded") /\ UNCHANGED <<requests, streams, pending>>
        /\ sessions' = [s \in Sessions |-> IF s \in loaded THEN MetadataRecord ELSE sessions[s]]
    BY DEF ReduceMetadata, BootstrapMetadata
  <1>2. /\ MetadataRecord \in Record
        /\ \A p \in Sources : Silent(MetadataRecord, p)
    <2> DEFINE n == [x \in Sources |-> None]
    <2>1. /\ NewRecord \in Record /\ NewRecord.live = {} /\ NewRecord.evidence = n
      BY DEF NewRecord, Record
    <2>2. /\ MetadataRecord \in Record /\ MetadataRecord.live = {}
          /\ MetadataRecord.evidence = n
      BY <2>1 DEF MetadataRecord, Record
    <2> QED
      BY <2>2 DEF Silent
  <1> HIDE DEF loaded
  <1>3. sessions' \in [Sessions -> Record \cup {None}]
    BY <1>1, <1>2, StateTypes
  <1>4. \A p \in Providers, s \in Sessions :
            SameOf(sessions'[s], sessions[s], p) \/ Silent(sessions'[s], p)
    BY <1>1, <1>2, StateTypes, SameAsItself
  <1> QED
    BY <1>1, <1>3, <1>4, QuietReduction

LEMMA ReduceExpiryKeepsInv ==
  ASSUME Inv, ReduceExpiry PROVE Inv'
  <1> DEFINE keys == Head(completions).keys
             gone(s) == {x \in Expires(s, keys) : sessions[s].evidence[x] # None}
             left(s) == [x \in Sources |-> IF x \in gone(s) THEN None
                                           ELSE sessions[s].evidence[x]]
             e(s)    == sessions[s].expired \/ gone(s) # {}
  <1>1. /\ Taken("EvidenceExpired") /\ UNCHANGED <<requests, streams, pending>>
        /\ \A s \in Sessions : sessions'[s] = IF sessions[s] = None THEN None ELSE
              [sessions[s] EXCEPT !.evidence = left(s), !.expired = e(s)]
        /\ sessions' = [s \in Sessions |-> sessions'[s]]
    BY DEF ReduceExpiry, ExpireEvidence
  <1>2. Head(completions).kind = "EvidenceExpired" /\ completions # <<>>
    BY <1>1 DEF Taken
  <1>3. Good(Revisions, Head(completions))
    BY <1>2, HeadFacts
  <1>4. \A k \in keys : k.source \notin Providers
    BY <1>2, <1>3 DEF Good
  <1>5. \A s \in Sessions, p \in Providers : p \notin gone(s)
    BY <1>4 DEF Expires
  <1> HIDE DEF keys, gone
  <1>6. ASSUME NEW s \in Sessions
        PROVE  /\ sessions'[s] \in Record \cup {None}
               /\ \A p \in Providers : SameOf(sessions'[s], sessions[s], p)
    <2> DEFINE r == sessions[s]
               z == sessions'[s]
               ev == left(s)
               ex == e(s)
    <2>1. CASE r = None
      BY <2>1, <1>1 DEF SameOf
    <2>2. CASE r # None
      <3>1. r \in Record /\ r.evidence \in [Sources -> Evidence \cup {None}]
            /\ r.expired \in BOOLEAN
        BY <2>2, StateTypes DEF Record
      <3>2. /\ ev \in [Sources -> Evidence \cup {None}] /\ ex \in BOOLEAN
            /\ \A p \in Providers : ev[p] = r.evidence[p]
        BY <3>1, <1>5, StateTypes
      <3>3. z = [r EXCEPT !.evidence = ev, !.expired = ex]
        BY <2>2, <1>1
      <3> HIDE DEF r, z, ev, ex
      <3>4. z \in Record /\ z.evidence = ev /\ z.live = r.live
        BY <3>1, <3>2, <3>3 DEF Record
      <3>5. z # None
        BY <3>4, StateTypes
      <3> QED
        BY <3>2, <3>4, <3>5, <2>2 DEF SameOf, r, z
    <2> QED
      BY <2>1, <2>2
  <1> HIDE DEF left, e
  <1>7. sessions' \in [Sessions -> Record \cup {None}]
    BY <1>1, <1>6
  <1> QED
    BY <1>1, <1>6, <1>7, QuietReduction

LEMMA ReduceContractKeepsInv ==
  ASSUME Inv, ReduceContract PROVE Inv'
  <1> DEFINE m == Head(completions)
             x == m.source
             st == streams[x]
             tt == IF st = None THEN None ELSE [st EXCEPT !.reconciling = TRUE, !.complete = FALSE]
             gone(s) == sessions[s] # None /\ Unpermitted(sessions[s].evidence[x], m.most)
             ev(s)   == [sessions[s].evidence EXCEPT ![x] = None]
  <1>1. /\ completions # <<>> /\ completions' = Tail(completions)
        /\ UNCHANGED <<outside, notice, workerVars, requests>> /\ m.kind = "ContractUpdated"
        /\ pending' = [pending EXCEPT ![x] = None] /\ streams' = [streams EXCEPT ![x] = tt]
        /\ sessions' = [s \in Sessions |->
              IF gone(s) THEN [sessions[s] EXCEPT !.evidence = ev(s)] ELSE sessions[s]]
    BY DEF ReduceContract, Taken, ApplyContractUpdate
  <1>2. x \in Providers /\ x \in Sources
    <2>1. m \in Message
      BY <1>1, HeadFacts
    <2>2. x \in Providers
      BY <2>1, <1>1 DEF Message
    <2> QED
      BY <2>2, StateTypes
  <1>3. ~Of(m, x) /\ \A p \in Providers : ~Of(m, p)
    BY <1>1 DEF Of
  <1> HIDE DEF m, x
  <1>4. /\ tt \in Stream \cup {None}
        /\ st = None => tt = None
        /\ st # None => /\ Stays(st, tt) /\ tt.reconciling = TRUE
    <2>1. CASE st = None
      BY <2>1
    <2>2. CASE st # None
      <3> DEFINE t == [st EXCEPT !.reconciling = TRUE, !.complete = FALSE]
      <3>1. st \in Stream /\ tt = t /\ None \notin Stream
        BY <2>2, <1>2, StateTypes
      <3> HIDE DEF st, tt
      <3>2. /\ t \in Stream /\ t.epoch = st.epoch /\ t.last = st.last /\ t.reconciling = TRUE
        BY <3>1 DEF Stream
      <3> HIDE DEF t
      <3>3. tt \in Stream /\ tt # None /\ tt.epoch = st.epoch /\ tt.last = st.last /\ tt.reconciling
        BY <3>1, <3>2
      <3> QED
        BY <3>1, <3>2, <3>3, <2>2 DEF Stays
    <2> QED
      BY <2>1, <2>2
  <1>5. streams'[x] = tt /\ pending'[x] = None
        /\ \A p \in Sources : p # x => streams'[p] = streams[p] /\ pending'[p] = pending[p]
    BY <1>1, <1>2, StateTypes
  <1> HIDE DEF tt
  <1>6. ASSUME NEW s \in Sessions
        PROVE  /\ sessions'[s] \in Record \cup {None}
               /\ \A p \in Sources : p # x => SameOf(sessions'[s], sessions[s], p)
               /\ sessions'[s] # None =>
                     /\ sessions[s] # None
                     /\ (x \in sessions'[s].live <=> x \in sessions[s].live)
                     /\ sessions'[s].evidence[x] \in {None, sessions[s].evidence[x]}
    <2> DEFINE r == sessions[s]
               z == sessions'[s]
               v == ev(s)
    <2>1. CASE ~gone(s)
      <3>1. z = r
        BY <2>1, <1>1
      <3> QED
        BY <3>1, StateTypes, SameAsItself
    <2>2. CASE gone(s)
      <3>1. z = [r EXCEPT !.evidence = v] /\ r # None
        BY <2>2, <1>1
      <3>2. r \in Record /\ r.evidence \in [Sources -> Evidence \cup {None}]
        BY <3>1, StateTypes DEF Record
      <3>3. /\ v \in [Sources -> Evidence \cup {None}] /\ v[x] = None
            /\ \A p \in Sources : p # x => v[p] = r.evidence[p]
        BY <3>2, <1>2
      <3> HIDE DEF r, z, v
      <3>4. z \in Record /\ z.evidence = v /\ z.live = r.live
        BY <3>1, <3>2, <3>3 DEF Record
      <3>5. z # None
        BY <3>4, StateTypes
      <3> QED
        BY <3>1, <3>3, <3>4, <3>5 DEF SameOf, r, z
    <2> QED
      BY <2>1, <2>2
  <1>7. sessions' = [s \in Sessions |-> sessions'[s]]
    BY <1>1
  <1> HIDE DEF gone, ev
  <1>8. StateTypeOK'
    <2>1. sessions' \in [Sessions -> Record \cup {None}]
      BY <1>6, <1>7
    <2> QED
      BY <2>1, <1>1, <1>2, <1>4, StateTypes DEF StateTypeOK
  <1>9. ASSUME NEW p \in Providers PROVE Moves(streams[p], streams'[p], m, p)
    <2>1. p \in Sources /\ ~Of(m, p)
      BY <1>3, StateTypes
    <2>2. CASE p = x
      BY <2>1, <2>2, <1>4, <1>5 DEF Moves, Stays
    <2>3. CASE p # x
      BY <2>1, <2>3, <1>5 DEF Moves
    <2> QED
      BY <2>2, <2>3
  <1>10. ASSUME NEW p \in Providers, Ahead(streams'[p], completions', p),
                Revisions' = Revisions, registered' = registered
         PROVE  View(streams[p], pending[p], registered[p], Revisions[p], completions, p, sessions)'
    <2>0. p \in Sources
      BY StateTypes
    <2>1. CASE p # x
      <3>1. /\ streams'[p] = streams[p] /\ pending'[p] = pending[p]
            /\ \A s \in Sessions : SameOf(sessions'[s], sessions[s], p) \/ Silent(sessions'[s], p)
        BY <2>0, <2>1, <1>5, <1>6
      <3> QED
        BY <3>1, <1>10, OthersView
    <2>2. CASE p = x
      <3> DEFINE rs == Revisions[p]
                 its == registered[p]
      <3>1. View(st, pending[p], its, rs, completions, p, sessions)
        BY <2>2 DEF Inv, Views
      <3>2. Collected(tt, pending'[p], rs)
        BY <2>2, <1>5 DEF Collected
      <3> HIDE DEF rs, its
      <3>3. Stands(tt, its, rs)
        <4>1. CASE st = None
          BY <4>1, <1>4 DEF Stands
        <4>2. CASE st # None
          BY <4>2, <1>4, <3>1, StandsOn DEF View
        <4> QED
          BY <4>1, <4>2
      <3>4. ASSUME NEW s \in Sessions PROVE Seen(tt, rs, p, s, sessions'[s])
        <4> DEFINE r == sessions[s]
                   z == sessions'[s]
        <4>1. Seen(st, rs, p, s, r)
          BY <3>1 DEF View
        <4>2. z # None => /\ r # None /\ (p \in z.live <=> p \in r.live)
                          /\ z.evidence[p] \in {None, r.evidence[p]}
          BY <2>2, <1>6
        <4> HIDE DEF r, z
        <4>3. CASE st = None
          <5>1. Silent(r, p)
            BY <4>1, <4>3, NothingSeen
          <5>2. Silent(z, p)
            BY <5>1, <4>2 DEF Silent
          <5> QED
            BY <5>2, SilentIsSeen DEF z
        <4>4. CASE st # None
          <5>1. Seen(tt, rs, p, s, r) /\ tt # None /\ tt.reconciling = TRUE
            BY <4>1, <4>4, <1>4, SeenByStream DEF Stays
          <5>2. z # None => Claim(tt, rs, p \in z.live, z.evidence[p])
            BY <5>1, <4>2 DEF Seen, Claim
          <5>3. Seen(tt, rs, p, s, z)
            BY <5>1, <5>2 DEF Seen, Honest
          <5> QED
            BY <5>3 DEF z
        <4> QED
          BY <4>3, <4>4
      <3> QED
        BY <2>2, <3>2, <3>3, <3>4, <1>5, <1>10 DEF View, rs, its
    <2> QED
      BY <2>1, <2>2
  <1>11. \A p \in Providers : Moves(streams[p], streams'[p], Head(completions), p)
    BY <1>9 DEF m
  <1>12. \A p \in Providers :
            Ahead(streams'[p], completions', p) /\ Revisions' = Revisions
            /\ registered' = registered =>
               View(streams[p], pending[p], registered[p], Revisions[p], completions, p, sessions)'
    BY <1>10
  <1>13. RequestsFit(requests')
    BY <1>1, RequestsFitNow
  <1>14. UNCHANGED <<outside, notice, workerVars>> /\ completions # <<>>
         /\ completions' = Tail(completions)
    BY <1>1
  <1> QED
    BY <1>8, <1>11, <1>12, <1>13, <1>14, ReductionKeepsInv

LEMMA NoticeKeepsInv ==
  ASSUME Inv, TakeNotice PROVE Inv'
  <1> DEFINE d(s) == sessions[s] # None /\ (notice.unattributed \/ s \in notice.sessions)
  <1>1. /\ UNCHANGED <<provider, inbox, sent, stored, clock, requests, completions,
                       worker, active, reconcile, registered, expiries, streams, pending>>
        /\ notice' = Nothing
        /\ sessions' = [s \in Sessions |->
              IF d(s) THEN [sessions[s] EXCEPT !.dropped = TRUE] ELSE sessions[s]]
    BY DEF TakeNotice, RecordLiveDrop, outside, workerVars
  <1>2. ASSUME NEW s \in Sessions
        PROVE  /\ sessions'[s] \in Record \cup {None}
               /\ \A p \in Providers : SameOf(sessions'[s], sessions[s], p)
    <2> DEFINE r == sessions[s]
               z == sessions'[s]
    <2>1. CASE ~d(s)
      <3>1. z = r
        BY <2>1, <1>1
      <3> QED
        BY <3>1, StateTypes, SameAsItself
    <2>2. CASE d(s)
      <3>1. z = [r EXCEPT !.dropped = TRUE] /\ r # None
        BY <2>2, <1>1
      <3>2. r \in Record
        BY <3>1, StateTypes
      <3> HIDE DEF r, z
      <3>3. z \in Record /\ z.evidence = r.evidence /\ z.live = r.live
        BY <3>1, <3>2 DEF Record
      <3> QED
        BY <3>1, <3>3 DEF SameOf, r, z
    <2> QED
      BY <2>1, <2>2
  <1>3. sessions' = [s \in Sessions |-> sessions'[s]]
    BY <1>1
  <1> HIDE DEF d
  <1>4. sessions' \in [Sessions -> Record \cup {None}]
    BY <1>2, <1>3
  <1>5. notice' \in [sessions : SUBSET Sessions, unattributed : BOOLEAN]
    BY <1>1 DEF Nothing
  <1>6. TypeOK'
    BY <1>1, <1>4, <1>5, StateTypes DEF Inv, Types, TypeOK, StateTypeOK
  <1>7. Types' /\ History(provider)' /\ Leases(inbox, requests, expiries)'
    BY <1>1, <1>6 DEF Inv, Types
  <1>8. Revisions' = Revisions
    BY <1>1 DEF Revisions
  <1>9. /\ Queue(completions, Revisions, registered, streams)'
        /\ Working(worker, active, registered, provider, completions, streams)'
    BY <1>1, <1>8 DEF Inv
  <1>10. Views'
    <2> SUFFICES ASSUME NEW p \in Providers
                 PROVE  View(streams[p], pending[p], registered[p], Revisions[p], completions, p,
                             sessions)'
      BY DEF Views
    <2>1. Ahead(streams'[p], completions', p)
      BY <1>1 DEF Inv, Views, View
    <2>2. \A s \in Sessions : SameOf(sessions'[s], sessions[s], p) \/ Silent(sessions'[s], p)
      BY <1>2
    <2>3. streams'[p] = streams[p] /\ pending'[p] = pending[p] /\ registered' = registered
      BY <1>1
    <2> QED
      BY <2>1, <2>2, <2>3, <1>8, OthersView
  <1> QED
    BY <1>7, <1>9, <1>10 DEF Inv

LEMMA UserKeepsInv ==
  ASSUME Inv, UserRefreshes PROVE Inv'
  <1> DEFINE a == [kind |-> "RefreshMetadata"]
             b == [kind |-> "RefreshProviders"]
             q == Submit(requests, a)
  <1>1. /\ UNCHANGED <<provider, inbox, sent, stored, clock, completions, notice, sessions,
                       worker, active, reconcile, registered, expiries, streams, pending>>
        /\ requests' = Submit(q, b)
    BY DEF UserRefreshes, stateVars, workerVars
  <1>2. /\ a \in RequestMessage /\ a.kind # "ScheduleExpiry"
        /\ b \in RequestMessage /\ b.kind # "ScheduleExpiry"
    BY DEF RequestMessage
  <1> HIDE DEF a, b
  <1>3. RequestsFit(q)
    BY <1>2, RequestsFitNow, SubmitFits
  <1> HIDE DEF q
  <1>4. RequestsFit(requests')
    BY <1>1, <1>2, <1>3, RequestsFitNow, SubmitFits
  <1>5. TypeOK'
    BY <1>1, <1>4 DEF Inv, Types, TypeOK, StateTypeOK, RequestsFit
  <1>6. Types' /\ History(provider)'
    BY <1>1, <1>5 DEF Inv, Types
  <1>7. Leases(inbox, requests, expiries)'
    BY <1>1, <1>4 DEF Inv, Leases, RequestsFit
  <1>8. Revisions' = Revisions
    BY <1>1 DEF Revisions
  <1> QED
    BY <1>1, <1>6, <1>7, <1>8 DEF Inv, Views

-------------------------------------------------------------------------------
(* Every step *)

LEMMA ReduceKeepsInv ==
  ASSUME Inv, Reduce PROVE Inv'
  BY ReduceEventKeepsInv, ReduceChunkKeepsInv, ReduceMetadataKeepsInv, ReduceExpiryKeepsInv,
     ReduceContractKeepsInv, ReduceStatusKeepsInv
  DEF Reduce

LEMMA StutterKeepsInv ==
  ASSUME Inv, UNCHANGED vars PROVE Inv'
  <1>1. UNCHANGED <<sessions, streams, pending, provider, inbox, sent, stored, clock, requests,
                    completions, notice, worker, active, reconcile, registered, expiries>>
    BY DEF vars, stateVars, outside, channels, workerVars
  <1>2. Types'
    BY <1>1 DEF Inv, Types, TypeOK, StateTypeOK
  <1>3. Revisions' = Revisions
    BY <1>1 DEF Revisions
  <1> QED
    BY <1>1, <1>2, <1>3 DEF Inv, Views

LEMMA StepsKeepInv ==
  ASSUME Inv, [Next]_vars PROVE Inv'
  <1>1. CASE HooksAct \/ Tick
    BY <1>1, TimePassesKeepsInv DEF HooksAct
  <1>2. CASE ProvidersAct
    <2>1. PICK p \in Providers :
             \/ \E s \in Sessions, v \in Values \cup {None} : ProviderChanges(p, s, v)
             \/ \E most \in Capabilities : ProviderRestarts(p, most)
      BY <1>2 DEF ProvidersAct
    <2> QED
      BY <2>1, ChangesKeepInv, RestartsKeepInv
  <1>3. CASE HandleRequest \/ PollReceiver \/ EmitGap
    BY <1>3, RequestsKeepInv, ReceiverKeepsInv, GapKeepsInv
  <1>4. CASE Poll
    BY <1>4, PollKeepsInv, PollFailsKeepsInv DEF Poll
  <1>5. CASE Ask \/ DeadlinePasses \/ Snapshot \/ EmitChunk \/ FinishRefresh
    BY <1>5, ProbeKeepsInv, DeadlineKeepsInv, SnapshotKeepsInv, ChunkKeepsInv, FinishKeepsInv
    DEF Ask
  <1>6. CASE Reconcile \/ Reprobe
    BY <1>6, TimedRefreshKeepsInv DEF Reconcile, Reprobe
  <1>7. CASE ReloadMetadata \/ EmitDueExpiries
    BY <1>7, ReloadKeepsInv, ExpiriesKeepInv
  <1>8. CASE Reduce \/ TakeNotice \/ UserRefreshes
    BY <1>8, ReduceKeepsInv, NoticeKeepsInv, UserKeepsInv
  <1>9. CASE UNCHANGED vars
    BY <1>9, StutterKeepsInv
  <1> QED
    BY <1>1, <1>2, <1>3, <1>4, <1>5, <1>6, <1>7, <1>8, <1>9 DEF Next

\* The queue, the worker and the view of every provider are positions in the histories of
\* the providers, in the order in which the worker took them, through every loss, full
\* queue, gap, late answer and restart.
THEOREM ViewFollowsProviders ==
  ASSUME Shape PROVE Spec => []Inv
  <1>1. Init => Inv
    BY InitEstablishesInv
  <1>2. Inv /\ [Next]_vars => Inv'
    BY SMTT(40), StepsKeepInv
  <1> QED
    BY <1>1, <1>2, PTL DEF Spec

LEMMA InvIsHonest ==
  ASSUME Inv PROVE CompletenessIsHonest
  <1>0. DOMAIN sessions = Sessions /\ DOMAIN provider = Providers
    BY SMTT(40), Domains
  <1> SUFFICES ASSUME NEW s \in Sessions, ShownComplete(s),
                      NEW p \in sessions[s].live \cap Providers,
                      provider[p].revisions[streams[p].epoch].most # None
               PROVE  Shown(s, p) = provider[p].revisions[streams[p].epoch].known[streams[p].last][s]
    BY <1>0 DEF CompletenessIsHonest
  <1> DEFINE r == sessions[s]
             st == streams[p]
             rs == Revisions[p]
  <1>1. r # None /\ Completeness(r) = "Complete"
    BY DEF ShownComplete
  <1>2. p \in r.live /\ p \in Providers /\ p \in Sources /\ rs = provider[p].revisions
    BY StateTypes DEF Revisions
  <1>3. Seen(st, rs, p, s, r)
    BY <1>2 DEF Inv, Views, View
  <1>4. st # None
    BY <1>1, <1>2, <1>3 DEF Seen, Claim
  <1>5. ~Reconciling(r) /\ \A x \in r.live : streams[x] # None => streams[x].complete
    BY <1>1 DEF Completeness
  <1>6. st.complete /\ ~st.reconciling
    BY <1>2, <1>4, <1>5 DEF Reconciling
  <1>7. Shown(s, p) = IF r.evidence[p] = None THEN None ELSE r.evidence[p].value
    BY DEF Shown
  <1> QED
    BY <1>1, <1>2, <1>3, <1>6, <1>7 DEF Seen, Honest

\* A session shown as completely observed shows of each of its providers what that provider
\* knew at the position of its stream.
THEOREM CompleteIsTheTruth ==
  ASSUME Shape PROVE Spec => []CompletenessIsHonest
  <1>1. Inv => CompletenessIsHonest
    BY InvIsHonest
  <1> QED
    BY <1>1, ViewFollowsProviders, PTL

LEMMA InvAnnouncesEvents ==
  ASSUME Inv PROVE EventsFollowSnapshots
  <1>1. DOMAIN provider = Providers
    BY Domains
  <1> SUFFICES ASSUME completions # <<>>, Head(completions).kind = "Event",
                      Head(completions).body.source \in Providers
               PROVE  LET e == Head(completions).body
                      IN  streams[e.source] # None /\ streams[e.source].epoch = e.epoch
    BY <1>1 DEF EventsFollowSnapshots
  <1>2. Of(Head(completions), Head(completions).body.source)
    BY DEF Of
  <1> QED
    BY <1>2, HeadFacts

\* No event of a provider reaches the view before a chunk of the snapshot of its revision.
THEOREM SnapshotsComeFirst ==
  ASSUME Shape PROVE Spec => []EventsFollowSnapshots
  <1>1. Inv => EventsFollowSnapshots
    BY InvAnnouncesEvents
  <1> QED
    BY <1>1, ViewFollowsProviders, PTL

-------------------------------------------------------------------------------
(* No step replaces evidence by older evidence. *)

NewerOf(r, z) ==
    \A x \in Sources :
        r # None /\ z # None /\ r.evidence[x] # None /\ z.evidence[x] # None
            => r.evidence[x].at <= z.evidence[x].at

\* What a record says is gone or kept.
Less(r, z) ==
    z # None => \A x \in Sources : z.evidence[x] # None => r # None /\ z.evidence[x] = r.evidence[x]

LEMMA TimesAreNumbers ==
  ASSUME Shape, NEW r \in Record, NEW x \in Sources, r.evidence[x] # None
  PROVE  r.evidence[x] \in Evidence /\ r.evidence[x].at \in Nat
  <1>1. r.evidence[x] \in Evidence
    BY DEF Record
  <1> QED
    BY <1>1 DEF Evidence

LEMMA LessIsNotOlder ==
  ASSUME Shape, NEW r \in Record \cup {None}, NEW z, Less(r, z) PROVE NewerOf(r, z)
  <1> SUFFICES ASSUME NEW x \in Sources, r # None, z # None, r.evidence[x] # None,
                      z.evidence[x] # None
               PROVE  r.evidence[x].at <= z.evidence[x].at
    BY DEF NewerOf
  <1>1. z.evidence[x] = r.evidence[x]
    BY DEF Less
  <1>2. r.evidence[x].at \in Nat
    BY TimesAreNumbers
  <1> QED
    BY <1>1, <1>2

LEMMA ObservedIsNotOlder ==
  ASSUME Shape, NEW r \in Record \cup {None}, NEW y \in Sources, NEW o \in Observation
  PROVE  NewerOf(r, Observed(r, y, o))
  <1> DEFINE z == Observed(r, y, o)
  <1> SUFFICES ASSUME NEW x \in Sources, r # None, r.evidence[x] # None, z.evidence[x] # None
               PROVE  r.evidence[x].at <= z.evidence[x].at
    BY DEF NewerOf
  <1>1. /\ z.evidence[y] = Updated(r.evidence[y], o)
        /\ x # y => SameOf(z, r, x) \/ Silent(z, x)
        /\ z # None
    BY Records, NoneIsDistinct
  <1>2. r.evidence[x].at \in Nat /\ o.at \in Nat
    BY TimesAreNumbers DEF Observation
  <1> HIDE DEF z
  <1>3. CASE x = y
    <2> DEFINE old == r.evidence[y]
    <2>1. old # None /\ old.at \in Nat /\ z.evidence[x] = Updated(old, o) /\ z.evidence[x] # None
      BY <1>1, <1>2, <1>3
    <2> HIDE DEF old
    <2>2. z.evidence[x] = old \/ (old.at <= o.at /\ z.evidence[x].at = o.at)
      BY <2>1 DEF Updated, NotOlder
    <2>3. old.at <= z.evidence[x].at
      BY <2>1, <2>2
    <2> QED
      BY <2>3, <1>3 DEF old
  <1>4. CASE x # y
    <2>1. z.evidence[x] = r.evidence[x]
      BY <1>1, <1>4 DEF SameOf, Silent
    <2> QED
      BY <2>1, <1>2
  <1> QED
    BY <1>3, <1>4

LEMMA TombstonedIsLess ==
  ASSUME Shape, NEW r \in Record \cup {None}, NEW x \in Sources
  PROVE  Less(r, Tombstoned(r, x))
  <1> DEFINE z == Tombstoned(r, x)
  <1>1. r # None => z.evidence[x] = None
    BY NoneIsDistinct, TombstonedRecords
  <1>2. \A p \in Sources : p # x => SameOf(z, r, p)
    BY NoneIsDistinct, TombstonedRecords
  <1>3. z # None => r # None
    BY DEF Tombstoned
  <1> HIDE DEF z
  <1>4. Less(r, z)
    BY <1>1, <1>2, <1>3 DEF Less, SameOf
  <1> QED
    BY <1>4 DEF z

LEMMA EventsAreNotOlder ==
  ASSUME Inv, ReduceEvent, NEW s \in Sessions PROVE NewerOf(sessions[s], sessions'[s])
  <1> DEFINE m == Head(completions)
             e == m.body
             r == sessions[s]
  <1>1. /\ completions # <<>> /\ m.kind = "Event" /\ ApplyEvent(e)
    BY DEF ReduceEvent, Taken
  <1>2. m \in Message /\ Good(Revisions, m)
    BY <1>1, HeadFacts
  <1>3. e \in Event /\ e.source \in Sources /\ (e.op = "Upsert" => e.item \in Observation)
    BY <1>1, <1>2 DEF Message, Event, Good
  <1>4. /\ r \in Record \cup {None} /\ Shape /\ sessions \in [Sessions -> Record \cup {None}]
    BY StateTypes
  <1>5. Less(r, r)
    BY DEF Less
  <1>6. CASE RefuseEvent(e) \/ ApplyControl(e)
    <2>1. sessions'[s] = r
      BY <1>6 DEF RefuseEvent, ApplyControl
    <2> QED
      BY <2>1, <1>4, <1>5, LessIsNotOlder
  <1>7. CASE ApplyUpsert(e)
    <2>1. e.item \in Observation /\ sessions' = [sessions EXCEPT ![e.item.session] =
                                       Observed(sessions[e.item.session], e.source, e.item)]
      BY <1>3, <1>7 DEF ApplyUpsert
    <2>2. sessions'[s] = r \/ sessions'[s] = Observed(r, e.source, e.item)
      BY <2>1, <1>4
    <2> HIDE DEF r, e
    <2> QED
      BY <2>1, <2>2, <1>3, <1>4, <1>5, LessIsNotOlder, ObservedIsNotOlder DEF r
  <1> QED
    BY <1>1, <1>6, <1>7 DEF ApplyEvent

LEMMA ChunksAreNotOlder ==
  ASSUME Inv, ReduceChunk, NEW s \in Sessions PROVE NewerOf(sessions[s], sessions'[s])
  <1> DEFINE m == Head(completions)
             c == m.body
             p == c.source
             r == sessions[s]
  <1>1. /\ completions # <<>> /\ m.kind = "Snapshot" /\ ApplyChunk(c)
    BY DEF ReduceChunk, Taken
  <1>2. Incoming(c, p) /\ p \in Sources
    BY <1>1, ChunksCome, StateTypes DEF Incoming
  <1>3. /\ r \in Record \cup {None} /\ Shape
    BY StateTypes
  <1>4. Less(r, r)
    BY DEF Less
  <1> HIDE DEF c, p, m
  <1>5. CASE ApplySnapshot(c)
    <2>1. \/ \E o \in Observation : sessions'[s] = Observed(r, p, o)
          \/ sessions'[s] = Tombstoned(r, p)
          \/ sessions'[s] = r
      BY <1>2, <1>5, SnapshotRecords
    <2> HIDE DEF r
    <2>2. NewerOf(r, sessions'[s])
      BY <2>1, <1>2, <1>3, <1>4, LessIsNotOlder, ObservedIsNotOlder, TombstonedIsLess
    <2> QED
      BY <2>2 DEF r
  <1>6. CASE ~ApplySnapshot(c)
    <2>1. sessions'[s] = r
      BY <1>1, <1>2, <1>6, ChunkSteps
    <2> QED
      BY <2>1, <1>3, <1>4, LessIsNotOlder
  <1> QED
    BY <1>5, <1>6

LEMMA OthersLeaveLess ==
  ASSUME Inv, ReduceMetadata \/ ReduceExpiry \/ ReduceContract \/ TakeNotice,
         NEW s \in Sessions
  PROVE  Less(sessions[s], sessions'[s])
  <1> DEFINE r == sessions[s]
             z == sessions'[s]
  <1>1. r \in Record \cup {None} /\ (r # None => r.evidence \in [Sources -> Evidence \cup {None}])
    BY StateTypes DEF Record
  <1>2. Less(r, r)
    BY DEF Less
  <1>3. CASE ReduceMetadata
    <2>1. z = MetadataRecord \/ z = r
      BY <1>3 DEF ReduceMetadata, BootstrapMetadata
    <2>2. \A x \in Sources : MetadataRecord.evidence[x] = None
      BY DEF MetadataRecord, NewRecord
    <2> HIDE DEF z, r
    <2>3. Less(r, z)
      BY SMTT(40), <2>1, <2>2, <1>2 DEF Less
    <2> QED
      BY <2>3 DEF r, z
  <1>4. CASE ReduceExpiry
    <2> DEFINE gone == {x \in Expires(s, Head(completions).keys) : r.evidence[x] # None}
               left == [x \in Sources |-> IF x \in gone THEN None ELSE r.evidence[x]]
               ex   == r.expired \/ gone # {}
    <2>1. z = IF r = None THEN None ELSE [r EXCEPT !.evidence = left, !.expired = ex]
      BY <1>4 DEF ReduceExpiry, ExpireEvidence
    <2>2. \A x \in Sources : left[x] # None => left[x] = r.evidence[x]
      OBVIOUS
    <2> HIDE DEF gone, left, ex, r, z
    <2>3. z # None => r # None /\ r \in Record /\ z.evidence = left
      BY <2>1, <1>1 DEF Record
    <2>4. Less(r, z)
      BY <2>2, <2>3 DEF Less
    <2> QED
      BY <2>4 DEF r, z
  <1>5. CASE ReduceContract
    <2> DEFINE y  == Head(completions).source
               ev == [r.evidence EXCEPT ![y] = None]
    <2>1. z = r \/ (r # None /\ z = [r EXCEPT !.evidence = ev])
      BY <1>5 DEF ReduceContract, ApplyContractUpdate
    <2>2. r # None => \A x \in Sources : ev[x] # None => ev[x] = r.evidence[x]
      BY <1>1
    <2> HIDE DEF ev, r, z
    <2>3. z = r \/ (r # None /\ r \in Record /\ z.evidence = ev)
      BY <2>1, <1>1 DEF Record
    <2>4. Less(r, z)
      BY <2>2, <2>3, <1>2 DEF Less
    <2> QED
      BY <2>4 DEF r, z
  <1>6. CASE TakeNotice
    <2>1. z = r \/ (r # None /\ z = [r EXCEPT !.dropped = TRUE])
      BY <1>6 DEF TakeNotice, RecordLiveDrop
    <2> HIDE DEF r, z
    <2>2. z = r \/ (r # None /\ r \in Record /\ z.evidence = r.evidence)
      BY <2>1, <1>1 DEF Record
    <2>3. Less(r, z)
      BY <2>2, <1>2 DEF Less
    <2> QED
      BY <2>3 DEF r, z
  <1> QED
    BY <1>3, <1>4, <1>5, <1>6

\* The other steps leave the sessions alone.
LEMMA OthersKeepSessions ==
  ASSUME [Next]_vars, ~Reduce, ~TakeNotice PROVE sessions' = sessions
  <1>1. CASE HooksAct \/ Tick
    BY <1>1 DEF HooksAct, HookReports, Tick, stateVars
  <1>2. CASE ProvidersAct
    BY <1>2 DEF ProvidersAct, ProviderChanges, ProviderRestarts, OutsideOnly, stateVars
  <1>3. CASE HandleRequest \/ PollReceiver \/ EmitGap
    BY <1>3 DEF HandleRequest, PollReceiver, EmitGap, WorkerOnly, stateVars
  <1>4. CASE Poll
    BY <1>4 DEF Poll, PollProvider, PollFails, WorkerOnly, stateVars
  <1>5. CASE Ask \/ DeadlinePasses \/ Snapshot \/ EmitChunk \/ FinishRefresh
    BY <1>5 DEF Ask, Probe, DeadlinePasses, Snapshot, EmitChunk, FinishRefresh, RefreshOnly,
                WorkerOnly, stateVars
  <1>6. CASE Reconcile \/ Reprobe
    BY <1>6 DEF Reconcile, Reprobe, StartTimedRefresh, WorkerOnly, stateVars
  <1>7. CASE ReloadMetadata \/ EmitDueExpiries
    BY <1>7 DEF ReloadMetadata, EmitDueExpiries, WorkerOnly, stateVars
  <1>8. CASE UserRefreshes
    BY <1>8 DEF UserRefreshes, stateVars
  <1>9. CASE UNCHANGED vars
    BY <1>9 DEF vars, stateVars
  <1> QED
    BY <1>1, <1>2, <1>3, <1>4, <1>5, <1>6, <1>7, <1>8, <1>9 DEF Next

LEMMA StepsKeepNewer ==
  ASSUME Inv, [Next]_vars PROVE KeepsNewer
  <1>0. DOMAIN sessions = Sessions
        /\ \A s \in Sessions : sessions[s] # None => DOMAIN sessions[s].evidence = Sources
    BY StateTypes DEF Record
  <1> SUFFICES ASSUME NEW s \in Sessions PROVE NewerOf(sessions[s], sessions'[s])
    BY <1>0 DEF KeepsNewer, NewerOf
  <1>1. sessions[s] \in Record \cup {None} /\ Shape
    BY StateTypes
  <1>2. CASE ReduceEvent \/ ReduceChunk
    BY <1>2, EventsAreNotOlder, ChunksAreNotOlder
  <1>3. CASE ReduceMetadata \/ ReduceExpiry \/ ReduceContract \/ TakeNotice
    BY <1>1, <1>3, OthersLeaveLess, LessIsNotOlder
  <1>4. CASE sessions' = sessions
    <2>1. Less(sessions[s], sessions'[s])
      BY <1>4 DEF Less
    <2> QED
      BY <2>1, <1>1, LessIsNotOlder
  <1>5. CASE ReduceStatus
    BY <1>4, <1>5 DEF ReduceStatus, stateVars
  <1> QED
    BY <1>2, <1>3, <1>4, <1>5, OthersKeepSessions DEF Reduce

\* An event, a chunk, a lease, a contract or a notice that arrives late never replaces the
\* evidence of a later observation.
THEOREM LateArrivalsLose ==
  ASSUME Shape PROVE Spec => EvidenceNeverGoesBack
  <1>1. Inv /\ [Next]_vars => [KeepsNewer]_sessions
    BY StepsKeepNewer
  <1> QED
    BY <1>1, ViewFollowsProviders, PTL DEF Spec, EvidenceNeverGoesBack
=============================================================================
