------------------------- MODULE InstanceControlProofs -------------------------
(* No request is performed twice, no slot is lost, and success is only reported   *)
(* for what was performed, for any number of viewers and commands, however often  *)
(* they are run, and whatever quits or crashes.                                   *)
EXTENDS InstanceControl, HerdrContract, FiniteSetTheorems, SequenceTheorems, TLAPS

--------------------------------------------------------------------------------
(* The inductive invariant *)

Ids      == Clients \X Nat \X Nat
Stages   == {"backlog", "asking", "waiting", "answered"}
Threads  == [of : Ids, asks : {"info", "open"}, focus : Focuses, stage : Stages]
Asked    == [of : Ids, focus : Focuses]

ClientOK(r) ==
    /\ DOMAIN r = DOMAIN Idle
    /\ r.run \in Nat /\ r.step \in Nat /\ r.focus \in Focuses

Types ==
    /\ threads \in [Instances -> SUBSET Threads]
    /\ inUse \in [Instances -> Nat]
    /\ inbox \in [Instances -> Seq(Asked)] /\ batch \in [Instances -> Seq(Asked)]
    /\ DOMAIN client = Clients /\ \A c \in Clients : ClientOK(client[c])
    /\ DOMAIN answer = Clients
    /\ opened \in Seq(Ids)

\* The exchanges up to now
Past(x) ==
    /\ x \in Ids /\ x[2] <= client[x[1]].run
    /\ x[2] = client[x[1]].run => x[3] <= client[x[1]].step

\* The requests that wait for the main loop, the batch first
Queued(i) == batch[i] \o inbox[i]

Waits(x)     == \E i \in Instances : \E n \in DOMAIN Queued(i) : Queued(i)[n].of = x
Performed(x) == \E n \in DOMAIN opened : opened[n] = x

\* A connection has one thread.
Owned ==
    \A i, j \in Instances : \A t \in threads[i], u \in threads[j] :
        t.of = u.of => i = j /\ t = u

\* No thread, request or opening is of an exchange to come.
Begun ==
    /\ \A i \in Instances : \A t \in threads[i] : Past(t.of)
    /\ \A x \in Ids : Waits(x) \/ Performed(x) => Past(x)

\* A request is made once, is queued once, and leaves the queue when it is performed.
Once ==
    /\ \A i, j \in Instances : \A m \in DOMAIN Queued(i), n \in DOMAIN Queued(j) :
          Queued(i)[m].of = Queued(j)[n].of => i = j /\ m = n
    /\ \A x \in Ids : ~(Waits(x) /\ Performed(x))
    /\ \A i \in Instances : \A t \in threads[i] :
          t.stage \in {"backlog", "asking"} => ~Waits(t.of) /\ ~Performed(t.of)
    /\ IsInjective(opened)

Counted ==
    \A i \in Instances :
        /\ IsFiniteSet(threads[i])
        /\ inUse[i] = Cardinality(Served(i)) /\ inUse[i] <= Slots

Told == \A c \in Clients : answer[c] = "opened" => Performed(Exchange(c))

ControlInv == Types /\ Owned /\ Begun /\ Once /\ Counted /\ Told

--------------------------------------------------------------------------------
(* Sequences that are queued one behind the other *)

LEMMA QueueIsEmpty == ASSUME NEW S PROVE <<>> \o <<>> = <<>> /\ <<>> \in Seq(S)
  OBVIOUS

LEMMA DrainKeepsOrder ==
  ASSUME NEW S, NEW s \in Seq(S) PROVE <<>> \o s = s /\ s \o <<>> = s
  OBVIOUS

LEMMA QueueGrows ==
  ASSUME NEW S, NEW s \in Seq(S), NEW t \in Seq(S), NEW r \in S
  PROVE  s \o Append(t, r) = Append(s \o t, r) /\ s \o t \in Seq(S)
  OBVIOUS

LEMMA QueueShrinks ==
  ASSUME NEW S, NEW s \in Seq(S), NEW t \in Seq(S), s # <<>>
  PROVE  /\ Tail(s) \o t = Tail(s \o t) /\ Head(s) = (s \o t)[1]
         /\ s \o t \in Seq(S) /\ s \o t # <<>>
  OBVIOUS

--------------------------------------------------------------------------------
(* What the steps have in common *)

\* What is queued and performed stays so when neither sequence changes.
LEMMA QueueStays ==
  ASSUME UNCHANGED <<inbox, batch, opened>>
  PROVE  /\ \A i \in Instances : Queued(i)' = Queued(i)
         /\ \A x : (Waits(x)' <=> Waits(x)) /\ (Performed(x)' <=> Performed(x))
  BY DEF Queued, Waits, Performed

\* An answer other than success.
LEMMA AnswersStayTold ==
  ASSUME ControlInv, UNCHANGED <<client, opened>>, NEW x, NEW r, Replies(x, r),
         r = "opened" => Performed(x)
  PROVE  Told' /\ DOMAIN answer' = Clients
  <1>1. DOMAIN answer = Clients /\ Told
    BY DEF ControlInv, Types
  <1>2. \A y : Performed(y)' <=> Performed(y)
    BY DEF Performed
  <1>3. \A c \in Clients : Exchange(c)' = Exchange(c)
    BY DEF Exchange
  <1>4. DOMAIN answer' = Clients
    BY <1>1 DEF Replies
  <1>5. ASSUME NEW c \in Clients, answer'[c] = "opened" PROVE Performed(Exchange(c))
    <2>1. CASE answer'[c] = answer[c]
      BY <1>1, <1>5, <2>1 DEF Told
    <2>2. CASE answer'[c] # answer[c]
      <3>1. c = x[1] /\ Exchange(x[1]) = x /\ answer'[c] = r
        BY <1>1, <2>2 DEF Replies
      <3> QED
        BY <1>5, <3>1
    <2> QED
      BY <2>1, <2>2
  <1> QED
    BY <1>2, <1>3, <1>4, <1>5 DEF Told

\* Threads that end leave what is queued and performed as it was.
LEMMA FewerThreads ==
  ASSUME ControlInv, UNCHANGED <<client, opened>>,
         threads' \in [Instances -> SUBSET Threads],
         \A j \in Instances : threads'[j] \subseteq threads[j],
         \A i \in Instances : Queued(i)' \in {Queued(i), <<>>}
  PROVE  Owned' /\ Begun' /\ Once'
  <1>1. \A x : Performed(x)' <=> Performed(x)
    BY DEF Performed
  <1>2. \A x : Waits(x)' => Waits(x)
    BY DEF Waits
  <1>3. Owned'
    BY DEF ControlInv, Owned
  <1>4. Begun'
    BY <1>1, <1>2 DEF ControlInv, Begun, Past
  <1>5. \A i, j \in Instances : \A m \in DOMAIN Queued(i)', n \in DOMAIN Queued(j)' :
          (Queued(i)[m].of = Queued(j)[n].of => i = j /\ m = n)'
    <2> SUFFICES ASSUME NEW i \in Instances, NEW j \in Instances,
                        NEW m \in DOMAIN Queued(i)', NEW n \in DOMAIN Queued(j)'
                 PROVE  (Queued(i)[m].of = Queued(j)[n].of => i = j /\ m = n)'
      OBVIOUS
    <2>1. Queued(i)' = Queued(i) /\ Queued(j)' = Queued(j)
      OBVIOUS
    <2> QED
      BY <2>1 DEF ControlInv, Once
  <1> QED
    BY <1>1, <1>2, <1>3, <1>4, <1>5 DEF ControlInv, Once

\* A thread goes on.
LEMMA OneThread ==
  ASSUME ControlInv, NEW i \in Instances, NEW t \in threads[i], NEW s \in Stages,
         Become(i, t, s)
  PROVE  /\ threads' \in [Instances -> SUBSET Threads]
         /\ \A j \in Instances : j # i => threads'[j] = threads[j]
         /\ \A u \in threads'[i] : (u \in threads[i] /\ u # t) \/ (u.of = t.of /\ u.stage = s)
         /\ Owned'
         /\ IsFiniteSet(threads'[i])
         /\ s # "backlog" =>
               Cardinality(Served(i))' = IF t.stage = "backlog" THEN Cardinality(Served(i)) + 1
                                         ELSE Cardinality(Served(i))
  <1> DEFINE u == [t EXCEPT !.stage = s]
  <1>1. /\ threads \in [Instances -> SUBSET Threads] /\ t \in Threads
        /\ IsFiniteSet(threads[i])
    BY DEF ControlInv, Types, Counted
  <1>2. u \in Threads /\ u.of = t.of /\ u.stage = s
    BY <1>1 DEF Threads
  <1>3. threads' = [threads EXCEPT ![i] = (threads[i] \ {t}) \cup {u}]
    BY DEF Become
  <1> HIDE DEF u
  <1>4. /\ threads' \in [Instances -> SUBSET Threads]
        /\ threads'[i] = (threads[i] \ {t}) \cup {u}
        /\ \A j \in Instances : j # i => threads'[j] = threads[j]
    BY <1>1, <1>2, <1>3
  <1>5. Owned'
    <2> SUFFICES ASSUME NEW j \in Instances, NEW k \in Instances,
                        NEW v \in threads'[j], NEW w \in threads'[k], v.of = w.of
                 PROVE  j = k /\ v = w
      BY DEF Owned
    <2>1. PICK v0 \in threads[j] :
            /\ v0.of = v.of
            /\ \/ v = v0 /\ ~(j = i /\ v0 = t)
               \/ v = u /\ j = i /\ v0 = t
      BY <1>2, <1>4
    <2>2. PICK w0 \in threads[k] :
            /\ w0.of = w.of
            /\ \/ w = w0 /\ ~(k = i /\ w0 = t)
               \/ w = u /\ k = i /\ w0 = t
      BY <1>2, <1>4
    <2>3. j = k /\ v0 = w0
      BY <2>1, <2>2 DEF ControlInv, Owned
    <2> QED
      BY <2>1, <2>2, <2>3
  <1>6. IsFiniteSet(threads'[i])
    <2>1. IsFiniteSet(threads[i] \ {t})
      BY <1>1, FS_RemoveElement
    <2> QED
      BY <1>4, <2>1, FS_AddElement
  <1>7. ASSUME s # "backlog"
        PROVE  Cardinality(Served(i))' = IF t.stage = "backlog" THEN Cardinality(Served(i)) + 1
                                         ELSE Cardinality(Served(i))
    <2> DEFINE others == Served(i) \ {t}
    <2>1. Served(i)' = others \cup {u}
      BY <1>2, <1>4, <1>7 DEF Served
    <2>2. IsFiniteSet(Served(i))
      BY <1>1, FS_Subset DEF Served
    <2>3. u \notin others
      <3> SUFFICES ASSUME u \in others PROVE FALSE
        OBVIOUS
      <3>1. u \in threads[i] /\ u # t /\ u.of = t.of
        BY <1>2 DEF Served
      <3> QED
        BY <3>1 DEF ControlInv, Owned
    <2>4. IsFiniteSet(others) /\ Cardinality(others) = IF t.stage = "backlog"
                                                       THEN Cardinality(Served(i))
                                                       ELSE Cardinality(Served(i)) - 1
      <3>1. CASE t.stage = "backlog"
        <4>1. others = Served(i)
          BY <3>1 DEF Served
        <4> QED
          BY <2>2, <3>1, <4>1
      <3>2. CASE t.stage # "backlog"
        <4>1. t \in Served(i)
          BY <3>2 DEF Served
        <4> QED
          BY <2>2, <3>2, <4>1, FS_RemoveElement
      <3> QED
        BY <3>1, <3>2
    <2>5. Cardinality(others \cup {u}) = Cardinality(others) + 1
      BY <2>3, <2>4, FS_AddElement
    <2>6. Cardinality(Served(i)) \in Nat
      BY <2>2, FS_CardinalityType
    <2> QED
      BY <2>1, <2>4, <2>5, <2>6
  <1> QED
    BY <1>2, <1>4, <1>5, <1>6, <1>7

\* The counters of the other viewers stay right.
LEMMA OthersStayCounted ==
  ASSUME ControlInv, NEW i \in Instances,
         \A j \in Instances : j # i => threads'[j] = threads[j] /\ inUse'[j] = inUse[j],
         IsFiniteSet(threads'[i]),
         inUse'[i] = Cardinality(Served(i))', inUse'[i] <= Slots
  PROVE  Counted'
  <1>1. \A j \in Instances : j # i => Served(j)' = Served(j)
    BY DEF Served
  <1> QED
    BY <1>1 DEF ControlInv, Counted

--------------------------------------------------------------------------------
(* The commands *)

\* A command goes on, with the same exchange or a later one.
LEMMA CommandGoesOn ==
  ASSUME ControlInv, UNCHANGED <<threads, inUse, inbox, batch, opened>>,
         NEW c \in Clients, NEW r, client' = [client EXCEPT ![c] = r], ClientOK(r),
         \/ r.run > client[c].run
         \/ r.run = client[c].run /\ r.step >= client[c].step,
         \/ answer' = answer /\ r.run = client[c].run /\ r.step = client[c].step
         \/ \E a \in {"none", "closed"} : answer' = [answer EXCEPT ![c] = a]
  PROVE  ControlInv'
  <1>1. /\ \A i \in Instances : Queued(i)' = Queued(i)
        /\ \A x : (Waits(x)' <=> Waits(x)) /\ (Performed(x)' <=> Performed(x))
    BY QueueStays
  <1>2. DOMAIN client = Clients /\ client'[c] = r /\ \A d \in Clients : d # c => client'[d] = client[d]
    BY DEF ControlInv, Types
  <1>3. Types'
    BY <1>2 DEF ControlInv, Types
  <1>4. \A x \in Ids : Past(x) => Past(x)'
    <2> SUFFICES ASSUME NEW x \in Ids, Past(x) PROVE Past(x)'
      OBVIOUS
    <2>1. x[1] \in Clients /\ x[2] \in Nat /\ x[3] \in Nat
      BY DEF Ids
    <2>2. CASE x[1] = c
      <3>1. client[c].run \in Nat /\ client[c].step \in Nat /\ r.run \in Nat /\ r.step \in Nat
        BY DEF ControlInv, Types, ClientOK
      <3> QED
        BY <1>2, <2>1, <2>2, <3>1 DEF Past
    <2>3. CASE x[1] # c
      BY <1>2, <2>1, <2>3 DEF Past
    <2> QED
      BY <2>2, <2>3
  <1>5. Begun'
    <2>1. \A i \in Instances : \A t \in threads[i] : t.of \in Ids
      BY DEF ControlInv, Types, Threads
    <2> QED
      BY <1>1, <1>4, <2>1 DEF ControlInv, Begun
  <1>6. Owned'
    BY DEF ControlInv, Owned
  <1>7. Once'
    BY <1>1 DEF ControlInv, Once
  <1>8. Counted'
    BY DEF ControlInv, Counted, Served
  <1>9. Told'
    <2> SUFFICES ASSUME NEW d \in Clients,
        answer'[d] = "opened" PROVE Performed(Exchange(d)')
      BY <1>1 DEF Told
    <2>1. CASE d = c
      <3>1. answer' = answer /\ r.run = client[c].run /\ r.step = client[c].step
        BY <2>1 DEF ControlInv, Types
      <3>2. Exchange(c)' = Exchange(c)
        BY <1>2, <3>1 DEF Exchange
      <3> QED
        BY <2>1, <3>1, <3>2 DEF ControlInv, Told
    <2>2. CASE d # c
      <3>1. answer'[d] = answer[d] /\ Exchange(d)' = Exchange(d)
        BY <1>2, <2>2 DEF ControlInv, Types, Exchange
      <3> QED
        BY <3>1 DEF ControlInv, Told
    <2> QED
      BY <2>1, <2>2
  <1> QED
    BY <1>3, <1>5, <1>6, <1>7, <1>8, <1>9 DEF ControlInv

\* A new connection is one of which there is nothing yet.
LEMMA CommandConnects ==
  ASSUME ControlInv, NEW c \in Clients, NEW i, NEW asks \in {"info", "open"},
         Connects(c, i, asks),
         NEW r, client' = [client EXCEPT ![c] = r], ClientOK(r),
         r.run = client[c].run, r.step = client[c].step + 1
  PROVE  ControlInv'
  <1> DEFINE x == <<c, client[c].run, client[c].step + 1>>
             new == [of |-> x, asks |-> asks, focus |-> client[c].focus,
                 stage |-> "backlog"]
  <1>1. client[c].run \in Nat /\ client[c].step \in Nat /\ client[c].focus \in Focuses
    BY DEF ControlInv, Types, ClientOK
  <1>2. x \in Ids /\ ~Past(x)
    BY <1>1 DEF Ids, Past
  <1>3. new \in Threads /\ new.of = x /\ new.stage = "backlog"
    BY <1>1, <1>2 DEF Threads, Stages
  <1>4. UNCHANGED <<inUse, inbox, batch, opened>>
    BY DEF Connects, viewer
  <1>5. /\ \A j \in Instances : Queued(j)' = Queued(j)
        /\ \A y : (Waits(y)' <=> Waits(y)) /\ (Performed(y)' <=> Performed(y))
    BY <1>4, QueueStays
  <1>6. threads' = threads \/ threads' = [threads EXCEPT ![i] = @ \cup {new}]
    BY DEF Connects
  <1>7. \E a \in {"none", "closed"} : answer' = [answer EXCEPT ![c] = a]
    BY DEF Connects
  <1> HIDE DEF x, new
  <1>8. /\ threads' \in [Instances -> SUBSET Threads]
        /\ \A j \in Instances : threads'[j] = threads[j] \/ threads'[j] = threads[j] \cup {new}
        /\ \A j, k \in Instances :
              threads'[j] # threads[j] /\ threads'[k] # threads[k] => j = k
    BY ZenonT(40), <1>3, <1>6 DEF ControlInv, Types
  <1>9. DOMAIN client = Clients /\ client'[c] = r /\ \A d \in Clients : d # c => client'[d] = client[d]
    BY DEF ControlInv, Types
  <1>10. Types'
    BY <1>4, <1>7, <1>8, <1>9 DEF ControlInv, Types
  <1>11. \A j \in Instances : \A t \in threads[j] : t.of # x
    BY <1>2 DEF ControlInv, Begun
  <1>12. Owned'
    <2> SUFFICES ASSUME NEW j \in Instances, NEW k \in Instances,
                        NEW t \in threads'[j], NEW u \in threads'[k], t.of = u.of
                 PROVE  j = k /\ t = u
      BY DEF Owned
    <2>1. CASE t \in threads[j] /\ u \in threads[k]
      BY <2>1 DEF ControlInv, Owned
    <2>2. CASE t = new /\ t \notin threads[j]
      <3>1. u = new /\ u \notin threads[k]
        BY <1>3, <1>8, <1>11, <2>2
      <3> QED
        BY <1>8, <2>2, <3>1
    <2>3. CASE u = new /\ u \notin threads[k]
      <3>1. t = new /\ t \notin threads[j]
        BY <1>3, <1>8, <1>11, <2>3
      <3> QED
        BY <1>8, <2>3, <3>1
    <2> QED
      BY <1>8, <2>1, <2>2, <2>3
  <1>13. \A y \in Ids : Past(y) \/ y = x => Past(y)'
    <2> SUFFICES ASSUME NEW y \in Ids, Past(y) \/ y = x PROVE Past(y)'
      OBVIOUS
    <2>1. y[1] \in Clients /\ y[2] \in Nat /\ y[3] \in Nat
      BY DEF Ids
    <2>2. r.run \in Nat /\ r.step \in Nat
      BY DEF ClientOK
    <2>3. CASE y = x
      BY <1>1, <1>2, <1>9, <2>2, <2>3 DEF Past, x
    <2>4. CASE Past(y) /\ y[1] = c
      BY <1>1, <1>9, <2>1, <2>2, <2>4 DEF Past
    <2>5. CASE Past(y) /\ y[1] # c
      BY <1>9, <2>1, <2>5 DEF Past
    <2> QED
      BY <2>3, <2>4, <2>5
  <1>14. Begun'
    <2>1. \A j \in Instances : \A t \in threads'[j] : Past(t.of)'
      <3> SUFFICES ASSUME NEW j \in Instances, NEW t \in threads'[j] PROVE Past(t.of)'
        OBVIOUS
      <3>1. t.of \in Ids
        BY <1>8 DEF Threads
      <3>2. t \in threads[j] \/ t.of = x
        BY <1>3, <1>8
      <3> QED
        BY <1>13, <3>1, <3>2 DEF ControlInv, Begun
    <2> QED
      BY <1>5, <1>13, <2>1 DEF ControlInv, Begun
  <1>15. Once'
    <2>1. ~Waits(x) /\ ~Performed(x)
      BY <1>2 DEF ControlInv, Begun
    <2>2. \A j \in Instances : \A t \in threads'[j] : t \in threads[j] \/ t.of = x
      BY <1>3, <1>8
    <2>3. \A j \in Instances : \A t \in threads'[j] :
            t.stage \in {"backlog", "asking"} => ~Waits(t.of)' /\ ~Performed(t.of)'
      BY <1>5, <2>1, <2>2 DEF ControlInv, Once
    <2> QED
      BY <1>4, <1>5, <2>3 DEF ControlInv, Once
  <1>16. Counted'
    <2> SUFFICES ASSUME NEW j \in Instances
                 PROVE  /\ IsFiniteSet(threads'[j])
                        /\ inUse'[j] = Cardinality(Served(j))' /\ inUse'[j] <= Slots
      BY DEF Counted
    <2>1. IsFiniteSet(threads'[j])
      BY SMTT(40), <1>8, FS_AddElement DEF ControlInv, Counted
    <2>2. Served(j)' = Served(j)
      BY <1>3, <1>8 DEF Served
    <2> QED
      BY <1>4, <2>1, <2>2 DEF ControlInv, Counted
  <1>17. Told'
    <2> SUFFICES ASSUME NEW d \in Clients,
        answer'[d] = "opened" PROVE Performed(Exchange(d)')
      BY <1>5 DEF Told
    <2>1. d # c
      BY <1>7 DEF ControlInv, Types
    <2>2. answer'[d] = answer[d] /\ Exchange(d)' = Exchange(d)
      BY <1>7, <1>9, <2>1 DEF ControlInv, Types, Exchange
    <2> QED
      BY <2>2 DEF ControlInv, Told
  <1> QED
    BY <1>10, <1>12, <1>14, <1>15, <1>16, <1>17 DEF ControlInv

LEMMA CommandKeeps ==
  ASSUME ControlInv, NEW c \in Clients,
         Attach(c) \/ Probe(c) \/ Probed(c) \/ Send(c) \/ Ends(c)
  PROVE  ControlInv'
  <1>1. /\ ClientOK(client[c]) /\ DOMAIN client[c] = DOMAIN Idle
        /\ client[c].run \in Nat /\ client[c].step \in Nat
        /\ DOMAIN Idle = {"stage", "run", "step", "at", "todo", "found", "chosen", "focus"}
    BY DEF ControlInv, Types, ClientOK, Idle
  <1>2. CASE Attach(c)
    <2>1. PICK f \in Focuses :
            client' = [client EXCEPT ![c] =
              [Idle EXCEPT !.stage = "probing", !.run = client[c].run + 1, !.focus = f,
                           !.todo = {i \in Instances : socket[i]}]]
      BY ZenonT(40), <1>2 DEF Attach
    <2> DEFINE r == [Idle EXCEPT !.stage = "probing", !.run = client[c].run + 1,
        !.focus = f,
                                 !.todo = {i \in Instances : socket[i]}]
    <2>2. ClientOK(r) /\ r.run = client[c].run + 1
      BY <1>1 DEF ClientOK, Idle
    <2>3. client' = [client EXCEPT ![c] = r]
      BY <2>1
    <2> HIDE DEF r
    <2>4. r.run > client[c].run
      BY SMTT(40), <1>1, <2>2
    <2>5. /\ UNCHANGED <<threads, inUse, inbox, batch, opened>>
          /\ \E a \in {"none", "closed"} : answer' = [answer EXCEPT ![c] = a]
      BY <1>2 DEF Attach, server, viewer
    <2> QED
      BY ZenonT(40), <2>2, <2>3, <2>4, <2>5, CommandGoesOn
  <1>3. CASE Probe(c)
    <2>1. PICK i \in client[c].todo :
            /\ Connects(c, i, "info")
            /\ client' = [client EXCEPT ![c].at = i, ![c].step = @ + 1, ![c].todo = @ \ {i}]
      BY <1>3 DEF Probe
    <2> DEFINE r == [client[c] EXCEPT !.at = i, !.step = client[c].step + 1,
                                      !.todo = client[c].todo \ {i}]
    <2>2. ClientOK(r) /\ r.run = client[c].run /\ r.step = client[c].step + 1
      BY <1>1 DEF ClientOK
    <2>3. client' = [client EXCEPT ![c] = r]
      BY <1>1, <2>1 DEF ControlInv, Types
    <2> HIDE DEF r
    <2> QED
      BY <2>1, <2>2, <2>3, CommandConnects
  <1>4. CASE Probed(c)
    <2> DEFINE r == [client[c] EXCEPT !.at = 0,
                       !.found = IF answer[c] = "info" THEN client[c].found \cup {client[c].at}
                                 ELSE client[c].found]
    <2>1. ClientOK(r) /\ r.run = client[c].run /\ r.step = client[c].step
      BY <1>1 DEF ClientOK
    <2>2. client' = [client EXCEPT ![c] = r]
      BY <1>1, <1>4 DEF ControlInv, Types, Probed
    <2> HIDE DEF r
    <2>3. r.step >= client[c].step
      BY <1>1, <2>1
    <2>4. UNCHANGED <<threads, inUse, inbox, batch, opened>>
          /\ \E a \in {"none", "closed"} : answer' = [answer EXCEPT ![c] = a]
      BY <1>4 DEF Probed, server, viewer
    <2> QED
      BY <2>1, <2>2, <2>3, <2>4, CommandGoesOn
  <1>5. CASE Send(c)
    <2> DEFINE i == SelectInstance(client[c].found)
    <2>1. CASE i = None
      <3> DEFINE r == [client[c] EXCEPT !.stage = "idle"]
      <3>1. ClientOK(r) /\ r.run = client[c].run /\ r.step = client[c].step
        BY <1>1 DEF ClientOK
      <3>2. client' = [client EXCEPT ![c] = r] /\ UNCHANGED <<server, answer, viewer>>
        BY <1>1, <1>5, <2>1 DEF ControlInv, Types, Send
      <3> HIDE DEF r
      <3>3. r.step >= client[c].step
        BY <1>1, <3>1
      <3>4. UNCHANGED <<threads, inUse, inbox, batch, opened, answer>>
        BY <3>2 DEF server, viewer
      <3> QED
        BY <3>1, <3>2, <3>3, <3>4, CommandGoesOn
    <2>2. CASE i # None
      <3> DEFINE r == [client[c] EXCEPT !.stage = "sent", !.at = i, !.chosen = i,
                                        !.step = client[c].step + 1]
      <3>1. ClientOK(r) /\ r.run = client[c].run /\ r.step = client[c].step + 1
        BY <1>1 DEF ClientOK
      <3>2. client' = [client EXCEPT ![c] = r] /\ Connects(c, i, "open")
        BY <1>1, <1>5, <2>2 DEF ControlInv, Types, Send
      <3> HIDE DEF r, i
      <3> QED
        BY <3>1, <3>2, CommandConnects
    <2> QED
      BY <2>1, <2>2
  <1>6. CASE Ends(c)
    <2> DEFINE r == [client[c] EXCEPT !.stage = "idle"]
    <2>1. ClientOK(r) /\ r.run = client[c].run /\ r.step = client[c].step
      BY <1>1 DEF ClientOK
    <2>2. client' = [client EXCEPT ![c] = r]
      BY <1>1, <1>6 DEF ControlInv, Types, Ends
    <2> HIDE DEF r
    <2>3. r.step >= client[c].step
      BY <1>1, <2>1
    <2>4. UNCHANGED <<threads, inUse, inbox, batch, opened>>
          /\ answer' = answer
      BY <1>6 DEF Ends, server, viewer
    <2> QED
      BY <2>1, <2>2, <2>3, <2>4, CommandGoesOn
  <1> QED
    BY <1>2, <1>3, <1>4, <1>5, <1>6

--------------------------------------------------------------------------------
(* The threads *)

\* What is left when the queues are as they were and a thread has gone on.
LEMMA GoingOnKeeps ==
  ASSUME ControlInv, UNCHANGED <<client, inbox, batch, opened>>,
         NEW i \in Instances, NEW t \in threads[i], NEW s \in Stages, Become(i, t, s),
         s \in {"backlog", "asking"} => t.stage \in {"backlog", "asking"}
  PROVE  Begun' /\ Once'
  <1>1. /\ \A j \in Instances : Queued(j)' = Queued(j)
        /\ \A x : (Waits(x)' <=> Waits(x)) /\ (Performed(x)' <=> Performed(x))
    BY QueueStays
  <1>2. /\ \A j \in Instances : j # i => threads'[j] = threads[j]
        /\ \A u \in threads'[i] : (u \in threads[i] /\ u # t) \/ (u.of = t.of /\ u.stage = s)
    BY OneThread
  <1>3. \A x : Past(x)' <=> Past(x)
    BY DEF Past
  <1>4. \A j \in Instances : \A u \in threads'[j] :
          \E v \in threads[j] :
             v.of = u.of /\ (u.stage \in {"backlog", "asking"} => v.stage \in {"backlog",
                 "asking"})
    BY <1>2
  <1>5. Begun'
    BY <1>1, <1>3, <1>4 DEF ControlInv, Begun
  <1>6. \A j \in Instances : \A u \in threads'[j] :
          u.stage \in {"backlog", "asking"} => ~Waits(u.of)' /\ ~Performed(u.of)'
    BY <1>1, <1>4 DEF ControlInv, Once
  <1> QED
    BY <1>1, <1>5, <1>6 DEF ControlInv, Once

LEMMA AcceptKeeps ==
  ASSUME ControlInv, Slots \in Nat, NEW i \in Instances, Accept(i) PROVE ControlInv'
  <1>1. PICK t \in threads[i] :
          t.stage = "backlog" /\ IF inUse[i] >= Slots THEN Shed(i, t) ELSE Takes(i, t)
    BY DEF Accept
  <1>2. UNCHANGED <<phase, socket, viewer, client>>
    BY DEF Accept
  <1>3. threads \in [Instances -> SUBSET Threads] /\ inUse \in [Instances -> Nat]
        /\ IsFiniteSet(threads[i]) /\ inUse[i] = Cardinality(Served(i)) /\ inUse[i] <= Slots
    BY DEF ControlInv, Types, Counted
  <1>4. CASE Shed(i, t)
    <2>1. threads' = [threads EXCEPT ![i] = threads[i] \ {t}] /\ Replies(t.of, "closed")
          /\ inUse' = inUse
      BY <1>4 DEF Shed
    <2>2. threads' \in [Instances -> SUBSET Threads] /\ threads'[i] = threads[i] \ {t}
          /\ \A j \in Instances : j # i => threads'[j] = threads[j]
      BY <1>3, <2>1
    <2>3. Told' /\ DOMAIN answer' = Clients
      BY <1>2, <2>1, AnswersStayTold DEF viewer
    <2>4. Types'
      BY <1>2, <2>1, <2>2, <2>3 DEF ControlInv, Types, viewer
    <2>5. \A j \in Instances : Queued(j)' = Queued(j) /\ threads'[j] \subseteq threads[j]
      BY <1>2, <2>2 DEF Queued, viewer
    <2>6. Owned' /\ Begun' /\ Once'
      BY <1>2, <2>2, <2>5, FewerThreads DEF viewer
    <2>7. Served(i)' = Served(i)
      BY <1>1, <2>2 DEF Served
    <2>8. IsFiniteSet(threads'[i])
      BY <1>3, <2>2, FS_RemoveElement
    <2>9. Counted'
      BY <1>3, <2>1, <2>2, <2>7, <2>8, OthersStayCounted
    <2> QED
      BY <2>3, <2>4, <2>6, <2>9 DEF ControlInv
  <1>5. CASE ~(inUse[i] >= Slots) /\ Takes(i, t)
    <2>1. inUse' = [inUse EXCEPT ![i] = inUse[i] + 1] /\ Become(i, t,
        "asking") /\ answer' = answer
      BY <1>5 DEF Takes
    <2>2. "asking" \in Stages
      BY DEF Stages
    <2>3. /\ threads' \in [Instances -> SUBSET Threads]
          /\ \A j \in Instances : j # i => threads'[j] = threads[j]
          /\ Owned' /\ IsFiniteSet(threads'[i])
          /\ Cardinality(Served(i))' = Cardinality(Served(i)) + 1
      BY <1>1, <2>1, <2>2, OneThread
    <2>4. Begun' /\ Once'
      BY <1>1, <1>2, <2>1, <2>2, GoingOnKeeps DEF viewer
    <2>5. Counted'
      <3>1. inUse'[i] = inUse[i] + 1 /\ \A j \in Instances : j # i => inUse'[j] = inUse[j]
        BY <1>3, <2>1
      <3>2. inUse'[i] <= Slots
        BY <1>3, <1>5, <3>1
      <3> QED
        BY <1>3, <2>3, <3>1, <3>2, OthersStayCounted
    <2>6. Types'
      <3>1. inUse' \in [Instances -> Nat]
        BY <1>3, <2>1
      <3> QED
        BY <1>2, <2>1, <2>3, <3>1 DEF ControlInv, Types, viewer
    <2>7. Told'
      BY <1>2, <2>1 DEF ControlInv, Told, Performed, Exchange, viewer
    <2> QED
      BY <2>3, <2>4, <2>5, <2>6, <2>7 DEF ControlInv
  <1> QED
    BY <1>1, <1>4, <1>5

\* A thread that serves a connection is answered, or gives up.
LEMMA AnsweringKeeps ==
  ASSUME ControlInv, NEW i \in Instances, NEW t \in threads[i], t.stage # "backlog",
         Become(i, t, "answered"), NEW r, r # "opened", Replies(t.of, r),
         UNCHANGED <<inUse, inbox, batch, opened, client>>
  PROVE  ControlInv'
  <1>1. "answered" \in Stages
    BY DEF Stages
  <1>2. /\ threads' \in [Instances -> SUBSET Threads]
        /\ \A j \in Instances : j # i => threads'[j] = threads[j]
        /\ Owned' /\ IsFiniteSet(threads'[i])
        /\ Cardinality(Served(i))' = Cardinality(Served(i))
    BY <1>1, OneThread
  <1>3. Begun' /\ Once'
    BY <1>1, GoingOnKeeps
  <1>4. Counted'
    <2>1. inUse'[i] = Cardinality(Served(i))' /\ inUse'[i] <= Slots
      BY <1>2 DEF ControlInv, Counted
    <2> QED
      BY <1>2, <2>1, OthersStayCounted
  <1>5. Told' /\ DOMAIN answer' = Clients
    BY AnswersStayTold
  <1>6. Types'
    BY <1>2, <1>5 DEF ControlInv, Types
  <1> QED
    BY <1>2, <1>3, <1>4, <1>5, <1>6 DEF ControlInv

\* A request that is queued was not made before.
LEMMA QueueingKeeps ==
  ASSUME ControlInv, NEW i \in Instances, NEW t \in threads[i], t.stage = "asking",
         Become(i, t, "waiting"),
         inbox' = [inbox EXCEPT ![i] = Append(@, [of |-> t.of, focus |-> t.focus])],
         UNCHANGED <<inUse, batch, opened, client, answer>>
  PROVE  ControlInv'
  <1> DEFINE r == [of |-> t.of, focus |-> t.focus]
  <1>1. t \in Threads /\ r \in Asked /\ r.of = t.of /\ t.of \in Ids
    BY DEF ControlInv, Types, Threads, Asked
  <1>2. inbox' = [inbox EXCEPT ![i] = Append(inbox[i], r)]
    OBVIOUS
  <1> HIDE DEF r
  <1>3. "waiting" \in Stages
    BY DEF Stages
  <1>4. /\ threads' \in [Instances -> SUBSET Threads]
        /\ \A j \in Instances : j # i => threads'[j] = threads[j]
        /\ \A u \in threads'[i] : (u \in threads[i] /\ u # t) \/ (u.of = t.of /\ u.stage = "waiting")
        /\ Owned' /\ IsFiniteSet(threads'[i])
        /\ Cardinality(Served(i))' = Cardinality(Served(i))
    BY <1>3, OneThread
  <1>5. ~Waits(t.of) /\ ~Performed(t.of)
    BY DEF ControlInv, Once
  <1>6. /\ Queued(i)' = Append(Queued(i), r) /\ Queued(i) \in Seq(Asked)
        /\ \A j \in Instances : j # i => Queued(j)' = Queued(j)
    <2>1. inbox[i] \in Seq(Asked) /\ batch[i] \in Seq(Asked) /\ inbox'[i] = Append(inbox[i], r)
          /\ \A j \in Instances : j # i => inbox'[j] = inbox[j]
      BY <1>2 DEF ControlInv, Types
    <2>2. batch[i] \o Append(inbox[i], r) = Append(batch[i] \o inbox[i], r)
          /\ batch[i] \o inbox[i] \in Seq(Asked)
      BY <1>1, <2>1, QueueGrows
    <2> QED
      BY <2>1, <2>2 DEF Queued
  <1>7. /\ Len(Queued(i)) \in Nat
        /\ DOMAIN Queued(i) = 1..Len(Queued(i)) /\ DOMAIN Queued(i)' = 1..(Len(Queued(i)) + 1)
        /\ \A n \in DOMAIN Queued(i) : Queued(i)'[n] = Queued(i)[n]
        /\ Queued(i)'[Len(Queued(i)) + 1] = r
    BY <1>1, <1>6
  <1>8. \A x : Performed(x)' <=> Performed(x)
    BY DEF Performed
  <1>9. \A j \in Instances : \A n \in DOMAIN Queued(j)' :
          \/ n \in DOMAIN Queued(j) /\ Queued(j)'[n] = Queued(j)[n]
          \/ j = i /\ n = Len(Queued(i)) + 1 /\ Queued(j)'[n].of = t.of
    BY <1>1, <1>6, <1>7
  <1>10. \A x : Waits(x)' => Waits(x) \/ x = t.of
    BY <1>9 DEF Waits
  <1>11. Begun'
    <2>1. \A x : Past(x)' <=> Past(x)
      BY DEF Past
    <2>2. \A j \in Instances : \A u \in threads'[j] : \E v \in threads[j] : v.of = u.of
      BY <1>4
    <2> QED
      BY <1>8, <1>10, <2>1, <2>2 DEF ControlInv, Begun
  <1>12. \A j, k \in Instances : \A m \in DOMAIN Queued(j)', n \in DOMAIN Queued(k)' :
           (Queued(j)[m].of = Queued(k)[n].of => j = k /\ m = n)'
    <2> SUFFICES ASSUME NEW j \in Instances, NEW k \in Instances,
                        NEW m \in DOMAIN Queued(j)', NEW n \in DOMAIN Queued(k)',
                        Queued(j)'[m].of = Queued(k)'[n].of
                 PROVE  j = k /\ m = n
      OBVIOUS
    <2>1. \A l \in Instances : \A h \in DOMAIN Queued(l) : Queued(l)[h].of # t.of
      BY <1>5 DEF Waits
    <2>2. \/ m \in DOMAIN Queued(j) /\ Queued(j)'[m] = Queued(j)[m]
          \/ j = i /\ m = Len(Queued(i)) + 1 /\ Queued(j)'[m].of = t.of
      BY <1>9
    <2>3. \/ n \in DOMAIN Queued(k) /\ Queued(k)'[n] = Queued(k)[n]
          \/ k = i /\ n = Len(Queued(i)) + 1 /\ Queued(k)'[n].of = t.of
      BY <1>9
    <2> QED
      BY <2>1, <2>2, <2>3 DEF ControlInv, Once
  <1>13. Once'
    <2>1. \A x \in Ids : ~(Waits(x)' /\ Performed(x)')
      BY <1>5, <1>8, <1>10 DEF ControlInv, Once
    <2>2. \A j \in Instances : \A u \in threads'[j] :
            u.stage \in {"backlog", "asking"} => ~Waits(u.of)' /\ ~Performed(u.of)'
      <3> SUFFICES ASSUME NEW j \in Instances, NEW u \in threads'[j],
                          u.stage \in {"backlog", "asking"}
                   PROVE  ~Waits(u.of)' /\ ~Performed(u.of)'
        OBVIOUS
      <3>1. u \in threads[j] /\ ~(j = i /\ u = t)
        BY <1>4
      <3>2. u.of # t.of
        BY <3>1 DEF ControlInv, Owned
      <3> QED
        BY <1>8, <1>10, <3>1, <3>2 DEF ControlInv, Once
    <2> QED
      BY <1>12, <2>1, <2>2 DEF ControlInv, Once
  <1>14. Counted'
    <2>1. inUse'[i] = Cardinality(Served(i))' /\ inUse'[i] <= Slots
      BY <1>4 DEF ControlInv, Counted
    <2> QED
      BY <1>4, <2>1, OthersStayCounted
  <1>15. Types'
    <2>1. inbox' \in [Instances -> Seq(Asked)]
      BY <1>1, <1>2 DEF ControlInv, Types
    <2> QED
      BY <1>4, <2>1 DEF ControlInv, Types
  <1>16. Told'
    BY DEF ControlInv, Told, Performed, Exchange
  <1> QED
    BY <1>4, <1>11, <1>13, <1>14, <1>15, <1>16 DEF ControlInv

LEMMA ThreadKeeps ==
  ASSUME ControlInv, Slots \in Nat, NEW i \in Instances,
         Accept(i) \/ Respond(i) \/ GiveUp(i) \/ Release(i)
  PROVE  ControlInv'
  <1>1. CASE Accept(i)
    BY <1>1, AcceptKeeps
  <1>2. CASE Respond(i)
    <2>1. PICK t \in threads[i] :
            /\ t.stage = "asking"
            /\ IF t.asks = "info"
               THEN Become(i, t, "answered") /\ Replies(t.of, "info") /\ inbox' = inbox
               ELSE /\ Become(i, t, "waiting") /\ answer' = answer
                    /\ inbox' = [inbox EXCEPT ![i] = Append(@, [of |-> t.of,
                        focus |-> t.focus])]
            /\ UNCHANGED <<inUse, batch, opened, client>>
      BY <1>2 DEF Respond
    <2>2. CASE t.asks = "info"
      BY <2>1, <2>2, AnsweringKeeps
    <2>3. CASE t.asks # "info"
      BY <2>1, <2>3, QueueingKeeps
    <2> QED
      BY <2>2, <2>3
  <1>3. CASE GiveUp(i)
    <2>1. PICK t \in threads[i] :
            /\ t.stage = "waiting" /\ Become(i, t, "answered") /\ Replies(t.of, "late")
            /\ UNCHANGED <<inUse, viewer, client>>
      BY <1>3 DEF GiveUp
    <2> QED
      BY <2>1, AnsweringKeeps DEF viewer
  <1>4. CASE Release(i)
    <2>1. PICK t \in threads[i] :
            /\ t.stage = "answered" /\ threads' = [threads EXCEPT ![i] = threads[i] \ {t}]
            /\ inUse' = [inUse EXCEPT ![i] = inUse[i] - 1]
            /\ UNCHANGED <<viewer, client, answer>>
      BY <1>4 DEF Release
    <2>2. threads \in [Instances -> SUBSET Threads] /\ inUse \in [Instances -> Nat]
          /\ IsFiniteSet(threads[i]) /\ inUse[i] = Cardinality(Served(i)) /\ inUse[i] <= Slots
      BY DEF ControlInv, Types, Counted
    <2>3. threads' \in [Instances -> SUBSET Threads] /\ threads'[i] = threads[i] \ {t}
          /\ \A j \in Instances : j # i => threads'[j] = threads[j]
      BY <2>1, <2>2
    <2>4. \A j \in Instances : Queued(j)' = Queued(j) /\ threads'[j] \subseteq threads[j]
      BY <2>1, <2>3 DEF Queued, viewer
    <2>5. Owned' /\ Begun' /\ Once'
      BY <2>1, <2>3, <2>4, FewerThreads DEF viewer
    <2>6. t \in Served(i) /\ IsFiniteSet(Served(i)) /\ Served(i)' = Served(i) \ {t}
      BY <2>1, <2>2, <2>3, FS_Subset DEF Served
    <2>7. Cardinality(Served(i))' = inUse[i] - 1 /\ Cardinality(Served(i)) \in Nat
          /\ Cardinality(Served(i)') \in Nat
      <3>1. IsFiniteSet(Served(i)')
        BY <2>6, FS_RemoveElement
      <3> QED
        BY <2>2, <2>6, <3>1, FS_RemoveElement, FS_CardinalityType
    <2>8. inUse'[i] = inUse[i] - 1 /\ (\A j \in Instances : j # i => inUse'[j] = inUse[j])
          /\ inUse'[i] \in Nat /\ inUse' \in [Instances -> Nat]
      <3>1. inUse'[i] = inUse[i] - 1 /\ \A j \in Instances : j # i => inUse'[j] = inUse[j]
        BY <2>1, <2>2
      <3>2. inUse[i] - 1 \in Nat
        BY <2>7
      <3> QED
        BY <2>1, <2>2, <3>1, <3>2
    <2>9. Counted'
      <3>1. IsFiniteSet(threads'[i])
        BY <2>2, <2>3, FS_RemoveElement
      <3>2. inUse'[i] <= Slots
        BY <2>2, <2>8
      <3> QED
        BY <2>3, <2>7, <2>8, <3>1, <3>2, OthersStayCounted
    <2>10. Types'
      BY <2>1, <2>3, <2>8 DEF ControlInv, Types, viewer
    <2>11. Told'
      BY <2>1 DEF ControlInv, Told, Performed, Exchange, viewer
    <2> QED
      BY <2>5, <2>9, <2>10, <2>11 DEF ControlInv
  <1> QED
    BY <1>1, <1>2, <1>3, <1>4

--------------------------------------------------------------------------------
(* The main loop *)

LEMMA DrainKeeps == ASSUME ControlInv, NEW i \in Instances, Drain(i) PROVE ControlInv'
  <1>1. /\ batch[i] = <<>> /\ batch' = [batch EXCEPT ![i] = inbox[i]]
        /\ inbox' = [inbox EXCEPT ![i] = <<>>]
        /\ UNCHANGED <<threads, inUse, opened, client, answer>>
    BY DEF Drain, server
  <1>2. inbox \in [Instances -> Seq(Asked)] /\ batch \in [Instances -> Seq(Asked)]
    BY DEF ControlInv, Types
  <1>3. batch'[i] = inbox[i] /\ inbox'[i] = <<>> /\ inbox[i] \in Seq(Asked)
        /\ \A j \in Instances : j # i => inbox'[j] = inbox[j] /\ batch'[j] = batch[j]
    BY <1>1, <1>2
  <1>4. \A j \in Instances : Queued(j)' = Queued(j)
    <2>1. Queued(i)' = Queued(i)
      BY <1>1, <1>3, DrainKeepsOrder DEF Queued
    <2> QED
      BY <1>3, <2>1 DEF Queued
  <1>5. Types'
    <2>1. <<>> \in Seq(Asked)
      OBVIOUS
    <2> QED
      BY <1>1, <1>2, <1>3, <2>1 DEF ControlInv, Types
  <1>6. \A x : (Waits(x)' <=> Waits(x)) /\ (Performed(x)' <=> Performed(x)) /\ (Past(x)' <=> Past(x))
    BY <1>1, <1>4 DEF Waits, Performed, Past
  <1>7. Owned' /\ Begun'
    BY <1>1, <1>6 DEF ControlInv, Owned, Begun
  <1>8. Once'
    BY <1>1, <1>4, <1>6 DEF ControlInv, Once
  <1>9. Counted' /\ Told'
    BY <1>1, <1>6 DEF ControlInv, Counted, Served, Told, Exchange
  <1> QED
    BY <1>5, <1>7, <1>8, <1>9 DEF ControlInv

\* What is left of a queue whose head was taken is what was not at its head.
LEMMA TakingKeeps ==
  ASSUME ControlInv, NEW i \in Instances, batch[i] # <<>>,
         batch' = [batch EXCEPT ![i] = Tail(@)], UNCHANGED inbox
  PROVE  /\ batch' \in [Instances -> Seq(Asked)]
         /\ Head(batch[i]).of \in Ids /\ Waits(Head(batch[i]).of)
         /\ \A x : Waits(x)' => Waits(x) /\ x # Head(batch[i]).of
         /\ \A j, k \in Instances : \A m \in DOMAIN Queued(j)', n \in DOMAIN Queued(k)' :
               (Queued(j)[m].of = Queued(k)[n].of => j = k /\ m = n)'
  <1> DEFINE h == Head(batch[i])
             Rest(j, n) == IF j = i THEN n + 1 ELSE n
  <1>1. inbox \in [Instances -> Seq(Asked)] /\ batch \in [Instances -> Seq(Asked)]
        /\ batch[i] \in Seq(Asked) /\ inbox[i] \in Seq(Asked)
    BY DEF ControlInv, Types
  <1>2. Tail(batch[i]) \in Seq(Asked) /\ h \in Asked
    BY <1>1
  <1>3. batch' \in [Instances -> Seq(Asked)] /\ batch'[i] = Tail(batch[i])
        /\ \A j \in Instances : j # i => batch'[j] = batch[j]
    BY <1>1, <1>2
  <1>4. Queued(i)' = Tail(Queued(i)) /\ h = Queued(i)[1] /\ Queued(i) \in Seq(Asked)
        /\ Queued(i) # <<>> /\ \A j \in Instances : j # i => Queued(j)' = Queued(j)
    BY <1>1, <1>3, QueueShrinks DEF Queued
  <1>5. 1 \in DOMAIN Queued(i)
        /\ \A n \in DOMAIN Queued(i)' : n + 1 \in DOMAIN Queued(i) /\ n \in Nat \ {0}
                                        /\ Queued(i)'[n] = Queued(i)[n + 1]
    BY <1>4
  <1>6. \A j \in Instances : \A n \in DOMAIN Queued(j)' :
          Rest(j, n) \in DOMAIN Queued(j) /\ Queued(j)'[n] = Queued(j)[Rest(j, n)]
          /\ ~(j = i /\ Rest(j, n) = 1)
    BY <1>4, <1>5
  <1>7. h.of \in Ids
    BY <1>2 DEF Asked
  <1>8. Waits(h.of)
    BY <1>4, <1>5 DEF Waits
  <1>9. \A x : Waits(x)' => Waits(x) /\ x # h.of
    <2> SUFFICES ASSUME NEW j \in Instances, NEW n \in DOMAIN Queued(j)'
                 PROVE  Waits(Queued(j)'[n].of) /\ Queued(j)'[n].of # h.of
      BY DEF Waits
    <2>1. Waits(Queued(j)'[n].of)
      BY <1>6 DEF Waits
    <2>2. Queued(j)[Rest(j, n)].of # Queued(i)[1].of
      BY <1>5, <1>6 DEF ControlInv, Once
    <2> QED
      BY <1>4, <1>6, <2>1, <2>2
  <1>10. ASSUME NEW j \in Instances, NEW k \in Instances,
                NEW m \in DOMAIN Queued(j)', NEW n \in DOMAIN Queued(k)',
                Queued(j)'[m].of = Queued(k)'[n].of
         PROVE  j = k /\ m = n
    <2>1. j = k /\ Rest(j, m) = Rest(k, n)
      <3>1. Queued(j)[Rest(j, m)].of = Queued(k)[Rest(k, n)].of
        BY <1>6, <1>10
      <3> QED
        BY <1>6, <3>1 DEF ControlInv, Once
    <2>2. CASE j = i
      BY <1>5, <2>1, <2>2
    <2>3. CASE j # i
      BY <2>1, <2>3
    <2> QED
      BY <2>1, <2>2, <2>3
  <1> QED
    BY <1>3, <1>7, <1>8, <1>9, <1>10

\* A request that is performed is told to its thread, if that still waits.
LEMMA PerformKeeps == ASSUME ControlInv, NEW i \in Instances, Perform(i) PROVE ControlInv'
  <1> DEFINE h == Head(batch[i])
  <1>1. PICK result \in {"opened", "rejected"} :
          Performs(i, h, result) /\ Tells(i, h.of, result)
    BY DEF Perform, Results
  <1>2. /\ batch[i] # <<>> /\ batch' = [batch EXCEPT ![i] = Tail(@)]
        /\ UNCHANGED <<inUse, inbox, client>>
    BY DEF Perform
  <1>3. /\ batch' \in [Instances -> Seq(Asked)]
        /\ h.of \in Ids /\ Waits(h.of)
        /\ \A x : Waits(x)' => Waits(x) /\ x # h.of
        /\ \A j, k \in Instances : \A m \in DOMAIN Queued(j)', n \in DOMAIN Queued(k)' :
              (Queued(j)[m].of = Queued(k)[n].of => j = k /\ m = n)'
    BY <1>2, TakingKeeps
  <1> HIDE DEF h
  <1>4. \/ result = "rejected" /\ opened' = opened
        \/ result = "opened" /\ opened' = Append(opened, h.of)
    BY <1>1 DEF Performs
  <1>5. ~Performed(h.of) /\ opened \in Seq(Ids) /\ IsInjective(opened)
    BY <1>3 DEF ControlInv, Types, Once
  <1>6. /\ opened' \in Seq(Ids)
        /\ \A x : Performed(x) => Performed(x)'
        /\ \A x : Performed(x)' => Performed(x) \/ x = h.of
        /\ result = "opened" => \E n \in DOMAIN opened' : opened'[n] = h.of
        /\ IsInjective(opened)'
    <2>1. CASE opened' = opened
      BY <1>4, <1>5, <2>1 DEF Performed, IsInjective
    <2>2. CASE opened' = Append(opened, h.of)
      <3>1. /\ opened' \in Seq(Ids) /\ DOMAIN opened = 1..Len(opened) /\ Len(opened) \in Nat
            /\ DOMAIN opened' = 1..(Len(opened) + 1)
            /\ \A n \in DOMAIN opened : opened'[n] = opened[n]
            /\ opened'[Len(opened) + 1] = h.of
        BY <1>3, <1>5, <2>2
      <3>2. \A n \in DOMAIN opened : n \in DOMAIN opened' /\ n # Len(opened) + 1
        BY <3>1
      <3>3. \A n \in DOMAIN opened' : n \in DOMAIN opened \/ n = Len(opened) + 1
        BY <3>1
      <3>4. Len(opened) + 1 \in DOMAIN opened'
        BY <3>1
      <3>5. \A x : (Performed(x) => Performed(x)') /\ (Performed(x)' => Performed(x) \/ x = h.of)
        <4> TAKE x
        <4>1. Performed(x) => Performed(x)'
          BY <3>1, <3>2 DEF Performed
        <4>2. Performed(x)' => Performed(x) \/ x = h.of
          <5> SUFFICES ASSUME NEW n \in DOMAIN opened', opened'[n] = x, x # h.of
                       PROVE  \E m \in DOMAIN opened : opened[m] = x
            BY DEF Performed
          <5>1. n \in DOMAIN opened
            BY <3>1, <3>3
          <5> QED
            BY <3>1, <5>1
        <4> QED
          BY <4>1, <4>2
      <3>6. \E n \in DOMAIN opened' : opened'[n] = h.of
        BY <3>1, <3>4
      <3>7. \A n \in DOMAIN opened : opened[n] # h.of
        BY <1>5 DEF Performed
      <3>8. IsInjective(opened)'
        <4> SUFFICES ASSUME NEW m \in DOMAIN opened', NEW n \in DOMAIN opened',
                            opened'[m] = opened'[n]
                     PROVE  m = n
          BY DEF IsInjective
        <4>1. CASE m \in DOMAIN opened /\ n \in DOMAIN opened
          BY <1>5, <3>1, <4>1 DEF IsInjective
        <4>2. CASE m = Len(opened) + 1 \/ n = Len(opened) + 1
          BY <3>1, <3>3, <3>7, <4>2
        <4> QED
          BY <3>3, <4>1, <4>2
      <3> QED
        BY <3>1, <3>5, <3>6, <3>8
    <2> QED
      BY <1>4, <2>1, <2>2
  <1>7. /\ threads' \in [Instances -> SUBSET Threads] /\ Owned' /\ Counted'
        /\ \A j \in Instances : \A u \in threads'[j] : \E v \in threads[j] :
              v.of = u.of /\ (u.stage \in {"backlog", "asking"} => v.stage \in {"backlog",
                  "asking"})
        /\ DOMAIN answer' = Clients
        /\ \A c \in Clients : answer'[c] = "opened" =>
              answer[c] = "opened" \/ (result = "opened" /\ Exchange(c) = h.of)
    <2>1. CASE UNCHANGED <<threads, answer>>
      <3>1. Owned'
        BY <2>1 DEF ControlInv, Owned
      <3>2. \A j \in Instances : Served(j)' = Served(j)
        BY <2>1 DEF Served
      <3>3. Counted'
        BY <1>2, <2>1, <3>2 DEF ControlInv, Counted
      <3> QED
        BY <2>1, <3>1, <3>3 DEF ControlInv, Types
    <2>2. ASSUME NEW t \in threads[i], t.of = h.of, t.stage = "waiting",
                 Become(i, t, "answered"), Replies(h.of, result)
          PROVE  <1>7
      <3>1. "answered" \in Stages
        BY DEF Stages
      <3>2. /\ threads' \in [Instances -> SUBSET Threads] /\ Owned'
            /\ \A j \in Instances : j # i => threads'[j] = threads[j]
            /\ \A u \in threads'[i] : (u \in threads[i] /\ u # t) \/ (u.of = t.of /\ u.stage = "answered")
            /\ IsFiniteSet(threads'[i])
            /\ Cardinality(Served(i))' = Cardinality(Served(i))
        BY <2>2, <3>1, OneThread
      <3>3. Counted'
        <4>1. inUse'[i] = Cardinality(Served(i))' /\ inUse'[i] <= Slots
          BY <1>2, <3>2 DEF ControlInv, Counted
        <4> QED
          BY <1>2, <3>2, <4>1, OthersStayCounted
      <3>4. \A j \in Instances : \A u \in threads'[j] : \E v \in threads[j] :
              v.of = u.of /\ (u.stage \in {"backlog", "asking"} => v.stage \in {"backlog",
                  "asking"})
        BY <3>2
      <3>5. /\ DOMAIN answer' = Clients
            /\ \A c \in Clients : answer'[c] = "opened" =>
                  answer[c] = "opened" \/ (result = "opened" /\ Exchange(c) = h.of)
        <4>1. DOMAIN answer = Clients
          BY DEF ControlInv, Types
        <4> QED
          BY <2>2, <4>1 DEF Replies
      <3> QED
        BY <3>2, <3>3, <3>4, <3>5
    <2>3. CASE \E t \in threads[i] : t.of = h.of /\ t.stage = "waiting"
      <3>1. PICK u \in threads[i] : u.of = h.of /\ u.stage = "waiting"
        BY <2>3
      <3>2. \A t \in threads[i] : t.of = h.of => t = u
        BY <3>1 DEF ControlInv, Owned
      <3>3. (CHOOSE t \in threads[i] : t.of = h.of) = u
        BY <3>1, <3>2
      <3>4. Become(i, u, "answered") /\ Replies(h.of, result)
        BY <1>1, <2>3, <3>3 DEF Tells
      <3> QED
        BY <2>2, <3>1, <3>4
    <2> QED
      BY <1>1, <2>1, <2>3 DEF Tells
  <1>8. Types'
    BY <1>2, <1>3, <1>6, <1>7 DEF ControlInv, Types
  <1>9. Begun'
    <2>1. \A x : Past(x)' <=> Past(x)
      BY <1>2 DEF Past
    <2> QED
      BY <1>3, <1>6, <1>7, <2>1 DEF ControlInv, Begun
  <1>10. Once'
    <2>1. \A x \in Ids : ~(Waits(x)' /\ Performed(x)')
      BY <1>3, <1>6 DEF ControlInv, Once
    <2>2. \A j \in Instances : \A u \in threads'[j] :
            u.stage \in {"backlog", "asking"} => ~Waits(u.of)' /\ ~Performed(u.of)'
      <3> SUFFICES ASSUME NEW j \in Instances, NEW u \in threads'[j],
                          u.stage \in {"backlog", "asking"}
                   PROVE  ~Waits(u.of)' /\ ~Performed(u.of)'
        OBVIOUS
      <3>1. ~Waits(u.of) /\ ~Performed(u.of)
        BY <1>7 DEF ControlInv, Once
      <3> QED
        BY <1>3, <1>6, <3>1
    <2> QED
      BY <1>3, <1>6, <2>1, <2>2 DEF Once
  <1>11. Told'
    <2>1. \A c \in Clients : Exchange(c)' = Exchange(c)
      BY <1>2 DEF Exchange
    <2> SUFFICES ASSUME NEW c \in Clients, answer'[c] = "opened"
                 PROVE  \E n \in DOMAIN opened' : opened'[n] = Exchange(c)
      BY <2>1 DEF Told, Performed
    <2>2. CASE answer[c] = "opened"
      BY <1>6, <2>2 DEF ControlInv, Told, Performed
    <2>3. CASE result = "opened" /\ Exchange(c) = h.of
      BY <1>6, <2>3 DEF Performed
    <2> QED
      BY <1>7, <2>2, <2>3
  <1> QED
    BY <1>7, <1>8, <1>9, <1>10, <1>11 DEF ControlInv

--------------------------------------------------------------------------------
(* The end of a viewer *)

\* Commands whose connection is reset are not told of success.
LEMMA ResetStaysTold ==
  ASSUME ControlInv, UNCHANGED <<client, opened>>, NEW i, NEW gone, Dropped(i, gone)
  PROVE  Told' /\ DOMAIN answer' = Clients
  <1>1. \A c \in Clients : answer'[c] = "opened" => answer[c] = "opened"
    BY DEF Dropped
  <1> QED
    BY <1>1 DEF ControlInv, Told, Performed, Exchange, Dropped

LEMMA QuitKeeps == ASSUME ControlInv, NEW i \in Instances, Quit(i) PROVE ControlInv'
  <1> DEFINE gone == {t \in threads[i] : t.stage = "backlog"}
  <1>1. /\ threads' = [threads EXCEPT ![i] = threads[i] \ gone] /\ Dropped(i, gone)
        /\ UNCHANGED <<inUse, inbox, batch, opened, client>>
    BY DEF Quit, viewer
  <1>2. threads \in [Instances -> SUBSET Threads] /\ IsFiniteSet(threads[i])
        /\ inUse[i] = Cardinality(Served(i)) /\ inUse[i] <= Slots
    BY DEF ControlInv, Types, Counted
  <1>3. threads' \in [Instances -> SUBSET Threads] /\ threads'[i] = threads[i] \ gone
        /\ \A j \in Instances : j # i => threads'[j] = threads[j]
    BY <1>1, <1>2
  <1>4. Served(i)' = Served(i)
    BY <1>3 DEF Served
  <1>5. IsFiniteSet(threads'[i])
    BY <1>2, <1>3, FS_Subset
  <1> HIDE DEF gone
  <1>6. Owned' /\ Begun' /\ Once'
    <2>1. \A j \in Instances : Queued(j)' = Queued(j) /\ threads'[j] \subseteq threads[j]
      BY <1>1, <1>3 DEF Queued
    <2> QED
      BY <1>1, <1>3, <2>1, FewerThreads
  <1>7. Counted'
    BY <1>1, <1>2, <1>3, <1>4, <1>5, OthersStayCounted
  <1>8. Told' /\ DOMAIN answer' = Clients
    BY <1>1, ResetStaysTold
  <1>9. Types'
    BY <1>1, <1>3, <1>8 DEF ControlInv, Types
  <1> QED
    BY <1>6, <1>7, <1>8, <1>9 DEF ControlInv

LEMMA ExitKeeps ==
  ASSUME ControlInv, Slots \in Nat, NEW i \in Instances, Exit(i) PROVE ControlInv'
  <1>1. /\ threads' = [threads EXCEPT ![i] = {}] /\ Dropped(i, threads[i])
        /\ inUse' = [inUse EXCEPT ![i] = 0]
        /\ inbox' = [inbox EXCEPT ![i] = <<>>] /\ batch' = [batch EXCEPT ![i] = <<>>]
        /\ UNCHANGED <<opened, client>>
    BY DEF Exit
  <1>2. /\ threads \in [Instances -> SUBSET Threads] /\ inUse \in [Instances -> Nat]
        /\ inbox \in [Instances -> Seq(Asked)] /\ batch \in [Instances -> Seq(Asked)]
    BY DEF ControlInv, Types
  <1>3. /\ threads' \in [Instances -> SUBSET Threads] /\ threads'[i] = {}
        /\ inUse' \in [Instances -> Nat] /\ inUse'[i] = 0
        /\ \A j \in Instances : j # i =>
              threads'[j] = threads[j] /\ inUse'[j] = inUse[j]
    BY <1>1, <1>2
  <1>4. /\ inbox' \in [Instances -> Seq(Asked)] /\ batch' \in [Instances -> Seq(Asked)]
        /\ inbox'[i] = <<>> /\ batch'[i] = <<>>
        /\ \A j \in Instances : j # i => inbox'[j] = inbox[j] /\ batch'[j] = batch[j]
    <2>1. <<>> \in Seq(Asked)
      OBVIOUS
    <2> QED
      BY <1>1, <1>2, <2>1
  <1>5. \A j \in Instances : Queued(j)' \in {Queued(j),
      <<>>} /\ threads'[j] \subseteq threads[j]
    BY <1>3, <1>4, QueueIsEmpty DEF Queued
  <1>6. Owned' /\ Begun' /\ Once'
    BY <1>1, <1>3, <1>5, FewerThreads
  <1>7. Counted'
    <2>1. Served(i)' = {}
      BY <1>3 DEF Served
    <2> QED
      BY <1>3, <2>1, FS_EmptySet, OthersStayCounted
  <1>8. Told' /\ DOMAIN answer' = Clients
    BY <1>1, ResetStaysTold
  <1>9. Types'
    BY <1>1, <1>3, <1>4, <1>8 DEF ControlInv, Types
  <1> QED
    BY <1>6, <1>7, <1>8, <1>9 DEF ControlInv

--------------------------------------------------------------------------------
\* No viewer has a connection yet.
LEMMA StartIsServed == Slots \in Nat /\ Init => ControlInv
  <1> SUFFICES ASSUME Slots \in Nat, Init PROVE ControlInv
    OBVIOUS
  <1>1. Types
    <2>1. ClientOK(Idle)
      BY DEF ClientOK, Idle, Focuses
    <2> QED
      BY <2>1 DEF Init, Types
  <1>2. \A i \in Instances : Queued(i) = <<>>
    BY QueueIsEmpty DEF Init, Queued
  <1>3. \A x : ~Waits(x) /\ ~Performed(x)
    BY <1>2 DEF Waits, Performed, Init
  <1>4. Owned /\ Begun /\ Told
    BY <1>3 DEF Init, Owned, Begun, Told
  <1>5. Once
    BY <1>2, <1>3 DEF Init, Once, IsInjective
  <1>6. Counted
    <2>1. \A i \in Instances : threads[i] = {} /\ Served(i) = {} /\ inUse[i] = 0
      BY DEF Init, Served
    <2> QED
      BY <2>1, FS_EmptySet DEF Counted
  <1> QED
    BY <1>1, <1>4, <1>5, <1>6 DEF ControlInv

\* Commands that are told of success had their request performed, requests are performed
\* once, and the slots are counted, for any number of viewers, commands and runs.
THEOREM CommandsAreTold == ASSUME Slots \in Nat PROVE Spec => []CommandsAreServed
  <1>1. Init => ControlInv
    BY StartIsServed
  <1>2. ControlInv /\ [Next]_vars => ControlInv'
    <2> SUFFICES ASSUME ControlInv, [Next]_vars PROVE ControlInv'
      OBVIOUS
    <2>1. ASSUME UNCHANGED <<threads, inUse, inbox, batch, client, answer, opened>>
          PROVE  ControlInv'
      <3>1. \A i \in Instances : Queued(i)' = Queued(i)
        BY <2>1 DEF Queued
      <3>2. \A x : (Waits(x)' <=> Waits(x)) /\ (Performed(x)' <=> Performed(x))
                   /\ (Past(x)' <=> Past(x))
        BY <2>1, <3>1 DEF Waits, Performed, Past
      <3>3. Types' /\ Owned'
        BY <2>1 DEF ControlInv, Types, Owned
      <3>6. \A i \in Instances : Served(i)' = Served(i)
        BY <2>1 DEF Served
      <3>7. Counted'
        BY <2>1, <3>6 DEF ControlInv, Counted
      <3>4. Begun' /\ Told'
        BY <2>1, <3>2 DEF ControlInv, Begun, Told, Exchange
      <3>5. Once'
        BY <2>1, <3>1, <3>2 DEF ControlInv, Once
      <3> QED
        BY <3>3, <3>4, <3>5, <3>7 DEF ControlInv
    <2>2. CASE UNCHANGED vars
      BY <2>1, <2>2 DEF vars
    <2>3. ASSUME NEW i \in Instances, CloseTab(i) PROVE ControlInv'
      BY <2>1, <2>3 DEF CloseTab, server
    <2> QED
      BY <2>2, <2>3, CommandKeeps, ThreadKeeps, DrainKeeps, PerformKeeps, QuitKeeps,
          ExitKeeps
      DEF Next
  <1>3. ControlInv => CommandsAreServed
    <2> SUFFICES ASSUME ControlInv PROVE CommandsAreServed
      OBVIOUS
    <2>1. OpenedIsPerformed
      BY DEF ControlInv, Types, Told, Performed, OpenedIsPerformed, Range
    <2>2. SlotsAreReturned
      BY DEF ControlInv, Types, Once, Counted, SlotsAreReturned
    <2> QED
      BY <2>1, <2>2 DEF CommandsAreServed
  <1> QED
    BY <1>1, <1>2, <1>3, PTL DEF Spec

--------------------------------------------------------------------------------
(* The provider of Herdr.  Its lists fit the contracts they are delivered with    *)
(* for any panes and versions, however often the server restarts and calls fail,  *)
(* up to the restart that would overflow the counter of the revisions.            *)

CONSTANTS Panes, Versions, Degraded, Fresh, MaxRevision, MaxChanges, MaxRestarts, MaxFaults
VARIABLES herdr, faults, poller, pull

Herdr == INSTANCE HerdrSnapshots WITH server <- herdr

--------------------------------------------------------------------------------
(* The inductive invariant *)

Known    == Versions \cup {None}
Lists    == [Panes -> Nat]
States   == [health : {"Available", "Degraded", "Unavailable"}, epoch : Nat,
    version : Known,
             cache : SUBSET [age : Nat], failures : Nat, shape : BOOLEAN, seqs : Lists,
             baseline : BOOLEAN]
Pollers  == [pc : {"wait", "version", "list", "apply", "failed", "malformed", "ended"},
             version : Known, list : Lists \cup {None}]
Pulls    == [pc : {"idle", "probed"}, revision : Nat, polls : Nat]

HerdrTypes ==
    /\ herdr.version \in Versions /\ herdr.panes \in Lists /\ herdr.count \in Nat
    /\ state \in States /\ state.epoch <= MaxRevision
    /\ poller \in Pollers /\ pull \in Pulls
    /\ poller.pc = "apply" => poller.list \in Lists

\* A contract is registered after the first list, and the version does not change
\* under one revision, except when there is no further revision.
Registered ==
    /\ state.cache # {} => state.baseline
    /\ \A known \in registry :
          /\ state.baseline /\ known.revision \in Nat /\ known.revision <= state.epoch
          /\ known.revision = state.epoch /\ state.epoch < MaxRevision => known = Contract

\* The epoch of a pull is that of now until a poll ends during it; the poll that
\* finds a restart leaves no list, and there is no further poll during the pull.
Pulled ==
    pull.pc = "probed" =>
        \/ pull.polls = 0 /\ pull.revision = state.epoch
        \/ /\ poller.pc \in {"wait", "ended"} /\ pull.polls > 0
           /\ pull.revision = state.epoch \/ state.cache = {}

HerdrInv == HerdrTypes /\ Registered /\ Pulled /\ SnapshotFitsContract

--------------------------------------------------------------------------------
\* The provider starts without a list and without a contract.
LEMMA StartIsSound == Herdr!Shape /\ Herdr!Init => HerdrInv
  <1> SUFFICES ASSUME Herdr!Shape, Herdr!Init PROVE HerdrInv
    OBVIOUS
  <1>1. Herdr!NoPanes \in Lists
    BY DEF Herdr!NoPanes, Lists
  <1>2. HerdrTypes
    BY <1>1 DEF Herdr!Init, HerdrTypes, Herdr!Shape, States, Pollers, Pulls, Known,
         Herdr!Resting, Herdr!NotPulling
  <1> QED
    BY <1>2
    DEF Herdr!Init, HerdrInv, Registered, Pulled, Herdr!NotPulling, SnapshotFitsContract

\* What happens to the server is seen only by the calls.
LEMMA ServerIsOutside ==
  ASSUME HerdrInv,
         (\E p \in Panes : Herdr!PaneChanges(p) \/ Herdr!PaneCloses(p))
           \/ (\E v \in Versions : Herdr!ServerRestarts(v))
  PROVE  HerdrInv'
  <1> USE DEF HerdrInv
  <1>1. UNCHANGED <<poller, state, registry, pull, delivered>>
    BY DEF Herdr!PaneChanges, Herdr!PaneCloses, Herdr!ServerRestarts
  <1>2. herdr'.version \in Versions /\ herdr'.panes \in Lists /\ herdr'.count \in Nat
    <2>1. CASE \E p \in Panes : Herdr!PaneChanges(p)
      <3>1. PICK p \in Panes : herdr' = [herdr EXCEPT !.count = @ + 1,
                                                        !.panes[p] = herdr.count + 1]
        BY <2>1 DEF Herdr!PaneChanges
      <3>2. herdr'.version = herdr.version /\ herdr'.count = herdr.count + 1
            /\ herdr'.panes = [herdr.panes EXCEPT ![p] = herdr.count + 1]
        BY <3>1
      <3> QED
        BY <3>2 DEF HerdrTypes, Lists
    <2>2. CASE \E p \in Panes : Herdr!PaneCloses(p)
      <3>1. PICK p \in Panes : herdr' = [herdr EXCEPT !.panes[p] = 0]
        BY <2>2 DEF Herdr!PaneCloses
      <3>2. herdr'.version = herdr.version /\ herdr'.count = herdr.count
            /\ herdr'.panes = [herdr.panes EXCEPT ![p] = 0]
        BY <3>1
      <3> QED
        BY <3>2 DEF HerdrTypes, Lists
    <2>3. CASE \E v \in Versions : Herdr!ServerRestarts(v)
      BY <2>3 DEF Herdr!ServerRestarts, Herdr!NoPanes, Lists
    <2> QED
      BY <2>1, <2>2, <2>3
  <1> QED
    BY <1>1, <1>2 DEF HerdrTypes, Registered, Contract, Pulled, SnapshotFitsContract

--------------------------------------------------------------------------------
\* A call returns; the state of the provider is as it was.
LEMMA CallsKeep == ASSUME HerdrInv, Herdr!ReadVersion \/ Herdr!ReadList PROVE HerdrInv'
  <1> USE DEF HerdrInv
  <1>1. UNCHANGED <<state, herdr, registry, pull, delivered>>
    BY DEF Herdr!ReadVersion, Herdr!ReadList, Herdr!PollerOnly
  <1>2. /\ poller' \in Pollers /\ poller.pc \in {"version", "list"}
        /\ poller'.pc = "apply" => poller'.list \in Lists
    <2>1. poller \in Pollers /\ herdr.version \in Known /\ herdr.panes \in Lists
      BY DEF HerdrTypes, Known
    <2>2. CASE Herdr!ReadVersion
      <3>1. /\ poller.pc = "version"
            /\ \/ poller' = [poller EXCEPT !.pc = "list", !.version = herdr.version]
               \/ poller' = [poller EXCEPT !.pc = "list"]
        BY <2>2 DEF Herdr!ReadVersion
      <3> HIDE DEF HerdrInv
      <3> QED
        BY <2>1, <3>1 DEF Pollers
    <2>3. CASE Herdr!ReadList
      <3>1. /\ poller.pc = "list"
            /\ \/ poller' = [poller EXCEPT !.pc = "apply", !.list = herdr.panes]
               \/ \E how \in {"failed", "malformed"} : poller' = [poller EXCEPT !.pc = how]
        BY <2>3 DEF Herdr!ReadList
      <3> HIDE DEF HerdrInv
      <3> QED
        BY <2>1, <3>1 DEF Pollers
    <2> QED
      BY <2>2, <2>3
  <1>3. HerdrTypes'
    BY <1>1, <1>2 DEF HerdrTypes
  <1> QED
    BY <1>1, <1>2, <1>3 DEF Registered, Contract, Pulled, SnapshotFitsContract

\* The thread that ends leaves no list.
LEMMA MissingKeeps == ASSUME HerdrInv, Herdr!ProgramIsMissing PROVE HerdrInv'
  <1> USE DEF HerdrInv
  <1>1. UNCHANGED <<herdr, registry, pull, delivered>>
    BY DEF Herdr!ProgramIsMissing, Herdr!PollerOnly
  <1>2. /\ state' \in States /\ state'.cache = {} /\ state'.epoch = state.epoch
        /\ state'.version = state.version /\ state'.baseline = state.baseline
    BY DEF Herdr!ProgramIsMissing, HerdrTypes, States
  <1>3. poller' \in Pollers /\ poller'.pc = "ended"
    BY DEF Herdr!ProgramIsMissing, Herdr!Resting, Pollers, Known
  <1>4. HerdrTypes'
    BY <1>1, <1>2, <1>3 DEF HerdrTypes
  <1> QED
    BY <1>1, <1>2, <1>3, <1>4 DEF Registered, Contract, Pulled, SnapshotFitsContract

\* A poll that failed changes neither the revision nor the version.
LEMMA FailureKeeps ==
  ASSUME Herdr!Shape, HerdrInv, Herdr!PollFailed \/ Herdr!ListIsMalformed PROVE HerdrInv'
  <1> USE DEF HerdrInv
  <1>1. /\ state' \in States /\ state'.cache = state.cache /\ state'.epoch = state.epoch
        /\ state'.version = state.version /\ state'.baseline = state.baseline
    <2>1. state \in States /\ state.failures \in Nat
      BY DEF HerdrTypes, States
    <2>2. PICK f \in Nat, h \in {"Available", "Degraded", "Unavailable"}, b \in BOOLEAN :
            state' = [state EXCEPT !.failures = f, !.health = h, !.shape = b]
      <3> DEFINE f == IF state.failures < Degraded THEN state.failures + 1
                      ELSE state.failures
                 h == IF state.failures + 1 >= Degraded THEN "Degraded" ELSE state.health
      <3>1. f \in Nat /\ h \in {"Available", "Degraded", "Unavailable"}
            /\ state.shape \in BOOLEAN
        BY <2>1 DEF States
      <3>2. CASE Herdr!PollFailed
        <4>1. state' = [state EXCEPT !.failures = f, !.health = h]
          BY <3>2 DEF Herdr!PollFailed
        <4> HIDE DEF f, h
        <4>2. state' = [state EXCEPT !.failures = f, !.health = h, !.shape = state.shape]
          BY <2>1, <4>1 DEF States
        <4> QED
          BY <3>1, <4>2
      <3>3. CASE Herdr!ListIsMalformed
        <4>1. state' = [state EXCEPT !.failures = f, !.shape = FALSE, !.health = "Degraded"]
          BY <3>3 DEF Herdr!ListIsMalformed
        <4> HIDE DEF f, h
        <4>2. state' = [state EXCEPT !.failures = f, !.health = "Degraded", !.shape = FALSE]
          BY <2>1, <4>1 DEF States
        <4> QED
          BY <3>1, <4>2
      <3> QED
        BY <3>2, <3>3
    <2> HIDE DEF HerdrInv
    <2> QED
      BY <2>1, <2>2 DEF States
  <1>2. /\ poller' \in Pollers /\ poller'.pc = "wait"
        /\ poller.pc \in {"failed", "malformed"}
    BY
    DEF Herdr!PollFailed, Herdr!ListIsMalformed, Herdr!Applied, Herdr!Resting, Pollers,
        Known
  <1>3. /\ pull' \in Pulls /\ pull'.pc = pull.pc /\ pull'.revision = pull.revision
        /\ pull.pc = "probed" => pull'.polls = pull.polls + 1
    BY DEF Herdr!PollFailed, Herdr!ListIsMalformed, Herdr!Applied, HerdrTypes, Pulls
  <1>4. UNCHANGED <<herdr, registry, delivered>>
    BY DEF Herdr!PollFailed, Herdr!ListIsMalformed, Herdr!Applied
  <1>5. HerdrTypes'
    BY <1>1, <1>2, <1>3, <1>4 DEF HerdrTypes
  <1>6. Registered'
    BY <1>1, <1>4 DEF Registered, Contract
  <1>7. Pulled'
    BY <1>1, <1>2, <1>3 DEF Pulled, HerdrTypes, Pulls
  <1> QED
    BY <1>4, <1>5, <1>6, <1>7 DEF SnapshotFitsContract

\* What a list makes of the state: a later revision without a list, or the same
\* revision and version as before.
LEMMA ListTaken ==
  ASSUME Herdr!Shape, HerdrInv, Herdr!ListArrives
  PROVE  /\ state' \in States /\ state'.epoch <= MaxRevision /\ state'.baseline
         /\ \/ /\ state'.cache = {} /\ state'.epoch >= state.epoch
               /\ state'.epoch < MaxRevision => state'.epoch = state.epoch + 1
            \/ /\ state'.epoch = state.epoch
               /\ state.baseline => state'.version = state.version
  <1> USE DEF HerdrInv
  <1>1. poller.list \in Lists /\ Herdr!NoPanes \in Lists /\ Herdr!JustTaken \in SUBSET [age : Nat]
    BY DEF Herdr!ListArrives, HerdrTypes, Herdr!NoPanes, Lists, Herdr!JustTaken
  <1>2. Herdr!NextRevision \in Nat /\ Herdr!LatestVersion \in Known
    BY DEF Herdr!NextRevision, Herdr!LatestVersion, HerdrTypes, States, Pollers, Herdr!Shape
  <1>3. /\ Herdr!Healthy \in States /\ Herdr!Healthy.baseline
        /\ Herdr!Healthy.epoch = state.epoch /\ Herdr!Healthy.version = Herdr!LatestVersion
    BY <1>2 DEF Herdr!Healthy, HerdrTypes, States
  <1>4. CASE Herdr!Restarted
    <2> DEFINE h == Herdr!Healthy
    <2>1. state' = [h EXCEPT !.epoch = Herdr!NextRevision, !.cache = {},
        !.seqs = Herdr!NoPanes]
      BY <1>4 DEF Herdr!ListArrives, Herdr!Reset
    <2>2. h \in States /\ h.baseline
      BY <1>3
    <2> HIDE DEF h
    <2>3. /\ state' \in States /\ state'.baseline /\ state'.cache = {}
          /\ state'.epoch = Herdr!NextRevision
      BY <1>1, <1>2, <2>1, <2>2 DEF States
    <2> QED
      BY <2>3 DEF Herdr!NextRevision, HerdrTypes, States, Herdr!Shape
  <1>5. CASE ~Herdr!Restarted
    <2> DEFINE h == Herdr!Healthy
    <2>1. state' = [h EXCEPT !.seqs = poller.list, !.cache = Herdr!JustTaken]
      BY <1>5 DEF Herdr!ListArrives
    <2>2. h \in States /\ h.baseline /\ h.epoch = state.epoch /\ h.version = Herdr!LatestVersion
      BY <1>3
    <2> HIDE DEF h
    <2>3. /\ state' \in States /\ state'.baseline
          /\ state'.epoch = state.epoch /\ state'.version = Herdr!LatestVersion
      BY <1>1, <2>1, <2>2 DEF States
    <2> QED
      BY <1>5, <2>3
      DEF Herdr!Restarted, Herdr!VersionChanged, Herdr!LatestVersion, HerdrTypes
  <1> QED
    BY <1>4, <1>5

\* A list that arrives during a pull keeps its revision or leaves it nothing to take.
LEMMA ListKeeps == ASSUME Herdr!Shape, HerdrInv, Herdr!ListArrives PROVE HerdrInv'
  <1> USE DEF HerdrInv
  <1>1. /\ state' \in States /\ state'.epoch <= MaxRevision /\ state'.baseline
        /\ \/ /\ state'.cache = {} /\ state'.epoch >= state.epoch
              /\ state'.epoch < MaxRevision => state'.epoch = state.epoch + 1
           \/ /\ state'.epoch = state.epoch
              /\ state.baseline => state'.version = state.version
    BY ListTaken
  <1>2. poller' \in Pollers /\ poller'.pc = "wait" /\ poller.pc = "apply"
    BY DEF Herdr!ListArrives, Herdr!Applied, Herdr!Resting, Pollers, Known
  <1>3. /\ pull' \in Pulls /\ pull'.pc = pull.pc /\ pull'.revision = pull.revision
        /\ pull.pc = "probed" => pull'.polls = pull.polls + 1
    BY DEF Herdr!ListArrives, Herdr!Applied, HerdrTypes, Pulls
  <1>4. UNCHANGED <<herdr, registry, delivered>>
    BY DEF Herdr!ListArrives, Herdr!Applied
  <1>5. HerdrTypes'
    BY <1>1, <1>2, <1>3, <1>4 DEF HerdrTypes
  <1>6. state.epoch \in Nat /\ state'.epoch \in Nat /\ MaxRevision \in Nat
    BY <1>1 DEF HerdrTypes, States, Herdr!Shape
  <1>7. Registered'
    <2> SUFFICES ASSUME NEW known \in registry
                 PROVE  /\ known.revision \in Nat /\ known.revision <= state'.epoch
                        /\ known.revision = state'.epoch /\ state'.epoch < MaxRevision
                             => known = Contract'
      BY <1>1, <1>4 DEF Registered
    <2>1. /\ state.baseline /\ known.revision \in Nat /\ known.revision <= state.epoch
          /\ known.revision = state.epoch /\ state.epoch < MaxRevision => known = Contract
      BY DEF Registered
    <2>2. CASE state'.epoch = state.epoch /\ state'.version = state.version
      BY <2>1, <2>2 DEF Contract
    <2>3. CASE state'.epoch >= state.epoch
               /\ (state'.epoch < MaxRevision => state'.epoch = state.epoch + 1)
      BY <1>6, <2>1, <2>3
    <2> QED
      BY <1>1, <2>1, <2>2, <2>3
  <1>8. Pulled'
    <2> SUFFICES ASSUME pull.pc = "probed" PROVE Pulled'
      BY <1>3 DEF Pulled
    <2>1. pull.polls = 0 /\ pull.revision = state.epoch
      BY <1>2 DEF Pulled
    <2> QED
      BY <1>1, <1>2, <1>3, <2>1 DEF Pulled
  <1> QED
    BY <1>4, <1>5, <1>7, <1>8 DEF SnapshotFitsContract

\* The thread polls again, or the list ages.
LEMMA WaitingKeeps == ASSUME HerdrInv, Herdr!Wakes \/ Herdr!Ages PROVE HerdrInv'
  <1> USE DEF HerdrInv
  <1>1. UNCHANGED <<herdr, registry, pull, delivered>>
    BY DEF Herdr!Wakes, Herdr!Ages, Herdr!PollerOnly
  <1>2. /\ state' \in States /\ (state'.cache = {} <=> state.cache = {})
        /\ state'.epoch = state.epoch /\ state'.version = state.version
        /\ state'.baseline = state.baseline
    <2>1. CASE Herdr!Wakes
      BY <2>1 DEF Herdr!Wakes, HerdrTypes
    <2>2. CASE Herdr!Ages
      <3>1. PICK list \in state.cache : state' = [state EXCEPT !.cache = {[age |-> list.age + 1]}]
        BY <2>2 DEF Herdr!Ages
      <3>2. {[age |-> list.age + 1]} \in SUBSET [age : Nat]
        BY DEF HerdrTypes, States
      <3> QED
        BY <3>1, <3>2 DEF HerdrTypes, States
    <2> QED
      BY <2>1, <2>2
  <1>3. /\ poller' \in Pollers
        /\ poller'.pc = "apply" => poller' = poller
        /\ poller' = poller \/ pull.polls = 0
    BY DEF Herdr!Wakes, Herdr!Ages, HerdrTypes, Pollers, Herdr!Resting, Known
  <1>4. HerdrTypes'
    BY <1>1, <1>2, <1>3 DEF HerdrTypes
  <1>5. Registered'
    BY <1>1, <1>2 DEF Registered, Contract
  <1>6. Pulled'
    BY <1>1, <1>2, <1>3 DEF Pulled
  <1> QED
    BY <1>1, <1>4, <1>5, <1>6 DEF SnapshotFitsContract

--------------------------------------------------------------------------------
\* A probe registers the contract of now.
LEMMA ProbeKeeps == ASSUME HerdrInv, Herdr!Probe PROVE HerdrInv'
  <1> USE DEF HerdrInv
  <1>1. UNCHANGED <<herdr, faults, poller, state, delivered>> /\ state.cache # {}
    BY DEF Herdr!Probe, Herdr!RuntimeOnly, Herdr!ProbeFails
  <1>2. \/ UNCHANGED <<registry, pull>>
        \/ /\ registry' = {Contract}
           /\ pull' = [pc |-> "probed", revision |-> state.epoch, polls |-> 0]
    BY DEF Herdr!Probe, Herdr!Contract, Contract
  <1>3. HerdrTypes'
    BY <1>1, <1>2 DEF HerdrTypes, Pulls, States
  <1>4. Contract.revision = state.epoch /\ state.epoch \in Nat
    BY DEF Contract, HerdrTypes, States
  <1>5. Registered'
    <2>1. CASE registry' = registry
      BY <1>1, <2>1 DEF Registered, Contract
    <2>2. CASE registry' = {Contract}
      <3>1. Contract' = Contract /\ state' = state
        BY <1>1 DEF Contract
      <3> HIDE DEF HerdrInv
      <3>2. state.baseline
        BY <1>1 DEF HerdrInv, Registered
      <3> QED
        BY <1>4, <2>2, <3>1, <3>2 DEF Registered
    <2> QED
      BY <1>2, <2>1, <2>2
  <1>6. Pulled'
    BY <1>1, <1>2 DEF Pulled
  <1> QED
    BY <1>1, <1>3, <1>5, <1>6 DEF SnapshotFitsContract

\* A snapshot is served only while the list of its revision is kept.
LEMMA SnapshotKeeps == ASSUME HerdrInv, Herdr!Snapshot PROVE HerdrInv'
  <1> USE DEF HerdrInv
  <1>1. UNCHANGED <<herdr, faults, poller, state, registry>> /\ pull' = Herdr!NotPulling
    BY DEF Herdr!Snapshot, Herdr!RuntimeOnly
  <1>2. delivered' = delivered
        \/ (state.cache # {} /\ delivered' = {[revision |-> pull.revision,
            of |-> state.epoch]})
    BY DEF Herdr!Snapshot, Herdr!ServesNothing, Herdr!ProbeFails
  <1>3. state.cache # {} => pull.revision = state.epoch
    BY DEF Herdr!Snapshot, Pulled
  <1>4. SnapshotFitsContract'
    BY <1>2, <1>3 DEF SnapshotFitsContract
  <1>5. HerdrTypes'
    BY <1>1 DEF HerdrTypes, Herdr!NotPulling, Pulls
  <1> QED
    BY <1>1, <1>4, <1>5 DEF Registered, Contract, Pulled, Herdr!NotPulling

--------------------------------------------------------------------------------
\* Whatever restarts and fails, a list is delivered under the revision it was taken
\* under; and until the counter of the revisions is at its end every contract that is
\* offered is taken.
THEOREM ListsAreTrue ==
  ASSUME Herdr!Shape
  PROVE  Herdr!Spec => [](SnapshotFitsContract /\ (state.epoch < MaxRevision => ListsFitContracts))
  <1>1. Herdr!Init => HerdrInv
    BY StartIsSound
  <1>2. HerdrInv /\ [Herdr!Next]_(Herdr!vars) => HerdrInv'
    <2> SUFFICES ASSUME HerdrInv, [Herdr!Next]_(Herdr!vars) PROVE HerdrInv'
      OBVIOUS
    <2>1. CASE UNCHANGED Herdr!vars
      BY <2>1
      DEF Herdr!vars, HerdrInv, HerdrTypes, Registered, Contract, Pulled,
          SnapshotFitsContract
    <2> QED
      BY <2>1, ServerIsOutside, CallsKeep, MissingKeeps, FailureKeeps, ListKeeps,
         WaitingKeeps, ProbeKeeps, SnapshotKeeps DEF Herdr!Next
  <1>3. HerdrInv => SnapshotFitsContract /\ (state.epoch < MaxRevision => ListsFitContracts)
    <2> SUFFICES ASSUME HerdrInv, state.epoch < MaxRevision, NEW known \in registry
                 PROVE  state.epoch > known.revision \/ Contract = known
      BY DEF HerdrInv, ListsFitContracts, ContractsAreAccepted, Accepts
    <2>1. state.epoch \in Nat
      BY DEF HerdrInv, HerdrTypes, States
    <2> QED
      BY <2>1 DEF HerdrInv, Registered
  <1> QED
    BY <1>1, <1>2, <1>3, PTL DEF Herdr!Spec
================================================================================
