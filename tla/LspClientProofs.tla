----------------------------- MODULE LspClientProofs -----------------------------
(* What holds of the language server client for all sets of servers, requests and  *)
(* texts.  The inductive invariant has four parts beside the types: what each      *)
(* request waits for (Books), which processes are held for it (Lives), which       *)
(* ids a server may still answer (Expects) and which text is open when it reads a  *)
(* request (Reads).  A step of the manager is a composition of a few operators on  *)
(* its state; for each operator there is a lemma, and the steps cite them.         *)
EXTENDS LspClient, CleanupReport, SequenceTheorems, TLAPS

----------------------------------------------------------------------------------
(* Types *)

MessageKinds == {"init", "ask", "open", "close", "cancel", "initialized", "reply",
                 "capabilities", "answer", "call"}
Docs == Nat \cup {None, "open", "disk", "both"}
Messages == [m : MessageKinds, id : Nat \cup {None}, doc : Docs]
Links == [inbox : Seq(Messages), frames : Seq(Messages), control : BOOLEAN,
          owed : SUBSET Nat, shown : Docs, held : Nat]
Phases == {"fine", "failed", "permanent", "quarantined"}
Healths == [phase : Phases, attempts : Nat, cooling : BOOLEAN, astray : Nat]
Results == [r : Requests, current : BOOLEAN]
Disks == [jobs : Seq(Requests), results : Seq(Results), waiting : SUBSET Requests,
          wedged : BOOLEAN]
States == [session : [Keys -> Sessions \cup {None}], link : [Keys -> Links],
           health : [Keys -> Healths], disk : Disks, answered : [Requests -> Nat]]
Asked == [key : Keys, doc : Nat]
Commands == [kind : {"request", "cancel"}, r : Requests]

Types ==
    /\ asked \in Seq(Asked) /\ Len(asked) <= MaxRequests
    /\ commands \in Seq(Commands)
    /\ State \in States

----------------------------------------------------------------------------------
(* The invariant *)

\* The requests the manager has not read yet.
Unread(q) == {q[i].r : i \in {j \in 1..Len(q) : q[j].kind = "request"}}
ReadOnce(q) ==
    \A i, j \in 1..Len(q) :
        q[i].kind = "request" /\ q[j].kind = "request" /\ q[i].r = q[j].r => i = j
Known(q, n) == \A i \in 1..Len(q) : q[i].r <= n

\* A request is unread (in W), waits for the disk, for a session or for its server, or
\* is answered, and never two of these.
Booked(s, k, st, W) ==
    /\ \A r \in Holds(s) :
          /\ r \in 1..Len(asked) /\ asked[r].key = k
          /\ st.answered[r] = 0 /\ r \notin W /\ r \notin st.disk.waiting
    /\ \A p, q \in s.pending : p.r = q.r => p = q
    /\ \A p \in s.pending : p.r # s.deferred
Books(st, W) ==
    /\ \A r \in Requests : st.answered[r] <= 1
    /\ \A r \in Requests : r > Len(asked) => st.answered[r] = 0
    /\ W \subseteq 1..Len(asked)
    /\ \A r \in W : st.answered[r] = 0 /\ r \notin st.disk.waiting
    /\ \A r \in st.disk.waiting :
          /\ r \in 1..Len(asked) /\ st.answered[r] = 0
          /\ st.session[asked[r].key] # None
          /\ st.session[asked[r].key].state = "ready"
    /\ \A k \in Keys : st.session[k] # None => Booked(st.session[k], k, st, W)

\* The client holds a process of a key while the key has a session, a failed session that
\* is not cleaned up, or one that could not be.
Lives(st) ==
    \A k \in Keys :
        /\ st.session[k] # None => st.health[k].phase = "fine"
        /\ st.link[k].held =
             IF st.session[k] # None \/ st.health[k].phase \in {"failed", "quarantined"}
             THEN 1 ELSE 0

\* The ids of some kinds of messages.
Ids(q, kinds) == {q[i].id : i \in {j \in 1..Len(q) : q[j].m \in kinds}}
NoneTwice(q, kinds) ==
    \A i, j \in 1..Len(q) :
        q[i].m \in kinds /\ q[j].m \in kinds /\ q[i].id = q[j].id => i = j
Calls == {"init", "ask"}
Replies == {"capabilities", "answer"}
Texts == {"open", "close"}

\* An id that is with the server, or on its way there or back, is so once, and it is
\* pending or retired.
Expected(s, l) ==
    /\ Ids(l.inbox, Calls) \cup l.owed \cup Ids(l.frames, Replies)
         \subseteq {p.id : p \in s.pending} \cup s.retired
    /\ Ids(l.inbox, Calls) \cap l.owed = {}
    /\ Ids(l.inbox, Calls) \cap Ids(l.frames, Replies) = {}
    /\ l.owed \cap Ids(l.frames, Replies) = {}
    /\ NoneTwice(l.inbox, Calls) /\ NoneTwice(l.frames, Replies)
    /\ {p.id : p \in s.pending} \cap s.retired = {}
    /\ \A p, q \in s.pending : p.id = q.id => p = q
    /\ \A p \in s.pending : p.id < s.nextId
    /\ \A id \in s.retired : id < s.nextId
Expects(st) == \A k \in Keys : st.session[k] # None => Expected(st.session[k], st.link[k])

\* When the server has read n messages of its inbox, the text it has open is d.
TextsTo(box, n) == {i \in 1..n : box[i].m \in Texts}
Shows(box, shown, n, d) ==
    IF TextsTo(box, n) = {} THEN shown = d
    ELSE \E j \in TextsTo(box, n) :
            /\ \A h \in TextsTo(box, n) : h <= j
            /\ box[j].m = "open" /\ box[j].doc = d
AsksFit(box, shown) ==
    \A i \in 1..Len(box) : box[i].m = "ask" => Shows(box, shown, i - 1, box[i].doc)
NoAsk(box) == \A i \in 1..Len(box) : box[i].m # "ask"
FrameFits(f) ==
    /\ f.m \in {"call", "capabilities", "answer"}
    /\ f.m = "answer" => f.id \in Nat
    /\ f.m = "capabilities" => f.id = 0 /\ f.doc \in {"open", "disk", "both"}
ReadsWell(s, l) ==
    /\ s.state = "starting" => NoAsk(l.inbox)
    /\ s.state = "ready" => \A p \in s.pending : p.id # 0
    /\ s.nextId > 0
    /\ \A i \in 1..Len(l.frames) : FrameFits(l.frames[i])
    /\ ~l.control => /\ Shows(l.inbox, l.shown, Len(l.inbox), s.opened)
                     /\ s.sync # "disk" => AsksFit(l.inbox, l.shown)
Reads(st) == \A k \in Keys : st.session[k] # None => ReadsWell(st.session[k], st.link[k])

Inv ==
    /\ Types
    /\ ReadOnce(commands) /\ Known(commands, Len(asked))
    /\ Books(State, Unread(commands))
    /\ Lives(State) /\ Expects(State) /\ Reads(State)

----------------------------------------------------------------------------------
(* Messages in their channels *)

LEMMA OneMore ==
    ASSUME NEW q \in Seq(Messages), NEW t \in Seq(Messages), NEW x \in Messages
    PROVE  /\ q \o <<x>> = Append(q, x) /\ <<x>> \in Seq(Messages)
           /\ t \o <<x>> \in Seq(Messages) /\ q \o t \in Seq(Messages)
           /\ q \o (t \o <<x>>) = Append(q \o t, x)
<1>1. <<x>> \in Seq(Messages) /\ t \o <<x>> \in Seq(Messages) /\ q \o t \in Seq(Messages)
  OBVIOUS
<1>2. q \o (t \o <<x>>) = (q \o t) \o <<x>>
  BY <1>1, ConcatAssociative
<1> QED
  BY <1>1, <1>2, AppendIsConcat

LEMMA IdsOfNone == \A kinds : Ids(<<>>, kinds) = {} /\ NoneTwice(<<>>, kinds)
BY DEF Ids, NoneTwice

\* The positions of a channel after one more message, or one less.
LEMMA Appended ==
    ASSUME NEW q \in Seq(Messages), NEW x \in Messages
    PROVE  LET z == Append(q, x)
           IN  /\ z \in Seq(Messages) /\ Len(z) = Len(q) + 1 /\ Len(q) \in Nat
               /\ z[Len(q) + 1] = x /\ \A i \in 1..Len(q) : z[i] = q[i]
               /\ \A i \in 1..Len(z) : i \in 1..Len(q) \/ i = Len(q) + 1
OBVIOUS

LEMMA Shortened ==
    ASSUME NEW q \in Seq(Messages), q # <<>>
    PROVE  LET z == Tail(q)
           IN  /\ z \in Seq(Messages) /\ Len(z) = Len(q) - 1 /\ Len(z) \in Nat
               /\ Head(q) = q[1] /\ q[1] \in Messages
               /\ \A i \in 1..Len(z) : z[i] = q[i + 1] /\ i + 1 \in 1..Len(q)
OBVIOUS

LEMMA IdsAppended ==
    ASSUME NEW q \in Seq(Messages), NEW x \in Messages, NEW kinds
    PROVE  /\ Ids(Append(q, x), kinds)
                 = Ids(q, kinds) \cup (IF x.m \in kinds THEN {x.id} ELSE {})
           /\ NoneTwice(q, kinds) /\ (x.m \in kinds => x.id \notin Ids(q, kinds))
                 => NoneTwice(Append(q, x), kinds)
<1> DEFINE z == Append(q, x)
<1>1. /\ Len(z) = Len(q) + 1 /\ Len(q) \in Nat
      /\ z[Len(q) + 1] = x /\ \A i \in 1..Len(q) : z[i] = q[i]
      /\ \A i \in 1..Len(z) : i \in 1..Len(q) \/ i = Len(q) + 1
      /\ \A i \in 1..Len(q) : i \in 1..Len(z)
      /\ Len(q) + 1 \in 1..Len(z)
  BY Appended
<1> HIDE DEF z
<1>2. Ids(z, kinds) = Ids(q, kinds) \cup (IF x.m \in kinds THEN {x.id} ELSE {})
  BY <1>1 DEF Ids
<1>3. ASSUME NoneTwice(q, kinds), x.m \in kinds => x.id \notin Ids(q, kinds)
      PROVE  NoneTwice(z, kinds)
  BY <1>1, <1>3 DEF NoneTwice, Ids
<1> QED
  BY <1>2, <1>3 DEF z

LEMMA CallsAppended ==
    ASSUME NEW q \in Seq(Messages), NEW x \in Messages
    PROVE  /\ x.m \notin Calls =>
                /\ Ids(Append(q, x), Calls) = Ids(q, Calls)
                /\ NoneTwice(q, Calls) => NoneTwice(Append(q, x), Calls)
           /\ x.m \in Calls =>
                /\ Ids(Append(q, x), Calls) = Ids(q, Calls) \cup {x.id}
                /\ NoneTwice(q, Calls) /\ x.id \notin Ids(q, Calls)
                      => NoneTwice(Append(q, x), Calls)
<1>1. /\ Ids(Append(q, x), Calls)
            = Ids(q, Calls) \cup (IF x.m \in Calls THEN {x.id} ELSE {})
      /\ NoneTwice(q, Calls) /\ (x.m \in Calls => x.id \notin Ids(q, Calls))
            => NoneTwice(Append(q, x), Calls)
  BY IdsAppended
<1> QED
  BY <1>1

LEMMA RepliesAppended ==
    ASSUME NEW q \in Seq(Messages), NEW x \in Messages
    PROVE  /\ x.m \notin Replies =>
                /\ Ids(Append(q, x), Replies) = Ids(q, Replies)
                /\ NoneTwice(q, Replies) => NoneTwice(Append(q, x), Replies)
           /\ x.m \in Replies =>
                /\ Ids(Append(q, x), Replies) = Ids(q, Replies) \cup {x.id}
                /\ NoneTwice(q, Replies) /\ x.id \notin Ids(q, Replies)
                      => NoneTwice(Append(q, x), Replies)
<1>1. /\ Ids(Append(q, x), Replies)
            = Ids(q, Replies) \cup (IF x.m \in Replies THEN {x.id} ELSE {})
      /\ NoneTwice(q, Replies) /\ (x.m \in Replies => x.id \notin Ids(q, Replies))
            => NoneTwice(Append(q, x), Replies)
  BY IdsAppended
<1> QED
  BY <1>1

LEMMA IdsShortened ==
    ASSUME NEW q \in Seq(Messages), q # <<>>, NEW kinds, NoneTwice(q, kinds)
    PROVE  /\ NoneTwice(Tail(q), kinds)
           /\ Ids(q, kinds) = Ids(Tail(q), kinds)
                                \cup (IF Head(q).m \in kinds THEN {Head(q).id} ELSE {})
           /\ Head(q).m \in kinds => Head(q).id \notin Ids(Tail(q), kinds)
<1> DEFINE z == Tail(q)
<1>1. /\ Len(z) = Len(q) - 1 /\ Len(z) \in Nat /\ Head(q) = q[1] /\ 1 \in 1..Len(q)
      /\ \A i \in 1..Len(z) : z[i] = q[i + 1] /\ i + 1 \in 1..Len(q)
  BY Shortened
<1>2. \A i \in 1..Len(q) : i = 1 \/ (i - 1 \in 1..Len(z) /\ z[i - 1] = q[i])
  BY <1>1
<1> HIDE DEF z
<1>3. NoneTwice(z, kinds)
  BY <1>1 DEF NoneTwice
<1>4. Ids(q, kinds) = Ids(z, kinds) \cup (IF Head(q).m \in kinds THEN {Head(q).id} ELSE {})
  <2>1. Ids(z, kinds) \subseteq Ids(q, kinds)
    BY <1>1 DEF Ids
  <2>2. Head(q).m \in kinds => Head(q).id \in Ids(q, kinds)
    BY <1>1 DEF Ids
  <2>3. ASSUME NEW i \in 1..Len(q), q[i].m \in kinds
        PROVE  q[i].id \in Ids(z, kinds) \cup (IF Head(q).m \in kinds THEN {Head(q).id} ELSE {})
    BY <1>1, <1>2, <2>3 DEF Ids
  <2>4. Ids(q, kinds)
          \subseteq Ids(z, kinds) \cup (IF Head(q).m \in kinds THEN {Head(q).id} ELSE {})
    BY <2>3 DEF Ids
  <2> QED
    BY <2>1, <2>2, <2>4
<1>5. Head(q).m \in kinds => Head(q).id \notin Ids(z, kinds)
  BY SMTT(40), <1>1 DEF NoneTwice, Ids
<1> QED
  BY <1>3, <1>4, <1>5 DEF z

\* A message at the end of the channel changes nothing for those before it.
LEMMA TextsAppended ==
    ASSUME NEW q \in Seq(Messages), NEW x \in Messages, NEW shown, NEW d,
           NEW n \in 0..Len(q)
    PROVE  Shows(Append(q, x), shown, n, d) <=> Shows(q, shown, n, d)
<1> DEFINE z == Append(q, x)
<1>1. \A i \in 1..n : z[i] = q[i]
  BY Appended
<1> HIDE DEF z
<1>2. TextsTo(z, n) = TextsTo(q, n)
  BY <1>1 DEF TextsTo
<1>3. \A i \in TextsTo(q, n) : z[i] = q[i]
  BY <1>1 DEF TextsTo
<1> QED
  BY <1>2, <1>3 DEF Shows, z

LEMMA LastText ==
    ASSUME NEW q \in Seq(Messages), NEW x \in Messages, NEW shown, NEW d
    PROVE  /\ x.m \notin Texts /\ Shows(q, shown, Len(q), d)
                => Shows(Append(q, x), shown, Len(Append(q, x)), d)
           /\ x.m = "open" => Shows(Append(q, x), shown, Len(Append(q, x)), x.doc)
<1> DEFINE z == Append(q, x)
<1>1. /\ Len(z) = Len(q) + 1 /\ Len(q) \in Nat
      /\ z[Len(q) + 1] = x /\ \A i \in 1..Len(q) : z[i] = q[i]
      /\ \A i \in 1..Len(z) : i \in 1..Len(q) \/ i = Len(q) + 1
  BY Appended
<1> HIDE DEF z
<1>2. ASSUME x.m \notin Texts, Shows(q, shown, Len(q), d) PROVE Shows(z, shown, Len(z), d)
  <2>1. TextsTo(z, Len(z)) = TextsTo(q, Len(q))
    BY <1>1, <1>2 DEF TextsTo
  <2>2. \A i \in TextsTo(q, Len(q)) : z[i] = q[i]
    BY <1>1 DEF TextsTo
  <2> QED
    BY <1>2, <2>1, <2>2 DEF Shows
<1>3. ASSUME x.m = "open" PROVE Shows(z, shown, Len(z), x.doc)
  <2>1. Len(z) \in TextsTo(z, Len(z)) /\ z[Len(z)] = x
    BY <1>1, <1>3 DEF TextsTo, Texts
  <2>2. \A h \in TextsTo(z, Len(z)) : h <= Len(z)
    BY <1>1 DEF TextsTo
  <2> QED
    BY <1>3, <2>1, <2>2 DEF Shows
<1> QED
  BY <1>2, <1>3 DEF z

LEMMA AsksAppended ==
    ASSUME NEW q \in Seq(Messages), NEW x \in Messages, NEW shown
    PROVE  /\ AsksFit(q, shown) /\ (x.m = "ask" => Shows(q, shown, Len(q), x.doc))
                => AsksFit(Append(q, x), shown)
           /\ NoAsk(q) /\ x.m # "ask" => NoAsk(Append(q, x))
<1> DEFINE z == Append(q, x)
<1>1. /\ Len(z) = Len(q) + 1 /\ Len(q) \in Nat
      /\ z[Len(q) + 1] = x /\ \A i \in 1..Len(q) : z[i] = q[i]
      /\ \A i \in 1..Len(z) : i \in 1..Len(q) \/ i = Len(q) + 1
  BY Appended
<1>2. \A n \in 0..Len(q) : \A d : Shows(z, shown, n, d) <=> Shows(q, shown, n, d)
  BY TextsAppended
<1> HIDE DEF z
<1>3. ASSUME AsksFit(q, shown), x.m = "ask" => Shows(q, shown, Len(q), x.doc),
             NEW i \in 1..Len(z), z[i].m = "ask"
      PROVE  Shows(z, shown, i - 1, z[i].doc)
  <2>1. i - 1 \in 0..Len(q)
    BY <1>1
  <2>2. Shows(q, shown, i - 1, z[i].doc)
    BY <1>1, <1>3 DEF AsksFit
  <2> QED
    BY <1>2, <2>1, <2>2
<1>4. NoAsk(q) /\ x.m # "ask" => NoAsk(z)
  BY <1>1 DEF NoAsk
<1> QED
  BY <1>3, <1>4 DEF AsksFit, z

\* The server reads the message at the front.
ShownBy(x, shown) == IF x.m = "open" THEN x.doc ELSE IF x.m = "close" THEN None ELSE shown

LEMMA TextsShortened ==
    ASSUME NEW q \in Seq(Messages), q # <<>>, NEW shown, NEW d, NEW n \in 1..Len(q),
           Shows(q, shown, n, d)
    PROVE  Shows(Tail(q), ShownBy(Head(q), shown), n - 1, d)
<1> DEFINE z == Tail(q)
           new == ShownBy(Head(q), shown)
<1>1. /\ Len(z) = Len(q) - 1 /\ Len(z) \in Nat /\ Head(q) = q[1]
      /\ \A i \in 1..Len(z) : z[i] = q[i + 1] /\ i + 1 \in 1..Len(q)
  BY Shortened
<1> HIDE DEF z
<1>2. \A i \in Nat : i \in TextsTo(z, n - 1) <=> i # 0 /\ i + 1 \in TextsTo(q, n)
  BY <1>1 DEF TextsTo
<1>3. \A i \in TextsTo(q, n) : i \in Nat /\ (i = 1 \/ (i - 1 \in TextsTo(z, n - 1)
                                                  /\ z[i - 1] = q[i]))
  BY <1>1 DEF TextsTo
<1>4. 1 \in TextsTo(q, n) <=> Head(q).m \in Texts
  BY <1>1 DEF TextsTo
<1>5. \A i \in TextsTo(z, n - 1) : i \in Nat /\ i # 0
  BY DEF TextsTo
<1>6. CASE TextsTo(q, n) = {}
  <2>1. TextsTo(z, n - 1) = {}
    BY <1>2, <1>5, <1>6
  <2>2. new = shown
    BY <1>4, <1>6 DEF ShownBy, Texts
  <2> QED
    BY <1>6, <2>1, <2>2 DEF Shows, z
<1>7. CASE TextsTo(q, n) # {}
  <2>1. PICK j \in TextsTo(q, n) : /\ \A h \in TextsTo(q, n) : h <= j
                                   /\ q[j].m = "open" /\ q[j].doc = d
    BY <1>7 DEF Shows
  <2>2. CASE j = 1
    <3>1. TextsTo(z, n - 1) = {}
      <4>1. \A i \in TextsTo(z, n - 1) : i + 1 <= 1
        BY <1>2, <1>5, <2>1, <2>2
      <4> QED
        BY <1>5, <4>1
    <3>2. new = d
      BY <1>1, <2>1, <2>2 DEF ShownBy
    <3> QED
      BY <3>1, <3>2 DEF Shows, z
  <2>3. CASE j # 1
    <3>1. j - 1 \in TextsTo(z, n - 1) /\ z[j - 1] = q[j]
      BY <1>3, <2>1, <2>3
    <3>2. \A h \in TextsTo(z, n - 1) : h <= j - 1
      BY <1>2, <1>3, <1>5, <2>1
    <3> QED
      BY <2>1, <3>1, <3>2 DEF Shows, z
  <2> QED
    BY <2>2, <2>3
<1> QED
  BY <1>6, <1>7

LEMMA AsksShortened ==
    ASSUME NEW q \in Seq(Messages), q # <<>>, NEW shown
    PROVE  /\ AsksFit(q, shown) => AsksFit(Tail(q), ShownBy(Head(q), shown))
           /\ NoAsk(q) => NoAsk(Tail(q))
<1> DEFINE z == Tail(q)
<1>1. /\ Len(z) = Len(q) - 1 /\ Len(z) \in Nat
      /\ \A i \in 1..Len(z) : z[i] = q[i + 1] /\ i + 1 \in 1..Len(q)
  BY Shortened
<1> HIDE DEF z
<1>2. ASSUME AsksFit(q, shown), NEW i \in 1..Len(z), z[i].m = "ask"
      PROVE  Shows(z, ShownBy(Head(q), shown), i - 1, z[i].doc)
  <2>1. i \in 1..Len(q) /\ Shows(q, shown, i, z[i].doc)
    BY <1>1, <1>2 DEF AsksFit
  <2> QED
    BY <2>1, TextsShortened DEF z
<1>3. NoAsk(q) => NoAsk(z)
  BY <1>1 DEF NoAsk
<1> QED
  BY <1>2, <1>3 DEF AsksFit, z

----------------------------------------------------------------------------------
(* What the manager's operators change *)

Fields == {"session", "link", "health", "disk", "answered"}

\* A step that becomes z has z as its next state.
LEMMA Becomes == ASSUME NEW z \in States, Become(z) PROVE State' = z
BY DEF State, States, Become

\* States, field by field.
LEMMA StateFields ==
    ASSUME NEW st \in States
    PROVE  /\ DOMAIN st = Fields
           /\ st.session \in [Keys -> Sessions \cup {None}]
           /\ st.link \in [Keys -> Links] /\ st.health \in [Keys -> Healths]
           /\ st.disk \in Disks /\ st.answered \in [Requests -> Nat]
BY DEF States, Fields

LEMMA AnswerFacts ==
    ASSUME NEW st \in States, NEW R
    PROVE  LET z == Answer(st, R)
           IN  /\ z \in States
               /\ z.session = st.session /\ z.link = st.link /\ z.health = st.health
               /\ z.disk.waiting = st.disk.waiting \ R
               /\ \A r \in Requests :
                    z.answered[r] = IF r \in R THEN st.answered[r] + 1 ELSE st.answered[r]
<1> DEFINE z == Answer(st, R)
<1>1. /\ DOMAIN z = Fields
      /\ z.session = st.session /\ z.link = st.link /\ z.health = st.health
      /\ z.disk = [st.disk EXCEPT !.waiting = @ \ R]
      /\ z.answered =
           [r \in Requests |-> IF r \in R THEN st.answered[r] + 1 ELSE st.answered[r]]
  BY DEF Answer, States, Fields
<1>2. z.disk \in Disks
  BY <1>1 DEF States, Disks
<1>3. z.answered \in [Requests -> Nat]
  BY <1>1 DEF States
<1>4. z \in States
  BY <1>1, <1>2, <1>3 DEF Answer, States
<1>5. z.disk.waiting = st.disk.waiting \ R
  BY <1>1 DEF States, Disks
<1>6. \A r \in Requests :
        z.answered[r] = IF r \in R THEN st.answered[r] + 1 ELSE st.answered[r]
  BY <1>1
<1> QED
  BY <1>1, <1>4, <1>5, <1>6

\* The channels of a new process, or of one that has ended.
LEMMA EmptyLinks ==
    ASSUME NEW n \in Nat, NEW frames \in Seq(Messages), NEW b \in BOOLEAN,
           NEW box \in Seq(Messages)
    PROVE  [inbox |-> box, frames |-> frames, control |-> b, owed |-> {}, shown |-> None,
            held |-> n] \in Links
BY DEF Links, Docs

LEMMA RetireFacts ==
    ASSUME NEW st \in States, NEW k \in Keys
    PROVE  LET z == Retire(st, k)
           IN  /\ z \in States
               /\ z.session = [st.session EXCEPT ![k] = None]
               /\ \A j \in Keys : j # k => z.link[j] = st.link[j] /\ z.health[j] = st.health[j]
               /\ z.link[k].held = st.link[k].held /\ z.health[k].phase = "failed"
               /\ z.disk = st.disk /\ z.answered = st.answered
<1> DEFINE z == Retire(st, k)
           l == [NoLink EXCEPT !.held = st.link[k].held]
           h == [st.health[k] EXCEPT !.phase = "failed"]
<1>1. l \in Links /\ l.held = st.link[k].held
  <2>1. st.link[k].held \in Nat /\ <<>> \in Seq(Messages)
    BY DEF States, Links
  <2>2. NoLink \in Links
    BY <2>1, EmptyLinks DEF NoLink
  <2> QED
    BY <2>1, <2>2 DEF Links
<1>2. h \in Healths /\ h.phase = "failed"
  BY DEF Healths, Phases, States
<1>3. z = [st EXCEPT !.session = [st.session EXCEPT ![k] = None],
                     !.health = [st.health EXCEPT ![k] = h],
                     !.link = [st.link EXCEPT ![k] = l]]
  BY DEF Retire
<1> HIDE DEF z, l, h
<1>4. z \in States
  BY <1>1, <1>2, <1>3 DEF States
<1> QED
  BY <1>1, <1>2, <1>3, <1>4 DEF States, z

LEMMA HoldsRequests ==
    ASSUME NEW s \in Sessions
    PROVE  Holds(s) \subseteq Requests /\ (s.deferred # None => s.deferred \in Requests)
BY DEF Holds, Sessions, Initialize

\* fail_session: what waited for the session or, for it, for the disk, is answered.
Failing(st, k) == Holds(st.session[k]) \cup {r \in st.disk.waiting : asked[r].key = k}

LEMMA FailFacts ==
    ASSUME NEW st \in States, NEW k \in Keys
    PROVE  LET z == Fail(st, k)
               R == Failing(st, k)
           IN  /\ z \in States
               /\ z.session = [st.session EXCEPT ![k] = None]
               /\ \A j \in Keys : j # k => z.link[j] = st.link[j] /\ z.health[j] = st.health[j]
               /\ z.link[k].held = st.link[k].held /\ z.health[k].phase = "failed"
               /\ z.disk.waiting = st.disk.waiting \ R
               /\ \A r \in Requests :
                    z.answered[r] = IF r \in R THEN st.answered[r] + 1 ELSE st.answered[r]
<1> DEFINE t == Retire(st, k)
           R == Failing(st, k)
<1>1. Fail(st, k) = Answer(t, R)
  BY DEF Fail, Failing
<1>2. /\ t \in States
      /\ t.session = [st.session EXCEPT ![k] = None]
      /\ \A j \in Keys : j # k => t.link[j] = st.link[j] /\ t.health[j] = st.health[j]
      /\ t.link[k].held = st.link[k].held /\ t.health[k].phase = "failed"
      /\ t.disk = st.disk /\ t.answered = st.answered
  BY RetireFacts
<1> HIDE DEF t, R
<1> QED
  BY <1>1, <1>2, AnswerFacts DEF R

SameButInbox(l, m) ==
    /\ l.frames = m.frames /\ l.control = m.control /\ l.owed = m.owed
    /\ l.shown = m.shown /\ l.held = m.held

\* A message is sent to the server of k.
LEMMA SendFacts ==
    ASSUME NEW st \in States, NEW k \in Keys, NEW msgs \in Seq(Messages)
    PROVE  LET z == Send(st, k, msgs)
           IN  /\ z \in States
               /\ z.session = st.session /\ z.health = st.health
               /\ z.disk = st.disk /\ z.answered = st.answered
               /\ \A j \in Keys : j # k => z.link[j] = st.link[j]
               /\ z.link[k].inbox = st.link[k].inbox \o msgs
               /\ SameButInbox(z.link[k], st.link[k])
<1> DEFINE z == Send(st, k, msgs)
           l == [st.link[k] EXCEPT !.inbox = @ \o msgs]
<1>1. l \in Links
  <2>1. st.link[k] \in Links
    BY DEF States
  <2>2. st.link[k].inbox \o msgs \in Seq(Messages)
    BY <2>1 DEF Links
  <2> QED
    BY <2>1, <2>2 DEF Links
<1>2. z = [st EXCEPT !.link = [st.link EXCEPT ![k] = l]]
  BY DEF Send
<1>3. st.link \in [Keys -> Links]
  BY DEF States
<1>4. l.inbox = st.link[k].inbox \o msgs /\ SameButInbox(l, st.link[k])
  BY <1>3 DEF Links, SameButInbox
<1> HIDE DEF l
<1>5. z \in States
  BY ZenonT(40), <1>1, <1>2, <1>3 DEF States
<1>6. /\ z.session = st.session /\ z.health = st.health
      /\ z.disk = st.disk /\ z.answered = st.answered
      /\ z.link = [st.link EXCEPT ![k] = l]
  BY <1>2 DEF States
<1> HIDE DEF z
<1>7. z.link[k] = l /\ \A j \in Keys : j # k => z.link[j] = st.link[j]
  BY <1>3, <1>6
<1>8. z.link[k].inbox = st.link[k].inbox \o msgs /\ SameButInbox(z.link[k], st.link[k])
  BY <1>4, <1>7
<1> QED
  BY <1>5, <1>6, <1>7, <1>8 DEF z

LEMMA SyncMessages ==
    ASSUME NEW s \in Sessions, NEW d \in Nat
    PROVE  Sync(s, d) \in Seq(Messages)
<1>1. Msg("close", None, s.opened) \in Messages /\ Msg("open", None, d) \in Messages
  BY DEF Msg, Messages, MessageKinds, Docs, Sessions
<1> QED
  BY <1>1 DEF Sync

LEMMA EnterFacts ==
    ASSUME NEW st \in States, NEW k \in Keys, NEW r \in Requests, asked[r].doc \in Nat,
           st.session[k] # None
    PROVE  LET z == Enter(st, k, r)
               s == st.session[k]
               x == z.session[k]
           IN  /\ z \in States
               /\ \A j \in Keys : j # k => z.session[j] = st.session[j]
               /\ x \in Sessions /\ x.nextId = s.nextId + 1
               /\ x.pending = s.pending \cup {[id |-> s.nextId, r |-> r]}
               /\ x.opened = (IF s.sync = "disk" THEN s.opened ELSE asked[r].doc)
               /\ x.state = s.state /\ x.sync = s.sync /\ x.retired = s.retired
               /\ x.deferred = s.deferred
               /\ z.link = st.link /\ z.health = st.health
               /\ z.disk.waiting = st.disk.waiting \ {r}
               /\ z.answered = st.answered
<1> DEFINE s == st.session[k]
           x == [s EXCEPT !.nextId = @ + 1,
                          !.pending = @ \cup {[id |-> s.nextId, r |-> r]},
                          !.opened = IF s.sync = "disk" THEN @ ELSE asked[r].doc]
           d == [st.disk EXCEPT !.waiting = @ \ {r}]
           z == Enter(st, k, r)
<1>1. s \in Sessions
  BY DEF States
<1>2. x \in Sessions
  <2>1. s.nextId + 1 \in Nat
        /\ (IF s.sync = "disk" THEN s.opened ELSE asked[r].doc) \in Nat \cup {None}
    BY <1>1 DEF Sessions
  <2>2. s.pending \cup {[id |-> s.nextId, r |-> r]}
          \in SUBSET [id : Nat, r : Requests \cup {Initialize}]
    BY <1>1 DEF Sessions
  <2> HIDE DEF s
  <2> QED
    BY <1>1, <2>1, <2>2 DEF Sessions
<1>3. /\ x.nextId = s.nextId + 1
      /\ x.pending = s.pending \cup {[id |-> s.nextId, r |-> r]}
      /\ x.opened = (IF s.sync = "disk" THEN s.opened ELSE asked[r].doc)
      /\ x.state = s.state /\ x.sync = s.sync /\ x.retired = s.retired
      /\ x.deferred = s.deferred
  <2> HIDE DEF s
  <2> QED
    BY <1>1 DEF Sessions
<1>4. d \in Disks /\ d.waiting = st.disk.waiting \ {r}
  BY DEF Disks, States
<1>5. z = [st EXCEPT !.session = [st.session EXCEPT ![k] = x], !.disk = d]
  BY ZenonT(40) DEF Enter
<1> HIDE DEF x, d, s
<1>6. z \in States
  <2>1. st.session \in [Keys -> Sessions \cup {None}]
    BY DEF States
  <2>2. [st.session EXCEPT ![k] = x] \in [Keys -> Sessions \cup {None}]
    BY <1>2, <2>1
  <2> HIDE DEF z
  <2> QED
    BY <1>4, <1>5, <2>2 DEF States
<1>7. /\ z.session = [st.session EXCEPT ![k] = x] /\ z.disk = d
      /\ z.link = st.link /\ z.health = st.health /\ z.answered = st.answered
  BY <1>5 DEF States
<1> HIDE DEF z
<1>8. z.session[k] = x /\ \A j \in Keys : j # k => z.session[j] = st.session[j]
  BY <1>7 DEF States
<1> QED
  BY <1>2, <1>3, <1>4, <1>6, <1>7, <1>8 DEF z, s

----------------------------------------------------------------------------------
(* What the manager's operators keep *)

Core(st, W) ==
    /\ st \in States /\ asked \in Seq(Asked) /\ Len(asked) <= MaxRequests
    /\ Books(st, W) /\ Lives(st)
Sound(st, W) == Core(st, W) /\ Expects(st) /\ Reads(st)

\* The servers of the other keys are sound.
SoundElsewhere(st, k) ==
    \A j \in Keys \ {k} : st.session[j] # None =>
        Expected(st.session[j], st.link[j]) /\ ReadsWell(st.session[j], st.link[j])

\* A request that is in nobody's hands but the manager's.
Loose(st, W, r) ==
    /\ r \in 1..Len(asked) /\ st.answered[r] = 0 /\ r \notin W
    /\ \A k \in Keys : st.session[k] # None => r \notin Holds(st.session[k])

LEMMA CoreAnswer ==
    ASSUME NEW st, NEW W, NEW R, Core(st, W), \A r \in R \cap Requests : Loose(st, W, r)
    PROVE  Core(Answer(st, R), W)
<1> DEFINE z == Answer(st, R)
<1>1. /\ z \in States
      /\ z.session = st.session /\ z.link = st.link /\ z.health = st.health
      /\ z.disk.waiting = st.disk.waiting \ R
      /\ \A r \in Requests :
            z.answered[r] = IF r \in R THEN st.answered[r] + 1 ELSE st.answered[r]
  BY AnswerFacts DEF Core
<1> HIDE DEF z
<1>2. Lives(z)
  BY <1>1 DEF Core, Lives
<1>3. 1..Len(asked) \subseteq Requests /\ st.answered \in [Requests -> Nat]
  BY BoundsAreNumbers DEF Core, Requests, States
<1>4. ASSUME NEW k \in Keys, z.session[k] # None PROVE Booked(z.session[k], k, z, W)
  <2>1. Booked(st.session[k], k, st, W)
    BY <1>1, <1>4 DEF Core, Books
  <2>2. \A r \in Holds(st.session[k]) : r \in Requests /\ r \notin R
    BY <1>1, <1>3, <1>4, <2>1 DEF Booked, Loose
  <2> QED
    BY <1>1, <2>1, <2>2 DEF Booked
<1>5. /\ \A r \in Requests : z.answered[r] <= 1
      /\ \A r \in Requests : r > Len(asked) => z.answered[r] = 0
  BY SMTT(40), <1>1, <1>3 DEF Core, Books, Loose, Requests
<1>6. \A r \in W : z.answered[r] = 0 /\ r \notin z.disk.waiting
  BY <1>1, <1>3 DEF Core, Books, Loose
<1>7. \A r \in z.disk.waiting :
         /\ r \in 1..Len(asked) /\ z.answered[r] = 0
         /\ z.session[asked[r].key] # None
         /\ z.session[asked[r].key].state = "ready"
  BY <1>1, <1>3 DEF Core, Books
<1> QED
  BY <1>1, <1>2, <1>4, <1>5, <1>6, <1>7 DEF Core, Books, z

LEMMA SoundAnswer ==
    ASSUME NEW st, NEW W, NEW R, Sound(st, W), \A r \in R \cap Requests : Loose(st, W, r)
    PROVE  Sound(Answer(st, R), W)
<1>1. st \in States /\ Core(Answer(st, R), W)
  BY CoreAnswer DEF Sound, Core
<1>2. Answer(st, R).session = st.session /\ Answer(st, R).link = st.link
  BY <1>1, AnswerFacts
<1> QED
  BY <1>1, <1>2 DEF Sound, Expects, Reads

LEMMA CoreFail ==
    ASSUME NEW st, NEW W, NEW k \in Keys, Core(st, W), SoundElsewhere(st, k), st.session[k] # None
    PROVE  Sound(Fail(st, k), W)
<1> DEFINE z == Fail(st, k)
           R == Failing(st, k)
<1>types. /\ st \in States /\ 1..Len(asked) \subseteq Requests
          /\ st.answered \in [Requests -> Nat]
          /\ st.session \in [Keys -> Sessions \cup {None}]
  BY BoundsAreNumbers DEF Core, Requests, States
<1>1. /\ z \in States
      /\ z.session = [st.session EXCEPT ![k] = None]
      /\ \A j \in Keys : j # k => z.link[j] = st.link[j] /\ z.health[j] = st.health[j]
      /\ z.link[k].held = st.link[k].held /\ z.health[k].phase = "failed"
      /\ z.disk.waiting = st.disk.waiting \ R
      /\ \A r \in Requests :
            z.answered[r] = IF r \in R THEN st.answered[r] + 1 ELSE st.answered[r]
  BY <1>types, FailFacts
<1> HIDE DEF z
<1>2. z.session[k] = None /\ \A j \in Keys : j # k => z.session[j] = st.session[j]
  BY <1>types, <1>1
<1>3. Lives(z)
  BY <1>1, <1>2 DEF Core, Lives
<1>4. Expects(z) /\ Reads(z)
  BY <1>1, <1>2 DEF SoundElsewhere, Expects, Reads
\* Whoever is answered was answered by nobody, and is held by no other session.
<1>5. Booked(st.session[k], k, st, W)
  BY DEF Core, Books
<1>6. \A r \in R : r \in 1..Len(asked) /\ asked[r].key = k /\ st.answered[r] = 0 /\ r \notin W
  BY <1>5 DEF Failing, Booked, Core, Books
<1> HIDE DEF R
<1>7. ASSUME NEW j \in Keys, z.session[j] # None PROVE Booked(z.session[j], j, z, W)
  <2>1. j # k /\ z.session[j] = st.session[j] /\ Booked(st.session[j], j, st, W)
    BY <1>2, <1>7 DEF Core, Books
  <2>2. \A r \in Holds(st.session[j]) : r \in Requests /\ r \notin R
    BY <1>types, <1>6, <2>1 DEF Booked
  <2> QED
    BY <1>1, <2>1, <2>2 DEF Booked
<1>8. /\ \A r \in Requests : z.answered[r] <= 1
      /\ \A r \in Requests : r > Len(asked) => z.answered[r] = 0
  BY SMTT(40), <1>types, <1>1, <1>6 DEF Core, Books, Requests
<1>9. W \subseteq 1..Len(asked) /\ \A r \in W : z.answered[r] = 0 /\ r \notin z.disk.waiting
  BY <1>types, <1>1, <1>6 DEF Core, Books
<1>10. \A r \in z.disk.waiting :
         /\ r \in 1..Len(asked) /\ z.answered[r] = 0
         /\ z.session[asked[r].key] # None
         /\ z.session[asked[r].key].state = "ready"
  <2>1. ASSUME NEW r \in z.disk.waiting
        PROVE  /\ r \in 1..Len(asked) /\ z.answered[r] = 0
               /\ z.session[asked[r].key] # None
               /\ z.session[asked[r].key].state = "ready"
    <3>1. r \in st.disk.waiting /\ r \notin R /\ r \in 1..Len(asked) /\ r \in Requests
      BY <1>types, <1>1 DEF Core, Books
    <3>2. asked[r].key \in Keys /\ asked[r].key # k
      <4>1. asked[r] \in Asked
        BY <3>1 DEF Core
      <4> QED
        BY <3>1, <4>1 DEF R, Failing, Asked
    <3> QED
      BY <1>1, <1>2, <3>1, <3>2 DEF Core, Books
  <2> QED
    BY <2>1
<1> QED
  BY <1>1, <1>3, <1>4, <1>7, <1>8, <1>9, <1>10 DEF Sound, Core, Books, z

LEMMA SoundFail ==
    ASSUME NEW st, NEW W, NEW k \in Keys, Sound(st, W), st.session[k] # None
    PROVE  Sound(Fail(st, k), W)
BY CoreFail DEF Sound, SoundElsewhere, Expects, Reads

\* sync_document leaves the text of the request open at the end of the channel.
LEMMA Synced ==
    ASSUME NEW box \in Seq(Messages), NEW s \in Sessions, NEW d \in Nat
    PROVE  LET b == box \o Sync(s, d)
           IN  /\ b \in Seq(Messages)
               /\ Ids(b, Calls) = Ids(box, Calls)
               /\ NoneTwice(box, Calls) => NoneTwice(b, Calls)
               /\ s.sync = "disk" => b = box
               /\ \A shown : s.sync # "disk" /\ Shows(box, shown, Len(box), s.opened)
                     => Shows(b, shown, Len(b), d)
               /\ \A shown : AsksFit(box, shown) => AsksFit(b, shown)
<1> DEFINE b == box \o Sync(s, d)
           x == Msg("close", None, s.opened)
           y == Msg("open", None, d)
           c == Append(box, x)
<1>1. /\ x \in Messages /\ x.m = "close" /\ x.m \notin Calls /\ x.m # "ask"
      /\ y \in Messages /\ y.m = "open" /\ y.doc = d /\ y.m \notin Calls /\ y.m # "ask"
  BY DEF Msg, Messages, MessageKinds, Docs, Sessions, Calls
<1>2. CASE s.sync = "disk" \/ s.opened = d
  <2>1. b = box
    BY <1>2 DEF Sync
  <2> QED
    BY <1>2, <2>1
<1>3. CASE ~(s.sync = "disk" \/ s.opened = d) /\ s.opened = None
  <2>1. b = Append(box, y)
    <3>1. Sync(s, d) = <<>> \o <<y>> /\ <<>> \in Seq(Messages) /\ box \o <<>> = box
      BY <1>3 DEF Sync
    <3> HIDE DEF x, y
    <3> QED
      BY <1>1, <3>1, OneMore
  <2> HIDE DEF b, x, y
  <2>2. Ids(b, Calls) = Ids(box, Calls) /\ (NoneTwice(box, Calls) => NoneTwice(b, Calls))
    BY <1>1, <2>1, CallsAppended
  <2>3. \A shown : Shows(b, shown, Len(b), d)
    BY <1>1, <2>1, LastText
  <2>4. \A shown : AsksFit(box, shown) => AsksFit(b, shown)
    BY <1>1, <2>1, AsksAppended
  <2>5. b \in Seq(Messages)
    BY <1>1, <2>1, Appended
  <2> QED
    BY <1>3, <2>2, <2>3, <2>4, <2>5 DEF b
<1>4. CASE ~(s.sync = "disk" \/ s.opened = d) /\ s.opened # None
  <2>1. b = Append(c, y)
    <3>1. Sync(s, d) = <<x>> \o <<y>>
      BY <1>4 DEF Sync
    <3> HIDE DEF x, y
    <3> DEFINE t == <<x>>
    <3>2. t \in Seq(Messages) /\ box \o t = c
      BY <1>1, OneMore DEF c
    <3> HIDE DEF c, t
    <3>3. box \o (t \o <<y>>) = Append(box \o t, y)
      BY <1>1, <3>2, OneMore
    <3> QED
      BY <3>1, <3>2, <3>3 DEF t
  <2> HIDE DEF b, x, y
  <2>2. c \in Seq(Messages) /\ box \o Sync(s, d) = b
    BY <1>1, Appended DEF b
  <2>3. /\ Ids(c, Calls) = Ids(box, Calls) /\ (NoneTwice(box, Calls) => NoneTwice(c, Calls))
        /\ \A shown : AsksFit(box, shown) => AsksFit(c, shown)
    BY <1>1, CallsAppended, AsksAppended
  <2> HIDE DEF c
  <2>4. Ids(b, Calls) = Ids(c, Calls) /\ (NoneTwice(c, Calls) => NoneTwice(b, Calls))
    BY <1>1, <2>1, <2>2, CallsAppended
  <2>5. \A shown : Shows(b, shown, Len(b), d)
    BY <1>1, <2>1, <2>2, LastText
  <2>6. \A shown : AsksFit(c, shown) => AsksFit(b, shown)
    BY <1>1, <2>1, <2>2, AsksAppended
  <2>7. b \in Seq(Messages)
    BY <1>1, <2>1, <2>2, Appended
  <2> QED
    BY <1>4, <2>3, <2>4, <2>5, <2>6, <2>7 DEF b
<1> QED
  BY <1>2, <1>3, <1>4

\* A request is sent: it is pending under a new id, with its text open before it.
LEMMA SoundSend ==
    ASSUME NEW st, NEW W, NEW k \in Keys, NEW r, Sound(st, W),
           Loose(st, W, r), asked[r].key = k,
           st.session[k] # None, st.session[k].state = "ready"
    PROVE  Sound(Send(Enter(st, k, r), k, Asking(st, k, r)), W)
<1> DEFINE s == st.session[k]
           d == asked[r].doc
           e == Enter(st, k, r)
           ask == Msg("ask", s.nextId, d)
           new == [id |-> s.nextId, r |-> r]
           x == e.session[k]
           z == Send(e, k, Asking(st, k, r))
           l == st.link[k]
           b == l.inbox \o Sync(s, d)
<1>types. /\ st \in States /\ st.answered \in [Requests -> Nat]
          /\ s \in Sessions /\ s.nextId \in Nat /\ l \in Links
  BY DEF Sound, Core, States, Sessions
<1>r. /\ 1..Len(asked) \subseteq Requests /\ r \in Requests /\ r \in 1..Len(asked)
      /\ asked[r] \in Asked /\ d \in Nat
  <2>1. /\ 1..Len(asked) \subseteq Requests /\ r \in Requests /\ r \in 1..Len(asked)
        /\ asked[r] \in Asked
    BY BoundsAreNumbers DEF Sound, Core, Requests, Loose
  <2> QED
    BY <2>1 DEF Asked
<1>1. /\ e \in States
      /\ \A j \in Keys : j # k => e.session[j] = st.session[j]
      /\ x \in Sessions /\ x.nextId = s.nextId + 1 /\ x.pending = s.pending \cup {new}
      /\ x.opened = (IF s.sync = "disk" THEN s.opened ELSE d)
      /\ x.state = s.state /\ x.sync = s.sync /\ x.retired = s.retired
      /\ x.deferred = s.deferred
      /\ e.link = st.link /\ e.health = st.health
      /\ e.disk.waiting = st.disk.waiting \ {r} /\ e.answered = st.answered
  BY <1>types, <1>r, EnterFacts
<1>new. new.id = s.nextId /\ new.r = r /\ x # None
  BY <1>1, NoneIsNothing
<1> HIDE DEF e, x, new
<1>2. ask \in Messages /\ ask.m = "ask" /\ ask.id = s.nextId /\ ask.doc = d
      /\ ask.m \in Calls
  BY <1>types, <1>r DEF Msg, Messages, MessageKinds, Docs, Calls
<1>3. Sync(s, d) \in Seq(Messages)
  BY <1>types, <1>r, SyncMessages
<1>4. Asking(st, k, r) = Sync(s, d) \o <<ask>>
  BY DEF Asking
<1>5. l.inbox \in Seq(Messages) /\ l.frames \in Seq(Messages)
  BY <1>types DEF Links
<1>box. /\ b \in Seq(Messages)
        /\ Ids(b, Calls) = Ids(l.inbox, Calls)
        /\ NoneTwice(l.inbox, Calls) => NoneTwice(b, Calls)
        /\ s.sync # "disk" /\ Shows(l.inbox, l.shown, Len(l.inbox), s.opened)
              => Shows(b, l.shown, Len(b), d)
        /\ s.sync = "disk" => b = l.inbox
        /\ AsksFit(l.inbox, l.shown) => AsksFit(b, l.shown)
  <2> HIDE DEF d, s, l
  <2> QED
    BY <1>types, <1>r, <1>5, Synced
<1> HIDE DEF ask, d
<1>6. Asking(st, k, r) \in Seq(Messages) /\ l.inbox \o Asking(st, k, r) = Append(b, ask)
  <2> DEFINE t == Sync(s, d)
             q == l.inbox
  <2> HIDE DEF t, q, s, l
  <2>1. t \o <<ask>> \in Seq(Messages) /\ q \o (t \o <<ask>>) = Append(q \o t, ask)
    BY ZenonT(40), <1>2, <1>3, <1>5, OneMore DEF t, q
  <2> QED
    BY <1>4, <2>1 DEF t, q
<1>7. /\ z \in States
      /\ z.session = e.session /\ z.health = e.health
      /\ z.disk = e.disk /\ z.answered = e.answered
      /\ \A j \in Keys : j # k => z.link[j] = e.link[j]
      /\ z.link[k].inbox = e.link[k].inbox \o Asking(st, k, r)
      /\ SameButInbox(z.link[k], e.link[k])
  <2> DEFINE msgs == Asking(st, k, r)
  <2>1. msgs \in Seq(Messages) /\ e \in States
    BY <1>1, <1>6
  <2> HIDE DEF msgs, b, s, l
  <2> QED
    BY <2>1, SendFacts DEF msgs
<1> HIDE DEF z, b
<1>8. /\ z.session[k] = x /\ \A j \in Keys : j # k => z.session[j] = st.session[j]
      /\ \A j \in Keys : j # k => z.link[j] = st.link[j]
  BY <1>1, <1>7 DEF x
<1>9. x # None /\ x \in Sessions
  BY <1>1, <1>new
<1>10. /\ z.link[k].inbox = Append(b, ask) /\ z.link[k].frames = l.frames
       /\ z.link[k].owed = l.owed /\ z.link[k].shown = l.shown
       /\ z.link[k].control = l.control /\ z.link[k].held = l.held
  BY ZenonT(40), <1>1, <1>6, <1>7 DEF SameButInbox
<1>11. Lives(z)
  BY <1>1, <1>7, <1>8, <1>new, <1>9, <1>10 DEF Sound, Core, Lives
<1>12. Expects(z)
  <2>1. Expected(s, l)
    BY DEF Sound, Expects
  <2>2. \A p \in s.pending : p.id \in Nat
    BY <1>types DEF Sessions
  <2>3. \A id \in s.retired : id \in Nat
    BY <1>types DEF Sessions
  <2>4. s.nextId \notin {p.id : p \in s.pending} \cup s.retired
    BY <1>types, <2>1, <2>2, <2>3 DEF Expected
  <2>5. /\ Ids(Append(b, ask), Calls) = Ids(l.inbox, Calls) \cup {s.nextId}
        /\ NoneTwice(Append(b, ask), Calls)
    BY <1>2, <1>box, <2>1, <2>4, CallsAppended DEF Expected
  <2>6. {p.id : p \in x.pending} = {p.id : p \in s.pending} \cup {s.nextId}
    BY <1>1, <1>new, <1>9
  <2>7. /\ \A p, q \in x.pending : p.id = q.id => p = q
        /\ \A p \in x.pending : p.id < x.nextId
        /\ \A id \in x.retired : id < x.nextId
    BY SMTT(40), <1>types, <1>1, <1>new, <1>9, <2>1, <2>2, <2>3, <2>4 DEF Expected
  <2>8. Expected(x, z.link[k])
    BY <1>1, <1>new, <1>9, <1>10, <2>1, <2>4, <2>5, <2>6, <2>7 DEF Expected
  <2> QED
    BY <1>8, <2>8 DEF Sound, Expects
<1>13. Reads(z)
  <2>1. ReadsWell(s, l)
    BY DEF Sound, Core, Reads
  <2>2. \A p \in x.pending : p.id # 0
    BY <1>types, <1>1, <1>new, <1>9, <2>1 DEF ReadsWell
  <2>3. Shows(b, l.shown, Len(b), x.opened)
            => Shows(Append(b, ask), l.shown, Len(Append(b, ask)), x.opened)
    BY <1>2, <1>box, LastText DEF Texts
  <2>4. ~l.control => Shows(b, l.shown, Len(b), x.opened)
    BY <1>1, <1>new, <1>9, <1>box, <2>1 DEF ReadsWell
  <2>5. ~l.control /\ s.sync # "disk" => AsksFit(Append(b, ask), l.shown)
    BY <1>2, <1>1, <1>new, <1>9, <1>box, <2>1, <2>4, AsksAppended DEF ReadsWell
  <2>6. ReadsWell(x, z.link[k])
    BY <1>types, <1>1, <1>new, <1>9, <1>10, <2>1, <2>2, <2>3, <2>4, <2>5 DEF ReadsWell
  <2> QED
    BY <1>8, <2>6 DEF Sound, Core, Reads
<1>14. Books(z, W)
  <2>1. Holds(x) \subseteq Holds(s) \cup {r}
    BY <1>1, <1>new, <1>9 DEF Holds
  <2>2. Booked(s, k, st, W) /\ r \notin Holds(s)
    BY DEF Sound, Core, Books, Loose
  <2>3. \A p \in s.pending : p.r # r
    BY <1>r, <2>2 DEF Holds, Initialize, Requests
  <2>4. s.deferred # r
    BY <1>r, <2>2, NoneIsNothing DEF Holds, Requests
  <2>5. Booked(x, k, z, W)
    <3> HIDE DEF s, l, z
    <3>1. ASSUME NEW u \in Holds(x)
          PROVE  /\ u \in 1..Len(asked) /\ asked[u].key = k
                 /\ z.answered[u] = 0 /\ u \notin W /\ u \notin z.disk.waiting
      <4>1. z.answered = st.answered /\ z.disk.waiting = st.disk.waiting \ {r}
        BY <1>1, <1>7
      <4>2. CASE u = r
        BY <4>1, <4>2, <1>r DEF Loose
      <4>3. CASE u \in Holds(s)
        BY <4>1, <4>3, <2>2 DEF Booked
      <4> QED
        BY <2>1, <4>2, <4>3
    <3>2. \A p, q \in x.pending : p.r = q.r => p = q
      BY <1>1, <1>new, <2>2, <2>3 DEF Booked
    <3>3. \A p \in x.pending : p.r # x.deferred
      BY <1>1, <1>new, <2>2, <2>4 DEF Booked
    <3> QED
      BY <3>1, <3>2, <3>3 DEF Booked
  <2>6. ASSUME NEW j \in Keys, j # k, z.session[j] # None
        PROVE  Booked(z.session[j], j, z, W)
    <3>1. z.session[j] = st.session[j] /\ Booked(st.session[j], j, st, W)
      BY <1>8, <2>6 DEF Sound, Core, Books
    <3> QED
      BY <1>1, <1>7, <3>1 DEF Booked
  <2>7. \A q \in z.disk.waiting :
           /\ q \in 1..Len(asked) /\ z.answered[q] = 0
           /\ z.session[asked[q].key] # None
           /\ z.session[asked[q].key].state = "ready"
    <3>1. \A q \in z.disk.waiting :
             /\ q \in st.disk.waiting /\ q \in 1..Len(asked) /\ st.answered[q] = 0
             /\ st.session[asked[q].key] # None
             /\ st.session[asked[q].key].state = "ready"
      BY <1>1, <1>7 DEF Sound, Core, Books
    <3>2. \A q \in 1..Len(asked) : asked[q].key \in Keys
      <4>1. \A q \in 1..Len(asked) : asked[q] \in Asked
        BY DEF Sound, Core
      <4> QED
        BY <4>1 DEF Asked
    <3> QED
      BY SMTT(40), <1>1, <1>7, <1>8, <1>new, <1>9, <3>1, <3>2
  <2>8. /\ \A q \in Requests : z.answered[q] <= 1
        /\ \A q \in Requests : q > Len(asked) => z.answered[q] = 0
        /\ W \subseteq 1..Len(asked)
        /\ \A q \in W : z.answered[q] = 0 /\ q \notin z.disk.waiting
    BY <1>1, <1>7 DEF Sound, Core, Books
  <2> QED
    BY <1>8, <2>5, <2>6, <2>7, <2>8 DEF Books
<1> QED
  BY <1>7, <1>11, <1>12, <1>13, <1>14 DEF Sound, Core, z, e

LEMMA SoundDispatch ==
    ASSUME NEW st, NEW W, NEW k \in Keys, NEW r, Sound(st, W),
           Loose(st, W, r), asked[r].key = k,
           st.session[k] # None, st.session[k].state = "ready"
    PROVE  Sound(Dispatch(st, k, r), W)
<1>1. Sound(Answer(st, {r}), W) /\ Answer(st, {r}).session = st.session
  BY ZenonT(40), SoundAnswer, AnswerFacts DEF Sound, Core
<1>2. Sound(Fail(Answer(st, {r}), k), W)
  BY <1>1, SoundFail
<1> QED
  BY <1>2, SoundSend DEF Dispatch

\* A request that goes to the revalidation lane waits for the disk.
LEMMA SoundRevalidate ==
    ASSUME NEW st, NEW W, NEW k \in Keys, NEW r, Sound(st, W),
           Loose(st, W, r), asked[r].key = k,
           st.session[k] # None, st.session[k].state = "ready"
    PROVE  Sound(DispatchOrRevalidate(st, k, r), W)
<1> DEFINE z == [st EXCEPT !.disk.jobs = Append(@, r), !.disk.waiting = @ \cup {r}]
<1>1. CASE st.session[k].sync = "open"
  BY <1>1, SoundDispatch DEF DispatchOrRevalidate
<1>2. CASE st.session[k].sync # "open" /\ (st.disk.wedged \/ Len(st.disk.jobs) = 2)
  BY <1>2, SoundAnswer DEF DispatchOrRevalidate
<1>3. CASE st.session[k].sync # "open" /\ ~(st.disk.wedged \/ Len(st.disk.jobs) = 2)
  <2> DEFINE d == [st.disk EXCEPT !.jobs = Append(@, r), !.waiting = @ \cup {r}]
  <2>1. st \in States /\ st.disk \in Disks /\ r \in Requests
    BY BoundsAreNumbers DEF Sound, Core, States, Loose, Requests
  <2>2. d \in Disks /\ d.waiting = st.disk.waiting \cup {r}
    <3>1. Append(st.disk.jobs, r) \in Seq(Requests)
      BY <2>1 DEF Disks
    <3> QED
      BY <2>1, <3>1 DEF Disks
  <2>3. z = [st EXCEPT !.disk = d]
    BY <2>1 DEF States, Disks
  <2> HIDE DEF d
  <2>4. /\ z \in States /\ z.session = st.session /\ z.link = st.link
        /\ z.health = st.health /\ z.answered = st.answered
        /\ z.disk.waiting = st.disk.waiting \cup {r}
    BY <2>1, <2>2, <2>3 DEF States
  <2> HIDE DEF z
  <2>5. Lives(z) /\ Expects(z) /\ Reads(z)
    BY <2>4 DEF Sound, Core, Lives, Expects, Reads
  <2>6. ASSUME NEW j \in Keys, z.session[j] # None PROVE Booked(z.session[j], j, z, W)
    BY <2>4, <2>6 DEF Sound, Core, Books, Booked, Loose
  <2>7. Books(z, W)
    BY <2>4, <2>6 DEF Sound, Core, Books, Loose
  <2>8. Sound(z, W)
    BY <2>4, <2>5, <2>7 DEF Sound, Core
  <2> QED
    BY <1>3, <2>8 DEF DispatchOrRevalidate, z
<1> QED
  BY <1>1, <1>2, <1>3

\* The session of one key, or what lies in its channels, has changed.
LEMMA SoundChange ==
    ASSUME NEW st, NEW z \in States, NEW W, NEW k \in Keys,
           Core(st, W), SoundElsewhere(st, k), st.session[k] # None, z.session[k] # None,
           \A j \in Keys : j # k => z.session[j] = st.session[j] /\ z.link[j] = st.link[j],
           z.link[k].held = st.link[k].held, z.health = st.health,
           z.disk.waiting = st.disk.waiting, z.answered = st.answered,
           st.session[k].state = "ready" => z.session[k].state = "ready",
           Booked(z.session[k], k, st, W)
    PROVE  /\ Core(z, W) /\ SoundElsewhere(z, k)
           /\ Expected(z.session[k], z.link[k]) /\ ReadsWell(z.session[k], z.link[k])
                 => Sound(z, W)
<1>1. Lives(z)
  BY DEF Core, Lives
<1>2. ASSUME NEW j \in Keys, z.session[j] # None PROVE Booked(z.session[j], j, z, W)
  BY <1>2 DEF Core, Books, Booked
<1>3. \A q \in 1..Len(asked) : asked[q].key \in Keys
  <2>1. \A q \in 1..Len(asked) : asked[q] \in Asked
    BY DEF Core
  <2> QED
    BY <2>1 DEF Asked
<1>4. \A r \in z.disk.waiting :
         /\ r \in 1..Len(asked) /\ z.answered[r] = 0
         /\ z.session[asked[r].key] # None
         /\ z.session[asked[r].key].state = "ready"
  BY <1>3 DEF Core, Books
<1>5. Core(z, W)
  BY <1>1, <1>2, <1>4 DEF Core, Books
<1>6. SoundElsewhere(z, k)
  BY DEF SoundElsewhere
<1>7. Expected(z.session[k], z.link[k]) /\ ReadsWell(z.session[k], z.link[k]) => Sound(z, W)
  BY <1>5, <1>6 DEF Sound, SoundElsewhere, Expects, Reads
<1> QED
  BY <1>5, <1>6, <1>7

LEMMA SoundParts ==
    ASSUME NEW st, NEW W, NEW k \in Keys, Sound(st, W)
    PROVE  /\ st \in States /\ Core(st, W) /\ SoundElsewhere(st, k)
           /\ st.session[k] # None =>
                /\ Expected(st.session[k], st.link[k]) /\ ReadsWell(st.session[k], st.link[k])
                /\ Booked(st.session[k], k, st, W) /\ st.session[k] \in Sessions
           /\ st.link[k] \in Links
BY DEF Sound, Core, SoundElsewhere, Expects, Reads, Books, States

\* A message that is neither a request nor a text.
LEMMA OtherMessage ==
    ASSUME NEW s \in Sessions, NEW l \in Links, NEW m \in Links, NEW x \in Messages,
           x.m \notin Calls, x.m \notin Texts,
           m.inbox = Append(l.inbox, x), SameButInbox(m, l)
    PROVE  /\ Expected(s, l) => Expected(s, m)
           /\ ReadsWell(s, l) => ReadsWell(s, m)
<1>1. l.inbox \in Seq(Messages) /\ x.m # "ask"
  BY DEF Links, Calls
<1>2. Expected(s, l) => Expected(s, m)
  BY <1>1, CallsAppended DEF Expected, SameButInbox
<1>3. /\ NoAsk(l.inbox) => NoAsk(m.inbox)
      /\ AsksFit(l.inbox, l.shown) => AsksFit(m.inbox, m.shown)
  BY <1>1, AsksAppended DEF SameButInbox
<1>4. Shows(l.inbox, l.shown, Len(l.inbox), s.opened)
        => Shows(m.inbox, m.shown, Len(m.inbox), s.opened)
  BY <1>1, LastText DEF SameButInbox
<1>5. ReadsWell(s, l) => ReadsWell(s, m)
  BY <1>3, <1>4 DEF ReadsWell, SameButInbox
<1> QED
  BY <1>2, <1>5

\* Such a message is sent to the server of k.
LEMMA SoundMessage ==
    ASSUME NEW st, NEW W, NEW k \in Keys, NEW x \in Messages, Sound(st, W),
           x.m \notin Calls, x.m \notin Texts, st.session[k] # None
    PROVE  LET z == Send(st, k, <<x>>)
           IN  Sound(z, W) /\ z.session = st.session /\ z.disk = st.disk
                           /\ z.answered = st.answered
<1> DEFINE z == Send(st, k, <<x>>)
           q == st.link[k].inbox
           t == <<x>>
<1>1. st \in States /\ st.link[k] \in Links /\ q \in Seq(Messages)
  BY SoundParts DEF Links
<1>2. t \in Seq(Messages) /\ q \o t = Append(q, x)
  BY <1>1, OneMore
<1> HIDE DEF t
<1>3. /\ z \in States /\ z.session = st.session /\ z.health = st.health
      /\ z.disk = st.disk /\ z.answered = st.answered
      /\ \A j \in Keys : j # k => z.link[j] = st.link[j]
      /\ z.link[k].inbox = q \o t /\ SameButInbox(z.link[k], st.link[k])
  BY ZenonT(40), <1>1, <1>2, SendFacts DEF t
<1> HIDE DEF z, q
<1>4. /\ Core(st, W) /\ SoundElsewhere(st, k) /\ st.session[k] \in Sessions
      /\ Expected(st.session[k], st.link[k]) /\ ReadsWell(st.session[k], st.link[k])
      /\ Booked(st.session[k], k, st, W)
  BY SoundParts
<1>5. z.link[k] \in Links
  BY <1>3 DEF States
<1>6. Expected(z.session[k], z.link[k]) /\ ReadsWell(z.session[k], z.link[k])
  BY <1>1, <1>2, <1>3, <1>4, <1>5, OtherMessage DEF q
<1>7. z.link[k].held = st.link[k].held
  BY <1>3 DEF SameButInbox
<1>8. Sound(z, W)
  BY ZenonT(40), <1>3, <1>4, <1>6, <1>7, SoundChange
<1> QED
  BY <1>3, <1>8 DEF z, t

\* The pending requests P of a session are taken out and answered.
TakeOut(st, k, P) ==
    Answer([st EXCEPT !.session[k].pending = @ \ P], {q.r : q \in P})

LEMMA CoreTake ==
    ASSUME NEW st, NEW W, NEW k \in Keys, Sound(st, W), st.session[k] # None,
           NEW P, P \subseteq st.session[k].pending
    PROVE  LET z == TakeOut(st, k, P)
               s == st.session[k]
               x == z.session[k]
           IN  /\ Core(z, W) /\ SoundElsewhere(z, k) /\ z.link = st.link
               /\ z.health = st.health /\ x \in Sessions /\ x # None
               /\ x.pending = s.pending \ P /\ x.retired = s.retired
               /\ x.nextId = s.nextId /\ x.opened = s.opened /\ x.deferred = s.deferred
               /\ x.state = s.state /\ x.sync = s.sync
               /\ \A j \in Keys : j # k => z.session[j] = st.session[j]
<1> DEFINE s == st.session[k]
           x == [s EXCEPT !.pending = @ \ P]
           t == [st EXCEPT !.session[k].pending = @ \ P]
           R == {q.r : q \in P}
<1>1. /\ st \in States /\ Core(st, W) /\ SoundElsewhere(st, k) /\ s \in Sessions
      /\ Booked(s, k, st, W)
  BY SoundParts
<1>2. x \in Sessions
  BY <1>1 DEF Sessions
<1>3. /\ x.pending = s.pending \ P /\ x.retired = s.retired
      /\ x.nextId = s.nextId /\ x.opened = s.opened /\ x.deferred = s.deferred
      /\ x.state = s.state /\ x.sync = s.sync
  <2> HIDE DEF s
  <2> QED
    BY <1>1 DEF Sessions
<1>4. t = [st EXCEPT !.session = [st.session EXCEPT ![k] = x]]
  BY DEF x
<1> HIDE DEF x
<1>5. /\ t \in States /\ t.session = [st.session EXCEPT ![k] = x]
      /\ t.link = st.link /\ t.health = st.health /\ t.disk = st.disk
      /\ t.answered = st.answered
  <2>1. [st.session EXCEPT ![k] = x] \in [Keys -> Sessions \cup {None}]
    BY <1>1, <1>2 DEF States
  <2> HIDE DEF t
  <2> QED
    BY <1>1, <1>4, <2>1 DEF States
<1> HIDE DEF t
<1>6. t.session[k] = x /\ \A j \in Keys : j # k => t.session[j] = st.session[j]
  BY <1>1, <1>5 DEF States
<1>7. Holds(x) \subseteq Holds(s) /\ x # None
  BY <1>2, <1>3, NoneIsNothing DEF Holds
<1>8. Booked(x, k, st, W)
  BY <1>1, <1>3, <1>7 DEF Booked
<1>9. Core(t, W) /\ SoundElsewhere(t, k)
  <2>1. /\ t.session[k] # None /\ Booked(t.session[k], k, st, W)
        /\ st.session[k].state = "ready" => t.session[k].state = "ready"
        /\ t.link[k].held = st.link[k].held /\ t.disk.waiting = st.disk.waiting
        /\ \A j \in Keys : j # k => t.session[j] = st.session[j] /\ t.link[j] = st.link[j]
    BY <1>3, <1>5, <1>6, <1>7, <1>8
  <2> QED
    BY <1>1, <1>5, <2>1, SoundChange
<1>10. ASSUME NEW r \in R \cap Requests PROVE Loose(t, W, r)
  <2>1. PICK p \in P : p.r = r
    BY <1>10
  <2>2. r \in Holds(s)
    BY <2>1 DEF Holds, Requests, Initialize
  <2>3. r \notin Holds(x)
    <3>1. r # s.deferred /\ \A q \in s.pending \ P : q.r # r
      BY <1>1, <2>1 DEF Booked
    <3> QED
      BY <1>3, <3>1 DEF Holds
  <2>4. ASSUME NEW j \in Keys, t.session[j] # None PROVE r \notin Holds(t.session[j])
    <3>1. CASE j = k
      BY <1>6, <2>3, <3>1
    <3>2. CASE j # k
      BY <1>1, <1>6, <2>2, <2>4, <3>2 DEF Core, Books, Booked
    <3> QED
      BY <3>1, <3>2
  <2> QED
    BY <1>1, <1>5, <2>2, <2>4 DEF Loose, Booked
<1> HIDE DEF R
<1> DEFINE z == Answer(t, R)
<1>11. Core(z, W) /\ z.session = t.session /\ z.link = t.link /\ z.health = t.health
  BY <1>5, <1>9, <1>10, CoreAnswer, AnswerFacts
<1> HIDE DEF z
<1>12. SoundElsewhere(z, k)
  BY <1>9, <1>11 DEF SoundElsewhere
<1> QED
  BY <1>2, <1>3, <1>5, <1>6, <1>7, <1>11, <1>12 DEF TakeOut, z, t, R, s

\* The messages of the manager that are neither requests nor texts.
LEMMA OwnMessages ==
    /\ \A id \in Nat : LET x == Msg("cancel", id, None)
                        IN x \in Messages /\ x.m \notin Calls /\ x.m \notin Texts
    /\ LET x == Msg("initialized", None, None)
       IN x \in Messages /\ x.m \notin Calls /\ x.m \notin Texts
    /\ LET x == Msg("reply", None, None)
       IN x \in Messages /\ x.m \notin Calls /\ x.m \notin Texts
BY DEF Msg, Messages, MessageKinds, Docs, Calls, Texts

\* A request that is given up is answered, and its id is remembered.
LEMMA SoundGiveUp ==
    ASSUME NEW st, NEW W, NEW k \in Keys, Sound(st, W), st.session[k] # None,
           NEW p \in st.session[k].pending
    PROVE  Sound(GiveUp(st, k, p), W)
<1> DEFINE s == st.session[k]
           P == {p}
           t == TakeOut(st, k, P)
           x == t.session[k]
           y == [x EXCEPT !.retired = @ \cup {p.id}]
           u == [t EXCEPT !.session[k].retired = @ \cup {p.id}]
           box == <<Msg("cancel", p.id, None)>>
<1>0. /\ s \in Sessions /\ Expected(s, st.link[k]) /\ ReadsWell(s, st.link[k])
      /\ p.id \in Nat /\ P \subseteq s.pending
  <2>1. s \in Sessions /\ Expected(s, st.link[k]) /\ ReadsWell(s, st.link[k])
    BY ZenonT(40), SoundParts
  <2> QED
    BY <2>1 DEF Sessions
<1>1. {q.r : q \in P} = {p.r}
  OBVIOUS
<1>2. GiveUp(st, k, p) = IF Fits(st, k, 1) /\ Cardinality(s.retired) < MaxRetired
                         THEN Send(u, k, box) ELSE Fail(t, k)
  BY ZenonT(40), <1>1 DEF GiveUp, TakeOut
<1> HIDE DEF P
<1>3. /\ Core(t, W) /\ SoundElsewhere(t, k) /\ t.link = st.link
      /\ t.health = st.health /\ x \in Sessions /\ x # None
      /\ x.pending = s.pending \ P /\ x.retired = s.retired
      /\ x.nextId = s.nextId /\ x.opened = s.opened /\ x.deferred = s.deferred
      /\ x.state = s.state /\ x.sync = s.sync
  <2>1. P \subseteq st.session[k].pending
    BY <1>0
  <2> HIDE DEF P, y, u
  <2> QED
    BY <2>1, CoreTake
<1> HIDE DEF t, box
<1>4. Sound(Fail(t, k), W)
  BY <1>3, CoreFail
<1>5. y \in Sessions
  <2>1. x.retired \cup {p.id} \in SUBSET Nat
    BY <1>0, <1>3 DEF Sessions
  <2> HIDE DEF x
  <2> QED
    BY <1>3, <2>1 DEF Sessions
<1>6. /\ y.pending = x.pending /\ y.retired = x.retired \cup {p.id}
      /\ y.nextId = x.nextId /\ y.opened = x.opened /\ y.deferred = x.deferred
      /\ y.state = x.state /\ y.sync = x.sync
  <2> HIDE DEF x
  <2> QED
    BY <1>3 DEF Sessions
<1>7. u = [t EXCEPT !.session = [t.session EXCEPT ![k] = y]]
  OBVIOUS
<1> HIDE DEF y, x
<1>8. /\ u \in States /\ u.session = [t.session EXCEPT ![k] = y]
      /\ u.link = t.link /\ u.health = t.health /\ u.disk = t.disk
      /\ u.answered = t.answered
  <2>1. t \in States
    BY <1>3 DEF Core
  <2>2. [t.session EXCEPT ![k] = y] \in [Keys -> Sessions \cup {None}]
    BY <1>5, <2>1 DEF States
  <2> HIDE DEF u
  <2> QED
    BY <1>7, <2>1, <2>2 DEF States
<1> HIDE DEF u
<1>9. u.session[k] = y /\ \A j \in Keys : j # k => u.session[j] = t.session[j]
  BY <1>3, <1>8 DEF Core, States
<1>10. y # None /\ Booked(y, k, t, W)
  <2>1. Booked(x, k, t, W)
    BY <1>3 DEF Core, Books, x
  <2>2. Holds(y) = Holds(x)
    BY <1>6 DEF Holds
  <2> QED
    BY <1>5, <1>6, <2>1, <2>2, NoneIsNothing DEF Booked
<1>11. Expected(y, st.link[k])
  <2>1. /\ {q.id : q \in y.pending} \cup y.retired
               = {q.id : q \in s.pending} \cup s.retired
        /\ {q.id : q \in y.pending} \cap y.retired = {}
    BY <1>0, <1>3, <1>6 DEF Expected, P
  <2>2. p.id < s.nextId
    BY <1>0 DEF Expected
  <2> QED
    BY <1>0, <1>3, <1>6, <2>1, <2>2 DEF Expected
<1>12. ReadsWell(y, st.link[k])
  BY <1>0, <1>3, <1>6 DEF ReadsWell
<1>13. Sound(u, W)
  <2>1. /\ u.session[k] # None /\ Booked(u.session[k], k, t, W) /\ t.session[k] # None
        /\ t.session[k].state = "ready" => u.session[k].state = "ready"
        /\ u.link[k].held = t.link[k].held /\ u.disk.waiting = t.disk.waiting
        /\ \A j \in Keys : j # k => u.session[j] = t.session[j] /\ u.link[j] = t.link[j]
    BY <1>3, <1>6, <1>8, <1>9, <1>10 DEF x
  <2>2. Expected(u.session[k], u.link[k]) /\ ReadsWell(u.session[k], u.link[k])
    BY <1>3, <1>8, <1>9, <1>11, <1>12
  <2> QED
    BY <1>3, <1>8, <2>1, <2>2, SoundChange
<1>14. Sound(Send(u, k, box), W)
  BY <1>0, <1>9, <1>10, <1>13, OwnMessages, SoundMessage DEF box
<1> QED
  BY <1>2, <1>4, <1>14

----------------------------------------------------------------------------------
(* One session, or a part of the lane, is replaced *)

WithSession(st, k, x) == [st EXCEPT !.session = [st.session EXCEPT ![k] = x]]

LEMMA WithSessionFacts ==
    ASSUME NEW st \in States, NEW k \in Keys, NEW x \in Sessions \cup {None}
    PROVE  LET z == WithSession(st, k, x)
           IN  /\ z \in States /\ z.session[k] = x
               /\ \A j \in Keys : j # k => z.session[j] = st.session[j]
               /\ z.link = st.link /\ z.health = st.health /\ z.disk = st.disk
               /\ z.answered = st.answered
<1> DEFINE z == WithSession(st, k, x)
<1>1. st.session \in [Keys -> Sessions \cup {None}]
  BY DEF States
<1>2. [st.session EXCEPT ![k] = x] \in [Keys -> Sessions \cup {None}]
  BY <1>1
<1>3. /\ z \in States /\ z.session = [st.session EXCEPT ![k] = x]
      /\ z.link = st.link /\ z.health = st.health /\ z.disk = st.disk
      /\ z.answered = st.answered
  BY <1>2 DEF States, WithSession
<1> HIDE DEF z
<1>4. z.session[k] = x /\ \A j \in Keys : j # k => z.session[j] = st.session[j]
  BY <1>1, <1>3
<1> QED
  BY <1>3, <1>4 DEF z

LEMMA SoundSession ==
    ASSUME NEW st, NEW W, NEW k \in Keys, NEW x \in Sessions,
           Core(st, W), SoundElsewhere(st, k), st.session[k] # None,
           st.session[k].state = "ready" => x.state = "ready",
           Booked(x, k, st, W)
    PROVE  LET z == WithSession(st, k, x)
           IN  /\ Core(z, W) /\ SoundElsewhere(z, k)
               /\ Expected(x, st.link[k]) /\ ReadsWell(x, st.link[k]) => Sound(z, W)
<1> DEFINE z == WithSession(st, k, x)
<1>1. /\ z \in States /\ z.session[k] = x
      /\ \A j \in Keys : j # k => z.session[j] = st.session[j]
      /\ z.link = st.link /\ z.health = st.health /\ z.disk = st.disk
      /\ z.answered = st.answered
  BY WithSessionFacts DEF Core
<1>2. x # None
  BY NoneIsNothing
<1> HIDE DEF z
<1>3. /\ z.session[k] # None /\ Booked(z.session[k], k, st, W)
      /\ st.session[k].state = "ready" => z.session[k].state = "ready"
      /\ \A j \in Keys : j # k => z.session[j] = st.session[j] /\ z.link[j] = st.link[j]
      /\ z.link[k].held = st.link[k].held /\ z.disk.waiting = st.disk.waiting
  BY <1>1, <1>2
<1>4. /\ Core(z, W) /\ SoundElsewhere(z, k)
      /\ Expected(z.session[k], z.link[k]) /\ ReadsWell(z.session[k], z.link[k])
            => Sound(z, W)
  BY <1>1, <1>3, SoundChange
<1> QED
  BY <1>1, <1>4 DEF z

\* A request that a session holds is held by no other.
LooseBut(st, W, r, k) ==
    /\ r \in 1..Len(asked) /\ asked[r].key = k /\ st.answered[r] = 0 /\ r \notin W
    /\ \A j \in Keys : j # k /\ st.session[j] # None => r \notin Holds(st.session[j])

LEMMA Held ==
    ASSUME NEW st, NEW W, NEW k \in Keys, Core(st, W), st.session[k] # None,
           NEW r, r \in Holds(st.session[k])
    PROVE  LooseBut(st, W, r, k)
<1>1. Booked(st.session[k], k, st, W)
  BY DEF Core, Books
<1>2. ASSUME NEW j \in Keys, j # k, st.session[j] # None PROVE r \notin Holds(st.session[j])
  <2>1. Booked(st.session[j], j, st, W)
    BY <1>2 DEF Core, Books
  <2> QED
    BY <1>1, <1>2, <2>1 DEF Booked
<1> QED
  BY <1>1, <1>2 DEF Booked, LooseBut

LEMMA WaitingIsLoose ==
    ASSUME NEW st, NEW W, Core(st, W), NEW r \in st.disk.waiting
    PROVE  /\ Loose(st, W, r) /\ asked[r].key \in Keys
           /\ st.session[asked[r].key] # None
           /\ st.session[asked[r].key].state = "ready"
<1>1. r \in 1..Len(asked) /\ asked[r] \in Asked
  BY DEF Core, Books
<1>2. asked[r].key \in Keys
  BY <1>1 DEF Asked
<1> QED
  BY <1>1, <1>2 DEF Core, Books, Booked, Loose

\* The lane has changed, but not who waits for it.
LEMMA SoundLane ==
    ASSUME NEW st, NEW W, Sound(st, W), NEW d \in Disks, d.waiting = st.disk.waiting
    PROVE  LET z == [st EXCEPT !.disk = d]
           IN  /\ Sound(z, W) /\ z.session = st.session /\ z.answered = st.answered
               /\ z.disk = d
<1> DEFINE z == [st EXCEPT !.disk = d]
<1>1. st \in States
  BY DEF Sound, Core
<1>2. /\ z \in States /\ z.session = st.session /\ z.link = st.link
      /\ z.health = st.health /\ z.answered = st.answered /\ z.disk = d
  BY <1>1 DEF States
<1> HIDE DEF z
<1>3. Lives(z) /\ Expects(z) /\ Reads(z)
  BY <1>2 DEF Sound, Core, Lives, Expects, Reads
<1>4. ASSUME NEW j \in Keys, z.session[j] # None PROVE Booked(z.session[j], j, z, W)
  BY <1>2, <1>4 DEF Sound, Core, Books, Booked
<1>5. Books(z, W)
  BY <1>2, <1>4 DEF Sound, Core, Books
<1>6. Sound(z, W)
  BY <1>2, <1>3, <1>5 DEF Sound, Core
<1> QED
  BY <1>2, <1>6 DEF z

----------------------------------------------------------------------------------
(* A session begins, or does not *)

\* A request the manager has read from its commands.
LEMMA Unqueued ==
    ASSUME NEW st, NEW W, NEW V, Sound(st, W), V \subseteq W, NEW r \in W \ V
    PROVE  /\ Sound(st, V) /\ Loose(st, V, r) /\ r \notin st.disk.waiting
           /\ asked[r].key \in Keys
<1>1. r \in 1..Len(asked) /\ asked[r] \in Asked /\ st.answered[r] = 0
      /\ r \notin st.disk.waiting
  BY DEF Sound, Core, Books
<1>2. ASSUME NEW k \in Keys, st.session[k] # None
      PROVE  Booked(st.session[k], k, st, V) /\ r \notin Holds(st.session[k])
  BY <1>2 DEF Sound, Core, Books, Booked
<1>3. Sound(st, V)
  BY <1>2 DEF Sound, Core, Books
<1>4. Loose(st, V, r)
  BY <1>1, <1>2 DEF Loose
<1> QED
  BY <1>1, <1>3, <1>4 DEF Asked

LEMMA SoundSpawn ==
    ASSUME NEW st, NEW W, NEW k \in Keys, Sound(st, W), st.session[k] = None,
           st.health[k].phase = "fine"
    PROVE  LET z == Spawn(st, k)
           IN  /\ Sound(z, W) /\ z.answered = st.answered /\ z.disk = st.disk
               /\ z.session[k] # None /\ Holds(z.session[k]) = {}
               /\ \A j \in Keys : j # k => z.session[j] = st.session[j]
<1> DEFINE x == [state |-> "starting", sync |-> None, nextId |-> 1,
                 pending |-> {[id |-> 0, r |-> Initialize]}, retired |-> {},
                 opened |-> None, deferred |-> None]
           first == Msg("init", 0, None)
           box == <<first>>
           n == st.link[k].held + 1
           l == [NoLink EXCEPT !.held = n, !.inbox = box]
           z == Spawn(st, k)
<1>1. st \in States /\ st.link[k] \in Links /\ st.link[k].held = 0
  BY DEF Sound, Core, Lives, States
<1>2. x \in Sessions /\ x # None
  <2>1. x \in Sessions
    BY DEF Sessions, Initialize
  <2> QED
    BY <2>1, NoneIsNothing
<1>3. first \in Messages /\ first.m = "init" /\ first.id = 0
  BY DEF Msg, Messages, MessageKinds, Docs
<1>4. /\ box \in Seq(Messages) /\ box = Append(<<>>, first) /\ Len(box) = 1
      /\ box[1] = first /\ <<>> \in Seq(Messages)
  BY <1>3
<1>5. /\ l.inbox = box /\ l.frames = <<>> /\ ~l.control /\ l.owed = {}
      /\ l.shown = None /\ l.held = 1
  BY <1>1 DEF NoLink
<1>6. l \in Links
  <2>1. NoLink \in Links
    BY <1>4, EmptyLinks DEF NoLink
  <2>2. n \in Nat /\ box \in Seq(Messages)
    BY <1>1, <1>4
  <2> HIDE DEF box, n
  <2> QED
    BY <2>1, <2>2 DEF Links
<1>7. /\ x.state = "starting" /\ x.sync = None /\ x.nextId = 1 /\ x.retired = {}
      /\ x.pending = {[id |-> 0, r |-> Initialize]}
      /\ x.opened = None /\ x.deferred = None
  OBVIOUS
<1>8. z = [st EXCEPT !.session = [st.session EXCEPT ![k] = x],
                     !.link = [st.link EXCEPT ![k] = l]]
  BY DEF Spawn
<1> HIDE DEF x, l, box, first
<1>9. /\ z \in States /\ z.session = [st.session EXCEPT ![k] = x]
      /\ z.link = [st.link EXCEPT ![k] = l] /\ z.health = st.health
      /\ z.disk = st.disk /\ z.answered = st.answered
  <2>1. /\ [st.session EXCEPT ![k] = x] \in [Keys -> Sessions \cup {None}]
        /\ [st.link EXCEPT ![k] = l] \in [Keys -> Links]
    BY <1>1, <1>2, <1>6 DEF States
  <2> HIDE DEF z
  <2> QED
    BY <1>1, <1>8, <2>1 DEF States
<1> HIDE DEF z
<1>10. /\ z.session[k] = x /\ z.link[k] = l
       /\ \A j \in Keys : j # k => z.session[j] = st.session[j] /\ z.link[j] = st.link[j]
  BY <1>1, <1>9 DEF States
<1>11. Holds(x) = {}
  BY <1>7 DEF Holds
<1>12. Expected(x, l)
  <2>1. Ids(box, Calls) = {0} /\ NoneTwice(box, Calls)
    BY ZenonT(40), <1>3, <1>4, IdsOfNone, CallsAppended DEF Calls
  <2>2. Ids(l.frames, Replies) = {} /\ NoneTwice(l.frames, Replies)
    BY <1>5, IdsOfNone
  <2>3. {p.id : p \in x.pending} = {0}
    BY <1>7
  <2> QED
    BY <1>5, <1>7, <2>1, <2>2, <2>3 DEF Expected
<1>13. ReadsWell(x, l)
  <2>1. NoAsk(box)
    BY <1>3, <1>4 DEF NoAsk
  <2>2. AsksFit(l.inbox, l.shown)
    BY <1>5, <2>1 DEF AsksFit, NoAsk
  <2>3. TextsTo(l.inbox, Len(l.inbox)) = {}
    BY <1>3, <1>4, <1>5 DEF TextsTo, Texts
  <2>4. Shows(l.inbox, l.shown, Len(l.inbox), x.opened)
    BY <1>5, <1>7, <2>3 DEF Shows
  <2>5. l.frames = <<>> /\ Len(l.frames) = 0
    BY <1>5
  <2> QED
    BY <1>5, <1>7, <2>1, <2>2, <2>4, <2>5 DEF ReadsWell
<1>14. Lives(z)
  BY <1>5, <1>9, <1>10, <1>2 DEF Sound, Core, Lives
<1>15. Expects(z) /\ Reads(z)
  BY <1>10, <1>12, <1>13 DEF Sound, Core, Expects, Reads
<1>16. ASSUME NEW j \in Keys, z.session[j] # None PROVE Booked(z.session[j], j, z, W)
  <2>1. CASE j = k
    BY <1>7, <1>10, <1>11, <2>1, NoneIsNothing DEF Booked, Initialize
  <2>2. CASE j # k
    <3>1. Booked(st.session[j], j, st, W)
      BY <1>10, <1>16, <2>2 DEF Sound, Core, Books
    <3> QED
      BY <1>9, <1>10, <2>2, <3>1 DEF Booked
  <2> QED
    BY <2>1, <2>2
<1>17. \A r \in z.disk.waiting :
         /\ r \in 1..Len(asked) /\ z.answered[r] = 0
         /\ z.session[asked[r].key] # None
         /\ z.session[asked[r].key].state = "ready"
  BY <1>9, <1>10, WaitingIsLoose DEF Sound, Loose
<1>18. Books(z, W)
  BY <1>9, <1>16, <1>17 DEF Sound, Core, Books
<1>19. Sound(z, W)
  BY <1>9, <1>14, <1>15, <1>18 DEF Sound, Core
<1> QED
  BY <1>2, <1>9, <1>10, <1>11, <1>19 DEF z

\* The health of a key without a session has changed, and whether it has a process.
WithHealth(st, k, h, n) ==
    [st EXCEPT !.health = [st.health EXCEPT ![k] = h],
               !.link = [st.link EXCEPT ![k] = [st.link[k] EXCEPT !.held = n]]]

LEMMA SoundHealth ==
    ASSUME NEW st, NEW W, NEW k \in Keys, Sound(st, W), st.session[k] = None,
           NEW h \in Healths, NEW n \in Nat,
           n = IF h.phase \in {"failed", "quarantined"} THEN 1 ELSE 0
    PROVE  LET z == WithHealth(st, k, h, n)
           IN  Sound(z, W) /\ z.session = st.session /\ z.answered = st.answered
<1> DEFINE l == [st.link[k] EXCEPT !.held = n]
           z == [st EXCEPT !.health = [st.health EXCEPT ![k] = h],
                           !.link = [st.link EXCEPT ![k] = l]]
<1>1. st \in States /\ st.link[k] \in Links
  BY DEF Sound, Core, States
<1>2. l \in Links /\ l.held = n
  BY <1>1 DEF Links
<1> HIDE DEF l
<1>3. /\ z \in States /\ z.session = st.session /\ z.disk = st.disk
      /\ z.answered = st.answered /\ z.health = [st.health EXCEPT ![k] = h]
      /\ z.link = [st.link EXCEPT ![k] = l]
  <2>1. /\ [st.health EXCEPT ![k] = h] \in [Keys -> Healths]
        /\ [st.link EXCEPT ![k] = l] \in [Keys -> Links]
    BY <1>1, <1>2 DEF States
  <2> QED
    BY <1>1, <2>1 DEF States
<1> HIDE DEF z
<1>4. /\ z.health[k] = h /\ z.link[k] = l
      /\ \A j \in Keys : j # k => z.health[j] = st.health[j] /\ z.link[j] = st.link[j]
  BY <1>1, <1>3 DEF States
<1>5. Lives(z)
  BY <1>2, <1>3, <1>4 DEF Sound, Core, Lives
<1>6. Expects(z) /\ Reads(z)
  BY <1>3, <1>4 DEF Sound, Core, Expects, Reads
<1>7. ASSUME NEW j \in Keys, z.session[j] # None PROVE Booked(z.session[j], j, z, W)
  BY <1>3, <1>7 DEF Sound, Core, Books, Booked
<1>8. Books(z, W)
  BY <1>3, <1>7 DEF Sound, Core, Books
<1>9. Sound(z, W)
  BY <1>3, <1>5, <1>6, <1>8 DEF Sound, Core
<1> QED
  BY <1>3, <1>9 DEF z, l, WithHealth

\* record_failure_at gives a number of failures and a phase that needs no process.
LEMMA Failures ==
    ASSUME NEW st \in States, NEW k \in Keys
    PROVE  LET h == RecordFailure(st, k).health[k]
           IN  /\ h \in Healths /\ h.phase \in {"permanent", "fine"}
               /\ RecordFailure(st, k) = [st EXCEPT !.health = [st.health EXCEPT ![k] = h]]
<1> DEFINE attempt == IF st.health[k].attempts < MaxAttempts
                        THEN st.health[k].attempts + 1 ELSE MaxAttempts
           p == IF attempt = MaxAttempts THEN "permanent" ELSE "fine"
           c == attempt < MaxAttempts
           h == [st.health[k] EXCEPT !.phase = p, !.attempts = attempt, !.cooling = c]
<1>1. attempt \in Nat /\ st.health[k] \in Healths
  BY BoundsAreNumbers DEF States, Healths
<1> HIDE DEF attempt
<1>2. h \in Healths /\ h.phase \in {"permanent", "fine"}
  <2>1. p \in {"permanent", "fine"} /\ c \in BOOLEAN
    OBVIOUS
  <2> HIDE DEF p, c
  <2> QED
    BY <1>1, <2>1 DEF Healths, Phases
<1>3. RecordFailure(st, k) = [st EXCEPT !.health = [st.health EXCEPT ![k] = h]]
  BY DEF RecordFailure, attempt
<1> HIDE DEF h
<1>4. RecordFailure(st, k).health[k] = h
  BY <1>3 DEF States
<1> QED
  BY <1>2, <1>3, <1>4

\* The health of a key has changed that has no process, before or after.
NewHealth(st, k, h) == [st EXCEPT !.health = [st.health EXCEPT ![k] = h]]

LEMMA SoundUnheld ==
    ASSUME NEW st, NEW W, NEW k \in Keys, Sound(st, W), st.session[k] = None,
           st.health[k].phase = "fine",
           NEW h \in Healths, h.phase \in {"permanent", "fine"}
    PROVE  LET z == NewHealth(st, k, h)
           IN  /\ Sound(z, W) /\ z.session = st.session /\ z.answered = st.answered
               /\ z.health[k] = h
<1> DEFINE z == [st EXCEPT !.health = [st.health EXCEPT ![k] = h]]
           l == [st.link[k] EXCEPT !.held = 0]
           y == WithHealth(st, k, h, 0)
<1>1. st \in States /\ st.link[k] \in Links /\ st.link[k].held = 0
  BY DEF Sound, Core, Lives, States
<1>2. Sound(y, W) /\ y.session = st.session /\ y.answered = st.answered
  BY SMTT(40), SoundHealth
<1>3. l = st.link[k]
  BY <1>1 DEF Links
<1>4. [st.link EXCEPT ![k] = st.link[k]] = st.link
  BY <1>1 DEF States
<1>5. y = z
  <2> HIDE DEF l
  <2> QED
    BY <1>1, <1>3, <1>4 DEF States, WithHealth, l
<1>6. z.health[k] = h
  BY <1>1 DEF States
<1> QED
  BY <1>2, <1>5, <1>6 DEF NewHealth

\* A server could not be started.
LEMMA SoundFailure ==
    ASSUME NEW st, NEW W, NEW k \in Keys, Sound(st, W), st.session[k] = None,
           st.health[k].phase = "fine"
    PROVE  LET z == RecordFailure(st, k)
           IN  Sound(z, W) /\ z.session = st.session /\ z.answered = st.answered
<1> DEFINE z == RecordFailure(st, k)
           h == z.health[k]
<1>1. st \in States
  BY DEF Sound, Core
<1>2. h \in Healths /\ h.phase \in {"permanent", "fine"}
      /\ z = NewHealth(st, k, h)
  BY <1>1, Failures DEF NewHealth
<1> HIDE DEF z, h
<1>3. Sound(z, W) /\ z.session = st.session /\ z.answered = st.answered
  BY <1>2, SoundUnheld
<1> QED
  BY <1>3 DEF z

\* The process of a spawn that failed half way is no longer held, whether or not it is
\* gone.
LEMMA SoundDropped ==
    ASSUME NEW st, NEW W, NEW k \in Keys, Sound(st, W), st.session[k] = None,
           st.health[k].phase = "fine"
    PROVE  LET z == Dropped(st, k)
           IN  /\ Sound(z, W) /\ z.session = st.session /\ z.answered = st.answered
               /\ z.health[k].phase = "fine"
<1> DEFINE h == [st.health[k] EXCEPT !.astray = @ + 1]
<1>1. st.health[k] \in Healths
  BY DEF Sound, Core, States
<1>2. h \in Healths /\ h.phase = "fine"
  BY <1>1 DEF Healths
<1>3. Dropped(st, k) = NewHealth(st, k, h)
  BY DEF Dropped, NewHealth
<1> DEFINE z == NewHealth(st, k, h)
<1> HIDE DEF h
<1>4. /\ Sound(z, W) /\ z.session = st.session /\ z.answered = st.answered
      /\ z.health[k] = h
  BY <1>2, SoundUnheld
<1> HIDE DEF z
<1> QED
  BY <1>2, <1>3, <1>4 DEF z

LEMMA SoundRetained ==
    ASSUME NEW st, NEW W, NEW k \in Keys, Sound(st, W), st.session[k] = None,
           st.health[k].phase = "fine"
    PROVE  LET z == Retained(st, k)
           IN  Sound(z, W) /\ z.session = st.session /\ z.answered = st.answered
<1> DEFINE h == [st.health[k] EXCEPT !.phase = "quarantined"]
           n == st.link[k].held + 1
<1>1. st \in States /\ st.link[k].held = 0
  BY DEF Sound, Core, Lives
<1>2. h \in Healths /\ h.phase = "quarantined"
  BY <1>1 DEF States, Healths, Phases
<1>3. Retained(st, k) = WithHealth(st, k, h, n)
  BY DEF Retained, WithHealth
<1>4. n = 1
  BY <1>1
<1> HIDE DEF h, n
<1> QED
  BY <1>2, <1>3, <1>4, SoundHealth

\* The newest request waits for the session, the older one is answered.
LEMMA SoundDefer ==
    ASSUME NEW st, NEW W, NEW k \in Keys, NEW r, Sound(st, W),
           Loose(st, W, r), asked[r].key = k, r \notin st.disk.waiting,
           st.session[k] # None
    PROVE  Sound(Defer(st, k, r), W)
<1> DEFINE s == st.session[k]
           x == [s EXCEPT !.deferred = r]
           t == WithSession(st, k, x)
           R == IF s.deferred = None THEN {} ELSE {s.deferred}
<1>1. /\ st \in States /\ Core(st, W) /\ SoundElsewhere(st, k) /\ s \in Sessions
      /\ Expected(s, st.link[k]) /\ ReadsWell(s, st.link[k]) /\ Booked(s, k, st, W)
      /\ r \notin Holds(s)
  BY SoundParts DEF Loose
<1>2. r \in Requests /\ r # None /\ r # Initialize
  BY BoundsAreNumbers, NoneIsNothing DEF Sound, Core, Loose, Requests, Initialize
<1> HIDE DEF s
<1>3. x \in Sessions
  BY <1>1, <1>2 DEF Sessions
<1>4. /\ x.pending = s.pending /\ x.retired = s.retired /\ x.nextId = s.nextId
      /\ x.opened = s.opened /\ x.deferred = r /\ x.state = s.state /\ x.sync = s.sync
  BY <1>1 DEF Sessions
<1>5. Defer(st, k, r) = Answer(t, R)
  BY DEF Defer, WithSession, s
<1> HIDE DEF x
<1>6. Booked(x, k, st, W)
  BY <1>1, <1>2, <1>4 DEF Booked, Loose, Holds
<1>7. Expected(x, st.link[k]) /\ ReadsWell(x, st.link[k])
  BY <1>1, <1>4 DEF Expected, ReadsWell
<1>8. Sound(t, W)
  BY <1>1, <1>3, <1>4, <1>6, <1>7, SoundSession DEF s
<1>9. /\ t.session[k] = x /\ t.answered = st.answered
      /\ \A j \in Keys : j # k => t.session[j] = st.session[j]
  BY <1>1, <1>3, WithSessionFacts
<1> HIDE DEF t
<1>10. ASSUME s.deferred # None PROVE Loose(t, W, s.deferred)
  <2>1. s.deferred \in Holds(s) /\ s.deferred # r
    BY <1>1, <1>10 DEF Holds
  <2>2. s.deferred \notin Holds(x)
    BY <1>1, <1>4, <2>1 DEF Holds, Booked
  <2>3. s.deferred \in Holds(st.session[k])
    BY <2>1 DEF s
  <2>4. LooseBut(st, W, s.deferred, k)
    BY <1>1, <2>3, Held
  <2> HIDE DEF R
  <2> QED
    BY <1>9, <2>2, <2>4 DEF Loose, LooseBut
<1>11. \A q \in R \cap Requests : Loose(t, W, q)
  BY <1>10
<1> HIDE DEF R
<1> QED
  BY <1>5, <1>8, <1>11, SoundAnswer

\* The request that waits for the session is given up.
LEMMA SoundUndefer ==
    ASSUME NEW st, NEW W, NEW k \in Keys, Sound(st, W), st.session[k] # None,
           NEW r, r \in Holds(st.session[k]), r = st.session[k].deferred
    PROVE  Sound(Answer([st EXCEPT !.session[k].deferred = None], {r}), W)
<1> DEFINE s == st.session[k]
           x == [s EXCEPT !.deferred = None]
           t == WithSession(st, k, x)
<1>1. /\ st \in States /\ Core(st, W) /\ SoundElsewhere(st, k) /\ s \in Sessions
      /\ Expected(s, st.link[k]) /\ ReadsWell(s, st.link[k]) /\ Booked(s, k, st, W)
      /\ r \in Holds(s) /\ r = s.deferred
  BY SoundParts
<1>2. [st EXCEPT !.session[k].deferred = None] = t
  BY DEF WithSession
<1> HIDE DEF s
<1>3. x \in Sessions
  BY <1>1 DEF Sessions
<1>4. /\ x.pending = s.pending /\ x.retired = s.retired /\ x.nextId = s.nextId
      /\ x.opened = s.opened /\ x.deferred = None /\ x.state = s.state /\ x.sync = s.sync
  BY <1>1 DEF Sessions
<1> HIDE DEF x
<1>5. Booked(x, k, st, W)
  <2>1. \A p \in x.pending : p.r # None
    <3>1. \A p \in x.pending : p.r \in Nat
      BY <1>3, BoundsAreNumbers DEF Sessions, Requests, Initialize
    <3> QED
      BY <3>1, NoneIsNothing
  <2> QED
    BY <1>1, <1>4, <2>1 DEF Booked, Holds
<1>6. Expected(x, st.link[k]) /\ ReadsWell(x, st.link[k])
  BY <1>1, <1>4 DEF Expected, ReadsWell
<1>7. Sound(t, W)
  BY <1>1, <1>3, <1>4, <1>5, <1>6, SoundSession DEF s
<1>8. /\ t.session[k] = x /\ t.answered = st.answered
      /\ \A j \in Keys : j # k => t.session[j] = st.session[j]
  BY <1>1, <1>3, WithSessionFacts
<1> HIDE DEF t
<1>9. r \notin Holds(x)
  BY <1>1, <1>4 DEF Holds, Booked
<1>10. Loose(t, W, r)
  <2>1. LooseBut(st, W, r, k)
    BY <1>1, Held
  <2> QED
    BY <1>8, <1>9, <2>1 DEF Loose, LooseBut
<1>11. Sound(Answer(t, {r}), W)
  BY <1>7, <1>10, SoundAnswer
<1> QED
  BY <1>2, <1>11

----------------------------------------------------------------------------------
(* A frame of a server is handled *)

\* The id is not with the server any more, nor on its way.
Gone(l, id) ==
    id \notin Ids(l.inbox, Calls) /\ id \notin l.owed /\ id \notin Ids(l.frames, Replies)

LEMMA Popped ==
    ASSUME NEW s \in Sessions, NEW l \in Links, l.frames # <<>>,
           Expected(s, l), ReadsWell(s, l)
    PROVE  LET m == [l EXCEPT !.frames = Tail(@)]
               f == Head(l.frames)
           IN  /\ m \in Links /\ m.held = l.held /\ Expected(s, m) /\ ReadsWell(s, m)
               /\ FrameFits(f) /\ (f.m \in Replies => Gone(m, f.id))
<1> DEFINE m == [l EXCEPT !.frames = Tail(@)]
           f == Head(l.frames)
           q == l.frames
<1>1. q \in Seq(Messages) /\ q # <<>>
  BY DEF Links
<1>2. /\ Tail(q) \in Seq(Messages) /\ Len(Tail(q)) \in Nat /\ f = q[1] /\ 1 \in 1..Len(q)
      /\ \A i \in 1..Len(Tail(q)) : Tail(q)[i] = q[i + 1] /\ i + 1 \in 1..Len(q)
  BY <1>1, Shortened
<1>3. /\ m \in Links /\ m.frames = Tail(q) /\ m.inbox = l.inbox /\ m.owed = l.owed
      /\ m.shown = l.shown /\ m.control = l.control /\ m.held = l.held
  BY <1>2 DEF Links
<1>4. /\ NoneTwice(Tail(q), Replies)
      /\ Ids(q, Replies) = Ids(Tail(q), Replies) \cup (IF f.m \in Replies THEN {f.id} ELSE {})
      /\ f.m \in Replies => f.id \notin Ids(Tail(q), Replies)
  <2>1. NoneTwice(q, Replies)
    BY DEF Expected
  <2> HIDE DEF q
  <2> QED
    BY <1>1, <2>1, IdsShortened DEF q
<1>5. FrameFits(f) /\ \A i \in 1..Len(Tail(q)) : FrameFits(Tail(q)[i])
  BY <1>2 DEF ReadsWell
<1> HIDE DEF m, f
<1>6. Expected(s, m)
  BY <1>3, <1>4 DEF Expected
<1>7. ReadsWell(s, m)
  BY <1>3, <1>5 DEF ReadsWell
<1>8. f.m \in Replies => Gone(m, f.id)
  BY <1>3, <1>4 DEF Expected, Gone
<1> QED
  BY <1>3, <1>5, <1>6, <1>7, <1>8 DEF m, f

\* The channels of k have changed, and nothing else.
WithLink(st, k, l) == [st EXCEPT !.link = [st.link EXCEPT ![k] = l]]

LEMMA SoundLink ==
    ASSUME NEW st, NEW W, NEW k \in Keys, NEW l \in Links, Sound(st, W),
           st.session[k] # None, l.held = st.link[k].held,
           Expected(st.session[k], l), ReadsWell(st.session[k], l)
    PROVE  LET z == WithLink(st, k, l)
           IN  /\ Sound(z, W) /\ z.link[k] = l /\ z.session = st.session
               /\ z.disk = st.disk /\ z.answered = st.answered
<1> DEFINE z == WithLink(st, k, l)
<1>1. /\ st \in States /\ Core(st, W) /\ SoundElsewhere(st, k)
      /\ Booked(st.session[k], k, st, W)
  BY SoundParts
<1>2. /\ z \in States /\ z.session = st.session /\ z.health = st.health
      /\ z.disk = st.disk /\ z.answered = st.answered
      /\ z.link = [st.link EXCEPT ![k] = l]
  <2>1. [st.link EXCEPT ![k] = l] \in [Keys -> Links]
    BY <1>1 DEF States
  <2> QED
    BY <1>1, <2>1 DEF States, WithLink
<1> HIDE DEF z
<1>3. z.link[k] = l /\ \A j \in Keys : j # k => z.link[j] = st.link[j]
  BY <1>1, <1>2 DEF States
<1>4. /\ z.session[k] # None /\ Booked(z.session[k], k, st, W)
      /\ st.session[k].state = "ready" => z.session[k].state = "ready"
      /\ \A j \in Keys : j # k => z.session[j] = st.session[j] /\ z.link[j] = st.link[j]
      /\ z.link[k].held = st.link[k].held /\ z.disk.waiting = st.disk.waiting
      /\ Expected(z.session[k], z.link[k]) /\ ReadsWell(z.session[k], z.link[k])
  BY <1>1, <1>2, <1>3
<1>5. Sound(z, W)
  BY <1>1, <1>2, <1>4, SoundChange
<1> QED
  BY <1>2, <1>3, <1>5 DEF z

\* An id that is gone need not be remembered.
LEMMA Forgotten ==
    ASSUME NEW s \in Sessions, NEW x \in Sessions, NEW l \in Links, NEW id,
           Expected(s, l), Gone(l, id), x.nextId = s.nextId,
           x.pending \subseteq s.pending, x.retired \subseteq s.retired,
           \A p \in s.pending : p.id # id => p \in x.pending,
           \A i \in s.retired : i # id => i \in x.retired
    PROVE  Expected(x, l)
<1>1. {p.id : p \in x.pending} \subseteq {p.id : p \in s.pending}
  OBVIOUS
<1>2. ASSUME NEW i \in {p.id : p \in s.pending} \cup s.retired, i # id
      PROVE  i \in {p.id : p \in x.pending} \cup x.retired
  BY <1>2
<1> QED
  BY <1>1, <1>2 DEF Expected, Gone

\* What the server answered is tolerated once more, or answers the request.
LEMMA SoundTolerate ==
    ASSUME NEW st, NEW W, NEW k \in Keys, NEW id, Sound(st, W), st.session[k] # None,
           Gone(st.link[k], id)
    PROVE  Sound([st EXCEPT !.session[k].retired = @ \ {id}], W)
<1> DEFINE s == st.session[k]
           x == [s EXCEPT !.retired = @ \ {id}]
<1>1. /\ st \in States /\ Core(st, W) /\ SoundElsewhere(st, k) /\ s \in Sessions
      /\ st.link[k] \in Links
      /\ Expected(s, st.link[k]) /\ ReadsWell(s, st.link[k]) /\ Booked(s, k, st, W)
  BY SoundParts
<1>2. [st EXCEPT !.session[k].retired = @ \ {id}] = WithSession(st, k, x)
  BY DEF WithSession
<1> HIDE DEF s
<1>3. x \in Sessions
  <2>1. s.retired \ {id} \in SUBSET Nat
    BY <1>1 DEF Sessions
  <2> QED
    BY <1>1, <2>1 DEF Sessions
<1>4. /\ x.pending = s.pending /\ x.retired = s.retired \ {id} /\ x.nextId = s.nextId
      /\ x.opened = s.opened /\ x.deferred = s.deferred /\ x.state = s.state
      /\ x.sync = s.sync
  BY <1>1 DEF Sessions
<1> HIDE DEF x
<1>5. Booked(x, k, st, W)
  BY <1>1, <1>4 DEF Booked, Holds
<1>6. ReadsWell(x, st.link[k])
  BY <1>1, <1>4 DEF ReadsWell
<1>7. Expected(x, st.link[k])
  <2>1. /\ x.pending \subseteq s.pending /\ x.retired \subseteq s.retired
        /\ \A p \in s.pending : p.id # id => p \in x.pending
        /\ \A i \in s.retired : i # id => i \in x.retired
    BY <1>4
  <2> QED
    BY <1>1, <1>3, <1>4, <2>1, Forgotten
<1>8. Sound(WithSession(st, k, x), W)
  <2>1. st.session[k].state = "ready" => x.state = "ready"
    BY <1>4 DEF s
  <2> QED
    BY <1>1, <1>3, <1>5, <1>6, <1>7, <2>1, SoundSession
<1> QED
  BY <1>2, <1>8

LEMMA SoundReply ==
    ASSUME NEW st, NEW W, NEW k \in Keys, NEW id, Sound(st, W), st.session[k] # None,
           Gone(st.link[k], id)
    PROVE  LET P == {p \in st.session[k].pending : p.id = id}
           IN  Sound(TakeOut(st, k, P), W)
<1> DEFINE s == st.session[k]
           P == {p \in s.pending : p.id = id}
           t == TakeOut(st, k, P)
           x == t.session[k]
<1>1. /\ st \in States /\ Core(st, W) /\ SoundElsewhere(st, k) /\ s \in Sessions
      /\ st.link[k] \in Links
      /\ Expected(s, st.link[k]) /\ ReadsWell(s, st.link[k])
  BY SoundParts
<1>2. P \subseteq st.session[k].pending
  OBVIOUS
<1>p. \A p \in s.pending : p.id # id => p \notin P
  OBVIOUS
<1> HIDE DEF P
<1>3. /\ Core(t, W) /\ SoundElsewhere(t, k) /\ t.link = st.link
      /\ t.health = st.health /\ x \in Sessions /\ x # None
      /\ x.pending = s.pending \ P /\ x.retired = s.retired
      /\ x.nextId = s.nextId /\ x.opened = s.opened /\ x.deferred = s.deferred
      /\ x.state = s.state /\ x.sync = s.sync
  BY <1>2, CoreTake
<1> HIDE DEF t, x, s
<1>4. Expected(x, st.link[k])
  <2>1. /\ x.pending \subseteq s.pending /\ x.retired \subseteq s.retired
        /\ \A p \in s.pending : p.id # id => p \in x.pending
        /\ \A i \in s.retired : i # id => i \in x.retired
    BY <1>p, <1>3
  <2> QED
    BY <1>1, <1>3, <2>1, Forgotten
<1>5. ReadsWell(x, st.link[k])
  BY <1>1, <1>3 DEF ReadsWell
<1>6. Sound(t, W)
  BY <1>3, <1>4, <1>5 DEF Sound, SoundElsewhere, Expects, Reads, x
<1> QED
  BY <1>6 DEF t, P, s

\* The answer to initialize: the session is ready, and what waited for it is let go.
Readied(s, id, sync) ==
    [s EXCEPT !.pending = @ \ {p \in s.pending : p.id = id}, !.state = "ready",
              !.sync = sync, !.deferred = None]

LEMMA SoundReady ==
    ASSUME NEW st, NEW W, NEW k \in Keys, Sound(st, W), st.session[k] # None,
           Gone(st.link[k], 0), st.session[k].state = "starting",
           NEW sync \in {"open", "disk", "both"}
    PROVE  LET z == WithSession(st, k, Readied(st.session[k], 0, sync))
           IN  /\ Sound(z, W) /\ z.session[k] # None /\ z.session[k].state = "ready"
               /\ st.session[k].deferred # None =>
                     /\ Loose(z, W, st.session[k].deferred)
                     /\ asked[st.session[k].deferred].key = k
<1> DEFINE s == st.session[k]
           l == st.link[k]
           P == {p \in s.pending : p.id = 0}
           x == Readied(s, 0, sync)
           z == WithSession(st, k, x)
<1>1. /\ st \in States /\ Core(st, W) /\ SoundElsewhere(st, k) /\ s \in Sessions
      /\ l \in Links /\ Expected(s, l) /\ ReadsWell(s, l) /\ Booked(s, k, st, W)
  BY SoundParts
<1>2. s.state = "starting"
  OBVIOUS
<1> HIDE DEF s
<1>3. x \in Sessions
  <2>1. s.pending \ P \in SUBSET [id : Nat, r : Requests \cup {Initialize}]
    BY <1>1 DEF Sessions
  <2> QED
    BY <1>1, <2>1 DEF Sessions, Readied
<1>4. /\ x.pending = s.pending \ P /\ x.retired = s.retired /\ x.nextId = s.nextId
      /\ x.opened = s.opened /\ x.deferred = None /\ x.state = "ready" /\ x.sync = sync
  BY <1>1 DEF Sessions, Readied
<1>5. \A p \in s.pending : p \in P <=> p.id = 0
  OBVIOUS
<1> HIDE DEF x, P
<1>6. Booked(x, k, st, W)
  <2>1. \A p \in x.pending : p.r # None
    <3>1. \A p \in x.pending : p.r \in Nat
      BY <1>3, BoundsAreNumbers DEF Sessions, Requests, Initialize
    <3> QED
      BY <3>1, NoneIsNothing
  <2>2. Holds(x) \subseteq Holds(s)
    BY <1>4 DEF Holds
  <2> QED
    BY <1>1, <1>4, <2>1, <2>2 DEF Booked
<1>7. Expected(x, l)
  <2>1. /\ x.pending \subseteq s.pending /\ x.retired \subseteq s.retired
        /\ \A p \in s.pending : p.id # 0 => p \in x.pending
        /\ \A i \in s.retired : i # 0 => i \in x.retired
    BY <1>4, <1>5
  <2>2. Gone(l, 0)
    OBVIOUS
  <2> HIDE DEF l
  <2> QED
    BY <1>1, <1>3, <1>4, <2>1, <2>2, Forgotten
<1>8. ReadsWell(x, l)
  <2>1. AsksFit(l.inbox, l.shown)
    BY <1>1, <1>2 DEF ReadsWell, NoAsk, AsksFit
  <2>2. \A p \in x.pending : p.id # 0
    BY <1>4, <1>5
  <2> QED
    BY <1>1, <1>4, <2>1, <2>2 DEF ReadsWell
<1>9. Sound(z, W)
  BY <1>1, <1>3, <1>4, <1>6, <1>7, <1>8, SoundSession
<1>10. /\ z.session[k] = x /\ x # None /\ z.answered = st.answered
       /\ \A j \in Keys : j # k => z.session[j] = st.session[j]
  BY <1>1, <1>3, NoneIsNothing, WithSessionFacts
<1> HIDE DEF z
<1>11. ASSUME s.deferred # None PROVE Loose(z, W, s.deferred) /\ asked[s.deferred].key = k
  <2>1. s.deferred \in Holds(s)
    BY <1>11 DEF Holds
  <2>2. s.deferred \notin Holds(x)
    BY <1>1, <1>4 DEF Holds, Booked
  <2>3. LooseBut(st, W, s.deferred, k)
    BY <1>1, <2>1, Held DEF s
  <2> QED
    BY <1>10, <2>2, <2>3 DEF Loose, LooseBut
<1> QED
  BY <1>4, <1>9, <1>10, <1>11 DEF z, x, s

LEMMA SoundHandle ==
    ASSUME NEW st, NEW W, NEW k \in Keys, NEW f, Sound(st, W), st.session[k] # None,
           FrameFits(f), f.m \in Replies => Gone(st.link[k], f.id)
    PROVE  Sound(Handle(st, k, f), W)
<1> DEFINE s == st.session[k]
           mine == {p \in s.pending : p.id = f.id}
           x == Readied(s, f.id, f.doc)
           z == WithSession(st, k, x)
           y == [st EXCEPT !.session[k].pending = @ \ mine, !.session[k].state = "ready",
                           !.session[k].sync = f.doc, !.session[k].deferred = None]
           ready == Send(z, k, <<Msg("initialized", None, None)>>)
<1>1. st \in States /\ s \in Sessions /\ ReadsWell(s, st.link[k])
  BY SoundParts
<1>2. Sound(Fail(st, k), W)
  BY SoundFail
<1>3. CASE f.m = "call"
  <2>1. Sound(Send(st, k, <<Msg("reply", None, None)>>), W)
    BY SoundMessage, OwnMessages
  <2> QED
    BY <1>2, <1>3, <2>1 DEF Handle
<1>4. CASE f.m # "call" /\ f.id \in s.retired
  <2>1. Gone(st.link[k], f.id)
    BY <1>4 DEF FrameFits, Replies
  <2>2. Sound([st EXCEPT !.session[k].retired = @ \ {f.id}], W)
    BY <2>1, SoundTolerate
  <2> QED
    BY <1>4, <2>2 DEF Handle
<1>5. CASE f.m # "call" /\ f.id \notin s.retired /\ mine = {}
  BY <1>2, <1>5 DEF Handle
<1>6. CASE f.m = "answer" /\ f.id \notin s.retired /\ mine # {}
  <2>1. Gone(st.link[k], f.id)
    BY <1>6 DEF Replies
  <2>2. Sound(TakeOut(st, k, mine), W)
    BY ZenonT(40), <2>1, SoundReply
  <2>3. Handle(st, k, f) = TakeOut(st, k, mine)
    BY <1>6 DEF Handle, TakeOut
  <2> QED
    BY <2>2, <2>3
<1>7. CASE f.m = "capabilities" /\ f.id \notin s.retired /\ mine # {}
  <2>1. f.id = 0 /\ f.doc \in {"open", "disk", "both"} /\ Gone(st.link[k], 0)
    BY <1>7 DEF FrameFits, Replies
  <2>2. s.state = "starting"
    BY <1>1, <1>7, <2>1 DEF ReadsWell, Sessions
  <2>3. /\ Sound(z, W) /\ z.session[k] # None /\ z.session[k].state = "ready"
        /\ s.deferred # None => Loose(z, W, s.deferred) /\ asked[s.deferred].key = k
    BY <2>1, <2>2, SoundReady
  <2>4. z = y
    BY ZenonT(40) DEF WithSession, Readied
  <2>5. Handle(st, k, f) = LET now == Send(y, k, <<Msg("initialized", None, None)>>)
                           IN  IF ~Fits(st, k, 1) THEN Fail(st, k)
                               ELSE IF s.deferred = None THEN now
                               ELSE DispatchOrRevalidate(now, k, s.deferred)
    <3>1. f.m # "call" /\ f.m # "answer" /\ f.id \notin s.retired /\ mine # {}
      BY <1>7
    <3> QED
      BY ONLY <3>1 DEF Handle, y, mine, s
  <2> HIDE DEF x, y, z
  <2>6. Sound(ready, W) /\ ready.session = z.session /\ ready.answered = z.answered
    BY <2>3, SoundMessage, OwnMessages
  <2> HIDE DEF ready
  <2>7. ASSUME s.deferred # None
        PROVE  Sound(DispatchOrRevalidate(ready, k, s.deferred), W)
    <3>1. Loose(ready, W, s.deferred)
      BY <2>3, <2>6, <2>7 DEF Loose
    <3>2. /\ ready.session[k] # None /\ ready.session[k].state = "ready"
          /\ asked[s.deferred].key = k
      BY <2>3, <2>6, <2>7
    <3> HIDE DEF s
    <3> QED
      BY <2>6, <3>1, <3>2, SoundRevalidate
  <2> QED
    BY <1>2, <2>4, <2>5, <2>6, <2>7 DEF ready
<1> QED
  BY <1>3, <1>4, <1>5, <1>6, <1>7 DEF FrameFits

----------------------------------------------------------------------------------
(* The server and its threads *)

\* The server reads a message.
LEMMA ServerRead ==
    ASSUME NEW s \in Sessions, NEW l \in Links, l.inbox # <<>>, ~l.control,
           Expected(s, l), ReadsWell(s, l)
    PROVE  LET msg == Head(l.inbox)
               m == [l EXCEPT !.inbox = Tail(@),
                              !.owed = IF msg.m \in {"init", "ask"} THEN @ \cup {msg.id} ELSE @,
                              !.shown = IF msg.m = "open" THEN msg.doc
                                        ELSE IF msg.m = "close" THEN None ELSE @]
           IN  m \in Links /\ m.held = l.held /\ Expected(s, m) /\ ReadsWell(s, m)
<1> DEFINE q == l.inbox
           msg == Head(q)
           owed == IF msg.m \in {"init", "ask"} THEN l.owed \cup {msg.id} ELSE l.owed
           shown == IF msg.m = "open" THEN msg.doc
                    ELSE IF msg.m = "close" THEN None ELSE l.shown
           m == [l EXCEPT !.inbox = Tail(@),
                          !.owed = IF msg.m \in {"init", "ask"} THEN @ \cup {msg.id} ELSE @,
                          !.shown = IF msg.m = "open" THEN msg.doc
                                    ELSE IF msg.m = "close" THEN None ELSE @]
<1>1. q \in Seq(Messages) /\ q # <<>> /\ Len(q) \in 1..Len(q)
  BY DEF Links
<1>2. /\ Tail(q) \in Seq(Messages) /\ Len(Tail(q)) = Len(q) - 1 /\ msg \in Messages
  BY <1>1, Shortened
<1>3. /\ NoneTwice(Tail(q), Calls)
      /\ Ids(q, Calls) = Ids(Tail(q), Calls) \cup (IF msg.m \in Calls THEN {msg.id} ELSE {})
      /\ msg.m \in Calls => msg.id \notin Ids(Tail(q), Calls)
  <2>1. NoneTwice(q, Calls)
    BY DEF Expected
  <2> HIDE DEF q
  <2> QED
    BY <1>1, <2>1, IdsShortened DEF msg
<1>4. shown = ShownBy(msg, l.shown)
  BY DEF ShownBy
<1>5. shown \in Docs /\ owed \in SUBSET Nat
  <2>1. msg.doc \in Docs /\ l.shown \in Docs /\ None \in Docs /\ l.owed \in SUBSET Nat
    BY <1>2 DEF Messages, Links, Docs
  <2>2. msg.m \in Calls => msg.id \in Nat
    BY <1>3 DEF Expected, Sessions
  <2> QED
    BY <2>1, <2>2 DEF Calls
<1>6. /\ m \in Links /\ m.inbox = Tail(q) /\ m.frames = l.frames /\ m.owed = owed
      /\ m.shown = shown /\ m.control = l.control /\ m.held = l.held
  <2>1. m = [l EXCEPT !.inbox = Tail(q), !.owed = owed, !.shown = shown]
    OBVIOUS
  <2> HIDE DEF m, owed, shown, msg, q
  <2> QED
    BY <1>2, <1>5, <2>1 DEF Links
<1>7. owed = l.owed \cup (IF msg.m \in Calls THEN {msg.id} ELSE {})
  BY DEF Calls
<1> HIDE DEF m, owed, shown, msg
<1>8. Expected(s, m)
  BY <1>3, <1>6, <1>7 DEF Expected
<1>9. Shows(Tail(q), shown, Len(Tail(q)), s.opened)
  <2>1. Shows(q, l.shown, Len(q), s.opened)
    BY DEF ReadsWell
  <2> HIDE DEF q
  <2> QED
    BY <1>1, <1>2, <1>4, <2>1, TextsShortened DEF msg
<1>10. /\ AsksFit(q, l.shown) => AsksFit(Tail(q), shown)
       /\ NoAsk(q) => NoAsk(Tail(q))
  <2> HIDE DEF q
  <2> QED
    BY <1>1, <1>4, AsksShortened DEF msg
<1>11. ReadsWell(s, m)
  BY <1>6, <1>9, <1>10 DEF ReadsWell
<1> QED
  BY <1>6, <1>8, <1>11 DEF m, msg

\* The process has ended: what it was sent, and what it owes, is of no account.
LEMMA Stopped ==
    ASSUME NEW s \in Sessions, NEW l \in Links, Expected(s, l), ReadsWell(s, l)
    PROVE  LET m == [NoLink EXCEPT !.frames = l.frames, !.held = l.held, !.control = TRUE]
           IN  m \in Links /\ m.held = l.held /\ Expected(s, m) /\ ReadsWell(s, m)
<1> DEFINE m == [NoLink EXCEPT !.frames = l.frames, !.held = l.held, !.control = TRUE]
<1>1. l.frames \in Seq(Messages) /\ l.held \in Nat /\ <<>> \in Seq(Messages)
  BY DEF Links
<1>2. NoLink \in Links /\ NoLink.inbox = <<>> /\ NoLink.owed = {}
  BY <1>1, EmptyLinks DEF NoLink
<1>3. /\ m \in Links /\ m.inbox = <<>> /\ m.owed = {} /\ m.frames = l.frames
      /\ m.control = TRUE /\ m.held = l.held
  BY <1>1, <1>2 DEF Links
<1> HIDE DEF m
<1>4. Expected(s, m)
  BY <1>3, IdsOfNone DEF Expected
<1>5. NoAsk(m.inbox)
  <2>1. Len(m.inbox) = 0
    BY <1>3
  <2> QED
    BY <2>1 DEF NoAsk
<1>6. ReadsWell(s, m)
  BY <1>3, <1>5 DEF ReadsWell
<1> QED
  BY <1>3, <1>4, <1>6 DEF m

\* The reader thread passes on a frame that is expected, or gives up.
LEMMA Emitted ==
    ASSUME NEW s \in Sessions, NEW l \in Links, NEW f \in Messages,
           Expected(s, l), ReadsWell(s, l), FrameFits(f),
           f.m \in Replies => /\ Gone(l, f.id)
                              /\ f.id \in {p.id : p \in s.pending} \cup s.retired
    PROVE  LET m == Emit(l, f)
           IN  m \in Links /\ m.held = l.held /\ Expected(s, m) /\ ReadsWell(s, m)
<1> DEFINE q == l.frames
           z == Append(q, f)
           m == [l EXCEPT !.frames = Append(@, f)]
<1>1. q \in Seq(Messages)
  BY DEF Links
<1>2. /\ z \in Seq(Messages) /\ Len(z) = Len(q) + 1 /\ Len(q) \in Nat
      /\ z[Len(q) + 1] = f /\ \A i \in 1..Len(q) : z[i] = q[i]
      /\ \A i \in 1..Len(z) : i \in 1..Len(q) \/ i = Len(q) + 1
  BY <1>1, Appended
<1>3. /\ m \in Links /\ m.frames = z /\ m.inbox = l.inbox /\ m.owed = l.owed
      /\ m.shown = l.shown /\ m.control = l.control /\ m.held = l.held
  BY <1>2 DEF Links
<1>4. /\ f.m \notin Replies => /\ Ids(z, Replies) = Ids(q, Replies)
                               /\ NoneTwice(q, Replies) => NoneTwice(z, Replies)
      /\ f.m \in Replies => /\ Ids(z, Replies) = Ids(q, Replies) \cup {f.id}
                            /\ NoneTwice(q, Replies) /\ f.id \notin Ids(q, Replies)
                                  => NoneTwice(z, Replies)
  BY <1>1, RepliesAppended
<1> HIDE DEF m, z
<1>5. Expected(s, m)
  BY <1>3, <1>4 DEF Expected, Gone
<1>6. \A i \in 1..Len(m.frames) : FrameFits(m.frames[i])
  BY <1>2, <1>3 DEF ReadsWell
<1>7. ReadsWell(s, m)
  BY <1>3, <1>6 DEF ReadsWell
<1>8. CASE Len(q) < FrameCap
  BY <1>3, <1>5, <1>7, <1>8 DEF Emit, m
<1>9. CASE ~(Len(q) < FrameCap)
  BY <1>9, Stopped DEF Emit
<1> QED
  BY <1>8, <1>9

LEMMA ServerAnswer ==
    ASSUME NEW s \in Sessions, NEW l \in Links, NEW id \in l.owed,
           NEW sync \in {"open", "disk", "both"}, Expected(s, l), ReadsWell(s, l)
    PROVE  LET m == Emit([l EXCEPT !.owed = @ \ {id}],
                         IF id = 0 THEN Msg("capabilities", 0, sync)
                                   ELSE Msg("answer", id, None))
           IN  m \in Links /\ m.held = l.held /\ Expected(s, m) /\ ReadsWell(s, m)
<1> DEFINE n == [l EXCEPT !.owed = @ \ {id}]
           f == IF id = 0 THEN Msg("capabilities", 0, sync) ELSE Msg("answer", id, None)
<1>1. l.owed \in SUBSET Nat /\ l.owed \ {id} \in SUBSET Nat
  BY DEF Links
<1>2. /\ n \in Links /\ n.frames = l.frames /\ n.inbox = l.inbox /\ n.owed = l.owed \ {id}
      /\ n.shown = l.shown /\ n.control = l.control /\ n.held = l.held
  BY <1>1 DEF Links
<1>3. f \in Messages /\ FrameFits(f) /\ f.id = id
  BY <1>1 DEF Msg, Messages, MessageKinds, Docs, FrameFits
<1> HIDE DEF n, f
<1>4. /\ Expected(s, n) /\ ReadsWell(s, n) /\ Gone(n, f.id)
      /\ f.id \in {p.id : p \in s.pending} \cup s.retired
  BY <1>2, <1>3 DEF Expected, ReadsWell, Gone
<1>5. LET m == Emit(n, f)
      IN  m \in Links /\ m.held = n.held /\ Expected(s, m) /\ ReadsWell(s, m)
  BY <1>2, <1>3, <1>4, Emitted
<1> QED
  BY <1>2, <1>5 DEF n, f

LEMMA ServerCall ==
    ASSUME NEW s \in Sessions, NEW l \in Links, Expected(s, l), ReadsWell(s, l)
    PROVE  LET m == Emit(l, Msg("call", None, None))
           IN  m \in Links /\ m.held = l.held /\ Expected(s, m) /\ ReadsWell(s, m)
<1> DEFINE f == Msg("call", None, None)
<1>1. f \in Messages /\ FrameFits(f) /\ f.m \notin Replies
  BY DEF Msg, Messages, MessageKinds, Docs, FrameFits, Replies
<1> HIDE DEF f
<1>2. LET m == Emit(l, f)
      IN  m \in Links /\ m.held = l.held /\ Expected(s, m) /\ ReadsWell(s, m)
  BY <1>1, Emitted
<1> QED
  BY <1>2 DEF f

----------------------------------------------------------------------------------
(* The steps *)

LEMMA InvSound ==
    ASSUME Inv
    PROVE  Sound(State, Unread(commands)) /\ State \in States
BY DEF Inv, Types, Sound, Core

\* A step of the manager or of a thread: requests are asked by the terminal only.
LEMMA Kept ==
    ASSUME Inv, asked' = asked, NEW z, State' = z, Sound(z, Unread(commands')),
           commands' \in Seq(Commands), ReadOnce(commands'), Known(commands', Len(asked))
    PROVE  Inv'
<1>1. z \in States /\ Books(z, Unread(commands')) /\ Lives(z) /\ Expects(z) /\ Reads(z)
  BY DEF Sound, Core
<1>2. Types'
  BY <1>1 DEF Inv, Types
<1>3. ReadOnce(commands)' /\ Known(commands, Len(asked))'
  BY DEF ReadOnce, Known
<1>4. Books(State, Unread(commands))'
  BY <1>1 DEF Books, Booked, Unread
<1>5. Lives(State)' /\ Expects(State)' /\ Reads(State)'
  BY <1>1 DEF Lives, Expects, Reads
<1> QED
  BY <1>2, <1>3, <1>4, <1>5 DEF Inv

LEMMA KeptQuietly ==
    ASSUME Inv, asked' = asked, commands' = commands, NEW z, State' = z,
           Sound(z, Unread(commands))
    PROVE  Inv'
BY Kept DEF Inv, Types

\* The manager takes a command.
LEMMA Taken ==
    ASSUME Inv, commands # <<>>, commands' = Tail(commands)
    PROVE  /\ commands' \in Seq(Commands) /\ ReadOnce(commands')
           /\ Known(commands', Len(asked)) /\ Head(commands) \in Commands
           /\ Head(commands).r \in 1..Len(asked)
           /\ Unread(commands') \subseteq Unread(commands)
           /\ Head(commands).kind = "request"
                 => Head(commands).r \in Unread(commands) \ Unread(commands')
           /\ Head(commands).kind # "request" => Unread(commands') = Unread(commands)
<1> DEFINE q == commands
           z == Tail(q)
<1>1. /\ q \in Seq(Commands) /\ q # <<>> /\ ReadOnce(q) /\ Known(q, Len(asked))
      /\ asked \in Seq(Asked)
  BY DEF Inv, Types
<1>2. /\ z \in Seq(Commands) /\ Len(z) = Len(q) - 1 /\ Len(z) \in Nat
      /\ Head(q) = q[1] /\ q[1] \in Commands /\ 1 \in 1..Len(q)
      /\ \A i \in 1..Len(z) : z[i] = q[i + 1] /\ i + 1 \in 1..Len(q)
  BY <1>1
<1>3. \A i \in 1..Len(q) : i = 1 \/ (i - 1 \in 1..Len(z) /\ z[i - 1] = q[i])
  BY <1>2
<1> HIDE DEF z
<1>4. ReadOnce(z) /\ Known(z, Len(asked)) /\ q[1].r <= Len(asked)
  <2>1. ReadOnce(z)
    BY SMTT(40), <1>1, <1>2 DEF ReadOnce
  <2>2. Known(z, Len(asked)) /\ q[1].r <= Len(asked)
    BY <1>1, <1>2 DEF Known
  <2> QED
    BY <2>1, <2>2
<1>k. q[1].r \in 1..Len(asked)
  <2>1. q[1].r \in Nat /\ q[1].r > 0 /\ Len(asked) \in Nat
    BY <1>1, <1>2, BoundsAreNumbers DEF Commands, Requests
  <2> QED
    BY <1>4, <2>1
<1>5. Unread(z) \subseteq Unread(q)
  BY <1>2 DEF Unread
<1>6. ASSUME Head(q).kind = "request" PROVE Head(q).r \in Unread(q) \ Unread(z)
  <2>1. Head(q).r \in Unread(q)
    BY <1>2, <1>6 DEF Unread
  <2>2. ASSUME NEW i \in 1..Len(z), z[i].kind = "request" PROVE z[i].r # Head(q).r
    <3>1. i + 1 \in 1..Len(q) /\ q[i + 1].kind = "request" /\ i + 1 # 1
          /\ z[i].r = q[i + 1].r
      BY <1>2, <2>2
    <3> QED
      BY <1>1, <1>2, <1>6, <3>1 DEF ReadOnce
  <2> QED
    BY <2>1, <2>2 DEF Unread
<1>7. ASSUME Head(q).kind # "request" PROVE Unread(q) \subseteq Unread(z)
  <2> SUFFICES ASSUME NEW i \in 1..Len(q), q[i].kind = "request"
               PROVE  q[i].r \in Unread(z)
    BY DEF Unread
  <2>1. i # 1
    BY <1>2, <1>7
  <2>2. i - 1 \in 1..Len(z) /\ z[i - 1] = q[i]
    BY <1>1, <1>2, <1>3, <2>1
  <2> QED
    BY <2>2 DEF Unread
<1> QED
  BY <1>2, <1>4, <1>k, <1>5, <1>6, <1>7 DEF z

\* The terminal sends a command.
LEMMA Given ==
    ASSUME Inv, NEW c \in Commands, commands' = Append(commands, c),
           c.kind = "request" => c.r \notin Unread(commands),
           NEW n \in Nat, Len(asked) <= n, c.r <= n
    PROVE  /\ commands' \in Seq(Commands) /\ ReadOnce(commands') /\ Known(commands', n)
           /\ Unread(commands')
                = Unread(commands) \cup (IF c.kind = "request" THEN {c.r} ELSE {})
<1> DEFINE q == commands
           z == Append(q, c)
<1>1. /\ q \in Seq(Commands) /\ ReadOnce(q) /\ Known(q, Len(asked))
      /\ Len(asked) \in Nat
  BY DEF Inv, Types
<1>2. /\ z \in Seq(Commands) /\ Len(z) = Len(q) + 1 /\ Len(q) \in Nat
      /\ z[Len(q) + 1] = c /\ \A i \in 1..Len(q) : z[i] = q[i]
      /\ \A i \in 1..Len(z) : i \in 1..Len(q) \/ i = Len(q) + 1
      /\ \A i \in 1..Len(q) : i \in 1..Len(z)
      /\ Len(q) + 1 \in 1..Len(z)
  BY <1>1
<1> HIDE DEF z
<1>3. ReadOnce(z)
  BY <1>1, <1>2 DEF ReadOnce, Unread
<1>k. Known(z, n)
  <2>0. \A i \in 1..Len(q) : q[i] \in Commands
    BY <1>1
  <2>1. \A i \in 1..Len(q) : q[i].r \in Nat
    BY <2>0, BoundsAreNumbers DEF Commands, Requests
  <2> QED
    BY <1>1, <1>2, <2>1 DEF Known
<1>4. Unread(z) = Unread(q) \cup (IF c.kind = "request" THEN {c.r} ELSE {})
  BY <1>2 DEF Unread
<1> QED
  BY <1>2, <1>3, <1>k, <1>4 DEF z

LEMMA StateOf ==
    State.session = session /\ State.link = link /\ State.health = health
    /\ State.disk = disk /\ State.answered = answered
BY DEF State

\* The next state of the manager is z.
LEMMA Becoming ==
    ASSUME NEW z, NEW W, Sound(z, W), Become(z)
    PROVE  State' = z
BY Becomes DEF Sound, Core

LEMMA RequestStep ==
    ASSUME Inv, NEW k \in Keys, NEW d \in 1..MaxVersion, Request(k, d)
    PROVE  Inv'
<1> DEFINE n == Len(asked) + 1
           a == [key |-> k, doc |-> d]
           c == [kind |-> "request", r |-> n]
           W == Unread(commands)
<1>1. /\ Types /\ asked \in Seq(Asked) /\ Len(asked) \in Nat /\ n \in Requests
      /\ n <= MaxRequests /\ Books(State, W)
  BY BoundsAreNumbers DEF Inv, Types, Request, Requests
<1>2. /\ asked' \in Seq(Asked) /\ Len(asked') = n
      /\ \A i \in 1..Len(asked) : asked'[i] = asked[i]
      /\ asked' = Append(asked, a)
  BY <1>1, BoundsAreNumbers DEF Request, Asked
<1>3. c \in Commands /\ commands' = Append(commands, c)
      /\ c.kind = "request" /\ c.r = n
  BY <1>1 DEF Commands, Request
<1>4. n \notin W /\ \A i \in 1..Len(asked) : i \in 1..Len(asked') /\ i # n
  BY <1>1, <1>2 DEF Books
<1> HIDE DEF c, W
<1>5. /\ commands' \in Seq(Commands) /\ ReadOnce(commands') /\ Known(commands', n)
      /\ Unread(commands') = W \cup {n}
  <2>1. n \in Nat /\ Len(asked) <= n /\ c.r <= n
    BY <1>1, <1>3
  <2> HIDE DEF n
  <2> QED
    BY <1>3, <1>4, <2>1, Given DEF W
<1>6. State' = State
  BY DEF Request, State
<1>7. n \in Requests /\ State.answered[n] = 0 /\ n \notin State.disk.waiting
  BY <1>1 DEF Books
<1>8. ASSUME NEW j \in Keys, State.session[j] # None
      PROVE  /\ \A r \in Holds(State.session[j]) :
                   /\ r \in 1..Len(asked') /\ asked'[r].key = j /\ State.answered[r] = 0
                   /\ r \notin W \cup {n} /\ r \notin State.disk.waiting
             /\ \A p, q \in State.session[j].pending : p.r = q.r => p = q
             /\ \A p \in State.session[j].pending : p.r # State.session[j].deferred
  <2>1. Booked(State.session[j], j, State, W)
    BY <1>1, <1>8 DEF Books
  <2> QED
    BY <1>2, <1>4, <2>1 DEF Booked
<1>9. /\ \A r \in Requests : r > Len(asked') => State.answered[r] = 0
      /\ W \cup {n} \subseteq 1..Len(asked')
      /\ \A r \in W \cup {n} : State.answered[r] = 0 /\ r \notin State.disk.waiting
  <2>1. \A r \in Requests : r > Len(asked') => State.answered[r] = 0
    BY <1>1, <1>2 DEF Books, Requests
  <2>2. W \cup {n} \subseteq 1..Len(asked')
    <3>1. W \subseteq 1..Len(asked) /\ n \in 1..Len(asked')
      BY <1>1, <1>2 DEF Books, Requests
    <3> QED
      BY <1>4, <3>1
  <2>3. \A r \in W \cup {n} : State.answered[r] = 0 /\ r \notin State.disk.waiting
    BY <1>1, <1>7 DEF Books
  <2> QED
    BY <2>1, <2>2, <2>3
<1>10. \A r \in State.disk.waiting :
          /\ r \in 1..Len(asked') /\ State.answered[r] = 0
          /\ State.session[asked'[r].key] # None
          /\ State.session[asked'[r].key].state = "ready"
  BY <1>1, <1>2, <1>4 DEF Books
<1>11. Books(State, Unread(commands))'
  <2>1. \A r \in Requests : State.answered[r] <= 1
    BY <1>1 DEF Books
  <2>2. Unread(commands)' = W \cup {n}
    BY <1>5 DEF Unread
  <2> QED
    BY <1>6, <1>8, <1>9, <1>10, <2>1, <2>2 DEF Books, Booked
<1>12. (Lives(State) /\ Expects(State) /\ Reads(State))'
  BY <1>6 DEF Inv, Lives, Expects, Reads
<1>13. Types'
  BY <1>1, <1>2, <1>5, <1>6 DEF Types
<1>14. ReadOnce(commands)' /\ Known(commands, Len(asked))'
  BY <1>2, <1>5 DEF ReadOnce, Known
<1> QED
  BY <1>11, <1>12, <1>13, <1>14 DEF Inv

LEMMA CancelStep ==
    ASSUME Inv, NEW r \in Requests, Cancel(r)
    PROVE  Inv'
<1> DEFINE c == [kind |-> "cancel", r |-> r]
<1>1. c \in Commands /\ c.kind = "cancel" /\ commands' = Append(commands, c)
      /\ asked' = asked
  BY DEF Cancel, Commands
<1> HIDE DEF c
<1>2. /\ commands' \in Seq(Commands) /\ ReadOnce(commands')
      /\ Known(commands', Len(asked)) /\ Unread(commands') = Unread(commands)
  <2>1. Len(asked) \in Nat /\ c.r <= Len(asked)
    BY <1>1 DEF Cancel, Inv, Types, c
  <2> DEFINE n == Len(asked)
  <2>2. n \in Nat /\ Len(asked) <= n /\ c.r <= n
    BY <2>1
  <2> HIDE DEF n
  <2>3. /\ commands' \in Seq(Commands) /\ ReadOnce(commands') /\ Known(commands', n)
        /\ Unread(commands')
             = Unread(commands) \cup (IF c.kind = "request" THEN {c.r} ELSE {})
    BY <1>1, <2>2, Given
  <2> QED
    BY <1>1, <2>3 DEF n
<1>3. State' = State
  BY DEF Cancel, State
<1>4. Sound(State, Unread(commands'))
  BY <1>2, InvSound
<1> QED
  BY <1>1, <1>2, <1>3, <1>4, Kept

LEMMA HandleRequestStep ==
    ASSUME Inv, HandleRequest
    PROVE  Inv'
<1> DEFINE W == Unread(commands)
           V == Unread(commands')
           r == Head(commands).r
           k == asked[r].key
           st == IF session[k] = None THEN Spawn(State, k) ELSE State
<1>1. /\ commands' \in Seq(Commands) /\ ReadOnce(commands')
      /\ Known(commands', Len(asked)) /\ asked' = asked
      /\ V \subseteq W /\ r \in W \ V
  BY SMTT(40), Taken DEF HandleRequest
<1>2. Sound(State, W)
  BY SMTT(40), InvSound
<1>3. \/ Refuses(k) /\ Become(Answer(State, {r}))
      \/ /\ ~Refuses(k) /\ session[k] = None
         /\ \E left \in {State, Dropped(State, k)} :
              Become(Answer(RecordFailure(left, k), {r}))
      \/ ~Refuses(k) /\ session[k] = None /\ Become(Answer(Retained(State, k), {r}))
      \/ ~Refuses(k) /\ Become(Answer(st, {r}))
      \/ /\ ~Refuses(k)
         /\ Become(IF st.session[k].state = "ready" THEN DispatchOrRevalidate(st, k, r)
                                                    ELSE Defer(st, k, r))
  BY DEF HandleRequest
<1>4. ASSUME NEW z, Sound(z, V), Become(z) PROVE Inv'
  <2>1. State' = z
    BY <1>4, Becoming
  <2> QED
    BY <1>1, <1>4, <2>1, Kept
<1> HIDE DEF W, V, r, k
<1>5. Sound(State, V) /\ Loose(State, V, r) /\ r \notin State.disk.waiting /\ k \in Keys
  BY <1>1, <1>2, Unqueued DEF k
<1>6. ~Refuses(k) => State.health[k].phase = "fine"
  BY StateOf DEF Refuses
<1>7. State.session[k] = session[k]
  BY StateOf
<1>8. ASSUME NEW t, Sound(t, V), t.session = State.session, t.answered = State.answered,
             Become(Answer(t, {r}))
      PROVE  Inv'
  <2>1. Loose(t, V, r)
    BY <1>5, <1>8 DEF Loose
  <2>2. Sound(Answer(t, {r}), V)
    BY <1>8, <2>1, SoundAnswer
  <2> QED
    BY <1>4, <1>8, <2>2
<1>9. ASSUME ~Refuses(k)
      PROVE  /\ Sound(st, V) /\ Loose(st, V, r) /\ r \notin st.disk.waiting
             /\ st.session[k] # None
  <2>1. CASE session[k] = None
    <3>1. /\ Sound(st, V) /\ st.answered = State.answered /\ st.disk = State.disk
          /\ st.session[k] # None /\ Holds(st.session[k]) = {}
          /\ \A j \in Keys : j # k => st.session[j] = State.session[j]
      BY <1>5, <1>6, <1>7, <1>9, <2>1, SoundSpawn
    <3> HIDE DEF st
    <3> QED
      BY <1>5, <3>1 DEF Loose
  <2>2. CASE session[k] # None
    BY <1>5, <1>7, <2>2
  <2> QED
    BY <2>1, <2>2
<1> HIDE DEF st
<1>10. CASE Refuses(k) /\ Become(Answer(State, {r}))
  BY <1>5, <1>8, <1>10
<1>11. CASE /\ ~Refuses(k) /\ session[k] = None
            /\ \E left \in {State, Dropped(State, k)} :
                 Become(Answer(RecordFailure(left, k), {r}))
  <2>1. PICK left \in {State, Dropped(State, k)} :
           Become(Answer(RecordFailure(left, k), {r}))
    BY <1>11
  <2> DEFINE t == RecordFailure(left, k)
  <2>2. /\ Sound(left, V) /\ left.session = State.session /\ left.answered = State.answered
        /\ left.health[k].phase = "fine"
    BY <1>5, <1>6, <1>7, <1>11, SoundDropped
  <2>3. Sound(t, V) /\ t.session = State.session /\ t.answered = State.answered
    BY <1>5, <1>7, <1>11, <2>2, SoundFailure
  <2> HIDE DEF t
  <2> QED
    BY <1>8, <2>1, <2>3 DEF t
<1>12. CASE ~Refuses(k) /\ session[k] = None /\ Become(Answer(Retained(State, k), {r}))
  <2> DEFINE t == Retained(State, k)
  <2>1. Sound(t, V) /\ t.session = State.session /\ t.answered = State.answered
    BY <1>5, <1>6, <1>7, <1>12, SoundRetained
  <2> HIDE DEF t
  <2> QED
    BY <1>8, <1>12, <2>1 DEF t
<1>13. CASE ~Refuses(k) /\ Become(Answer(st, {r}))
  <2>1. Sound(Answer(st, {r}), V)
    BY <1>9, <1>13, SoundAnswer
  <2> QED
    BY <1>4, <1>13, <2>1
<1>14. CASE ~Refuses(k) /\ Become(IF st.session[k].state = "ready"
                                    THEN DispatchOrRevalidate(st, k, r)
                                    ELSE Defer(st, k, r))
  <2>1. asked[r].key = k
    BY DEF k
  <2>2. Sound(Defer(st, k, r), V)
    BY <1>5, <1>9, <1>14, <2>1, SoundDefer
  <2>3. st.session[k].state = "ready" => Sound(DispatchOrRevalidate(st, k, r), V)
    BY <1>5, <1>9, <1>14, <2>1, SoundRevalidate
  <2> QED
    BY <1>4, <1>14, <2>2, <2>3
<1> QED
  BY <1>3, <1>10, <1>11, <1>12, <1>13, <1>14

LEMMA HandleCancelStep ==
    ASSUME Inv, HandleCancel
    PROVE  Inv'
<1> DEFINE W == Unread(commands)
           r == Head(commands).r
           k == asked[r].key
           s == session[k]
           mine == {p \in s.pending : p.r = r}
<1>1. /\ commands' \in Seq(Commands) /\ ReadOnce(commands')
      /\ Known(commands', Len(asked)) /\ asked' = asked
      /\ Unread(commands') = W /\ r \in 1..Len(asked)
  BY ZenonT(40), Taken DEF HandleCancel
<1>2. Sound(State, W) /\ State \in States
  BY InvSound
<1>3. ASSUME NEW z, Sound(z, W), Become(z) PROVE Inv'
  <2>1. State' = z
    BY SMTT(40), <1>3, Becoming
  <2> QED
    BY <1>1, <1>3, <2>1, Kept
<1>4. \/ r \in disk.waiting /\ Become(Answer(State, {r}))
      \/ /\ r \notin disk.waiting /\ s # None /\ r \in Holds(s) /\ mine = {}
         /\ Become(Answer([State EXCEPT !.session[k].deferred = None], {r}))
      \/ /\ r \notin disk.waiting /\ s # None
         /\ \E p \in mine : Become(GiveUp(State, k, p))
      \/ UNCHANGED <<session, link, health, disk, answered>>
  BY ZenonT(40) DEF HandleCancel
<1> HIDE DEF W, r
<1>5. CASE r \in disk.waiting /\ Become(Answer(State, {r}))
  <2>1. Loose(State, W, r)
    BY <1>2, <1>5, StateOf, WaitingIsLoose DEF Sound
  <2>2. Sound(Answer(State, {r}), W)
    BY <1>2, <2>1, SoundAnswer
  <2> QED
    BY <1>3, <1>5, <2>2
<1>6. k \in Keys
  <2>1. asked[r] \in Asked
    BY <1>1, <1>2 DEF Sound, Core
  <2> QED
    BY <2>1 DEF Asked
<1> HIDE DEF k
<1>7. State.session[k] = s
  BY StateOf
<1>8. ASSUME s # None, r \in Holds(s), mine = {},
             Become(Answer([State EXCEPT !.session[k].deferred = None], {r}))
      PROVE  Inv'
  <2>1. r = s.deferred
    BY <1>8 DEF Holds
  <2> HIDE DEF s
  <2>2. Sound(Answer([State EXCEPT !.session[k].deferred = None], {r}), W)
    BY <1>2, <1>6, <1>7, <1>8, <2>1, SoundUndefer
  <2> QED
    BY <1>3, <1>8, <2>2
<1>9. ASSUME s # None, NEW p \in mine, Become(GiveUp(State, k, p)) PROVE Inv'
  <2>1. p \in State.session[k].pending /\ State.session[k] # None
    BY <1>7, <1>9
  <2>2. Sound(GiveUp(State, k, p), W)
    BY <1>2, <1>6, <2>1, SoundGiveUp
  <2> QED
    BY <1>3, <1>9, <2>2
<1>10. CASE UNCHANGED <<session, link, health, disk, answered>>
  <2>1. State' = State
    BY <1>10 DEF State
  <2> QED
    BY <1>1, <1>2, <2>1, Kept
<1> HIDE DEF mine, s
<1> QED
  BY SMTT(40), <1>4, <1>5, <1>8, <1>9, <1>10

\* What a step of a session makes of the manager's state.
LEMMA Managed ==
    ASSUME Inv, NEW z, Sound(z, Unread(commands)), Become(z),
           asked' = asked, commands' = commands
    PROVE  Inv'
BY Becoming, KeptQuietly

LEMMA ExpireStep ==
    ASSUME Inv, NEW k \in Keys, Expire(k)
    PROVE  Inv'
<1> DEFINE W == Unread(commands)
<1>1. Sound(State, W) /\ State.session[k] = session[k] /\ session[k] # None
      /\ asked' = asked /\ commands' = commands
  BY InvSound, StateOf DEF Expire
<1>2. PICK p \in session[k].pending :
         Become(IF p.r = Initialize THEN Fail(State, k) ELSE GiveUp(State, k, p))
  BY DEF Expire
<1> HIDE DEF W
<1>3. Sound(Fail(State, k), W)
  BY <1>1, SoundFail
<1>4. Sound(GiveUp(State, k, p), W)
  BY <1>1, SoundGiveUp
<1> QED
  BY <1>1, <1>2, <1>3, <1>4, Managed DEF W

LEMMA HandleFrameStep ==
    ASSUME Inv, NEW k \in Keys, HandleFrame(k)
    PROVE  Inv'
<1> DEFINE W == Unread(commands)
           l == link[k]
           f == Head(l.frames)
           m == [l EXCEPT !.frames = Tail(@)]
           z == WithLink(State, k, m)
<1>1. /\ Sound(State, W) /\ State.session[k] = session[k] /\ session[k] # None
      /\ State.link[k] = l /\ l.frames # <<>>
      /\ asked' = asked /\ commands' = commands
  BY InvSound, StateOf DEF HandleFrame
<1>2. [State EXCEPT !.link[k].frames = Tail(@)] = z
  BY StateOf DEF WithLink
<1>3. Become(Handle(z, k, f))
  BY <1>2 DEF HandleFrame
<1> HIDE DEF W, l
<1>4. /\ session[k] \in Sessions /\ l \in Links
      /\ Expected(session[k], l) /\ ReadsWell(session[k], l)
  BY <1>1, SoundParts
<1>5. /\ m \in Links /\ m.held = l.held
      /\ Expected(session[k], m) /\ ReadsWell(session[k], m)
      /\ FrameFits(f) /\ (f.m \in Replies => Gone(m, f.id))
  BY <1>1, <1>4, Popped
<1> HIDE DEF m, f
<1>6. /\ Sound(z, W) /\ z.link[k] = m /\ z.session = State.session
  BY <1>1, <1>5, SoundLink
<1> HIDE DEF z
<1>7. Sound(Handle(z, k, f), W)
  BY <1>1, <1>5, <1>6, SoundHandle
<1> QED
  BY <1>1, <1>3, <1>7, Managed DEF W

LEMMA FailOnControlStep ==
    ASSUME Inv, NEW k \in Keys, FailOnControl(k)
    PROVE  Inv'
<1>1. Sound(State, Unread(commands)) /\ State.session[k] # None
  BY InvSound, StateOf DEF FailOnControl
<1>2. Sound(Fail(State, k), Unread(commands))
  BY <1>1, SoundFail
<1> QED
  BY <1>2, Managed DEF FailOnControl

LEMMA DiskAnswersStep ==
    ASSUME Inv, DiskAnswers
    PROVE  Inv'
<1> DEFINE W == Unread(commands)
           r == Head(disk.results).r
           current == Head(disk.results).current
           d == [disk EXCEPT !.results = Tail(@)]
           st == [State EXCEPT !.disk = d]
           k == asked[r].key
<1>1. /\ Sound(State, W) /\ State \in States /\ disk \in Disks
      /\ asked' = asked /\ commands' = commands
  BY InvSound, StateOf, StateFields DEF DiskAnswers
<1>2. d \in Disks /\ d.waiting = State.disk.waiting
  <2>1. Tail(disk.results) \in Seq(Results)
    BY <1>1 DEF Disks, DiskAnswers
  <2> QED
    BY <1>1, <2>1, StateOf DEF Disks
<1>3. [State EXCEPT !.disk.results = Tail(@)] = st
  BY SMTT(40), StateOf
<1>4. Become(IF r \notin disk.waiting THEN st
             ELSE IF ~current THEN Answer(st, {r})
             ELSE IF session[k] = None THEN [st EXCEPT !.disk.waiting = @ \ {r}]
             ELSE Dispatch(st, k, r))
  BY <1>3 DEF DiskAnswers
<1> HIDE DEF d, W, r
<1>5. Sound(st, W) /\ st.session = session /\ st.disk.waiting = disk.waiting
  BY <1>1, <1>2, StateOf, SoundLane
<1> HIDE DEF st, k, current
<1>6. ASSUME r \in disk.waiting
      PROVE  /\ Loose(st, W, r) /\ asked[r].key \in Keys
             /\ st.session[asked[r].key] # None
             /\ st.session[asked[r].key].state = "ready"
  BY <1>5, <1>6, WaitingIsLoose DEF Sound
<1>7. ASSUME r \in disk.waiting PROVE Sound(Answer(st, {r}), W)
  BY <1>5, <1>6, <1>7, SoundAnswer
<1>8. ASSUME r \in disk.waiting PROVE session[k] # None /\ Sound(Dispatch(st, k, r), W)
  BY <1>5, <1>6, <1>8, SoundDispatch DEF k
<1> QED
  BY <1>1, <1>4, <1>5, <1>7, <1>8, Managed DEF W

LEMMA WedgeStep ==
    ASSUME Inv, Wedge
    PROVE  Inv'
<1> DEFINE W == Unread(commands)
           d == [disk EXCEPT !.wedged = TRUE]
           st == [State EXCEPT !.disk = d]
<1>1. /\ Sound(State, W) /\ State \in States /\ disk \in Disks
      /\ asked' = asked /\ commands' = commands
  BY InvSound, StateOf, StateFields DEF Wedge
<1>2. d \in Disks /\ d.waiting = State.disk.waiting
  BY <1>1, StateOf DEF Disks
<1>3. [State EXCEPT !.disk.wedged = TRUE] = st
  BY StateOf
<1>4. Become(Answer(st, disk.waiting))
  BY <1>3 DEF Wedge
<1> HIDE DEF d, W
<1>5. Sound(st, W) /\ st.disk.waiting = disk.waiting
  BY <1>1, <1>2, StateOf, SoundLane
<1> HIDE DEF st
<1>6. \A r \in disk.waiting : Loose(st, W, r)
  BY <1>5, WaitingIsLoose DEF Sound
<1>7. Sound(Answer(st, disk.waiting), W)
  BY <1>5, <1>6, SoundAnswer
<1> QED
  BY <1>1, <1>4, <1>7, Managed DEF W

LEMMA ReadDiskStep ==
    ASSUME Inv, ReadDisk
    PROVE  Inv'
<1> DEFINE W == Unread(commands)
           st == [State EXCEPT !.disk = disk']
<1>1. /\ Sound(State, W) /\ State \in States /\ disk \in Disks
      /\ asked' = asked /\ commands' = commands
  BY InvSound, StateOf, StateFields DEF ReadDisk
<1>2. disk' \in Disks /\ disk'.waiting = State.disk.waiting
  <2>1. PICK current \in BOOLEAN :
           disk' = [disk EXCEPT !.jobs = Tail(@),
                                !.results = Append(@, [r |-> Head(disk.jobs),
                                                       current |-> current])]
    BY DEF ReadDisk
  <2>2. disk.jobs \in Seq(Requests) /\ disk.jobs # <<>> /\ disk.results \in Seq(Results)
    BY <1>1 DEF Disks, ReadDisk
  <2>3. [r |-> Head(disk.jobs), current |-> current] \in Results
    BY <2>2 DEF Results
  <2>4. /\ Tail(disk.jobs) \in Seq(Requests)
        /\ Append(disk.results, [r |-> Head(disk.jobs), current |-> current]) \in Seq(Results)
    BY <2>2, <2>3
  <2> QED
    BY <1>1, <2>1, <2>4, StateOf DEF Disks
<1>3. State' = st
  BY DEF State, ReadDisk
<1>4. Sound(st, W)
  BY <1>1, <1>2, SoundLane
<1> QED
  BY <1>1, <1>3, <1>4, KeptQuietly

\* Only the processes and their health have changed.
LEMMA SoundLives ==
    ASSUME NEW st, NEW W, NEW z \in States, Sound(st, W),
           z.session = st.session, z.disk = st.disk, z.answered = st.answered,
           \A j \in Keys : st.session[j] # None => z.link[j] = st.link[j],
           Lives(z)
    PROVE  Sound(z, W)
<1>1. ASSUME NEW j \in Keys, z.session[j] # None PROVE Booked(z.session[j], j, z, W)
  BY <1>1 DEF Sound, Core, Books, Booked
<1>2. Books(z, W)
  BY <1>1 DEF Sound, Core, Books
<1>3. Expects(z) /\ Reads(z)
  BY DEF Sound, Expects, Reads
<1> QED
  BY <1>2, <1>3 DEF Sound, Core

LEMMA CleanupStep ==
    ASSUME Inv, Cleanup
    PROVE  Inv'
<1> DEFINE W == Unread(commands)
           batch == {k \in Keys : health[k].phase = "failed"}
           failure(k) == RecordFailure(State, k).health[k]
           z == [session |-> session, link |-> link', health |-> health', disk |-> disk,
                 answered |-> answered]
<1>1. /\ Sound(State, W) /\ State \in States /\ Lives(State)
      /\ asked' = asked /\ commands' = commands
      /\ link \in [Keys -> Links] /\ health \in [Keys -> Healths]
  BY InvSound, StateOf, StateFields DEF Cleanup, Sound, Core
<1>2. PICK stuck \in SUBSET batch :
         /\ health' = [k \in Keys |->
               IF k \in stuck THEN [health[k] EXCEPT !.phase = "quarantined"]
               ELSE IF k \in batch THEN failure(k)
               ELSE health[k]]
         /\ link' = [k \in Keys |-> IF k \in batch \ stuck THEN NoLink ELSE link[k]]
  BY DEF Cleanup
<1>3. \A k \in Keys : failure(k) \in Healths /\ failure(k).phase \in {"permanent", "fine"}
  BY <1>1, Failures
<1>4. \A k \in Keys : LET h == [health[k] EXCEPT !.phase = "quarantined"]
                      IN  h \in Healths /\ h.phase = "quarantined"
  <2>1. ASSUME NEW h \in Healths
        PROVE  LET g == [h EXCEPT !.phase = "quarantined"]
               IN  g \in Healths /\ g.phase = "quarantined"
    BY DEF Healths, Phases
  <2> QED
    BY <1>1, <2>1
<1> HIDE DEF failure
<1>5. NoLink \in Links /\ NoLink.held = 0
  <2>1. <<>> \in Seq(Messages)
    OBVIOUS
  <2> QED
    BY <2>1, EmptyLinks DEF NoLink
<1>6. health' \in [Keys -> Healths] /\ link' \in [Keys -> Links]
  <2>1. health' \in [Keys -> Healths]
    BY <1>1, <1>2, <1>3, <1>4
  <2>2. link' \in [Keys -> Links]
    BY <1>1, <1>2, <1>5
  <2> QED
    BY <2>1, <2>2
<1>7. \A k \in Keys : /\ k \notin batch => health'[k] = health[k] /\ link'[k] = link[k]
                      /\ k \in batch \ stuck => /\ health'[k].phase \in {"permanent", "fine"}
                                                /\ link'[k].held = 0
                      /\ k \in stuck => /\ health'[k].phase = "quarantined"
                                        /\ link'[k] = link[k]
  BY <1>2, <1>3, <1>4, <1>5
<1>8. /\ z \in States /\ z.session = session /\ z.disk = disk /\ z.answered = answered
      /\ z.health = health' /\ z.link = link'
  BY <1>1, <1>6, StateOf DEF States
<1>9. State' = z
  <2>1. UNCHANGED <<session, disk, answered>>
    BY DEF Cleanup
  <2> QED
    BY <2>1 DEF State
<1> HIDE DEF z, W
<1>10. \A k \in Keys : k \in batch => session[k] = None
  BY <1>1, StateOf DEF Lives
<1>11. Lives(z)
  <2> SUFFICES ASSUME NEW k \in Keys
               PROVE  /\ session[k] # None => health'[k].phase = "fine"
                      /\ link'[k].held =
                           IF session[k] # None \/ health'[k].phase \in {"failed", "quarantined"}
                           THEN 1 ELSE 0
    BY <1>8 DEF Lives
  <2>1. /\ session[k] # None => health[k].phase = "fine"
        /\ link[k].held =
             IF session[k] # None \/ health[k].phase \in {"failed", "quarantined"}
             THEN 1 ELSE 0
    BY <1>1, StateOf DEF Lives
  <2>2. CASE k \notin batch
    BY <1>7, <2>1, <2>2
  <2>3. CASE k \in batch \ stuck
    BY <1>7, <1>10, <2>3
  <2>4. CASE k \in stuck
    <3>1. k \in batch /\ health[k].phase = "failed"
      BY <2>4
    <3> QED
      BY <1>7, <1>10, <2>1, <2>4, <3>1
  <2> QED
    BY <2>2, <2>3, <2>4
<1>12. \A k \in Keys : State.session[k] # None => z.link[k] = State.link[k]
  BY <1>7, <1>8, <1>10, StateOf
<1>13. Sound(z, W)
  BY <1>1, <1>8, <1>11, <1>12, StateOf, SoundLives
<1> QED
  BY <1>1, <1>9, <1>13, KeptQuietly DEF W

\* A key's failures, or its delay, are forgotten.
LEMMA HealthStep ==
    ASSUME Inv, NEW k \in Keys, NEW h \in Healths, h.phase = health[k].phase,
           health' = [health EXCEPT ![k] = h],
           UNCHANGED <<asked, commands, session, link, disk, answered>>
    PROVE  Inv'
<1> DEFINE W == Unread(commands)
           z == [State EXCEPT !.health = health']
<1>1. /\ Sound(State, W) /\ State \in States /\ Lives(State)
      /\ health \in [Keys -> Healths]
  BY InvSound, StateOf, StateFields DEF Sound, Core
<1>2. health' \in [Keys -> Healths] /\ \A j \in Keys : health'[j].phase = health[j].phase
  BY <1>1
<1>3. /\ z \in States /\ z.session = session /\ z.disk = disk /\ z.answered = answered
      /\ z.health = health' /\ z.link = link
  BY <1>1, <1>2, StateOf DEF States
<1>4. State' = z
  BY DEF State
<1> HIDE DEF z, W
<1>5. Lives(z)
  BY <1>1, <1>2, <1>3, StateOf DEF Lives
<1>6. Sound(z, W)
  BY <1>1, <1>3, <1>5, StateOf, SoundLives
<1> QED
  BY <1>4, <1>6, KeptQuietly DEF W

LEMMA CoolStep ==
    ASSUME Inv, NEW k \in Keys, Cool(k) \/ StayReady(k)
    PROVE  Inv'
<1>1. health \in [Keys -> Healths]
  BY InvSound, StateOf, StateFields
<1>2. CASE Cool(k)
  <2> DEFINE h == [health[k] EXCEPT !.cooling = FALSE]
  <2>1. h \in Healths /\ h.phase = health[k].phase
    BY <1>1 DEF Healths
  <2>2. health' = [health EXCEPT ![k] = h]
    BY <1>2 DEF Cool
  <2> HIDE DEF h
  <2> QED
    BY <1>2, <2>1, <2>2, HealthStep DEF Cool
<1>3. CASE StayReady(k)
  <2> DEFINE h == [health[k] EXCEPT !.attempts = 0]
  <2>1. h \in Healths /\ h.phase = health[k].phase
    BY <1>1 DEF Healths
  <2>2. health' = [health EXCEPT ![k] = h]
    BY <1>3 DEF StayReady
  <2> HIDE DEF h
  <2> QED
    BY <1>3, <2>1, <2>2, HealthStep DEF StayReady
<1> QED
  BY <1>2, <1>3

\* A server and its I/O threads change the channels of a session.
LEMMA LinkStep ==
    ASSUME Inv, NEW k \in Keys, session[k] # None, NEW m \in Links,
           m.held = link[k].held, Expected(session[k], m), ReadsWell(session[k], m),
           link' = [link EXCEPT ![k] = m],
           UNCHANGED <<asked, commands, session, health, disk, answered>>
    PROVE  Inv'
<1>1. /\ Sound(State, Unread(commands)) /\ State.session[k] = session[k]
      /\ State.link[k] = link[k]
  BY InvSound, StateOf
<1>2. Sound(WithLink(State, k, m), Unread(commands))
  BY <1>1, SoundLink
<1>3. State' = WithLink(State, k, m)
  BY DEF State, WithLink
<1> QED
  BY <1>2, <1>3, KeptQuietly

LEMMA ServerStep ==
    ASSUME Inv, NEW k \in Keys,
           ServerReads(k) \/ ServerAnswers(k) \/ ServerCalls(k) \/ ServerStops(k)
    PROVE  Inv'
<1> DEFINE s == session[k]
           l == link[k]
<1>1. /\ s # None /\ ~l.control
      /\ UNCHANGED <<asked, commands, session, health, disk, answered>>
  BY DEF ServerReads, ServerAnswers, ServerCalls, ServerStops, Talks
<1>2. s \in Sessions /\ l \in Links /\ Expected(s, l) /\ ReadsWell(s, l)
  BY <1>1, InvSound, StateOf, SoundParts
<1> HIDE DEF s
<1>3. CASE ServerReads(k)
  <2> DEFINE msg == Head(l.inbox)
             m == [l EXCEPT !.inbox = Tail(@),
                            !.owed = IF msg.m \in {"init", "ask"} THEN @ \cup {msg.id} ELSE @,
                            !.shown = IF msg.m = "open" THEN msg.doc
                                      ELSE IF msg.m = "close" THEN None ELSE @]
  <2>1. l.inbox # <<>> /\ link' = [link EXCEPT ![k] = m]
    BY <1>3 DEF ServerReads
  <2>2. m \in Links /\ m.held = l.held /\ Expected(s, m) /\ ReadsWell(s, m)
    <3> HIDE DEF l
    <3> QED
      BY <1>1, <1>2, <2>1, ServerRead
  <2> HIDE DEF m
  <2> QED
    BY <1>1, <2>1, <2>2, LinkStep DEF s
<1>4. CASE ServerAnswers(k)
  <2>1. PICK id \in l.owed, sync \in {"open", "disk", "both"} :
           link' = [link EXCEPT ![k] =
             Emit([l EXCEPT !.owed = @ \ {id}],
                  IF id = 0 THEN Msg("capabilities", 0, sync) ELSE Msg("answer", id, None))]
    BY <1>4 DEF ServerAnswers
  <2> DEFINE m == Emit([l EXCEPT !.owed = @ \ {id}],
                       IF id = 0 THEN Msg("capabilities", 0, sync)
                                 ELSE Msg("answer", id, None))
  <2>2. m \in Links /\ m.held = l.held /\ Expected(s, m) /\ ReadsWell(s, m)
    <3> HIDE DEF l
    <3> QED
      BY <1>2, ServerAnswer
  <2>3. link' = [link EXCEPT ![k] = m]
    BY <2>1
  <2> HIDE DEF m
  <2> QED
    BY <1>1, <2>2, <2>3, LinkStep DEF s
<1>5. CASE ServerCalls(k)
  <2> DEFINE m == Emit(l, Msg("call", None, None))
  <2>1. m \in Links /\ m.held = l.held /\ Expected(s, m) /\ ReadsWell(s, m)
    <3> HIDE DEF l
    <3> QED
      BY <1>2, ServerCall
  <2>2. link' = [link EXCEPT ![k] = m]
    BY <1>5 DEF ServerCalls
  <2> HIDE DEF m
  <2> QED
    BY <1>1, <2>1, <2>2, LinkStep DEF s
<1>6. CASE ServerStops(k)
  <2> DEFINE m == [NoLink EXCEPT !.frames = l.frames, !.held = l.held, !.control = TRUE]
  <2>1. m \in Links /\ m.held = l.held /\ Expected(s, m) /\ ReadsWell(s, m)
    <3> HIDE DEF l
    <3> QED
      BY <1>2, Stopped
  <2>2. link' = [link EXCEPT ![k] = m]
    BY <1>6 DEF ServerStops
  <2> HIDE DEF m
  <2> QED
    BY <1>1, <2>1, <2>2, LinkStep DEF s
<1> QED
  BY <1>3, <1>4, <1>5, <1>6

----------------------------------------------------------------------------------
(* The theorems *)

LEMMA Beginning == Init => Inv
<1> SUFFICES ASSUME Init PROVE Inv
  OBVIOUS
<1>1. /\ asked = <<>> /\ commands = <<>> /\ Len(asked) = 0 /\ Len(commands) = 0
      /\ asked \in Seq(Asked) /\ commands \in Seq(Commands) /\ <<>> \in Seq(Messages)
  BY DEF Init
<1>2. NoLink \in Links /\ NoLink.held = 0
  BY <1>1, EmptyLinks DEF NoLink
<1>3. State \in States
  <2>1. session \in [Keys -> Sessions \cup {None}] /\ link \in [Keys -> Links]
    BY <1>2 DEF Init
  <2>2. health \in [Keys -> Healths] /\ answered \in [Requests -> Nat]
    BY DEF Init, Healths, Phases
  <2>3. disk \in Disks
    BY DEF Init, Disks
  <2> QED
    BY <2>1, <2>2, <2>3 DEF State, States
<1>4. /\ \A k \in Keys : session[k] = None /\ link[k].held = 0 /\ health[k].phase = "fine"
      /\ disk.waiting = {} /\ \A r \in Requests : answered[r] = 0
  BY <1>2 DEF Init
<1>5. Unread(commands) = {}
  BY <1>1 DEF Unread
<1>6. Books(State, Unread(commands))
  BY <1>4, <1>5, StateOf DEF Books
<1>7. Lives(State) /\ Expects(State) /\ Reads(State)
  BY <1>4, StateOf DEF Lives, Expects, Reads
<1>8. ReadOnce(commands) /\ Known(commands, Len(asked))
  BY <1>1 DEF ReadOnce, Known
<1> QED
  BY <1>1, <1>3, <1>6, <1>7, <1>8, BoundsAreNumbers DEF Inv, Types

LEMMA Steps == Inv /\ [Next]_vars => Inv'
<1> SUFFICES ASSUME Inv, [Next]_vars PROVE Inv'
  OBVIOUS
<1>1. CASE UNCHANGED vars
  <2>1. State' = State /\ asked' = asked /\ commands' = commands
    BY <1>1 DEF vars, State
  <2> QED
    BY <2>1, InvSound, KeptQuietly
<1>2. CASE Next
  BY <1>2, RequestStep, CancelStep, HandleRequestStep, HandleCancelStep, DiskAnswersStep,
     WedgeStep, CleanupStep, ReadDiskStep, ExpireStep, HandleFrameStep, FailOnControlStep,
     CoolStep, ServerStep DEF Next, Manages
<1> QED
  BY <1>1, <1>2

\* What each request waits for, which processes the client holds, which ids a server
\* may still answer, and which text it has open when it reads a request: the invariant
\* from which the properties of the client follow.
THEOREM ClientIsSound == Spec => []Inv
<1> QED
  BY Beginning, Steps, PTL DEF Spec

\* The client never holds two server processes of a server root and language, however its
\* sessions fail and are replaced: spawn_session starts one only when
\* cleanup_failed_sessions has shown the last one it held to be gone.  Nothing is said of
\* what spawns that failed half way have dropped.
THEOREM OneProcessIsHeld == Spec => []OneProcessPerKey
<1>1. Inv => OneProcessPerKey
  <2> SUFFICES ASSUME Inv, NEW k \in Keys PROVE link[k].held <= 1
    BY DEF OneProcessPerKey
  <2>1. State.link[k].held \in {0, 1}
    BY DEF Inv, Lives
  <2> QED
    BY <2>1, StateOf
<1> QED
  BY <1>1, ClientIsSound, PTL

\* A request is completed at most once, whoever completes it; every answer a server owes
\* is one the client waits for or tolerates; and a server that is given texts reads every
\* request with the text open that the request was made for.
THEOREM AnswersAlwaysFit == Spec => []AnswersFit
<1>1. Inv => AnswersFit
  <2> SUFFICES ASSUME Inv PROVE AnswersFit
    OBVIOUS
  <2>1. AnsweredOnce
    BY StateOf DEF Inv, Books, AnsweredOnce
  <2>2. AnswersAreExpected
    <3> SUFFICES ASSUME NEW k \in Keys, session[k] # None
                 PROVE  LET l == link[k] IN
                        l.owed
                          \cup {l.frames[i].id :
                                  i \in {j \in 1..Len(l.frames) : l.frames[j].m = "answer"}}
                          \cup {l.inbox[i].id :
                                  i \in {j \in 1..Len(l.inbox) : l.inbox[j].m = "ask"}}
                        \subseteq {p.id : p \in session[k].pending} \cup session[k].retired
      BY DEF AnswersAreExpected
    <3>1. Expected(session[k], link[k])
      BY StateOf DEF Inv, Expects
    <3> QED
      BY <3>1 DEF Expected, Ids, Calls, Replies
  <2>3. RequestSeesItsText
    <3> SUFFICES ASSUME NEW k \in Keys, Talks(k), session[k].sync \in {"open", "both"},
                        NEW i \in 1..Len(link[k].inbox), link[k].inbox[i].m = "ask"
                 PROVE  LET box == link[k].inbox
                            texts == {j \in 1..(i - 1) : box[j].m \in {"open", "close"}}
                        IN  IF texts = {} THEN link[k].shown = box[i].doc
                            ELSE \E j \in texts : /\ \A h \in texts : h <= j
                                                  /\ box[j].m = "open"
                                                  /\ box[j].doc = box[i].doc
      BY DEF RequestSeesItsText
    <3>1. ReadsWell(session[k], link[k]) /\ ~link[k].control
      BY StateOf DEF Inv, Reads, Talks
    <3>2. AsksFit(link[k].inbox, link[k].shown)
      BY <3>1 DEF ReadsWell
    <3>3. Shows(link[k].inbox, link[k].shown, i - 1, link[k].inbox[i].doc)
      BY <3>2 DEF AsksFit
    <3> QED
      BY <3>3 DEF Shows, TextsTo, Texts
  <2> QED
    BY <2>1, <2>2, <2>3 DEF AnswersFit
<1> QED
  BY <1>1, ClientIsSound, PTL

----------------------------------------------------------------------------------
(* How servers are ended.  What a cleanup reports is true, for any number of        *)
(* sessions: the processes and the threads only ever go away, so that what a phase  *)
(* saw gone is still gone when the outcome is decided.                              *)

CONSTANT Batch   \* the sessions that are ended together
VARIABLE phase

Ending == INSTANCE ServerCleanup WITH Sessions <- Batch

CleanupPhases == {"begin", "response", "exit", "term", "kill", "io", "settle", "end"}
Kinds == {"none", "alive", "deaf", "quiet"}
CleanupProgress == [orderly : BOOLEAN, responded : BOOLEAN, gone : BOOLEAN,
             error : BOOLEAN, clean : BOOLEAN, forced : BOOLEAN]

CleanupTypes ==
    /\ platform \in {"unix", "windows"}
    /\ phase \in CleanupPhases
    /\ child \in [Batch -> {"running", "exited", "reaped"}]
    /\ kin \in [Batch -> Kinds]
    /\ stray \in [Batch -> BOOLEAN]
    /\ told \in [Batch -> {"nothing", "exit", "term", "kill"}]
    /\ thread \in [Batch -> [Ending!Threads -> {"running", "done", "finished", "joined"}]]
    /\ prog \in [Batch -> CleanupProgress]
    /\ outcome \in [Batch -> {"none", "complete", "quarantined"}]

\* A tree that was found empty has no child, no zombie and no descendant in its group;
\* a job holds the descendants that left the group, too.
GoneIsGone(s) ==
    prog[s].gone =>
        child[s] = "reaped" /\ kin[s] = "none" /\ (platform = "windows" => ~stray[s])

\* The thread that reads the errors has seen the end of its pipe when it ends.
EndedReads(s) == thread[s]["stderr"] # "running" => ~Ending!Piped(s)

\* Before the first signal is due nobody has been signalled.
Unforced(s) == told[s] \in {"nothing", "exit"} /\ ~prog[s].forced
EarlyIsUnforced(s) == phase \in {"begin", "response", "exit"} => Unforced(s)

\* A clean exit was seen before that, and the session is left alone from then on.
CleanIsOver(s) == prog[s].clean => prog[s].gone /\ Unforced(s)

\* The outcome was decided by what cannot be undone.
CompleteIsProven(s) ==
    outcome[s] = "complete" =>
        prog[s].gone /\ \A t \in Ending!Threads : thread[s][t] = "joined"

CleanupSound(s) ==
    /\ GoneIsGone(s) /\ EndedReads(s) /\ EarlyIsUnforced(s)
    /\ CleanIsOver(s) /\ CompleteIsProven(s)

CleanupInv == CleanupTypes /\ \A s \in Batch : CleanupSound(s)

----------------------------------------------------------------------------------
\* The cleanup starts with no tree found empty and no thread ended.
LEMMA StartIsSound == Ending!Init => CleanupInv
  <1> SUFFICES ASSUME Ending!Init PROVE CleanupInv
    OBVIOUS
  <1>1. CleanupTypes
    BY DEF Ending!Init, CleanupTypes, CleanupPhases, Kinds, CleanupProgress, Ending!Threads
  <1>2. ASSUME NEW s \in Batch PROVE CleanupSound(s)
    BY DEF Ending!Init, CleanupSound, GoneIsGone, EndedReads, EarlyIsUnforced, CleanIsOver,
           CompleteIsProven, Unforced, Ending!Threads
  <1> QED
    BY <1>1, <1>2 DEF CleanupInv

----------------------------------------------------------------------------------
\* No process comes back and no pipe is taken up again.
LEMMA ExitsIsSound ==
  ASSUME CleanupInv, NEW s \in Batch, Ending!Exits(s) PROVE CleanupInv'
  <1>1. CleanupTypes'
    BY DEF CleanupInv, CleanupTypes, Ending!Exits, Kinds
  <1>2. ASSUME NEW z \in Batch PROVE CleanupSound(z)'
    <2>1. CleanupSound(z) /\ CleanupTypes
      BY DEF CleanupInv
    <2>2. /\ child[z] # "running" => child'[z] = child[z]
          /\ kin[z] = "none" => kin'[z] = "none"
          /\ kin[z] = "quiet" => kin'[z] \in {"quiet", "none"}
          /\ ~stray[z] => ~stray'[z]
      BY <2>1 DEF Ending!Exits, CleanupTypes, Kinds
    <2>3. UNCHANGED <<platform, told, phase, thread, prog, outcome>>
      BY DEF Ending!Exits
    <2>4. GoneIsGone(z)'
      BY <2>1, <2>2, <2>3 DEF CleanupSound, GoneIsGone, CleanupTypes, Kinds
    <2>5. ~Ending!Piped(z) => ~Ending!Piped(z)'
      BY <2>1, <2>2, <2>3 DEF Ending!Piped, CleanupTypes, Kinds
    <2>6. EndedReads(z)'
      BY <2>1, <2>3, <2>5 DEF CleanupSound, EndedReads
    <2> QED
      BY <2>1, <2>3, <2>4, <2>6
      DEF CleanupSound, EarlyIsUnforced, CleanIsOver, CompleteIsProven, Unforced
  <1> QED
    BY <1>1, <1>2 DEF CleanupInv

\* A thread that ends was running: what has been joined stays so.
LEMMA ThreadEndsIsSound ==
  ASSUME CleanupInv, NEW s \in Batch, NEW t \in Ending!Threads, Ending!ThreadEnds(s, t)
  PROVE  CleanupInv'
  <1>1. CleanupTypes'
    BY SMTT(40)
    DEF CleanupInv, CleanupTypes, Ending!ThreadEnds, Ending!world, Ending!Threads
  <1>2. ASSUME NEW z \in Batch PROVE CleanupSound(z)'
    <2>1. CleanupSound(z) /\ CleanupTypes
      BY DEF CleanupInv
    <2>2. UNCHANGED <<platform, child, kin, stray, told, phase, prog, outcome>>
      BY DEF Ending!ThreadEnds, Ending!world
    <2>3. EndedReads(z)'
      BY <2>1, <2>2
      DEF CleanupSound, EndedReads, Ending!ThreadEnds, Ending!Piped, CleanupTypes,
          Ending!Threads
    <2>4. CompleteIsProven(z)'
      BY <2>1, <2>2
      DEF CleanupSound, CompleteIsProven, Ending!ThreadEnds, CleanupTypes, Ending!Threads
    <2> QED
      BY <2>1, <2>2, <2>3, <2>4
      DEF CleanupSound, GoneIsGone, EarlyIsUnforced, CleanIsOver, Unforced
  <1> QED
    BY <1>1, <1>2 DEF CleanupInv

\* Asking for the shutdown is no signal.
LEMMA RespondIsSound ==
  ASSUME CleanupInv, NEW s \in Batch, Ending!Respond(s) PROVE CleanupInv'
  <1>1. CleanupTypes'
    <2>1. CleanupTypes
      BY DEF CleanupInv
    <2>2. prog' \in [Batch -> CleanupProgress]
      <3>1. prog[s] \in CleanupProgress /\ prog \in [Batch -> CleanupProgress]
        BY <2>1 DEF CleanupTypes
      <3>2. prog' = [prog EXCEPT ![s].responded = TRUE]
        BY DEF Ending!Respond
      <3> QED
        BY <3>1, <3>2 DEF CleanupProgress
    <2>3. told' \in [Batch -> {"nothing", "exit", "term", "kill"}]
      BY <2>1 DEF Ending!Respond, CleanupTypes
    <2> QED
      BY <2>1, <2>2, <2>3 DEF Ending!Respond, CleanupTypes
  <1>2. ASSUME NEW z \in Batch PROVE CleanupSound(z)'
    <2>1. CleanupSound(z) /\ CleanupTypes
      BY DEF CleanupInv
    <2>2. UNCHANGED <<platform, child, kin, stray, phase, thread, outcome>>
      BY DEF Ending!Respond
    <2>3. /\ prog'[z].gone = prog[z].gone /\ prog'[z].clean = prog[z].clean
          /\ prog'[z].forced = prog[z].forced
          /\ told'[z] \in {told[z], "exit"}
      BY <2>1 DEF Ending!Respond, CleanupTypes, CleanupProgress
    <2>4. EndedReads(z)'
      BY <2>1, <2>2 DEF CleanupSound, EndedReads, Ending!Piped
    <2> QED
      BY <2>1, <2>2, <2>3, <2>4
      DEF CleanupSound, GoneIsGone, EarlyIsUnforced, CleanIsOver, CompleteIsProven, Unforced
  <1> QED
    BY <1>1, <1>2 DEF CleanupInv

\* The query that finds the tree empty reaps the child in the same step.
LEMMA PollTreeIsSound ==
  ASSUME CleanupInv, NEW s \in Batch, Ending!PollTree(s) PROVE CleanupInv'
  <1>0. CleanupTypes /\ Ending!Empty(s) \in BOOLEAN
    BY DEF CleanupInv, Ending!Empty
  <1> DEFINE clean == prog[s].clean \/ (Ending!Empty(s) /\ phase = "exit" /\ prog[s].orderly)
  <1>a. \/ prog' = [prog EXCEPT ![s].gone = Ending!Empty(s), ![s].clean = clean]
        \/ prog' = [prog EXCEPT ![s].error = TRUE]
    BY DEF Ending!PollTree
  <1>b. prog[s] \in CleanupProgress /\ clean \in BOOLEAN
    BY <1>0 DEF CleanupTypes
  <1>c. prog' \in [Batch -> CleanupProgress]
    <2> HIDE DEF clean
    <2> QED
      <3>1. prog \in [Batch -> CleanupProgress]
        BY <1>0 DEF CleanupTypes
      <3>2. CASE prog' = [prog EXCEPT ![s].gone = Ending!Empty(s), ![s].clean = clean]
        <4> DEFINE e == Ending!Empty(s)
        <4>1. e \in BOOLEAN
          BY <1>0
        <4> HIDE DEF e
        <4>2. [prog[s] EXCEPT !.gone = e, !.clean = clean] \in CleanupProgress
          BY <1>b, <4>1 DEF CleanupProgress
        <4>3. prog' = [prog EXCEPT ![s] = [prog[s] EXCEPT !.gone = e, !.clean = clean]]
          BY <3>1, <3>2 DEF e
        <4> QED
          BY <3>1, <4>2, <4>3
      <3>3. CASE prog' = [prog EXCEPT ![s].error = TRUE]
        BY <1>b, <3>1, <3>3 DEF CleanupProgress
      <3> QED
        BY <1>a, <3>2, <3>3
  <1>1. CleanupTypes'
    BY <1>0, <1>c DEF CleanupTypes, Ending!PollTree
  <1>2. ASSUME NEW z \in Batch PROVE CleanupSound(z)'
    <2>1. CleanupSound(z) /\ CleanupTypes /\ CleanupSound(s)
      BY DEF CleanupInv
    <2>2. UNCHANGED <<platform, kin, stray, told, phase, thread, outcome>>
      BY DEF Ending!PollTree
    <2>3. child'[z] = child[z] \/ (child[z] = "exited" /\ child'[z] = "reaped")
      BY <2>1 DEF Ending!PollTree, CleanupTypes
    <2>4. EndedReads(z)'
      BY <2>1, <2>2, <2>3 DEF CleanupSound, EndedReads, Ending!Piped
    <2>5. prog'[z].forced = prog[z].forced
      BY <2>1 DEF Ending!PollTree, CleanupTypes, CleanupProgress
    <2>6. /\ prog[z].gone => prog'[z].gone
          /\ prog'[z].gone /\ ~prog[z].gone =>
                z = s /\ Ending!Empty(s) /\ child'[s] = "reaped"
      BY <2>1 DEF Ending!PollTree, CleanupTypes, CleanupProgress, Ending!Empty
    <2>7. prog'[z].clean /\ ~prog[z].clean =>
             z = s /\ prog'[s].gone /\ phase = "exit"
      <3>1. CASE prog' = [prog EXCEPT ![s].gone = Ending!Empty(s), ![s].clean = clean]
        <4>1. z # s => prog'[z] = prog[z]
          BY <2>1, <3>1 DEF CleanupTypes
        <4>2. prog'[s].gone = Ending!Empty(s) /\ prog'[s].clean = clean
          <5> HIDE DEF clean
          <5> QED
            BY <1>b, <2>1, <3>1 DEF CleanupTypes, CleanupProgress
        <4> QED
          BY <4>1, <4>2
      <3>2. CASE prog' = [prog EXCEPT ![s].error = TRUE]
        BY <2>1, <3>2 DEF CleanupTypes, CleanupProgress
      <3> QED
        BY <1>a, <3>1, <3>2
    <2>8. GoneIsGone(z)'
      BY <2>1, <2>2, <2>3, <2>6
      DEF CleanupSound, GoneIsGone, Ending!Empty, Ending!Contained, CleanupTypes
    <2>9. CleanIsOver(z)'
      BY <2>1, <2>2, <2>5, <2>6, <2>7
      DEF CleanupSound, CleanIsOver, EarlyIsUnforced, Unforced
    <2> QED
      BY <2>1, <2>2, <2>4, <2>5, <2>6, <2>8, <2>9
      DEF CleanupSound, EarlyIsUnforced, CompleteIsProven, Unforced
  <1> QED
    BY <1>1, <1>2 DEF CleanupInv

\* Only a thread that has ended is joined.
LEMMA PollThreadsIsSound ==
  ASSUME CleanupInv, NEW s \in Batch, Ending!PollThreads(s) PROVE CleanupInv'
  <1>1. CleanupTypes'
    BY DEF CleanupInv, CleanupTypes, Ending!PollThreads, Ending!world, Ending!Threads
  <1>2. ASSUME NEW z \in Batch PROVE CleanupSound(z)'
    <2>1. CleanupSound(z) /\ CleanupTypes
      BY DEF CleanupInv
    <2>2. UNCHANGED <<platform, child, kin, stray, told, phase, prog, outcome>>
      BY DEF Ending!PollThreads, Ending!world
    <2>3. \A t \in Ending!Threads :
             thread'[z][t] = thread[z][t]
             \/ (thread[z][t] = "finished" /\ thread'[z][t] = "joined")
      BY <2>1 DEF Ending!PollThreads, CleanupTypes
    <2>4. EndedReads(z)'
      BY <2>1, <2>2, <2>3 DEF CleanupSound, EndedReads, Ending!Piped, Ending!Threads
    <2>5. CompleteIsProven(z)'
      BY <2>1, <2>2, <2>3 DEF CleanupSound, CompleteIsProven
    <2> QED
      BY <2>1, <2>2, <2>4, <2>5
      DEF CleanupSound, GoneIsGone, EarlyIsUnforced, CleanIsOver, Unforced
  <1> QED
    BY <1>1, <1>2 DEF CleanupInv

\* Signals go to the trees that are not known to be gone, and to no other.
LEMMA NextPhaseIsSound ==
  ASSUME CleanupInv, Ending!NextPhase PROVE CleanupInv'
  <1>1. CleanupTypes
    BY DEF CleanupInv
  <1>2. /\ phase \in {"response", "exit", "term", "kill", "io"}
        /\ phase' \in {"exit", "term", "kill", "io", "settle"}
        /\ phase' = "exit" => phase = "response"
    BY DEF Ending!NextPhase
  <1>3. UNCHANGED <<platform, kin, stray, thread, outcome>>
    BY DEF Ending!NextPhase
  <1>4. CASE phase \notin {"exit", "term"}
    <2>1. UNCHANGED <<child, told, prog>>
      BY <1>4 DEF Ending!NextPhase
    <2>2. CleanupTypes'
      BY <1>1, <1>2, <1>3, <2>1 DEF CleanupTypes, CleanupPhases
    <2>3. ASSUME NEW z \in Batch PROVE CleanupSound(z)'
      BY <1>2, <1>3, <2>1
      DEF CleanupInv, CleanupSound, GoneIsGone, EndedReads, EarlyIsUnforced, CleanIsOver,
          CompleteIsProven, Unforced, Ending!Piped
    <2> QED
      BY <2>2, <2>3 DEF CleanupInv
  <1>5. CASE phase \in {"exit", "term"}
    <2> DEFINE signal == IF phase = "exit" /\ platform = "unix" THEN "term" ELSE "kill"
    <2>1. /\ child' = [s \in Batch |->
                IF Ending!Forces(s) /\ platform = "unix" /\ child[s] = "exited"
                  THEN "reaped" ELSE child[s]]
          /\ told' = [s \in Batch |-> IF Ending!Forces(s) THEN signal ELSE told[s]]
          /\ prog' = [s \in Batch |-> [prog[s] EXCEPT !.forced = @ \/ Ending!Forces(s)]]
          /\ phase' \in {"term", "kill"}
      BY <1>5 DEF Ending!NextPhase
    <2>2. prog' \in [Batch -> CleanupProgress]
      <3> SUFFICES ASSUME NEW z \in Batch
                   PROVE  [prog[z] EXCEPT !.forced = @ \/ Ending!Forces(z)] \in CleanupProgress
        BY <2>1
      <3> QED
        BY ZenonT(40), <1>1 DEF CleanupTypes, CleanupProgress, Ending!Forces
    <2>3. CleanupTypes'
      BY <1>1, <1>2, <1>3, <2>1, <2>2 DEF CleanupTypes, CleanupPhases
    <2>4. ASSUME NEW z \in Batch PROVE CleanupSound(z)'
      <3>1. CleanupSound(z)
        BY DEF CleanupInv
      <3>2. child'[z] = child[z] \/ (child[z] = "exited" /\ child'[z] = "reaped")
        BY <1>1, <2>1 DEF CleanupTypes
      <3>3. prog'[z].gone = prog[z].gone /\ prog'[z].clean = prog[z].clean
        BY <1>1, <2>1 DEF CleanupTypes, CleanupProgress
      <3>4. prog[z].gone => prog'[z].forced = prog[z].forced /\ told'[z] = told[z]
        BY <1>1, <2>1 DEF CleanupTypes, CleanupProgress, Ending!Forces
      <3>5. EndedReads(z)'
        BY <1>3, <3>1, <3>2 DEF CleanupSound, EndedReads, Ending!Piped
      <3>6. CleanIsOver(z)'
        BY <3>1, <3>3, <3>4 DEF CleanupSound, CleanIsOver, Unforced
      <3> QED
        BY <1>3, <2>1, <3>1, <3>2, <3>3, <3>5, <3>6
        DEF CleanupSound, GoneIsGone, EarlyIsUnforced, CompleteIsProven
    <2> QED
      BY <2>3, <2>4 DEF CleanupInv
  <1> QED
    BY <1>4, <1>5

\* The steps of the batch that touch no session, and the verdict.
LEMMA BatchIsSound ==
  ASSUME CleanupInv, Ending!BeginCleanup \/ Ending!FinalizeCleanup \/ UNCHANGED Ending!vars
  PROVE  CleanupInv'
  <1>1. CASE Ending!BeginCleanup
    BY <1>1
    DEF CleanupInv, CleanupTypes, CleanupSound, GoneIsGone, EndedReads, EarlyIsUnforced,
        CleanIsOver,
                CompleteIsProven, Unforced, Ending!Piped, Ending!BeginCleanup,
                    Ending!world, CleanupPhases
  <1>2. CASE Ending!FinalizeCleanup
    <2>1. UNCHANGED <<platform, child, kin, stray, told, thread, prog>>
      BY <1>2 DEF Ending!FinalizeCleanup, Ending!world
    <2>2. CleanupTypes'
      BY <1>2, <2>1 DEF CleanupInv, CleanupTypes, Ending!FinalizeCleanup, CleanupPhases
    <2>3. ASSUME NEW z \in Batch PROVE CleanupSound(z)'
      <3>1. CleanupSound(z)
        BY DEF CleanupInv
      <3>2. CompleteIsProven(z)'
        BY <1>2, <2>1 DEF Ending!FinalizeCleanup, Ending!Proven, CompleteIsProven
      <3> QED
        BY <1>2, <2>1, <3>1, <3>2
        DEF Ending!FinalizeCleanup, CleanupSound, GoneIsGone, EndedReads, EarlyIsUnforced,
            CleanIsOver, Unforced, Ending!Piped
    <2> QED
      BY <2>2, <2>3 DEF CleanupInv
  <1>3. CASE UNCHANGED Ending!vars
    BY <1>3
    DEF CleanupInv, CleanupTypes, CleanupSound, GoneIsGone, EndedReads, EarlyIsUnforced,
        CleanIsOver,
                CompleteIsProven, Unforced, Ending!Piped, Ending!vars, Ending!world
  <1> QED
    BY <1>1, <1>2, <1>3

----------------------------------------------------------------------------------
\* What the manager believes of the sessions holds throughout a cleanup.
THEOREM ProgressIsTrue == Ending!Spec => []CleanupInv
  <1>1. CleanupInv /\ [Ending!Next]_(Ending!vars) => CleanupInv'
    BY ExitsIsSound, ThreadEndsIsSound, RespondIsSound, PollTreeIsSound,
       PollThreadsIsSound, NextPhaseIsSound, BatchIsSound
    DEF Ending!Next, Ending!Done
  <1> QED
    BY StartIsSound, <1>1, PTL DEF Ending!Spec

\* Of what counts as complete nothing is left, not even a pipe that an escaped process
\* holds; and what counts as a clean exit was never signalled (finalize_cleanup).
THEOREM CleanupsTellTheTruth == Ending!Spec => []CleanupsAreProven
  <1>1. CleanupInv => CleanupsAreProven
    <2>0. CleanupInv => /\ DOMAIN outcome = Batch /\ DOMAIN prog = Batch
                 /\ \A s \in Batch : DOMAIN thread[s] = Ending!Threads
      BY DEF CleanupInv, CleanupTypes
    <2> SUFFICES ASSUME CleanupInv, NEW s \in Batch
        PROVE /\ outcome[s] = "complete" =>
                    /\ ~Tree(s) /\ ~stray[s]
                    /\ platform = "unix" => child[s] = "reaped"
                    /\ \A t \in Ending!Threads : thread[s][t] = "joined"
              /\ prog[s].clean => told[s] \in {"nothing", "exit"} /\ ~prog[s].forced
      BY <2>0 DEF CleanupsAreProven, CompleteMeansGone, CleanIsUnforced
    <2>1. CleanupSound(s)
      BY DEF CleanupInv
    <2>2. outcome[s] = "complete" => ~Ending!Piped(s)
      BY <2>1 DEF CleanupSound, CompleteIsProven, EndedReads, Ending!Threads
    <2> QED
      BY <2>1, <2>2 DEF CleanupSound, CompleteIsProven, GoneIsGone, CleanIsOver, Unforced,
                        Tree, Ending!Piped
  <1> QED
    BY ProgressIsTrue, <1>1, PTL
==================================================================================
