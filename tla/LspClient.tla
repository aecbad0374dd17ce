----------------------------- MODULE LspClient -----------------------------
(***************************************************************************)
(* The language server client (lsp.rs): one manager thread that keeps a    *)
(* session, a server process with three I/O threads, for every server root *)
(* and language; dispatches the requests of the terminal, after a check of *)
(* the file on disk where the server is not given the text; and answers    *)
(* every request, whatever the servers do.  How the processes of a failed  *)
(* session are ended is the subject of ServerCleanup.                      *)
(***************************************************************************)
EXTENDS Integers, Sequences, FiniteSets

CONSTANTS Keys,        \* server root and language of a session
          None,
          MaxRequests, \* requests of the terminal
          MaxVersion,  \* texts of the file it shows
          CommandCap, WriterCap, FrameCap,  \* bounded channels
          MaxRetired,  \* MAX_RETIRED_IDS, pending or retired
          MaxAttempts  \* failures that disable a server, 5 in the code

Requests == 1..MaxRequests
Initialize == 0   \* as the request of a pending entry

Sessions == [state : {"starting", "ready"}, sync : {None, "open", "disk", "both"},
             nextId : Nat, pending : SUBSET [id : Nat, r : Requests \cup {Initialize}],
             retired : SUBSET Nat, opened : Nat \cup {None},
             deferred : Requests \cup {None}]

ASSUME NoneIsNothing == None \notin Nat /\ None \notin Sessions
ASSUME BoundsAreNumbers ==
    /\ MaxRequests \in Nat /\ MaxVersion \in Nat /\ MaxAttempts \in Nat
    /\ CommandCap \in Nat /\ WriterCap \in Nat /\ FrameCap \in Nat

VARIABLES
    asked,    \* the requests so far, each with its key and the version of its text
    commands, \* from the terminal to the manager
    session,  \* each key's LspSession, None where there is none
    link,     \* its server process and the channels to and from it
    health,   \* each key's failures, and the processes that failed spawns left behind
    disk,     \* the revalidation lane, and the requests that wait for it
    answered  \* how often each request was completed

vars == <<asked, commands, session, link, health, disk, answered>>

NoLink == [inbox |-> <<>>, frames |-> <<>>, control |-> FALSE, owed |-> {}, shown |-> None,
           held |-> 0]

Init ==
    /\ asked = <<>> /\ commands = <<>>
    /\ session = [k \in Keys |-> None]
    /\ link = [k \in Keys |-> NoLink]
    /\ health = [k \in Keys |-> [phase |-> "fine", attempts |-> 0, cooling |-> FALSE,
                               astray |-> 0]]
    /\ disk = [jobs |-> <<>>, results |-> <<>>, waiting |-> {}, wedged |-> FALSE]
    /\ answered = [r \in Requests |-> 0]

-----------------------------------------------------------------------------
(* The terminal *)

\* NavigationRuntime::request and cancel: what does not fit is refused, or lost.
Request(k, d) ==
    /\ Len(asked) < MaxRequests /\ Len(commands) < CommandCap
    /\ \A i \in 1..Len(asked) : asked[i].doc <= d
    /\ asked' = Append(asked, [key |-> k, doc |-> d])
    /\ commands' = Append(commands, [kind |-> "request", r |-> Len(asked) + 1])
    /\ UNCHANGED <<session, link, health, disk, answered>>

Cancel(r) ==
    /\ r <= Len(asked) /\ answered[r] = 0 /\ Len(commands) < CommandCap
    /\ \A i \in 1..Len(commands) : commands[i] # [kind |-> "cancel", r |-> r]
    /\ commands' = Append(commands, [kind |-> "cancel", r |-> r])
    /\ UNCHANGED <<asked, session, link, health, disk, answered>>

-----------------------------------------------------------------------------
(* Parts of the manager's steps: what becomes of its state st *)

State == [session |-> session, link |-> link, health |-> health, disk |-> disk,
          answered |-> answered]

Become(st) ==
    /\ session' = st.session /\ link' = st.link /\ health' = st.health
    /\ disk' = st.disk /\ answered' = st.answered

Msg(m, id, doc) == [m |-> m, id |-> id, doc |-> doc]
Fits(st, k, n) == Len(st.link[k].inbox) + n <= WriterCap
Send(st, k, msgs) == [st EXCEPT !.link[k].inbox = @ \o msgs]

\* complete_request, for all of R; none of them waits for the disk any more.
Answer(st, R) ==
    [st EXCEPT !.answered = [r \in Requests |-> IF r \in R THEN @[r] + 1 ELSE @[r]],
               !.disk.waiting = @ \ R]

Holds(s) == ({p.r : p \in s.pending} \ {Initialize})
              \cup (IF s.deferred = None THEN {} ELSE {s.deferred})

Retire(st, k) ==
    [st EXCEPT !.session[k] = None, !.health[k].phase = "failed",
               !.link[k] = [NoLink EXCEPT !.held = st.link[k].held]]

\* Mutant: the requests that wait for the disk go on waiting.
FailForgetsDisk(st, k) == Answer(Retire(st, k), Holds(st.session[k]))

\* fail_session: whatever waits for the session is completed, and its process is left
\* to the cleanup at the end of the manager's turn.
Fail(st, k) ==
    Answer(Retire(st, k),
           Holds(st.session[k]) \cup {r \in st.disk.waiting : asked[r].key = k})

\* sync_document: never a change, always close and open.
Sync(s, d) ==
    IF s.sync = "disk" \/ s.opened = d THEN <<>>
    ELSE (IF s.opened = None THEN <<>> ELSE <<Msg("close", None, s.opened)>>)
           \o <<Msg("open", None, d)>>

Enter(st, k, r) ==
    [st EXCEPT !.session[k].nextId = @ + 1,
               !.session[k].pending = @ \cup {[id |-> st.session[k].nextId, r |-> r]},
               !.session[k].opened = IF st.session[k].sync = "disk" THEN @ ELSE asked[r].doc,
               !.disk.waiting = @ \ {r}]

Asking(st, k, r) ==
    Sync(st.session[k], asked[r].doc) \o <<Msg("ask", st.session[k].nextId, asked[r].doc)>>

\* Mutant: a request is entered before it is sent, and answered by itself and with the
\* session when that fails.
DispatchEntersFirst(st, k, r) ==
    IF Fits(st, k, Len(Asking(st, k, r)))
      THEN Send(Enter(st, k, r), k, Asking(st, k, r))
      ELSE Fail(Answer(Enter(st, k, r), {r}), k)

\* dispatch_navigation.
Dispatch(st, k, r) ==
    IF /\ Fits(st, k, Len(Asking(st, k, r)))
       /\ Cardinality(st.session[k].pending) < MaxRetired
      THEN Send(Enter(st, k, r), k, Asking(st, k, r))
      ELSE Fail(Answer(st, {r}), k)

\* dispatch_or_revalidate: the file is compared with the text first where the server is
\* not told of changes.
DispatchOrRevalidate(st, k, r) ==
    IF st.session[k].sync = "open" THEN Dispatch(st, k, r)
    ELSE IF st.disk.wedged \/ Len(st.disk.jobs) = 2 THEN Answer(st, {r})
    ELSE [st EXCEPT !.disk.jobs = Append(@, r), !.disk.waiting = @ \cup {r}]

\* A pending request is cancelled or timed out: the server is told, and its answer is
\* tolerated once; where that is not possible the session fails.
GiveUp(st, k, p) ==
    LET without == Answer([st EXCEPT !.session[k].pending = @ \ {p}], {p.r}) IN
    IF Fits(st, k, 1) /\ Cardinality(st.session[k].retired) < MaxRetired
      THEN Send([without EXCEPT !.session[k].retired = @ \cup {p.id}],
                k, <<Msg("cancel", p.id, None)>>)
      ELSE Fail(without, k)

\* record_failure_at, once no process is held any more.
RecordFailure(st, k) ==
    LET attempt == IF st.health[k].attempts < MaxAttempts
                     THEN st.health[k].attempts + 1 ELSE MaxAttempts IN
    [st EXCEPT !.health[k] =
        [st.health[k] EXCEPT !.phase = IF attempt = MaxAttempts THEN "permanent" ELSE "fine",
                             !.attempts = attempt, !.cooling = attempt < MaxAttempts]]

-----------------------------------------------------------------------------
(* The manager *)

\* spawn_session: the initialize request goes out with it.
Spawn(st, k) ==
    [st EXCEPT !.session[k] =
                 [state |-> "starting", sync |-> None, nextId |-> 1,
                  pending |-> {[id |-> 0, r |-> Initialize]}, retired |-> {},
                  opened |-> None, deferred |-> None],
               !.link[k] = [NoLink EXCEPT !.held = st.link[k].held + 1,
                                          !.inbox = <<Msg("init", 0, None)>>]]

\* An error after the process was started, on Unix: its tree is dropped, which ends the
\* process and ignores that it may fail to.
Dropped(st, k) ==
    [st EXCEPT !.health[k] = [st.health[k] EXCEPT !.astray = @ + 1]]

\* RetainedSpawnFailure, on Windows: the process was started and cannot be shown to be
\* gone.
Retained(st, k) ==
    [st EXCEPT !.health[k].phase = "quarantined", !.link[k].held = @ + 1]

\* Mutant: a failed session is replaced before its process has been ended.
RefusesButFailed(k) ==
    \/ health[k].phase \in {"permanent", "quarantined"} \/ health[k].cooling
    \/ \E j \in Keys : health[j].phase = "quarantined"

\* The early returns of handle_request.
Refuses(k) ==
    \/ health[k].phase # "fine" \/ health[k].cooling
    \/ \E j \in Keys : health[j].phase = "quarantined"

\* The newest request waits for a server that is not ready.
Defer(st, k, r) ==
    LET older == st.session[k].deferred IN
    Answer([st EXCEPT !.session[k].deferred = r], IF older = None THEN {} ELSE {older})

\* The session is there, or spawned now, which may fail; the document may not fit the payload budget,
\* the operation not be provided, the position not be in the text.
HandleRequest ==
    /\ commands # <<>> /\ Head(commands).kind = "request"
    /\ commands' = Tail(commands)
    /\ UNCHANGED asked
    /\ LET r == Head(commands).r
           k == asked[r].key
           st == IF session[k] = None THEN Spawn(State, k) ELSE State IN
       \/ Refuses(k) /\ Become(Answer(State, {r}))
       \/ /\ ~Refuses(k) /\ session[k] = None
          /\ \E left \in {State, Dropped(State, k)} :
               Become(Answer(RecordFailure(left, k), {r}))
       \/ ~Refuses(k) /\ session[k] = None /\ Become(Answer(Retained(State, k), {r}))
       \/ ~Refuses(k) /\ Become(Answer(st, {r}))
       \/ /\ ~Refuses(k)
          /\ Become(IF st.session[k].state = "ready" THEN DispatchOrRevalidate(st, k, r)
                                                     ELSE Defer(st, k, r))

\* cancel_generation: it waits for the disk, for the session or for the server.
HandleCancel ==
    /\ commands # <<>> /\ Head(commands).kind = "cancel"
    /\ commands' = Tail(commands)
    /\ UNCHANGED asked
    /\ LET r == Head(commands).r
           k == asked[r].key
           mine == IF session[k] = None THEN {} ELSE {p \in session[k].pending : p.r = r} IN
       IF r \in disk.waiting THEN Become(Answer(State, {r}))
       ELSE IF session[k] # None /\ r \in Holds(session[k]) /\ mine = {}
         THEN Become(Answer([State EXCEPT !.session[k].deferred = None], {r}))
       ELSE IF mine # {} THEN \E p \in mine : Become(GiveUp(State, k, p))
       ELSE UNCHANGED <<session, link, health, disk, answered>>

\* expire_requests: an initialization that is late fails the session.
Expire(k) ==
    /\ session[k] # None
    /\ \E p \in session[k].pending :
         Become(IF p.r = Initialize THEN Fail(State, k) ELSE GiveUp(State, k, p))
    /\ UNCHANGED <<asked, commands>>

\* poll_disk: the text is what the disk has, or the request is over.
DiskAnswers ==
    /\ disk.results # <<>>
    /\ LET r == Head(disk.results).r
           st == [State EXCEPT !.disk.results = Tail(@)] IN
       Become(IF r \notin disk.waiting THEN st
              ELSE IF ~Head(disk.results).current THEN Answer(st, {r})
              ELSE IF session[asked[r].key] = None THEN [st EXCEPT !.disk.waiting = @ \ {r}]
              ELSE Dispatch(st, asked[r].key, r))
    /\ UNCHANGED <<asked, commands>>

\* mark_wedged_if_overdue: a read that is late ends the lane for good.
Wedge ==
    /\ disk.jobs # <<>> /\ ~disk.wedged
    /\ Become(Answer([State EXCEPT !.disk.wedged = TRUE], disk.waiting))
    /\ UNCHANGED <<asked, commands>>

\* handle_frame: the answer to initialize lets the deferred request go, and an answer is
\* of a request that is pending, or given up, or fails the session.
Handle(st, k, f) ==
    LET s == st.session[k]
        mine == {p \in s.pending : p.id = f.id} IN
    IF f.m = "call" THEN IF Fits(st, k, 1) THEN Send(st, k, <<Msg("reply", None, None)>>)
                                           ELSE Fail(st, k)
    ELSE IF f.id \in s.retired THEN [st EXCEPT !.session[k].retired = @ \ {f.id}]
    ELSE IF mine = {} THEN Fail(st, k)
    ELSE IF f.m = "answer"
      THEN Answer([st EXCEPT !.session[k].pending = @ \ mine], {p.r : p \in mine})
    ELSE LET ready == Send([st EXCEPT !.session[k].pending = @ \ mine,
                                      !.session[k].state = "ready",
                                      !.session[k].sync = f.doc,
                                      !.session[k].deferred = None],
                           k, <<Msg("initialized", None, None)>>) IN
         IF ~Fits(st, k, 1) THEN Fail(st, k)
         ELSE IF s.deferred = None THEN ready
         ELSE DispatchOrRevalidate(ready, k, s.deferred)

HandleFrame(k) ==
    /\ session[k] # None /\ link[k].frames # <<>>
    /\ Become(Handle([State EXCEPT !.link[k].frames = Tail(@)], k, Head(link[k].frames)))
    /\ UNCHANGED <<asked, commands>>

\* poll_sessions: one of the I/O threads has ended.
FailOnControl(k) ==
    /\ session[k] # None /\ link[k].control
    /\ Become(Fail(State, k))
    /\ UNCHANGED <<asked, commands>>

\* cleanup_failed_sessions, all of them in one batch: a process that cannot be shown to
\* be gone is quarantined.
Cleanup ==
    LET batch == {k \in Keys : health[k].phase = "failed"} IN
    /\ batch # {}
    /\ \E stuck \in SUBSET batch :
         /\ health' = [k \in Keys |->
               IF k \in stuck THEN [health[k] EXCEPT !.phase = "quarantined"]
               ELSE IF k \in batch THEN RecordFailure(State, k).health[k]
               ELSE health[k]]
         /\ link' = [k \in Keys |-> IF k \in batch \ stuck THEN NoLink ELSE link[k]]
    /\ UNCHANGED <<asked, commands, session, disk, answered>>

\* The delay of a backoff passes; a minute of being ready makes the failures forgotten.
Cool(k) ==
    /\ health[k].cooling
    /\ health' = [health EXCEPT ![k].cooling = FALSE]
    /\ UNCHANGED <<asked, commands, session, link, disk, answered>>

StayReady(k) ==
    /\ session[k] # None /\ session[k].state = "ready" /\ health[k].attempts > 0
    /\ health' = [health EXCEPT ![k].attempts = 0]
    /\ UNCHANGED <<asked, commands, session, link, disk, answered>>

-----------------------------------------------------------------------------
(* The other threads, and the server *)

ReadDisk ==
    /\ disk.jobs # <<>> /\ ~disk.wedged
    /\ \E current \in BOOLEAN :
         disk' = [disk EXCEPT !.jobs = Tail(@),
                              !.results = Append(@, [r |-> Head(disk.jobs), current |-> current])]
    /\ UNCHANGED <<asked, commands, session, link, health, answered>>

Talks(k) == session[k] # None /\ ~link[k].control

ServerReads(k) ==
    /\ Talks(k) /\ link[k].inbox # <<>>
    /\ LET msg == Head(link[k].inbox) IN
       link' = [link EXCEPT ![k].inbox = Tail(@),
                            ![k].owed = IF msg.m \in {"init", "ask"} THEN @ \cup {msg.id} ELSE @,
                            ![k].shown = IF msg.m = "open" THEN msg.doc
                                         ELSE IF msg.m = "close" THEN None ELSE @]
    /\ UNCHANGED <<asked, commands, session, health, disk, answered>>

\* The reader thread passes a frame on, or reports that the manager is too slow for it.
Emit(l, f) ==
    IF Len(l.frames) < FrameCap THEN [l EXCEPT !.frames = Append(@, f)]
    ELSE [NoLink EXCEPT !.frames = l.frames, !.held = l.held, !.control = TRUE]

ServerAnswers(k) ==
    /\ Talks(k)
    /\ \E id \in link[k].owed, sync \in {"open", "disk", "both"} :
         link' = [link EXCEPT ![k] =
             Emit([link[k] EXCEPT !.owed = @ \ {id}],
                  IF id = 0 THEN Msg("capabilities", 0, sync) ELSE Msg("answer", id, None))]
    /\ UNCHANGED <<asked, commands, session, health, disk, answered>>

\* A request of the server, of its own accord.
ServerCalls(k) ==
    /\ Talks(k) /\ link[k].frames = <<>>
    /\ link' = [link EXCEPT ![k] = Emit(@, Msg("call", None, None))]
    /\ UNCHANGED <<asked, commands, session, health, disk, answered>>

\* The process ends, a pipe breaks, or what the server says is not the protocol: of the
\* channels only what was already read matters.
ServerStops(k) ==
    /\ Talks(k)
    /\ link' = [link EXCEPT ![k] = [NoLink EXCEPT !.frames = link[k].frames,
                                                 !.held = link[k].held, !.control = TRUE]]
    /\ UNCHANGED <<asked, commands, session, health, disk, answered>>

-----------------------------------------------------------------------------
Manages(k) == Expire(k) \/ HandleFrame(k) \/ FailOnControl(k)

Next ==
    \/ \E k \in Keys, d \in 1..MaxVersion : Request(k, d)
    \/ \E r \in Requests : Cancel(r)
    \/ HandleRequest \/ HandleCancel \/ DiskAnswers \/ Wedge \/ Cleanup \/ ReadDisk
    \/ \E k \in Keys :
         \/ Manages(k) \/ Cool(k) \/ StayReady(k)
         \/ ServerReads(k) \/ ServerAnswers(k) \/ ServerCalls(k) \/ ServerStops(k)

\* The manager takes its turns, and deadlines pass; the servers and the disk may stop.
Fairness ==
    /\ WF_vars(HandleRequest) /\ WF_vars(HandleCancel)
    /\ WF_vars(DiskAnswers) /\ WF_vars(Wedge)
    /\ \A k \in Keys : WF_vars(Expire(k))

Spec == Init /\ [][Next]_vars /\ Fairness

-----------------------------------------------------------------------------
(* Properties *)

\* A request is completed once: not by the failure of its session after its answer, nor
\* by a late answer, a result of the disk or a cancellation after either.
AnsweredOnce == \A r \in Requests : answered[r] <= 1

\* Every request the manager takes is completed, whatever the server and the disk do.
EveryRequestIsAnswered ==
    \A r \in Requests : r <= Len(asked) ~> answered[r] > 0

\* A server that answers each request once is never failed for an answer nobody waits
\* for: the ids it has been sent are pending, or given up and remembered.
AnswersAreExpected ==
    \A k \in Keys : session[k] # None =>
        LET l == link[k] IN
        l.owed \cup {l.frames[i].id : i \in {j \in 1..Len(l.frames) : l.frames[j].m = "answer"}}
               \cup {l.inbox[i].id : i \in {j \in 1..Len(l.inbox) : l.inbox[j].m = "ask"}}
          \subseteq {p.id : p \in session[k].pending} \cup session[k].retired

\* A server that is given texts reads each request with the text it was made for open.
RequestSeesItsText ==
    \A k \in Keys : Talks(k) /\ session[k].sync \in {"open", "both"} =>
        LET box == link[k].inbox
            texts(i) == {j \in 1..(i - 1) : box[j].m \in {"open", "close"}} IN
        \A i \in 1..Len(box) : box[i].m = "ask" =>
            IF texts(i) = {} THEN link[k].shown = box[i].doc
            ELSE \E j \in texts(i) : /\ \A h \in texts(i) : h <= j
                                     /\ box[j].m = "open" /\ box[j].doc = box[i].doc

\* A request is completed at most once; the answers a server owes belong to requests
\* that are pending or given up and remembered; and it reads each request with the text
\* it was made for open.
AnswersFit == AnsweredOnce /\ AnswersAreExpected /\ RequestSeesItsText

\* The client never holds two processes of a key: its failed session is cleaned up before
\* the next one starts, and never where that has not succeeded.  A process that a spawn
\* has dropped is no longer held.
OneProcessPerKey == \A k \in Keys : link[k].held <= 1

\* A key never has two processes that are not known to be gone: "不得在旧 owner 尚存时启动
\* replacement" (docs/design/code-navigation.md).  The code does not keep it: see the README.
NoSecondServer == \A k \in Keys : link[k].held + health[k].astray <= 1

=============================================================================
