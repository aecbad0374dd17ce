--------------------------- MODULE InstanceControl ---------------------------
(* The control channel between the viewers of a machine and the commands that  *)
(* look for them: each viewer serves a socket from a background thread, with a  *)
(* thread per connection and a bounded number of them; `ps` and `--attach`      *)
(* probe the sockets one after the other, and `--attach` sends the path to the  *)
(* viewer whose root covers it most closely.  An open request waits in the      *)
(* inbox of the main loop, which drains it once per frame and answers over a    *)
(* channel of its own; the connection gives up waiting at its deadline.         *)
(*                                                                             *)
(* A viewer may quit or crash at any time, and its main loop may be slow.       *)
EXTENDS ControlOutcome, Sequences, SequencesExt

CONSTANTS
    Instances,    \* the viewers, numbered in the order in which they started
    Clients,      \* the commands
    Depth,        \* Depth[i]: how deep the root of i lies
    Inside,       \* Inside[i]: whether the path that is sent lies below its root
    Directory,    \* whether the path is a directory
    MaxTabs,      \* MAX_OPEN_TABS
    MaxAttempts,  \* bound: how often a command is run
    None          \* nothing chosen

ASSUME NumberedInstances == Instances \subseteq Nat /\ Slots \in Nat

Focuses == {"active", "new"}

VARIABLES
    phase,    \* a viewer: serving, stopped (its main loop has ended), exited
    socket,   \* whether its socket is in the runtime directory
    inbox,    \* the open requests that its main loop has not drained
    batch,    \* the requests of the frame being drawn
    tabs,     \* its tabs: whose detached file each one shows, if any
    front     \* its active tab
vars == <<phase, socket, threads, inUse, inbox, batch, tabs, front, client,
          answer, opened>>

server == <<phase, socket, threads, inUse>>
viewer == <<inbox, batch, tabs, front, opened>>

Idle == [stage |-> "idle", run |-> 0, step |-> 0, at |-> 0, todo |-> {},
         found |-> {}, chosen |-> 0, focus |-> "active"]

Init ==
    /\ phase = [i \in Instances |-> "serving"]
    /\ socket = [i \in Instances |-> TRUE]
    /\ threads = [i \in Instances |-> {}]
    /\ inUse = [i \in Instances |-> 0]
    /\ inbox = [i \in Instances |-> <<>>] /\ batch = inbox
    /\ tabs \in [Instances -> {<< <<>> >>, [t \in 1..MaxTabs |-> <<>>]}]
    /\ front = [i \in Instances |-> 1]
    /\ client = [c \in Clients |-> Idle]
    /\ answer = [c \in Clients |-> "none"]
    /\ opened = <<>>

------------------------------------------------------------------------------
\* A command

\* `--attach path`: the sockets of the directory are listed.
Attach(c) ==
    /\ client[c].stage = "idle" /\ client[c].run < MaxAttempts
    /\ \E f \in Focuses :
        client' = [client EXCEPT ![c] =
            [Idle EXCEPT !.stage = "probing", !.run = client[c].run + 1, !.focus = f,
                         !.todo = {i \in Instances : socket[i]}]]
    /\ answer' = [answer EXCEPT ![c] = "none"]
    /\ UNCHANGED <<server, viewer>>

\* The command connects to the socket of i, and its request is in the socket.  A
\* socket that nobody listens on refuses.
Connects(c, i, asks) ==
    /\ IF phase[i] = "serving"
       THEN /\ threads' = [threads EXCEPT ![i] = @ \cup
                   {[of |-> <<c, client[c].run, client[c].step + 1>>, asks |-> asks,
                     focus |-> client[c].focus, stage |-> "backlog"]}]
            /\ answer' = [answer EXCEPT ![c] = "none"]
       ELSE answer' = [answer EXCEPT ![c] = "closed"] /\ UNCHANGED threads
    /\ UNCHANGED <<phase, socket, inUse, viewer>>

\* discover: the sockets are probed one after the other.
Probe(c) ==
    /\ client[c].stage = "probing" /\ client[c].at = 0
    /\ \E i \in client[c].todo :
        /\ Connects(c, i, "info")
        /\ client' = [client EXCEPT ![c].at = i, ![c].step = @ + 1,
                                    ![c].todo = @ \ {i}]

\* The probe is answered, fails, or takes longer than DISCOVERY_TIMEOUT.
Probed(c) ==
    /\ client[c].stage = "probing" /\ client[c].at # 0
    /\ client' = [client EXCEPT ![c].at = 0,
           ![c].found = IF answer[c] = "info" THEN @ \cup {client[c].at} ELSE @]
    /\ answer' = [answer EXCEPT ![c] = "none"]
    /\ UNCHANGED <<server, viewer>>

\* select_instance: the candidates in the order of discovery, the oldest first,
\* are sorted by the depth of their roots, and the last one is taken.
Candidates(found) == {i \in found : Inside[i]}

LastByDepth(found) ==
    LET oldestFirst == SetToSortSeq(Candidates(found), <)
    IN  SortSeq(oldestFirst, LAMBDA x, y : Depth[x] < Depth[y])
            [Cardinality(Candidates(found))]

SelectInstance(found) ==
    IF Candidates(found) # {} THEN LastByDepth(found)
    ELSE IF Cardinality(found) = 1 THEN CHOOSE i \in found : TRUE ELSE None

\* send: nothing is sent when no instance was found, or when none of several
\* covers the path; a viewer is started here, or the user is asked.
Send(c) ==
    LET i == SelectInstance(client[c].found) IN
    /\ client[c].stage = "probing" /\ client[c].at = 0 /\ client[c].todo = {}
    /\ IF i = None
       THEN client' = [client EXCEPT ![c].stage = "idle"] /\ UNCHANGED <<server, answer, viewer>>
       ELSE /\ Connects(c, i, "open")
            /\ client' = [client EXCEPT ![c].stage = "sent", ![c].at = i,
                                        ![c].chosen = i, ![c].step = @ + 1]

\* The command prints the answer and ends.  Its own deadline is longer than
\* that of the instance.
Ends(c) ==
    /\ client[c].stage = "sent" /\ answer[c] # "none"
    /\ client' = [client EXCEPT ![c].stage = "idle"]
    /\ UNCHANGED <<server, answer, viewer>>

------------------------------------------------------------------------------
\* The threads of a viewer

\* A reply reaches the command if it still waits for this exchange.
Replies(x, r) ==
    answer' = IF Exchange(x[1]) = x /\ client[x[1]].at # 0
              THEN [answer EXCEPT ![x[1]] = r] ELSE answer

Become(i, t, stage) ==
    threads' = [threads EXCEPT ![i] = (@ \ {t}) \cup {[t EXCEPT !.stage = stage]}]

\* serve_until_stop: a connection above the limit is dropped.
Shed(i, t) ==
    /\ threads' = [threads EXCEPT ![i] = @ \ {t}] /\ Replies(t.of, "closed")
    /\ UNCHANGED inUse

Takes(i, t) ==
    /\ inUse' = [inUse EXCEPT ![i] = @ + 1] /\ Become(i, t, "asking")
    /\ UNCHANGED answer

\* Mutant: one connection too many is taken.
AcceptOneMore(i) ==
    /\ phase[i] = "serving"
    /\ \E t \in threads[i] :
        /\ t.stage = "backlog"
        /\ IF inUse[i] > Slots THEN Shed(i, t) ELSE Takes(i, t)
    /\ UNCHANGED <<phase, socket, viewer, client>>

Accept(i) ==
    /\ phase[i] = "serving"
    /\ \E t \in threads[i] :
        /\ t.stage = "backlog"
        /\ IF inUse[i] >= Slots THEN Shed(i, t) ELSE Takes(i, t)
    /\ UNCHANGED <<phase, socket, viewer, client>>

\* respond: a probe is answered, an open request goes to the inbox.
Respond(i) ==
    \E t \in threads[i] :
        /\ phase[i] # "exited" /\ t.stage = "asking"
        /\ IF t.asks = "info"
           THEN /\ Become(i, t, "answered") /\ Replies(t.of, "info")
                /\ UNCHANGED inbox
           ELSE /\ Become(i, t, "waiting") /\ UNCHANGED answer
                /\ inbox' = [inbox EXCEPT ![i] =
                       Append(@, [of |-> t.of, focus |-> t.focus])]
        /\ UNCHANGED <<phase, socket, inUse, batch, tabs, front, opened, client>>

\* Mutant: a request that the main loop has taken is waited for.
GiveUpUndrained(i) ==
    \E t \in threads[i] :
        /\ phase[i] # "exited" /\ t.stage = "waiting"
        /\ t.of \in {r.of : r \in ToSet(inbox[i])}
        /\ Become(i, t, "answered") /\ Replies(t.of, "late")
        /\ UNCHANGED <<phase, socket, inUse, viewer, client>>

\* forward_open: nothing came within OPEN_REPLY_TIMEOUT.  The request stays in
\* the inbox.
GiveUp(i) ==
    \E t \in threads[i] :
        /\ phase[i] # "exited" /\ t.stage = "waiting"
        /\ Become(i, t, "answered") /\ Replies(t.of, "late")
        /\ UNCHANGED <<phase, socket, inUse, viewer, client>>

\* The thread ends, after its answer was written.
Release(i) ==
    \E t \in threads[i] :
        /\ phase[i] # "exited" /\ t.stage = "answered"
        /\ threads' = [threads EXCEPT ![i] = @ \ {t}]
        /\ inUse' = [inUse EXCEPT ![i] = @ - 1]
        /\ UNCHANGED <<phase, socket, viewer, client, answer>>

------------------------------------------------------------------------------
\* The main loop

\* poll_instance_requests takes what is in the inbox.
Drain(i) ==
    /\ phase[i] = "serving" /\ batch[i] = <<>> /\ inbox[i] # <<>>
    /\ batch' = [batch EXCEPT ![i] = inbox[i]]
    /\ inbox' = [inbox EXCEPT ![i] = <<>>]
    /\ UNCHANGED <<server, tabs, front, opened, client, answer>>

\* open_tab: at the limit nothing is opened and the active tab stays.
OpenTab(i) ==
    IF Len(tabs[i]) >= MaxTabs THEN [tabs |-> tabs[i], front |-> front[i]]
    ELSE [tabs |-> Append(tabs[i], <<>>), front |-> Len(tabs[i]) + 1]

\* reveal_instance_path, open_detached_instance_file: what the viewer shows.
Shown(i, x, focus) ==
    LET fresh == OpenTab(i) IN
    IF Inside[i]
    THEN IF focus = "new" THEN fresh ELSE [tabs |-> tabs[i], front |-> front[i]]
    ELSE [fresh EXCEPT !.tabs[fresh.front] = x]

\* perform_instance_open: the path may be gone by now, and a directory outside
\* the root is rejected.
Performs(i, r, result) ==
    LET shown == Shown(i, r.of, r.focus) IN
    IF result = "rejected" THEN UNCHANGED <<tabs, front, opened>>
    ELSE /\ tabs' = [tabs EXCEPT ![i] = shown.tabs]
         /\ front' = [front EXCEPT ![i] = shown.front]
         /\ opened' = Append(opened, r.of)

Results(i) == IF Directory /\ ~Inside[i] THEN {"rejected"} ELSE {"opened", "rejected"}

\* The channel of the request: its thread may have given up.
Tells(i, x, result) ==
    IF \E t \in threads[i] : t.of = x /\ t.stage = "waiting"
    THEN /\ Become(i, CHOOSE t \in threads[i] : t.of = x, "answered")
         /\ Replies(x, result)
    ELSE UNCHANGED <<threads, answer>>

Perform(i) ==
    /\ phase[i] = "serving" /\ batch[i] # <<>>
    /\ \E result \in Results(i) : /\ Performs(i, Head(batch[i]), result)
                                  /\ Tells(i, Head(batch[i]).of, result)
    /\ batch' = [batch EXCEPT ![i] = Tail(@)]
    /\ UNCHANGED <<phase, socket, inUse, inbox, client>>

\* The user closes the last tab.
CloseTab(i) ==
    /\ phase[i] = "serving" /\ batch[i] = <<>> /\ Len(tabs[i]) > 1
    /\ tabs' = [tabs EXCEPT ![i] = Front(@)]
    /\ front' = [front EXCEPT ![i] = IF @ = Len(tabs[i]) THEN @ - 1 ELSE @]
    /\ UNCHANGED <<server, inbox, batch, opened, client, answer>>

------------------------------------------------------------------------------
\* The end of a viewer

\* The connections of a listener that is closed are reset.
Dropped(i, gone) ==
    answer' = [c \in Clients |->
        IF \E t \in gone : t.of = Exchange(c) /\ client[c].at # 0 /\ answer[c] = "none"
        THEN "closed" ELSE answer[c]]

\* The main loop has ended; Drop stops the listener, which removes its socket.
Quit(i) ==
    LET backlog == {t \in threads[i] : t.stage = "backlog"} IN
    /\ phase[i] = "serving" /\ batch[i] = <<>>
    /\ phase' = [phase EXCEPT ![i] = "stopped"]
    /\ socket' = [socket EXCEPT ![i] = FALSE]
    /\ threads' = [threads EXCEPT ![i] = @ \ backlog] /\ Dropped(i, backlog)
    /\ UNCHANGED <<inUse, viewer, client>>

\* The process ends, and with it the threads that still serve a connection.
Exit(i) ==
    /\ phase[i] \in {"serving", "stopped"}
    /\ phase' = [phase EXCEPT ![i] = "exited"]
    /\ threads' = [threads EXCEPT ![i] = {}] /\ Dropped(i, threads[i])
    /\ inUse' = [inUse EXCEPT ![i] = 0]
    /\ inbox' = [inbox EXCEPT ![i] = <<>>] /\ batch' = [batch EXCEPT ![i] = <<>>]
    /\ UNCHANGED <<socket, tabs, front, opened, client>>

Next ==
    \/ \E c \in Clients : Attach(c) \/ Probe(c) \/ Probed(c) \/ Send(c) \/ Ends(c)
    \/ \E i \in Instances :
        \/ Accept(i) \/ Respond(i) \/ GiveUp(i) \/ Release(i)
        \/ Drain(i) \/ Perform(i) \/ CloseTab(i) \/ Quit(i) \/ Exit(i)

\* The threads of a process that runs make progress, a wait ends at its deadline
\* at the latest, and a command acts on what it has read.  Nothing is assumed of
\* the main loop: it may be busy for ever.
Spec ==
    /\ Init /\ [][Next]_vars
    /\ \A i \in Instances : /\ WF_vars(Accept(i)) /\ WF_vars(Respond(i))
                            /\ WF_vars(GiveUp(i)) /\ WF_vars(Release(i))
    /\ \A c \in Clients : WF_vars(Probe(c) \/ Probed(c) \/ Send(c) \/ Ends(c))

------------------------------------------------------------------------------
\* Properties

\* The path goes to the instance, of those that answered the probes, whose root
\* covers it most closely, the newest of them when several do.
ClosestRootIsChosen(found) ==
    \A i \in Candidates(found) :
        \/ Depth[i] < Depth[SelectInstance(found)]
        \/ Depth[i] = Depth[SelectInstance(found)] /\ i <= SelectInstance(found)

\* A command is told how it ended by the instance, though the main loop of that
\* instance may be stuck: the deadline of the command itself, which is longer, need
\* not end it.
CommandsEnd == \A c \in Clients : client[c].stage # "idle" ~> client[c].stage = "idle"

------------------------------------------------------------------------------
\* What the comments say and the code does not keep: see the README.

\* An error means that nothing was opened.
LateIsNotOpened ==
    \A c \in Clients :
        client[c].stage = "sent" /\ answer[c] = "late" => Exchange(c) \notin ToSet(opened)

\* A detached file always gets a tab of its own.
DetachedHasItsTab ==
    [][\A i \in Instances : \A t \in DOMAIN tabs[i] \cap DOMAIN tabs'[i] :
           tabs'[i][t] = tabs[i][t]]_tabs
==============================================================================
