----------------------------- MODULE ExternalOpen -----------------------------
(* Handing a file to the default application of the host (app.rs, runtime.rs,     *)
(* system_preview.rs, content_safety.rs): the order of the user, the slot and the *)
(* checks of the background worker, and the answer that the interface accepts.    *)
(*                                                                                *)
(* The worker looks at the file twice, each time from its path on, and other      *)
(* programs write and replace files between any two of its steps.  A slot, an     *)
(* offer, a status that is not there is the empty set.                            *)
EXTENDS Naturals, FiniteSets, RequestQueues

CONSTANTS
    Targets,    \* the content targets, each at a path of its own
    Followed,   \* those of the tree of all files, whose links are followed
    Outer,      \* the other paths, to which links may lead
    Inside,     \* the paths below the root of the content
    ByName,     \* the extension of each path
    Labels,     \* how a target is called: in the tree, above the content
    Objects,    \* the files, by device and inode
    Heads,      \* the beginnings that a file may have
    Stamps,     \* lengths and times of modification
    Window,     \* EXTERNAL_OPEN_CONFIRM_WINDOW
    Dedup,      \* EXTERNAL_OPEN_DEDUP_WINDOW
    MaxOrders, MaxChanges, MaxTime    \* bounds: generations, changes outside, the clock

Paths == Targets \cup Outer

\* One extension stands for each kind of them, and one beginning for each kind of content.
Names    == {"", "sh", "png", "docx", "zip", "log"}
Contents == {"script", "image", "archive", "document", "macros", "text", "bytes"}

ASSUME OpenShape ==
    /\ Followed \subseteq Targets /\ Inside \subseteq Paths /\ Targets \cap Outer = {}
    /\ Targets \ Followed \subseteq Inside
    /\ ByName \in [Paths -> Names] /\ Heads \subseteq Contents
    /\ Window \in Nat /\ Dedup \in Nat
    /\ MaxOrders \in Nat /\ MaxChanges \in Nat /\ MaxTime \in Nat

VARIABLES
    place,      \* what each path is: a file, a link, a directory on the way is a link, ...
    object,     \* the content, the permission and the stamp of each file
    changed,    \* how many changes other programs have made
    clock,
    viewer,     \* what the interface shows, expects, offers, and has opened
    order,      \* the request that waits for the worker
    opener,     \* what the worker does
    reply,      \* the completion that waits for the interface
    prompts,    \* the questions that the user was asked
    launches    \* what was handed to the host

host == <<place, object, changed>>
openVars == <<host, clock, viewer, order, opener, reply, prompts, launches>>

Subjects == [target : Targets, label : Labels]
Prints   == Objects \X Stamps

Regular(f) == [kind |-> "regular", file |-> {f}, to |-> {}]
Thing(k)   == [kind |-> k, file |-> {}, to |-> {}]
Leads(k, p) == [kind |-> k, file |-> {}, to |-> {p}]
Things == {Regular(f) : f \in Objects} \cup {Thing("special"), Thing("absent")}
Links  == {Leads(k, p) : k \in {"link", "detour"}, p \in Outer}

Idle == [pc |-> "idle"]

OpenInit ==
    /\ place \in [Paths -> Things \cup Links]
    /\ \A p \in Outer : place[p] \in Things
    /\ object \in [Objects -> [head : Heads, exec : BOOLEAN, stamp : Stamps]]
    /\ changed = 0 /\ clock = 0
    /\ viewer = [requests |-> NewGeneration, shown |-> {}, confirm |-> {}, image |-> {},
                 opened |-> {}]
    /\ order = {} /\ opener = Idle /\ reply = {}
    /\ prompts = {} /\ launches = {}

-------------------------------------------------------------------------------
\* What a file is taken for

Active  == {"sh"}
Claimed == {"png", "docx", "zip"}

\* detect_passive_type: what is an archive is looked into only when its name claims to be
\* a document; inspect_ooxml_content_type refuses macros, and what is no document.
Broken(head, name) == name = "docx" /\ head \in {"archive", "macros"}
Detected(head, name) ==
    CASE head = "image" -> {"png"}
      [] head = "document" /\ name = "docx" -> {"docx"}
      [] head \in {"archive", "document", "macros"} -> {"zip"}
      [] OTHER -> {}

\* What runs is refused by its name, its permission or its content.
Runs(name, exec, head) ==
    name \in Active \/ exec \/ head = "script" \/ Broken(head, name)

NameFits(name, kind) == kind # {} /\ (name = "" \/ kind = {name})

\* Mutant: a permission to run is asked about like a content that is not known.
VerdictAsks(name, exec, head) ==
    CASE Runs(name, FALSE, head) -> "blocked"
      [] ~Runs(name, FALSE, head) /\ NameFits(name, Detected(head, name)) -> "direct"
      [] OTHER -> "unknown"

\* classify_file: what is as its name says, and text, is opened; a name that claims what
\* the content is not is refused; about the rest the user is asked.
Verdict(name, exec, head) ==
    IF Runs(name, exec, head) THEN "blocked"
    ELSE IF NameFits(name, Detected(head, name)) THEN "direct"
    ELSE IF name \in Claimed THEN "blocked"
    ELSE IF head = "text" THEN "direct"
    ELSE "unknown"

-------------------------------------------------------------------------------
\* The interface

\* cancel_external_open: what is on the way is not wanted, but what the worker has begun
\* it ends.
Cancelled(v) ==
    [v EXCEPT !.requests = Invalidate(@), !.confirm = {}, !.image = {}]
Cancels(v) ==
    /\ viewer' = Cancelled(v) /\ order' = {}
    /\ UNCHANGED <<host, clock, opener, reply, prompts, launches>>

\* request_content, install_navigation_snapshot, set_info: other content is shown.
Load(s) == Cancels([viewer EXCEPT !.shown = s])

\* activate_tab and the focus of a pane: the same content is seen, or that of another tab;
\* another scope of the tree takes the offer back (set_tree_scope).
Turn(s, scope) ==
    /\ viewer' = [viewer EXCEPT !.shown = s, !.confirm = IF scope THEN {} ELSE @]
    /\ viewer' # viewer
    /\ UNCHANGED <<host, clock, order, opener, reply, prompts, launches>>

\* open_search
OpenSearch ==
    /\ viewer.image # {}
    /\ viewer' = [viewer EXCEPT !.image = {}]
    /\ UNCHANGED <<host, clock, order, opener, reply, prompts, launches>>

\* confirm_terminal_image_preview, and Esc, which loads the preview again
LeaveImage == viewer.image # {} /\ Cancels(viewer)

\* The target of the last opening that was reported, within the window
JustOpened(t) ==
    \E o \in viewer.opened : o.target = t /\ clock <= o.at + Dedup

\* Mutant: an offer for another target is taken for an answer to the question.
OfferForAny(s) == {c \in viewer.confirm : c.expires > clock}

\* The offer that this order confirms
Offer(s) ==
    {c \in viewer.confirm : c.target = s.target /\ c.label = s.label /\ c.expires > clock}

\* Mutant: the offer stays when it has been taken up.
OrderKeepsOffer(s) ==
    LET requests == Begin(viewer.requests) IN
    /\ ~JustOpened(s.target)
    /\ viewer' = [viewer EXCEPT !.requests = requests, !.image = {}]
    /\ order' = {[generation |-> requests.latest, target |-> s.target, label |-> s.label,
                  confirmed |-> {[print |-> c.print, prompt |-> c.prompt] : c \in Offer(s)},
                  at |-> clock]}
    /\ UNCHANGED <<host, clock, opener, reply, prompts, launches>>

\* request_external_open, by its key, its button or the menu of the tree
Order(s) ==
    LET requests == Begin(viewer.requests) IN
    /\ ~JustOpened(s.target)
    /\ viewer' = [viewer EXCEPT !.requests = requests, !.confirm = {}, !.image = {}]
    /\ order' = {[generation |-> requests.latest, target |-> s.target, label |-> s.label,
                  confirmed |-> {[print |-> c.print, prompt |-> c.prompt] : c \in Offer(s)},
                  at |-> clock]}
    /\ UNCHANGED <<host, clock, opener, reply, prompts, launches>>

\* apply_external_open_completion, for an answer that is still wanted
Answered(v, r) ==
    LET w == [v EXCEPT !.requests = Accept(@, r.generation)] IN
    CASE r.result = "opened" ->
             [w EXCEPT !.opened = {[target |-> r.target, at |-> clock]}, !.confirm = {}]
      [] r.result = "asks" ->
             [w EXCEPT !.confirm =
                 {[target |-> r.target, label |-> r.label, print |-> p,
                   prompt |-> r.generation, expires |-> clock + Window] : p \in r.print}]
      [] r.result = "failed" ->
             IF r.image
             THEN [Cancelled(w) EXCEPT !.image = {[target |-> r.target, label |-> r.label]}]
             ELSE w
      [] OTHER -> [w EXCEPT !.confirm = {}]

\* Mutant: an answer is taken although the user has gone on since.
TakeReplyEver ==
    /\ reply # {} /\ reply' = {}
    /\ \E r \in reply :
         /\ viewer' = Answered(viewer, r)
         /\ prompts' = prompts \cup
                {[target |-> r.target, label |-> r.label, print |-> p,
                  prompt |-> r.generation, at |-> clock] : p \in r.print}
    /\ UNCHANGED <<host, clock, order, opener, launches>>

\* poll_background: take_completions, and what apply_external_open_completion accepts
TakeReply ==
    /\ reply # {} /\ reply' = {}
    /\ \E r \in reply :
         IF Accepts(viewer.requests, r.generation)
         THEN /\ viewer' = Answered(viewer, r)
              /\ prompts' = prompts \cup
                     {[target |-> r.target, label |-> r.label, print |-> p,
                       prompt |-> r.generation, at |-> clock] : p \in r.print}
              /\ order' = IF r.result = "failed" /\ r.image THEN {} ELSE order
         ELSE UNCHANGED <<viewer, prompts, order>>
    /\ UNCHANGED <<host, clock, opener, launches>>

-------------------------------------------------------------------------------
\* The worker

\* take_next_work, when no other kind of work comes first (WorkerRuntime)
Begins ==
    /\ opener.pc = "idle" /\ order # {} /\ order' = {}
    /\ \E j \in order : opener' = [pc |-> "resolve", job |-> j, first |-> {}]
    /\ UNCHANGED <<host, clock, viewer, reply, prompts, launches>>

\* The completion replaces one that the interface has not taken.
Answers(result, print, image) ==
    /\ reply' = {[generation |-> opener.job.generation, target |-> opener.job.target,
                  label |-> opener.job.label, result |-> result, print |-> print,
                  image |-> image]}
    /\ opener' = Idle
    /\ UNCHANGED <<host, clock, viewer, order, prompts>>
Errs == Answers("error", {}, FALSE) /\ UNCHANGED launches

Goes(next) ==
    /\ opener' = next
    /\ UNCHANGED <<host, clock, viewer, order, reply, prompts, launches>>

\* canonicalize follows every link; an open with O_NOFOLLOW still those on the way.
Canonical(p) == IF place[p].to = {} THEN p ELSE CHOOSE q \in place[p].to : TRUE
Opened(p)    == IF place[p].kind = "detour" THEN place[Canonical(p)] ELSE place[p]

Rooted == opener.job.target \notin Followed

\* resolve_preview_target, and classify_file for what lies behind links
Resolve ==
    /\ opener.pc = "resolve"
    /\ LET t == opener.job.target
           p == IF Rooted THEN t ELSE Canonical(t)
       IN  /\ Rooted \/ place[p].kind # "absent"
           /\ Goes([pc |-> "inspect", job |-> opener.job, first |-> opener.first, path |-> p])

\* inspect_content_path: below a root every directory on the way is looked at.
Inspected == IF Rooted THEN place[opener.path] ELSE Opened(opener.path)
Inspect ==
    /\ opener.pc = "inspect"
    /\ IF Inspected.kind = "regular"
       THEN \E f \in Inspected.file :
               Goes([pc |-> "open", job |-> opener.job, first |-> opener.first,
                     path |-> opener.path, file |-> f])
       ELSE Errs

\* open_regular, up to verify_inspected_identity: what is opened is what was inspected.
\* The fingerprint and the permission are of this moment.
OpenFile ==
    /\ opener.pc = "open"
    /\ IF Opened(opener.path).file = {opener.file}
       THEN Goes([pc |-> IF Rooted THEN "verify" ELSE "read", job |-> opener.job,
                  first |-> opener.first, path |-> opener.path, file |-> opener.file,
                  print |-> <<opener.file, object[opener.file].stamp>>,
                  exec |-> object[opener.file].exec])
       ELSE Errs

\* The rest of open_regular: the path still leads to this file, below the root.
Verify ==
    /\ opener.pc = "verify"
    /\ LET p == Canonical(opener.path) IN
       IF p \in Inside /\ place[p].file = {opener.file}
       THEN Goes([pc |-> "read", job |-> opener.job, first |-> opener.first,
                  path |-> opener.path, file |-> opener.file, print |-> opener.print,
                  exec |-> opener.exec])
       ELSE Errs

\* What is there to see; history, of what is launched
Sight == [name |-> ByName[opener.path], exec |-> opener.exec, head |-> object[opener.file].head]

\* What classify_file makes of the beginning of a file
Look(o) ==
    LET name == ByName[o.path]
        head == object[o.file].head
    IN  [path |-> o.path, print |-> o.print, detected |-> <<Detected(head, name), head = "text">>,
         verdict |-> Verdict(name, o.exec, head)]

Confirms(job, look) == \E c \in job.confirmed : c.print = look.print

\* Mutant: what was confirmed is not compared with what is found.
ReadConfirmed ==
    /\ opener.pc = "read"
    /\ LET look == Look(opener) IN
       IF look.verdict = "blocked" THEN Errs
       ELSE IF look.verdict = "unknown" /\ opener.job.confirmed = {}
       THEN Answers("asks", {look.print}, FALSE) /\ UNCHANGED launches
       ELSE IF opener.first = {}
       THEN Goes([pc |-> "resolve", job |-> opener.job, first |-> {look}])
       ELSE IF opener.first # {look} THEN Errs
       ELSE Goes([pc |-> "launch", job |-> opener.job, look |-> look, saw |-> Sight,
                  image |-> look.detected[1] = {"png"}])

\* open_file, after each of the two looks: what is not known has been confirmed as it is
\* now, and the second look sees what the first has seen.
Read ==
    /\ opener.pc = "read"
    /\ LET look == Look(opener) IN
       IF look.verdict = "blocked" THEN Errs
       ELSE IF look.verdict = "unknown" /\ opener.job.confirmed = {} /\ opener.first = {}
       THEN Answers("asks", {look.print}, FALSE) /\ UNCHANGED launches
       ELSE IF look.verdict = "unknown" /\ ~Confirms(opener.job, look) THEN Errs
       ELSE IF opener.first = {}
       THEN Goes([pc |-> "resolve", job |-> opener.job, first |-> {look}])
       ELSE IF opener.first # {look} THEN Errs
       ELSE Goes([pc |-> "launch", job |-> opener.job, look |-> look, saw |-> Sight,
                  image |-> look.detected[1] = {"png"}])

\* A file that cannot be found or read, a repository that is gone, a panic
\* (catch_worker_error)
GivesUp == opener.pc \in {"resolve", "inspect", "open", "verify", "read"} /\ Errs

\* open_file_platform and launch_command: no desktop and no opener, an opener that ends
\* with an error at once, or one that has ended well or still runs after a while.
Launch ==
    /\ opener.pc = "launch"
    /\ \/ Answers("failed", {}, opener.image) /\ UNCHANGED launches
       \/ \E result \in {"failed", "opened"} :
            /\ Answers(result, {}, result = "failed" /\ opener.image)
            /\ launches' = launches \cup {[job |-> opener.job, look |-> opener.look,
                                            saw |-> opener.saw]}

-------------------------------------------------------------------------------
\* Other programs, and time

Changes ==
    /\ changed < MaxChanges /\ changed' = changed + 1
    /\ UNCHANGED <<clock, viewer, order, opener, reply, prompts, launches>>

\* A file is replaced by another, or by a link, or is removed.
Replace(p) ==
    \E thing \in Things \cup IF p \in Outer THEN {} ELSE Links :
        /\ thing # place[p] /\ place' = [place EXCEPT ![p] = thing]
        /\ Changes /\ UNCHANGED object

\* A file is written or gets another permission; its stamp need not tell.
Write(f) ==
    \E head \in Heads, exec \in BOOLEAN, stamp \in Stamps :
        /\ object' = [object EXCEPT ![f] = [head |-> head, exec |-> exec, stamp |-> stamp]]
        /\ object' # object
        /\ Changes /\ UNCHANGED place

Tick ==
    /\ clock < MaxTime /\ clock' = clock + 1
    /\ UNCHANGED <<host, viewer, order, opener, reply, prompts, launches>>

Bounded == viewer.requests.latest < MaxOrders

OpenNext ==
    \/ Bounded /\ \/ Load({}) \/ \E s \in Subjects : Load({s})
                  \/ \E s \in viewer.shown : Order(s)
                  \/ LeaveImage
    \/ \E s \in Subjects, scope \in BOOLEAN : Turn({s}, scope)
    \/ OpenSearch \/ TakeReply \/ Tick
    \/ Begins \/ Resolve \/ Inspect \/ OpenFile \/ Verify \/ Read \/ GivesUp \/ Launch
    \/ \E p \in Paths : Replace(p)
    \/ \E f \in Objects : Write(f)

OpenSpec == OpenInit /\ [][OpenNext]_openVars

-------------------------------------------------------------------------------
(* What is promised *)

\* A file that is not known is handed over only when the user was asked about it as it
\* is, under the name that is on the screen, and has given the order within the window;
\* and one answer hands over one file once. (request_external_open, open_file)
UnknownIsConfirmed ==
    \A l \in launches : l.look.verdict = "unknown" =>
        \E p \in prompts :
            /\ <<p.target, p.label, p.print>> = <<l.job.target, l.job.label, l.look.print>>
            /\ p.at <= l.job.at /\ l.job.at < p.at + Window
            /\ \A k \in launches :
                  (\E c \in k.job.confirmed : c.prompt = p.prompt) => k.job = l.job

\* Nothing that runs is handed over, by its name, its permission or its content, whatever
\* the user confirms, as long as it is on disk as it was when it was looked at last.
\* (classify_file, open_file)
Harmless(saw) == ~Runs(saw.name, saw.exec, saw.head)
NothingRuns == \A l \in launches : Harmless(l.saw)

\* What is offered answers the last order, and nothing was loaded since: an offer is not
\* taken up after the user has gone on. (cancel_external_open)
OffersAreCurrent ==
    /\ viewer.confirm # {} \/ viewer.image # {} => ~viewer.requests.loading
    /\ viewer.confirm = {} \/ viewer.image = {}
    /\ \A c \in viewer.confirm : c.prompt = viewer.requests.latest

\* An order that is not answered yet is on the way: it waits, is served, or has its answer
\* ready.
OrderIsAwaited ==
    viewer.requests.loading =>
        \E r \in order \cup reply \cup (IF opener.pc = "idle" THEN {} ELSE {opener.job}) :
            r.generation = viewer.requests.latest

\* What is handed to the host is what the user has been asked about, once, no offer
\* outlives what it is for, and every order is answered.
OpensAreMeant ==
    UnknownIsConfirmed /\ NothingRuns /\ OffersAreCurrent /\ OrderIsAwaited
===============================================================================
