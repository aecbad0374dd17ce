--------------------------- MODULE WorkerRuntimeProofs ---------------------------
(* What holds of the background worker for every set of keys and every number of *)
(* requests.  Three inductive invariants, each on top of the types: the two      *)
(* facts about the condition variable (WakeInv); that the registry in the lock   *)
(* is the last one published (RegistryInv); and, for the requests (RequestsInv), *)
(* that the active flags agree with the worker thread, that a request lies in    *)
(* the queue of its kind, that no identifier is ahead of the last one given out, *)
(* and the four parts of RequestsKeepTheirOrder.                                 *)
EXTENDS WorkerRuntime, SequenceTheorems, TLAPS

----------------------------------------------------------------------------------
(* Lemmas about the queue operations *)

\* A function on 1..n is a sequence of length n.
LEMMA FunctionIsSeq ==
    ASSUME NEW S, NEW n \in Nat, NEW f \in [1..n -> S]
    PROVE  f \in Seq(S) /\ Len(f) = n
OBVIOUS

\* Cancelling the request of a tab leaves a queue of requests.
LEMMA CancelType ==
    ASSUME NEW S, NEW q \in Seq(S), NEW k
    PROVE  CancelPendingForTab(q, k) \in Seq(S)
<1> DEFINE at == CHOOSE i \in 1..Len(q) : q[i].key = k
           z  == [i \in 1..(Len(q) - 1) |-> IF i < at THEN q[i] ELSE q[i + 1]]
<1>1. CASE \E i \in 1..Len(q) : q[i].key = k
  <2>1. at \in 1..Len(q)
    BY <1>1
  <2>2. Len(q) - 1 \in Nat
    BY <2>1
  <2> HIDE DEF at
  <2>3. z \in [1..(Len(q) - 1) -> S]
    BY <2>1
  <2> HIDE DEF z
  <2>4. z \in Seq(S)
    BY <2>2, <2>3, FunctionIsSeq
  <2>5. CancelPendingForTab(q, k) = z
    BY <1>1 DEF CancelPendingForTab, z, at
  <2> QED BY <2>4, <2>5
<1>2. CASE ~ \E i \in 1..Len(q) : q[i].key = k
  BY <1>2 DEF CancelPendingForTab
<1> QED BY <1>1, <1>2

\* Submitting a content request leaves a queue of requests.
LEMMA SubmitContentType ==
    ASSUME NEW S, NEW q \in Seq(S), NEW r \in S
    PROVE  SubmitContent(q, r) \in Seq(S)
<1> DEFINE z == [i \in 1..Len(q) |-> IF q[i].key = r.key THEN r ELSE q[i]]
<1>1. z \in [1..Len(q) -> S]
  OBVIOUS
<1>2. Len(q) \in Nat
  OBVIOUS
<1> HIDE DEF z
<1>3. z \in Seq(S)
  BY <1>1, <1>2, FunctionIsSeq
<1>4. Append(q, r) \in Seq(S)
  OBVIOUS
<1> QED BY <1>3, <1>4 DEF SubmitContent, z

\* Submitting a directory request leaves a queue of requests.
LEMMA SubmitDirectoryType ==
    ASSUME NEW S, NEW q \in Seq(S), NEW r \in S
    PROVE  SubmitDirectory(q, r) \in Seq(S)
BY DEF SubmitDirectory

----------------------------------------------------------------------------------
(* Type correctness *)


\* Changing fields of a record within the set they range over.
LEMMA FieldsType ==
    ASSUME NEW S, NEW g \in [published : S, update : S, installed : S],
           NEW v \in S, NEW w \in S
    PROVE  /\ [g EXCEPT !.published = v, !.update = w]
                \in [published : S, update : S, installed : S]
           /\ [g EXCEPT !.installed = v, !.update = w]
                \in [published : S, update : S, installed : S]
OBVIOUS

\* The empty queue is a queue.
LEMMA EmptyQueue == ASSUME NEW S PROVE <<>> \in Seq(S)
OBVIOUS

\* Waking threads leaves only threads blocked.
LEMMA NotifyType ==
    ASSUME TypeOK, NotifyOne PROVE waiters' \subseteq {"worker", "client"}
BY DEF TypeOK, NotifyOne

\* A request made within the bound is a request.
LEMMA IssueType ==
    ASSUME TypeOK, CanIssue, NEW kind \in Kinds, NEW key \in Keys
    PROVE  Issue(kind, key) \in Request /\ issued + 1 \in 1..MaxRequests
BY MaxRequestsAssumption DEF TypeOK, CanIssue, Issue, Request

LEMMA TypeInit == Init => TypeOK
<1>1. <<>> \in Seq(Request) /\ <<>> \in Seq(Completion)
  BY EmptyQueue
<1>2. 0 \in 0..MaxRequests
  BY MaxRequestsAssumption
<1> SUFFICES ASSUME Init PROVE TypeOK
  OBVIOUS
<1>3. queue \in [QueueKinds -> Seq(Request)]
      /\ doneQueue \in [QueueKinds -> Seq(Completion)]
  BY <1>1 DEF Init
<1>4. registry \in [published : 0..MaxRequests, update : 0..MaxRequests,
                    installed : 0..MaxRequests]
  BY <1>2 DEF Init
<1> QED BY <1>2, <1>3, <1>4 DEF Init, TypeOK

\* Installing the registry update keeps the registry's type.
LEMMA InstallType ==
    ASSUME TypeOK, InstallRegistry
    PROVE  registry' \in [published : 0..MaxRequests, update : 0..MaxRequests,
                          installed : 0..MaxRequests]
<1> DEFINE S == 0..MaxRequests
<1>1. registry \in [published : S, update : S, installed : S]
  BY DEF TypeOK
<1>2. 0 \in S /\ registry.update \in S
  BY <1>1, MaxRequestsAssumption
<1> HIDE DEF S
<1>3. [registry EXCEPT !.installed = registry.update, !.update = 0]
        \in [published : S, update : S, installed : S]
  BY <1>1, <1>2, FieldsType
<1> QED BY <1>1, <1>3 DEF InstallRegistry, S

LEMMA TypeStep == TypeOK /\ [Next]_vars => TypeOK'
<1> SUFFICES ASSUME TypeOK, [Next]_vars PROVE TypeOK'
  OBVIOUS
<1> USE MaxRequestsAssumption
<1>1. ASSUME NEW k \in SlotKinds, NEW key \in Keys, RequestSlot(k, key) PROVE TypeOK'
  <2>1. Issue(k, key) \in Request /\ issued + 1 \in 1..MaxRequests
    BY <1>1, IssueType DEF RequestSlot, Kinds
  <2>2. slot' \in [SlotKinds -> Request \cup {None}]
    BY <1>1, <2>1 DEF RequestSlot, TypeOK
  <2> QED BY <1>1, <2>1, <2>2, NotifyType DEF TypeOK, RequestSlot
<1>2. ASSUME NEW key \in Keys, RequestDirectory(key) PROVE TypeOK'
  <2> DEFINE r == Issue("directory", key)
  <2>1. r \in Request /\ issued + 1 \in 1..MaxRequests
    BY <1>2, IssueType DEF RequestDirectory, Kinds, QueueKinds
  <2>2. SubmitDirectory(queue["directory"], r) \in Seq(Request)
    BY <2>1, SubmitDirectoryType DEF TypeOK, QueueKinds
  <2> HIDE DEF r
  <2>3. queue' = [queue EXCEPT !["directory"] = SubmitDirectory(queue["directory"], r)]
        /\ asked' \in {asked, asked \cup {r}}
    BY <1>2 DEF RequestDirectory, r
  <2>4. queue' \in [QueueKinds -> Seq(Request)]
    BY <2>2, <2>3 DEF TypeOK
  <2>5. asked' \subseteq Request /\ withdrawn' \subseteq Request
    BY <1>2, <2>1, <2>3 DEF TypeOK, RequestDirectory
  <2> QED BY <1>2, <2>1, <2>4, <2>5, NotifyType DEF TypeOK, RequestDirectory
<1>3. ASSUME NEW key \in Keys, RequestContent(key) PROVE TypeOK'
  <2> DEFINE r == Issue("content", key)
  <2>1. r \in Request /\ issued + 1 \in 1..MaxRequests
    BY <1>3, IssueType DEF RequestContent, Kinds, QueueKinds
  <2>2. SubmitContent(queue["content"], r) \in Seq(Request)
    BY <2>1, SubmitContentType DEF TypeOK, QueueKinds
  <2> HIDE DEF r
  <2>3. queue' = [queue EXCEPT !["content"] = SubmitContent(queue["content"], r)]
        /\ asked' = asked \cup {r}
    BY <1>3 DEF RequestContent, r
  <2>4. queue' \in [QueueKinds -> Seq(Request)]
    BY <2>2, <2>3 DEF TypeOK
  <2>5. asked' \subseteq Request /\ withdrawn' \subseteq Request
    BY <1>3, <2>1, <2>3 DEF TypeOK, RequestContent
  <2> QED BY <1>3, <2>1, <2>4, <2>5, NotifyType DEF TypeOK, RequestContent
<1>4. CASE CancelPendingContent
  BY <1>4, EmptyQueue DEF TypeOK, CancelPendingContent
<1>5. ASSUME NEW key \in Keys, CancelPendingContentForTab(key) PROVE TypeOK'
  <2>1. CancelPendingForTab(queue["content"], key) \in Seq(Request)
    BY CancelType DEF TypeOK, QueueKinds
  <2> QED BY <1>5, <2>1 DEF TypeOK, CancelPendingContentForTab
<1>6. CASE CancelPendingExternalOpen
  BY <1>6 DEF TypeOK, CancelPendingExternalOpen, history
<1>7. CASE UpdatePreviewRegistry
  <2>1. issued + 1 \in 0..MaxRequests
    BY <1>7 DEF UpdatePreviewRegistry, CanIssue, TypeOK
  <2>2. registry' \in [published : 0..MaxRequests, update : 0..MaxRequests,
                       installed : 0..MaxRequests]
    BY <1>7, <2>1, FieldsType DEF UpdatePreviewRegistry, TypeOK
  <2> QED BY <1>7, <2>1, <2>2, NotifyType DEF TypeOK, UpdatePreviewRegistry, history
<1>8. CASE TakeCompletions
  <2>1. \A k \in QueueKinds : {c.req : c \in ToSet(doneQueue[k])} \subseteq Request
    <3> SUFFICES ASSUME NEW k \in QueueKinds, NEW i \in 1..Len(doneQueue[k])
                 PROVE  doneQueue[k][i].req \in Request
      BY DEF ToSet
    <3>1. doneQueue[k] \in Seq(Completion)
      BY DEF TypeOK
    <3>2. doneQueue[k][i] \in Completion
      BY <3>1
    <3> QED BY <3>2 DEF Completion
  <2>2. delivered' \subseteq Request
    BY <1>8, <2>1 DEF TypeOK, TakeCompletions
  <2>3. doneQueue' \in [QueueKinds -> Seq(Completion)]
    BY <1>8, EmptyQueue DEF TakeCompletions
  <2>4. doneSlot' \in [SlotKinds -> Completion \cup {None}]
    BY <1>8 DEF TypeOK, TakeCompletions
  <2> QED BY <1>8, <2>2, <2>3, <2>4 DEF TypeOK, TakeCompletions
<1>9. CASE TakeAgentCompletions
  BY <1>9 DEF TypeOK, TakeAgentCompletions, history
<1>10. CASE WaitForCompletion \/ ClientWakes \/ Join
  BY <1>10 DEF TypeOK, WaitForCompletion, ClientWakes, Join, shared, history
<1>11. CASE Drop
  BY <1>11 DEF TypeOK, Drop, NotifyAll
<1>12. CASE WorkerWaits \/ WorkerExits
  BY <1>12 DEF TypeOK, WorkerWaits, WorkerExits, WorkerRuns, shared, history
<1>13. CASE WorkerInstalls
  <2>1. registry' \in [published : 0..MaxRequests, update : 0..MaxRequests,
                       installed : 0..MaxRequests]
    BY <1>13, InstallType DEF WorkerInstalls
  <2> QED BY <1>13, <2>1 DEF TypeOK, WorkerInstalls, history
<1>14. ASSUME NEW k \in Kinds, WorkerStarts(k) PROVE TypeOK'
  <2>1. NextRequest(k) \in Request
    BY <1>14, NoneAssumption
       DEF WorkerStarts, TakeNextWork, Startable, Pending, NextRequest, TypeOK, Kinds
  <2>2. slot' \in [SlotKinds -> Request \cup {None}]
    BY <1>14 DEF WorkerStarts, TypeOK
  <2>3. queue' \in [QueueKinds -> Seq(Request)]
    <3>1. CASE k \in SlotKinds
      BY <3>1, <1>14 DEF WorkerStarts, TypeOK
    <3>2. CASE k \notin SlotKinds
      <4>1. k \in QueueKinds /\ queue[k] # <<>>
        BY <3>2, <1>14 DEF Kinds, WorkerStarts, TakeNextWork, Startable, Pending
      <4>2. Tail(queue[k]) \in Seq(Request)
        BY <4>1 DEF TypeOK
      <4> QED BY <3>2, <4>1, <4>2, <1>14 DEF WorkerStarts, TypeOK
    <3> QED BY <3>1, <3>2
  <2>4. registry' \in [published : 0..MaxRequests, update : 0..MaxRequests,
                       installed : 0..MaxRequests]
    BY <1>14, InstallType DEF WorkerStarts
  <2> QED BY <1>14, <2>1, <2>2, <2>3, <2>4 DEF TypeOK, WorkerStarts, history
<1>15. ASSUME NEW ok \in BOOLEAN, WorkerFinishes(ok) PROVE TypeOK'
  <2> DEFINE c == [req |-> job, ok |-> ok]
  <2>1. job \in Request /\ job.kind \in Kinds /\ job.id \in 1..MaxRequests
    BY <1>15 DEF WorkerFinishes, TypeOK, Request
  <2>2. c \in Completion
    BY <2>1 DEF Completion
  <2> HIDE DEF c
  <2>3. doneQueue' \in [QueueKinds -> Seq(Completion)]
    <3>1. CASE job.kind \in SlotKinds
      BY <3>1, <1>15 DEF WorkerFinishes, TypeOK
    <3>2. CASE job.kind \notin SlotKinds
      <4>1. job.kind \in QueueKinds
        BY <3>2, <2>1 DEF Kinds
      <4>2. doneQueue' = [doneQueue EXCEPT ![job.kind] = Append(doneQueue[job.kind], c)]
        BY <3>2, <1>15 DEF WorkerFinishes, Publish, c
      <4> QED BY <4>1, <4>2, <2>2 DEF TypeOK
    <3> QED BY <3>1, <3>2
  <2>4. doneSlot' \in [SlotKinds -> Completion \cup {None}]
    BY <1>15, <2>2 DEF WorkerFinishes, TypeOK, c
  <2>5. active' \in [Kinds -> BOOLEAN]
    BY <1>15, <2>1 DEF WorkerFinishes, TypeOK, Complete
  <2>6. graph' \in 0..MaxRequests
    BY <1>15, <2>1 DEF WorkerFinishes, TypeOK
  <2> QED BY <1>15, <2>3, <2>4, <2>5, <2>6
          DEF TypeOK, WorkerFinishes, NotifyAll, history
<1>16. CASE Ended \/ UNCHANGED vars
  BY <1>16 DEF Ended, TypeOK, vars
<1> QED BY <1>1, <1>2, <1>3, <1>4, <1>5, <1>6, <1>7, <1>8, <1>9, <1>10, <1>11,
           <1>12, <1>13, <1>14, <1>15, <1>16
        DEF Next, ClientStep, WorkerStep

\* Type correctness of the worker runtime, for every number of keys and requests.
THEOREM TypeCorrect == Spec => []TypeOK
<1>1. Init => TypeOK
  BY TypeInit
<1>2. TypeOK /\ [Next]_vars => TypeOK'
  BY TypeStep
<1> QED BY <1>1, <1>2, PTL DEF Spec

----------------------------------------------------------------------------------
(* The condition variable *)

\* Neither thread sleeps through what it waits for.  The two facts need each other: a
\* submit wakes one thread only, and it reaches the worker because the client cannot
\* be blocked while it is calling.
WakeInv == TypeOK /\ NoLostWakeup /\ ClientWaitsForWork

LEMMA WakeInit == Init => NoLostWakeup /\ ClientWaitsForWork
BY DEF Init, NoLostWakeup, ClientWaitsForWork

\* A client that makes a call blocks nobody: notify_one empties the set.
LEMMA NotifyOneReachesAll ==
    ASSUME TypeOK, ClientWaitsForWork, client = "running", NotifyOne
    PROVE  waiters' = {}
BY DEF TypeOK, ClientWaitsForWork, NotifyOne

\* Nobody is blocked after the step.
LEMMA NobodyBlocked ==
    ASSUME waiters' = {} PROVE NoLostWakeup' /\ ClientWaitsForWork'
BY DEF NoLostWakeup, ClientWaitsForWork

\* A step of the running client that empties queues and slots wakes nobody and
\* need not.
LEMMA CancelWakesNobody ==
    ASSUME NoLostWakeup, ClientWaitsForWork, client = "running",
           waiters' = waiters, UNCHANGED <<shutdown, registry>>,
           \A k \in Kinds : ~Pending(k) => ~Pending(k)'
    PROVE  NoLostWakeup' /\ ClientWaitsForWork'
BY DEF NoLostWakeup, ClientWaitsForWork, WorkerMustWait

LEMMA WakeStep == WakeInv /\ [Next]_vars => NoLostWakeup' /\ ClientWaitsForWork'
<1> SUFFICES ASSUME TypeOK, NoLostWakeup, ClientWaitsForWork, [Next]_vars
             PROVE  NoLostWakeup' /\ ClientWaitsForWork'
  BY DEF WakeInv
<1>1. ASSUME NEW k \in SlotKinds, NEW key \in Keys, RequestSlot(k, key)
      PROVE  waiters' = {}
  BY <1>1, NotifyOneReachesAll DEF RequestSlot, CanIssue
<1>2. ASSUME NEW key \in Keys, RequestDirectory(key) PROVE waiters' = {}
  BY <1>2, NotifyOneReachesAll DEF RequestDirectory, CanIssue
<1>3. ASSUME NEW key \in Keys, RequestContent(key) PROVE waiters' = {}
  BY <1>3, NotifyOneReachesAll DEF RequestContent, CanIssue
<1>4. CASE UpdatePreviewRegistry
  <2>1. waiters' = {}
    BY <1>4, NotifyOneReachesAll DEF UpdatePreviewRegistry, CanIssue
  <2> QED BY <2>1, NobodyBlocked
<1>5. CASE Drop
  <2>1. waiters' = {}
    BY <1>5 DEF Drop, NotifyAll
  <2> QED BY <2>1, NobodyBlocked
<1>6. CASE CancelPendingContent
  <2>1. \A k \in Kinds : ~Pending(k) => ~Pending(k)'
    BY <1>6 DEF CancelPendingContent, Pending, Kinds, TypeOK
  <2> QED BY <1>6, <2>1, CancelWakesNobody DEF CancelPendingContent
<1>7. ASSUME NEW key \in Keys, CancelPendingContentForTab(key)
      PROVE  NoLostWakeup' /\ ClientWaitsForWork'
  <2>1. queue["content"] = <<>> => CancelPendingForTab(queue["content"], key) = <<>>
    BY DEF CancelPendingForTab
  <2>2. \A k \in Kinds : ~Pending(k) => ~Pending(k)'
    BY <1>7, <2>1 DEF CancelPendingContentForTab, Pending, Kinds, TypeOK
  <2> QED BY <1>7, <2>2, CancelWakesNobody DEF CancelPendingContentForTab
<1>8. CASE CancelPendingExternalOpen
  <2>1. \A k \in Kinds : ~Pending(k) => ~Pending(k)'
    BY <1>8 DEF CancelPendingExternalOpen, Pending, Kinds, TypeOK
  <2> QED BY <1>8, <2>1, CancelWakesNobody DEF CancelPendingExternalOpen
<1>9. CASE TakeCompletions \/ TakeAgentCompletions
  <2>1. client = "running" /\ waiters' = waiters /\ UNCHANGED <<shutdown, registry, slot, queue>>
    BY <1>9 DEF TakeCompletions, TakeAgentCompletions
  <2>2. \A k \in Kinds : ~Pending(k) => ~Pending(k)'
    BY <2>1 DEF Pending
  <2> QED BY <2>1, <2>2, CancelWakesNobody
<1>10. CASE WaitForCompletion \/ ClientWakes \/ Join
  BY <1>10 DEF WaitForCompletion, ClientWakes, Join, shared, NoLostWakeup,
               ClientWaitsForWork, WorkerMustWait, ClientMustWait, HasWork,
               HasCompletion, Pending
<1>11. CASE WorkerWaits \/ WorkerExits
  BY <1>11 DEF WorkerWaits, WorkerExits, WorkerRuns, shared, NoLostWakeup,
               ClientWaitsForWork, WorkerMustWait, ClientMustWait, HasWork,
               HasCompletion, Pending
<1>12. CASE WorkerInstalls
  BY <1>12 DEF WorkerInstalls, WorkerRuns, NoLostWakeup, ClientWaitsForWork,
               ClientMustWait, HasWork, HasCompletion, Pending
<1>13. ASSUME NEW k \in Kinds, WorkerStarts(k)
       PROVE  NoLostWakeup' /\ ClientWaitsForWork'
  <2>1. NoLostWakeup'
    BY <1>13 DEF WorkerStarts, WorkerRuns, NoLostWakeup
  <2>2. HasWork(k)'
    BY <1>13 DEF WorkerStarts, HasWork, TypeOK
  <2>3. UNCHANGED <<shutdown, doneSlot, doneQueue, client, waiters>>
    BY <1>13 DEF WorkerStarts
  <2>4. ClientWaitsForWork'
    BY <2>2, <2>3 DEF ClientWaitsForWork, ClientMustWait, HasCompletion
  <2> QED BY <2>1, <2>4
<1>14. ASSUME NEW ok \in BOOLEAN, WorkerFinishes(ok) PROVE waiters' = {}
  BY <1>14 DEF WorkerFinishes, NotifyAll
<1>15. CASE Ended \/ UNCHANGED vars
  BY <1>15 DEF Ended, vars, NoLostWakeup, ClientWaitsForWork, WorkerMustWait,
               ClientMustWait, HasWork, HasCompletion, Pending
<1> QED BY <1>1, <1>2, <1>3, <1>4, <1>5, <1>6, <1>7, <1>8, <1>9, <1>10, <1>11,
           <1>12, <1>13, <1>14, <1>15, NobodyBlocked
        DEF Next, ClientStep, WorkerStep

LEMMA WakeInvariant == Spec => []WakeInv
<1>1. Init => WakeInv
  BY TypeInit, WakeInit DEF WakeInv
<1>2. WakeInv /\ [Next]_vars => WakeInv'
  BY TypeStep, WakeStep DEF WakeInv
<1> QED BY <1>1, <1>2, PTL DEF Spec

\* No wake-up of the worker thread is lost: whatever the client submits, cancels
\* or publishes, a blocked worker has nothing to do (worker_loop's wait).
THEOREM NoWakeupIsLost == Spec => []NoLostWakeup
<1>1. WakeInv => NoLostWakeup
  BY DEF WakeInv
<1> QED BY <1>1, WakeInvariant, PTL

\* wait_for_completion never blocks while a result lies unread or when no work
\* is under way that will produce one.
THEOREM ClientNeverWaitsInVain == Spec => []ClientWaitsForWork
<1>1. WakeInv => ClientWaitsForWork
  BY DEF WakeInv
<1> QED BY <1>1, WakeInvariant, PTL


----------------------------------------------------------------------------------
(* The preview registry *)

\* The lock holds the registry that was published last until the worker installs it.
RegistryInv ==
    registry.published = IF registry.update = 0 THEN registry.installed
                         ELSE registry.update

LEMMA RegistryStep == TypeOK /\ RegistryInv /\ [Next]_vars => RegistryInv'
<1> SUFFICES ASSUME TypeOK, RegistryInv, [Next]_vars PROVE RegistryInv'
  OBVIOUS
<1>1. ASSUME InstallRegistry PROVE RegistryInv'
  <2>1. CASE registry.update = 0
    BY <1>1, <2>1 DEF InstallRegistry, RegistryInv
  <2>2. CASE registry.update # 0
    BY <1>1, <2>2 DEF InstallRegistry, RegistryInv, TypeOK
  <2> QED
    BY <2>1, <2>2
<1>2. CASE WorkerInstalls \/ \E k \in Kinds : WorkerStarts(k)
  BY <1>1, <1>2 DEF WorkerInstalls, WorkerStarts
<1>3. CASE UpdatePreviewRegistry
  <2>1. registry'.published = issued + 1 /\ registry'.update = issued + 1
    BY <1>3 DEF UpdatePreviewRegistry, TypeOK
  <2> QED
    BY <2>1 DEF RegistryInv, TypeOK
<1>4. ASSUME UNCHANGED registry PROVE RegistryInv'
  BY <1>4 DEF RegistryInv
<1>5. CASE ClientStep /\ ~UpdatePreviewRegistry
  BY <1>4, <1>5 DEF ClientStep, RequestSlot, RequestDirectory, RequestContent,
     CancelPendingContent, CancelPendingContentForTab, CancelPendingExternalOpen,
     TakeCompletions, TakeAgentCompletions, WaitForCompletion, Drop, shared
<1>6. CASE WorkerWaits \/ WorkerExits \/ \E ok \in BOOLEAN : WorkerFinishes(ok)
  BY <1>4, <1>6 DEF WorkerWaits, WorkerExits, WorkerFinishes, shared
<1>7. CASE ClientWakes \/ Join \/ Ended \/ UNCHANGED vars
  BY <1>4, <1>7 DEF ClientWakes, Join, Ended, vars, shared
<1> QED
  BY <1>2, <1>3, <1>5, <1>6, <1>7 DEF Next, WorkerStep

\* A job always starts with the preview registry that the client published last, however
\* often it was replaced while the worker was busy (worker_loop takes the update in the
\* critical section that takes the work).
THEOREM JobsStartUpToDate == Spec => StartsWithNewestRegistry
<1>1. Init => TypeOK /\ RegistryInv
  BY TypeInit DEF Init, RegistryInv
<1>2. ASSUME TypeOK, RegistryInv, [Next]_vars, worker = "idle", worker' = "busy"
      PROVE  registry'.installed = registry.published
  <2>1. PICK k \in Kinds : WorkerStarts(k)
    BY <1>2 DEF Next, ClientStep, RequestSlot, RequestDirectory, RequestContent,
       CancelPendingContent, CancelPendingContentForTab, CancelPendingExternalOpen,
       UpdatePreviewRegistry, TakeCompletions, TakeAgentCompletions, WaitForCompletion,
       Drop, ClientWakes, Join, WorkerStep, WorkerWaits, WorkerExits, WorkerInstalls,
       WorkerFinishes, Ended, vars
  <2>2. CASE registry.update = 0
    BY <1>2, <2>1, <2>2 DEF WorkerStarts, InstallRegistry, RegistryInv
  <2>3. CASE registry.update # 0
    BY <1>2, <2>1, <2>3 DEF WorkerStarts, InstallRegistry, RegistryInv, TypeOK
  <2> QED
    BY <2>2, <2>3
<1>3. TypeOK /\ RegistryInv /\ [Next]_vars
        => [worker = "idle" /\ worker' = "busy"
              => registry'.installed = registry.published]_vars
  BY <1>2
<1> QED
  BY <1>1, <1>3, TypeStep, RegistryStep, PTL DEF Spec, StartsWithNewestRegistry


----------------------------------------------------------------------------------
(* What the queue operations keep *)

\* Each key occurs once.
KeysOnce(q) == \A i, j \in 1..Len(q) : q[i].key = q[j].key => i = j

\* What a sequence holds.
LEMMA Members ==
    ASSUME NEW S, NEW q \in Seq(S)
    PROVE  ToSet(q) = {q[i] : i \in 1..Len(q)} /\ ToSet(q) \subseteq S
BY DEF ToSet

LEMMA AppendMembers ==
    ASSUME NEW S, NEW q \in Seq(S), NEW x \in S
    PROVE  ToSet(Append(q, x)) = ToSet(q) \cup {x}
<1> DEFINE z == Append(q, x)
<1>1. /\ z \in Seq(S) /\ Len(z) = Len(q) + 1 /\ Len(q) \in Nat /\ z[Len(q) + 1] = x
      /\ \A i \in 1..Len(q) : z[i] = q[i]
  OBVIOUS
<1> HIDE DEF z
<1>2. ToSet(z) = {z[i] : i \in 1..(Len(q) + 1)} /\ ToSet(q) = {q[i] : i \in 1..Len(q)}
  BY <1>1, Members
<1>3. \A i \in 1..(Len(q) + 1) : i \in 1..Len(q) \/ i = Len(q) + 1
  BY <1>1
<1>4. \A i \in 1..Len(q) : i \in 1..(Len(q) + 1)
  BY <1>1
<1>5. ToSet(z) = ToSet(q) \cup {x}
  BY <1>1, <1>2, <1>3, <1>4
<1> QED
  BY <1>5 DEF z

\* Submitting a content request replaces no request but one of its own key.
LEMMA SubmitContentFacts ==
    ASSUME NEW q \in Seq(Request), NEW r \in Request, KeysOnce(q)
    PROVE  LET z == SubmitContent(q, r)
           IN  /\ KeysOnce(z)
               /\ ToSet(z) \subseteq ToSet(q) \cup {r} /\ r \in ToSet(z)
               /\ \A x \in ToSet(q) : x.key # r.key => x \in ToSet(z)
               /\ \A x \in ToSet(z) : x.key = r.key => x = r
<1> DEFINE z == [i \in 1..Len(q) |-> IF q[i].key = r.key THEN r ELSE q[i]]
<1>1. CASE \E i \in 1..Len(q) : q[i].key = r.key
  <2>1. SubmitContent(q, r) = z
    BY <1>1 DEF SubmitContent
  <2>2. z \in [1..Len(q) -> Request]
    OBVIOUS
  <2>3. \A i \in 1..Len(q) : z[i] = IF q[i].key = r.key THEN r ELSE q[i]
    OBVIOUS
  <2> HIDE DEF z
  <2>4. z \in Seq(Request) /\ Len(z) = Len(q)
    BY <2>2, FunctionIsSeq
  <2>5. ToSet(z) = {z[i] : i \in 1..Len(q)} /\ ToSet(q) = {q[i] : i \in 1..Len(q)}
    BY <2>4, Members
  <2>6. KeysOnce(z)
    BY <2>3, <2>4 DEF KeysOnce
  <2>7. ToSet(z) \subseteq ToSet(q) \cup {r}
    BY <2>3, <2>5
  <2>8. r \in ToSet(z)
    BY <1>1, <2>3, <2>5
  <2>9. \A x \in ToSet(q) : x.key # r.key => x \in ToSet(z)
    BY <2>3, <2>5
  <2>10. \A x \in ToSet(z) : x.key = r.key => x = r
    BY <2>3, <2>5
  <2> QED
    BY <2>1, <2>6, <2>7, <2>8, <2>9, <2>10
<1>2. CASE ~ \E i \in 1..Len(q) : q[i].key = r.key
  <2>1. SubmitContent(q, r) = Append(q, r)
    BY <1>2 DEF SubmitContent
  <2>2. ToSet(Append(q, r)) = ToSet(q) \cup {r} /\ ToSet(q) = {q[i] : i \in 1..Len(q)}
    BY AppendMembers, Members
  <2>3. KeysOnce(Append(q, r))
    BY <1>2 DEF KeysOnce
  <2>4. \A x \in ToSet(q) : x.key # r.key
    BY <1>2, <2>2
  <2> QED
    BY <2>1, <2>2, <2>3, <2>4
<1> QED
  BY <1>1, <1>2

LEMMA SubmitDirectoryFacts ==
    ASSUME NEW q \in Seq(Request), NEW r \in Request, KeysOnce(q)
    PROVE  LET z == SubmitDirectory(q, r)
           IN  /\ KeysOnce(z)
               /\ ToSet(q) \subseteq ToSet(z) /\ ToSet(z) \subseteq ToSet(q) \cup {r}
               /\ (\E i \in 1..Len(q) : q[i].key = r.key) \/ r \in ToSet(z)
<1>1. CASE \E i \in 1..Len(q) : q[i].key = r.key
  BY <1>1 DEF SubmitDirectory
<1>2. CASE ~ \E i \in 1..Len(q) : q[i].key = r.key
  <2>1. SubmitDirectory(q, r) = Append(q, r)
    BY <1>2 DEF SubmitDirectory
  <2>2. ToSet(Append(q, r)) = ToSet(q) \cup {r}
    BY AppendMembers
  <2>3. KeysOnce(Append(q, r))
    BY <1>2 DEF KeysOnce
  <2> QED
    BY <2>1, <2>2, <2>3
<1> QED
  BY <1>1, <1>2

\* Cancelling the request of a tab costs no other tab its own.
LEMMA CancelFacts ==
    ASSUME NEW q \in Seq(Request), NEW k, KeysOnce(q)
    PROVE  LET z == CancelPendingForTab(q, k)
           IN  /\ KeysOnce(z)
               /\ ToSet(z) \subseteq ToSet(q)
               /\ \A x \in ToSet(q) : x.key # k => x \in ToSet(z)
<1> DEFINE at == CHOOSE i \in 1..Len(q) : q[i].key = k
           n == Len(q) - 1
           z == [i \in 1..n |-> IF i < at THEN q[i] ELSE q[i + 1]]
<1>1. CASE \E i \in 1..Len(q) : q[i].key = k
  <2>1. at \in 1..Len(q) /\ q[at].key = k
    BY <1>1
  <2>2. n \in Nat /\ Len(q) = n + 1
    BY <2>1
  <2>3. CancelPendingForTab(q, k) = z
    BY <1>1 DEF CancelPendingForTab
  <2> HIDE DEF at, n
  <2>4. /\ z \in [1..n -> Request]
        /\ \A i \in 1..n : z[i] = IF i < at THEN q[i] ELSE q[i + 1]
    BY <2>1, <2>2
  <2> HIDE DEF z
  <2>5. z \in Seq(Request) /\ Len(z) = n
    BY <2>2, <2>4, FunctionIsSeq
  <2>6. ToSet(z) = {z[i] : i \in 1..n} /\ ToSet(q) = {q[i] : i \in 1..Len(q)}
    BY <2>5, Members
  <2>7. KeysOnce(z)
    BY <2>1, <2>2, <2>4, <2>5 DEF KeysOnce
  <2>8. ToSet(z) \subseteq ToSet(q)
    BY <2>1, <2>2, <2>4, <2>6
  <2>9. ASSUME NEW i \in 1..Len(q), q[i].key # k PROVE q[i] \in ToSet(z)
    <3>1. i # at
      BY <2>1, <2>9
    <3>2. CASE i < at
      <4>1. i \in 1..n
        BY <2>1, <2>2, <3>2
      <4> QED
        BY <2>4, <2>6, <3>2, <4>1
    <3>3. CASE i > at
      <4>1. i - 1 \in 1..n /\ ~(i - 1 < at) /\ (i - 1) + 1 = i
        BY <2>1, <2>2, <3>3
      <4>2. z[i - 1] = q[i]
        BY <2>4, <4>1
      <4> QED
        BY <2>6, <4>1, <4>2
    <3> QED
      BY <2>1, <3>1, <3>2, <3>3
  <2> QED
    BY <2>3, <2>6, <2>7, <2>8, <2>9
<1>2. CASE ~ \E i \in 1..Len(q) : q[i].key = k
  BY <1>2 DEF CancelPendingForTab
<1> QED
  BY <1>1, <1>2

\* Taking the request at the front.
LEMMA TailFacts ==
    ASSUME NEW q \in Seq(Request), q # <<>>, KeysOnce(q)
    PROVE  /\ KeysOnce(Tail(q)) /\ Head(q) \in ToSet(q)
           /\ ToSet(q) = ToSet(Tail(q)) \cup {Head(q)}
           /\ \A x \in ToSet(Tail(q)) : x.key # Head(q).key
<1>1. /\ Tail(q) \in Seq(Request) /\ Len(Tail(q)) = Len(q) - 1 /\ Head(q) = q[1]
      /\ 1 \in 1..Len(q) /\ Len(q) \in Nat
      /\ \A i \in 1..(Len(q) - 1) : Tail(q)[i] = q[i + 1]
  OBVIOUS
<1>2. /\ ToSet(Tail(q)) = {Tail(q)[i] : i \in 1..(Len(q) - 1)}
      /\ ToSet(q) = {q[i] : i \in 1..Len(q)}
  BY <1>1, Members
<1>3. KeysOnce(Tail(q))
  BY <1>1 DEF KeysOnce
<1>4. ToSet(Tail(q)) \subseteq ToSet(q)
  BY <1>1, <1>2
<1>5. ASSUME NEW i \in 1..Len(q), i # 1 PROVE q[i] \in ToSet(Tail(q))
  <2>1. i - 1 \in 1..(Len(q) - 1) /\ (i - 1) + 1 = i
    BY <1>1, <1>5
  <2>2. Tail(q)[i - 1] = q[i]
    BY <1>1, <2>1
  <2> QED
    BY <1>2, <2>1, <2>2
<1>6. \A i \in 1..(Len(q) - 1) : q[i + 1].key # q[1].key
  BY <1>1 DEF KeysOnce
<1> QED
  BY <1>1, <1>2, <1>3, <1>4, <1>5, <1>6


----------------------------------------------------------------------------------
(* The order of requests *)

\* A request lies where its kind belongs.
InPlace ==
    /\ \A k \in SlotKinds : slot[k] # None => slot[k].kind = k
    /\ \A k \in QueueKinds : \A r \in ToSet(queue[k]) : r.kind = k

\* No identifier is ahead of the last one given out.
IdsAreIssued ==
    /\ worker = "busy" => job.id <= issued
    /\ \A k \in SlotKinds : slot[k] # None => slot[k].id <= issued
    /\ \A k \in QueueKinds : \A r \in ToSet(queue[k]) : r.id <= issued
    /\ \A c \in ToSet(doneQueue["content"]) : c.req.id <= issued

BaseInv == TypeOK /\ OneActive /\ InPlace /\ IdsAreIssued /\ OnePendingPerKey

LEMMA OnePendingIsKeysOnce ==
    OnePendingPerKey <=> \A k \in QueueKinds : KeysOnce(queue[k])
BY DEF OnePendingPerKey, KeysOnce

LEMMA EmptyHasNone == ToSet(<<>>) = {} /\ KeysOnce(<<>>)
BY DEF ToSet, KeysOnce

\* What the types say of the queues.
LEMMA QueueTypes ==
    ASSUME TypeOK
    PROVE  /\ queue["content"] \in Seq(Request) /\ queue["directory"] \in Seq(Request)
           /\ doneQueue["content"] \in Seq(Completion)
           /\ doneQueue["directory"] \in Seq(Completion)
           /\ \A k \in QueueKinds : ToSet(queue[k]) \subseteq Request
           /\ \A k \in QueueKinds : ToSet(doneQueue[k]) \subseteq Completion
           /\ \A k \in QueueKinds : k = "content" \/ k = "directory"
<1>1. \A k \in QueueKinds : queue[k] \in Seq(Request) /\ doneQueue[k] \in Seq(Completion)
  BY DEF TypeOK
<1>2. "content" \in QueueKinds /\ "directory" \in QueueKinds
      /\ \A k \in QueueKinds : k = "content" \/ k = "directory"
  BY DEF QueueKinds
<1> QED
  BY <1>1, <1>2, Members

\* A step that adds requests no younger than the last identifier.
LEMMA IdsStay ==
    ASSUME BaseInv, UNCHANGED <<worker, job>>, issued' \in Nat, issued <= issued',
           \A k \in SlotKinds :
              slot'[k] \in {slot[k], None} \/ (slot'[k].id \in Nat /\ slot'[k].id <= issued'),
           \A k \in QueueKinds : \A r \in ToSet(queue'[k]) :
              r \in ToSet(queue[k]) \/ (r.id \in Nat /\ r.id <= issued'),
           ToSet(doneQueue'["content"]) \subseteq ToSet(doneQueue["content"])
    PROVE  IdsAreIssued'
<1> USE DEF BaseInv
<1>1. issued \in Nat /\ \A r \in Request : r.id \in Nat
  BY DEF TypeOK, Request
<1>2. \A c \in ToSet(doneQueue["content"]) : c.req.id \in Nat
  BY <1>1, QueueTypes DEF QueueKinds, Completion
<1>3. \A k \in QueueKinds : \A r \in ToSet(queue[k]) : r.id \in Nat
  BY <1>1, QueueTypes
<1>4. \A k \in SlotKinds : slot[k] # None => slot[k].id \in Nat
  BY <1>1 DEF TypeOK
<1>5. worker = "busy" => job.id \in Nat
  BY <1>1 DEF TypeOK
<1>6. \A k \in SlotKinds : slot'[k] # None => slot'[k].id <= issued'
  BY <1>1, <1>4 DEF IdsAreIssued
<1>7. \A k \in QueueKinds : \A r \in ToSet(queue'[k]) : r.id <= issued'
  BY <1>1, <1>3 DEF IdsAreIssued
<1>8. \A c \in ToSet(doneQueue'["content"]) : c.req.id <= issued'
  BY <1>1, <1>2 DEF IdsAreIssued
<1> QED
  BY <1>1, <1>5, <1>6, <1>7, <1>8 DEF IdsAreIssued

\* A step that replaces the requests of one queue by some of them and at most one new one.
LEMMA QueueStep ==
    ASSUME BaseInv, NEW k \in QueueKinds, KeysOnce(queue'[k]),
           \A j \in QueueKinds \ {k} : queue'[j] = queue[j],
           \A r \in ToSet(queue'[k]) :
              r \in ToSet(queue[k]) \/ (r.kind = k /\ r.id \in Nat /\ r.id <= issued'),
           issued' \in Nat, issued <= issued',
           UNCHANGED <<active, slot, worker, job, doneQueue>>
    PROVE  OneActive' /\ InPlace' /\ IdsAreIssued' /\ OnePendingPerKey'
<1> USE DEF BaseInv
<1>1. OneActive'
  BY DEF OneActive
<1>2. InPlace'
  BY DEF InPlace
<1>3. OnePendingPerKey'
  BY DEF OnePendingPerKey, KeysOnce
<1>4. IdsAreIssued'
  BY IdsStay
<1> QED
  BY <1>1, <1>2, <1>3, <1>4

LEMMA BaseStep == BaseInv /\ [Next]_vars => BaseInv'
<1> SUFFICES ASSUME BaseInv, [Next]_vars
             PROVE  OneActive' /\ InPlace' /\ IdsAreIssued' /\ OnePendingPerKey'
  BY TypeStep DEF BaseInv
<1> DEFINE Goal == OneActive' /\ InPlace' /\ IdsAreIssued' /\ OnePendingPerKey'
<1> USE DEF BaseInv
<1>types. /\ issued \in Nat
          /\ worker = "busy" => job \in Request /\ job.id \in Nat /\ job.kind \in Kinds
          /\ \A r \in Request : r.id \in Nat
  BY DEF TypeOK, Request
<1>1. ASSUME NEW k \in SlotKinds, NEW key \in Keys, RequestSlot(k, key) PROVE Goal
  <2>1. OneActive' /\ OnePendingPerKey'
    BY <1>1 DEF RequestSlot, OneActive, OnePendingPerKey
  <2>2. InPlace'
    BY <1>1 DEF RequestSlot, InPlace, Issue, TypeOK
  <2>3. \A j \in SlotKinds : slot'[j] = slot[j] \/ slot'[j].id = issued + 1
    BY <1>1 DEF RequestSlot, Issue, TypeOK
  <2>4. UNCHANGED <<worker, job, queue, doneQueue>> /\ issued' = issued + 1
    BY <1>1 DEF RequestSlot
  <2>5. IdsAreIssued'
    BY <1>types, <2>3, <2>4, IdsStay
  <2> QED
    BY <2>1, <2>2, <2>5
<1>queues. \A k \in QueueKinds : DOMAIN queue = QueueKinds /\ KeysOnce(queue[k])
  BY OnePendingIsKeysOnce DEF TypeOK
<1>2. ASSUME NEW key \in Keys, RequestDirectory(key) PROVE Goal
  <2> DEFINE r == Issue("directory", key)
             z == SubmitDirectory(queue["directory"], r)
  <2>1. r \in Request /\ r.kind = "directory" /\ r.id = issued + 1 /\ issued' = issued + 1
        /\ "directory" \in QueueKinds
    BY <1>2, IssueType DEF RequestDirectory, Kinds, QueueKinds, Issue
  <2>2. queue' = [queue EXCEPT !["directory"] = z]
        /\ UNCHANGED <<active, slot, worker, job, doneQueue>>
    BY <1>2 DEF RequestDirectory
  <2> HIDE DEF r
  <2>3. KeysOnce(z) /\ ToSet(z) \subseteq ToSet(queue["directory"]) \cup {r}
    BY <1>queues, <2>1, QueueTypes, SubmitDirectoryFacts
  <2> HIDE DEF z
  <2>4. queue'["directory"] = z /\ \A j \in QueueKinds \ {"directory"} : queue'[j] = queue[j]
    BY <1>queues, <2>1, <2>2
  <2> QED
    BY <1>types, <2>1, <2>2, <2>3, <2>4, QueueStep
<1>3. ASSUME NEW key \in Keys, RequestContent(key) PROVE Goal
  <2> DEFINE r == Issue("content", key)
             z == SubmitContent(queue["content"], r)
  <2>1. r \in Request /\ r.kind = "content" /\ r.id = issued + 1 /\ issued' = issued + 1
        /\ "content" \in QueueKinds
    BY <1>3, IssueType DEF RequestContent, Kinds, QueueKinds, Issue
  <2>2. queue' = [queue EXCEPT !["content"] = z]
        /\ UNCHANGED <<active, slot, worker, job, doneQueue>>
    BY <1>3 DEF RequestContent
  <2> HIDE DEF r
  <2>3. KeysOnce(z) /\ ToSet(z) \subseteq ToSet(queue["content"]) \cup {r}
    BY <1>queues, <2>1, QueueTypes, SubmitContentFacts
  <2> HIDE DEF z
  <2>4. queue'["content"] = z /\ \A j \in QueueKinds \ {"content"} : queue'[j] = queue[j]
    BY <1>queues, <2>1, <2>2
  <2> QED
    BY <1>types, <2>1, <2>2, <2>3, <2>4, QueueStep
<1>cancel. ASSUME NEW z, queue' = [queue EXCEPT !["content"] = z], KeysOnce(z),
                  ToSet(z) \subseteq ToSet(queue["content"]),
                  UNCHANGED <<active, slot, worker, job, doneQueue, issued>>
           PROVE  Goal
  <2>1. "content" \in QueueKinds
    BY DEF QueueKinds
  <2>2. queue'["content"] = z /\ \A j \in QueueKinds \ {"content"} : queue'[j] = queue[j]
    BY <1>cancel, <1>queues, <2>1
  <2> QED
    BY <1>types, <1>cancel, <2>1, <2>2, QueueStep
<1>4. CASE CancelPendingContent
  BY <1>4, <1>cancel, EmptyHasNone DEF CancelPendingContent
<1>5. ASSUME NEW key \in Keys, CancelPendingContentForTab(key) PROVE Goal
  <2>1. KeysOnce(queue["content"]) /\ queue["content"] \in Seq(Request)
    BY <1>queues, QueueTypes DEF QueueKinds
  <2>2. /\ KeysOnce(CancelPendingForTab(queue["content"], key))
        /\ ToSet(CancelPendingForTab(queue["content"], key)) \subseteq ToSet(queue["content"])
    BY <2>1, CancelFacts
  <2> QED
    BY <1>5, <1>cancel, <2>2 DEF CancelPendingContentForTab
<1>6. CASE CancelPendingExternalOpen
  BY <1>6 DEF CancelPendingExternalOpen, OneActive, InPlace, IdsAreIssued,
     OnePendingPerKey, TypeOK
<1>7. CASE UpdatePreviewRegistry
  <2>1. UNCHANGED <<worker, job, slot, queue, doneQueue, active>> /\ issued' = issued + 1
    BY <1>7 DEF UpdatePreviewRegistry
  <2>2. IdsAreIssued'
    BY <1>types, <2>1, IdsStay
  <2> QED
    BY <2>1, <2>2 DEF OneActive, InPlace, OnePendingPerKey
<1>8. CASE TakeCompletions
  <2>1. doneQueue'["content"] = <<>>
    BY <1>8 DEF TakeCompletions, QueueKinds
  <2> QED
    BY <1>8, <2>1, EmptyHasNone
       DEF TakeCompletions, OneActive, InPlace, IdsAreIssued, OnePendingPerKey
<1>9. CASE Drop
  <2>1. /\ \A k \in QueueKinds : queue'[k] = <<>>
        /\ \A k \in SlotKinds : slot'[k] = None
        /\ UNCHANGED <<active, worker, job, doneQueue, issued>>
    BY <1>9 DEF Drop
  <2>2. OnePendingPerKey'
    BY <2>1 DEF OnePendingPerKey
  <2> QED
    BY <2>1, <2>2, EmptyHasNone DEF OneActive, InPlace, IdsAreIssued
<1>10. ASSUME NEW k \in Kinds, WorkerStarts(k) PROVE Goal
  <2>1. worker = "idle" /\ worker' = "busy" /\ job' = NextRequest(k) /\ Pending(k)
        /\ active' = [active EXCEPT ![k] = TRUE]
        /\ UNCHANGED <<issued, doneQueue>>
    BY <1>10 DEF WorkerStarts, WorkerRuns, TakeNextWork, Startable
  <2>2. CASE k \in SlotKinds
    <3>1. slot' = [slot EXCEPT ![k] = None] /\ queue' = queue /\ job' = slot[k]
          /\ slot[k] # None
      BY <1>10, <2>1, <2>2 DEF WorkerStarts, NextRequest, Pending
    <3>2. job'.kind = k /\ job'.id <= issued
      BY <2>2, <3>1 DEF InPlace, IdsAreIssued
    <3>3. OneActive'
      BY <2>1, <3>2 DEF OneActive, TypeOK
    <3> QED
      BY <2>1, <2>2, <3>1, <3>2, <3>3 DEF InPlace, IdsAreIssued, OnePendingPerKey, TypeOK
  <2>3. CASE k \notin SlotKinds
    <3>1. k \in QueueKinds /\ queue[k] # <<>> /\ queue' = [queue EXCEPT ![k] = Tail(@)]
          /\ slot' = slot /\ job' = Head(queue[k]) /\ queue[k] \in Seq(Request)
          /\ KeysOnce(queue[k])
      BY <1>10, <2>1, <2>3, OnePendingIsKeysOnce
         DEF WorkerStarts, NextRequest, Pending, Kinds, TypeOK
    <3>2. /\ KeysOnce(Tail(queue[k])) /\ Head(queue[k]) \in ToSet(queue[k])
          /\ ToSet(Tail(queue[k])) \subseteq ToSet(queue[k])
      BY <3>1, TailFacts
    <3>3. job'.kind = k /\ job'.id <= issued
      BY <3>1, <3>2 DEF InPlace, IdsAreIssued
    <3>4. OneActive'
      BY <2>1, <3>3 DEF OneActive, TypeOK
    <3>5. queue'[k] = Tail(queue[k]) /\ \A j \in QueueKinds \ {k} : queue'[j] = queue[j]
      BY <3>1 DEF TypeOK
    <3>6. OnePendingPerKey'
      BY <3>2, <3>5 DEF OnePendingPerKey, KeysOnce
    <3>7. InPlace' /\ IdsAreIssued'
      BY <2>1, <3>1, <3>2, <3>3, <3>5 DEF InPlace, IdsAreIssued
    <3> QED
      BY <3>4, <3>6, <3>7
  <2> QED
    BY <2>2, <2>3
<1>11. ASSUME NEW ok \in BOOLEAN, WorkerFinishes(ok) PROVE Goal
  <2>1. worker = "busy" /\ worker' = "idle" /\ active' = [active EXCEPT ![job.kind] = FALSE]
        /\ UNCHANGED <<slot, queue, issued>>
    BY <1>11 DEF WorkerFinishes, Complete
  <2>2. OneActive'
    BY <1>types, <2>1 DEF OneActive, TypeOK
  <2>3. ASSUME NEW c \in ToSet(doneQueue'["content"])
        PROVE  c.req.id <= issued
    <3> DEFINE d == [req |-> job, ok |-> ok]
    <3>1. d \in Completion /\ d.req.id <= issued /\ "content" \in QueueKinds
      BY <1>types, <2>1 DEF Completion, IdsAreIssued, QueueKinds
    <3>2. doneQueue'["content"] \in {doneQueue["content"], Append(doneQueue["content"], d)}
      BY <1>11, <3>1 DEF WorkerFinishes, Publish, TypeOK
    <3> HIDE DEF d
    <3>3. ToSet(Append(doneQueue["content"], d)) = ToSet(doneQueue["content"]) \cup {d}
      BY <3>1, QueueTypes, AppendMembers
    <3> QED
      BY <2>3, <3>1, <3>2, <3>3 DEF IdsAreIssued
  <2>4. IdsAreIssued'
    BY <2>1, <2>3 DEF IdsAreIssued
  <2> QED
    BY <2>1, <2>2, <2>4 DEF InPlace, OnePendingPerKey
<1>12. ASSUME UNCHANGED <<active, slot, queue, doneQueue, worker, job, issued>> PROVE Goal
  BY <1>12 DEF OneActive, InPlace, IdsAreIssued, OnePendingPerKey
<1>13. CASE TakeAgentCompletions \/ WaitForCompletion \/ ClientWakes \/ Join
  BY <1>12, <1>13 DEF TakeAgentCompletions, WaitForCompletion, ClientWakes, Join, shared
<1>14. CASE WorkerWaits \/ WorkerInstalls \/ Ended \/ UNCHANGED vars
  BY <1>12, <1>14 DEF WorkerWaits, WorkerInstalls, Ended, vars, shared
<1>15. CASE WorkerExits
  BY <1>15 DEF WorkerExits, WorkerRuns, shared, OneActive, InPlace, IdsAreIssued,
               OnePendingPerKey
<1> QED
  BY <1>1, <1>2, <1>3, <1>4, <1>5, <1>6, <1>7, <1>8, <1>9, <1>10, <1>11, <1>13, <1>14,
     <1>15 DEF Next, ClientStep, WorkerStep


\* A content request finds no refresh waiting: take_next_work would have preferred it.
LEMMA RefreshStep ==
    BaseInv /\ RefreshBeforeContent /\ [Next]_vars => RefreshBeforeContent'
<1> SUFFICES ASSUME BaseInv, RefreshBeforeContent, [Next]_vars PROVE RefreshBeforeContent'
  OBVIOUS
<1> USE DEF BaseInv
<1>1. ASSUME NEW k \in SlotKinds, NEW key \in Keys, RequestSlot(k, key)
      PROVE  RefreshBeforeContent'
  <2>1. slot'["refresh"] = slot["refresh"] \/ slot'["refresh"].id = issued + 1
    BY <1>1 DEF RequestSlot, Issue, TypeOK
  <2>2. UNCHANGED <<worker, job>> /\ issued \in Nat
    BY <1>1 DEF RequestSlot, TypeOK
  <2>3. worker = "busy" => job.id \in Nat /\ job.id <= issued
    BY DEF TypeOK, Request, IdsAreIssued
  <2> QED
    BY <2>1, <2>2, <2>3 DEF RefreshBeforeContent
<1>2. ASSUME NEW k \in Kinds, WorkerStarts(k) PROVE RefreshBeforeContent'
  <2>1. worker = "idle" /\ job' = NextRequest(k) /\ Pending(k) /\ TakeNextWork(k)
    BY <1>2 DEF WorkerStarts, WorkerRuns, TakeNextWork, Startable
  <2>2. job'.kind = k
    <3>1. CASE k \in SlotKinds
      BY <2>1, <3>1 DEF NextRequest, Pending, InPlace
    <3>2. CASE k \notin SlotKinds
      <4>1. k \in QueueKinds /\ queue[k] # <<>> /\ queue[k] \in Seq(Request)
        BY <2>1, <3>2 DEF Pending, Kinds, TypeOK
      <4>2. Head(queue[k]) \in ToSet(queue[k])
        BY <4>1, OnePendingIsKeysOnce, TailFacts
      <4> QED
        BY <2>1, <3>2, <4>1, <4>2 DEF NextRequest, InPlace
    <3> QED
      BY <3>1, <3>2
  <2>3. ASSUME k \in {"content", "open"} PROVE slot["refresh"] = None
    <3>1. "refresh" \in Kinds /\ "refresh" \in SlotKinds
      BY DEF Kinds, SlotKinds
    <3>2. ~Startable("refresh")
      BY <2>1, <2>3, <3>1 DEF TakeNextWork, Rank
    <3>3. active["refresh"] = FALSE
      BY <2>1, <3>1 DEF OneActive, TypeOK
    <3> QED
      BY <3>1, <3>2, <3>3 DEF Startable, Pending
  <2>4. slot'["refresh"] \in {slot["refresh"], None}
    BY <1>2 DEF WorkerStarts, TypeOK, SlotKinds
  <2> QED
    BY <2>2, <2>3, <2>4 DEF RefreshBeforeContent
<1>3. ASSUME UNCHANGED <<worker, job>>, slot'["refresh"] \in {slot["refresh"], None}
      PROVE  RefreshBeforeContent'
  BY <1>3 DEF RefreshBeforeContent
<1>4. CASE CancelPendingExternalOpen \/ Drop
  BY <1>3, <1>4 DEF CancelPendingExternalOpen, Drop, TypeOK, SlotKinds
<1>5. CASE WorkerExits \/ \E ok \in BOOLEAN : WorkerFinishes(ok)
  BY <1>5 DEF WorkerExits, WorkerFinishes, RefreshBeforeContent
<1>6. CASE (\E key \in Keys : RequestDirectory(key) \/ RequestContent(key)
                               \/ CancelPendingContentForTab(key))
           \/ CancelPendingContent \/ UpdatePreviewRegistry \/ TakeCompletions
           \/ TakeAgentCompletions \/ WaitForCompletion
  BY <1>3, <1>6 DEF RequestDirectory, RequestContent, CancelPendingContentForTab,
     CancelPendingContent, UpdatePreviewRegistry, TakeCompletions, TakeAgentCompletions,
     WaitForCompletion, shared
<1>7. CASE ClientWakes \/ Join \/ WorkerWaits \/ WorkerInstalls \/ Ended \/ UNCHANGED vars
  BY <1>3, <1>7 DEF ClientWakes, Join, WorkerWaits, WorkerInstalls, Ended, vars, shared
<1> QED
  BY <1>1, <1>2, <1>4, <1>5, <1>6, <1>7 DEF Next, ClientStep, WorkerStep

\* ContentInOrder, said of what the queues hold.
Done == doneQueue["content"]
Todo == queue["content"]
DoneInOrder ==
    \A i, j \in 1..Len(Done) :
        i < j /\ Done[i].req.key = Done[j].req.key => Done[i].req.id < Done[j].req.id
DoneBeforeTodo ==
    \A c \in ToSet(Done), r \in ToSet(Todo) : c.req.key = r.key => c.req.id < r.id
DoneBefore(r) == \A c \in ToSet(Done) : c.req.key = r.key => c.req.id < r.id
TodoAfter(r) == \A t \in ToSet(Todo) : t.key = r.key => r.id < t.id

OrderOfContent ==
    /\ DoneInOrder /\ DoneBeforeTodo
    /\ worker = "busy" /\ job.kind = "content" => DoneBefore(job) /\ TodoAfter(job)

LEMMA ContentOrder == TypeOK => (ContentInOrder <=> OrderOfContent)
<1> SUFFICES ASSUME TypeOK PROVE ContentInOrder <=> OrderOfContent
  OBVIOUS
<1>1. /\ ToSet(Done) = {Done[i] : i \in 1..Len(Done)}
      /\ ToSet(Todo) = {Todo[i] : i \in 1..Len(Todo)}
  BY QueueTypes, Members DEF Done, Todo
<1> QED
  BY <1>1 DEF ContentInOrder, OrderOfContent, DoneInOrder, DoneBeforeTodo, DoneBefore,
             TodoAfter, Done, Todo

OrderInv == BaseInv /\ ContentInOrder

LEMMA OrderStep == OrderInv /\ [Next]_vars => ContentInOrder'
<1> SUFFICES ASSUME BaseInv, ContentInOrder, [Next]_vars PROVE ContentInOrder'
  BY DEF OrderInv
<1>base. TypeOK /\ TypeOK' /\ BaseInv'
  BY BaseStep DEF BaseInv
<1>order. /\ DoneInOrder /\ DoneBeforeTodo
          /\ worker = "busy" /\ job.kind = "content" => DoneBefore(job) /\ TodoAfter(job)
  BY <1>base, ContentOrder DEF OrderOfContent
<1>goal. ASSUME DoneInOrder', DoneBeforeTodo',
                (worker = "busy" /\ job.kind = "content" => DoneBefore(job) /\ TodoAfter(job))'
         PROVE  ContentInOrder'
  <2>1. OrderOfContent'
    BY <1>goal DEF OrderOfContent
  <2> QED
    BY <1>base, <2>1, ContentOrder, PTL
<1>ids. /\ issued \in Nat /\ (worker = "busy" => job.id \in Nat /\ job.id <= issued)
        /\ \A c \in ToSet(Done) : c.req.id \in Nat /\ c.req.id <= issued
        /\ \A r \in ToSet(Todo) : r.id \in Nat
  <2>1. issued \in Nat /\ (worker = "busy" => job.id \in Nat /\ job.id <= issued)
        /\ \A r \in Request : r.id \in Nat
    BY <1>base DEF BaseInv, IdsAreIssued, TypeOK, Request
  <2>2. ToSet(Done) \subseteq Completion /\ ToSet(Todo) \subseteq Request
    BY <1>base, QueueTypes DEF Done, Todo, QueueKinds
  <2>3. \A c \in Completion : c.req \in Request
    BY DEF Completion
  <2>4. \A c \in ToSet(Done) : c.req.id <= issued
    BY <1>base DEF BaseInv, IdsAreIssued, Done
  <2> QED
    BY <2>1, <2>2, <2>3, <2>4
\* A step of the client that adds no request, or one that is younger than all others.
<1>1. ASSUME UNCHANGED <<doneQueue, worker, job>>,
             \A r \in ToSet(Todo') : r \in ToSet(Todo) \/ r.id = issued + 1
      PROVE  ContentInOrder'
  <2>1. DoneInOrder' /\ Done' = Done
    BY <1>1, <1>order DEF DoneInOrder, Done
  <2>2. DoneBeforeTodo'
    BY <1>1, <1>order, <1>ids, <2>1 DEF DoneBeforeTodo
  <2>3. worker = "busy" /\ job.kind = "content" => DoneBefore(job)' /\ TodoAfter(job)'
    BY <1>1, <1>order, <1>ids, <2>1 DEF DoneBefore, TodoAfter
  <2> QED
    BY <1>1, <1>goal, <2>1, <2>2, <2>3
<1>2. ASSUME UNCHANGED <<doneQueue, worker, job, queue>> PROVE ContentInOrder'
  BY <1>2 DEF ContentInOrder
<1>3. ASSUME NEW key \in Keys, RequestContent(key) PROVE ContentInOrder'
  <2> DEFINE r == Issue("content", key)
  <2>1. r \in Request /\ r.id = issued + 1 /\ KeysOnce(Todo) /\ Todo \in Seq(Request)
    BY <1>3, <1>base, IssueType, QueueTypes, OnePendingIsKeysOnce
       DEF RequestContent, Kinds, QueueKinds, Issue, Todo, BaseInv
  <2>2. Todo' = SubmitContent(Todo, r) /\ UNCHANGED <<doneQueue, worker, job>>
    BY <1>3, <1>base DEF RequestContent, Todo, TypeOK, QueueKinds
  <2> HIDE DEF r
  <2>3. ToSet(Todo') \subseteq ToSet(Todo) \cup {r}
    BY <2>1, <2>2, SubmitContentFacts
  <2> QED
    BY <1>1, <2>1, <2>2, <2>3
<1>4. ASSUME NEW key \in Keys, CancelPendingContentForTab(key) PROVE ContentInOrder'
  <2>1. KeysOnce(Todo) /\ Todo \in Seq(Request)
    BY <1>base, QueueTypes, OnePendingIsKeysOnce DEF QueueKinds, Todo, BaseInv
  <2>2. Todo' = CancelPendingForTab(Todo, key) /\ UNCHANGED <<doneQueue, worker, job>>
    BY <1>4, <1>base DEF CancelPendingContentForTab, Todo, TypeOK, QueueKinds
  <2> QED
    BY <1>1, <2>1, <2>2, CancelFacts
<1>5. CASE CancelPendingContent \/ Drop
  <2>1. Todo' = <<>> /\ UNCHANGED <<doneQueue, worker, job>>
    BY <1>5, <1>base DEF CancelPendingContent, Drop, Todo, TypeOK, QueueKinds
  <2> QED
    BY <1>1, <2>1, EmptyHasNone
<1>6. ASSUME NEW key \in Keys, RequestDirectory(key) PROVE ContentInOrder'
  <2>1. Todo' = Todo /\ UNCHANGED <<doneQueue, worker, job>>
    BY <1>6, <1>base DEF RequestDirectory, Todo, TypeOK, QueueKinds
  <2> QED
    BY <1>1, <2>1
<1>7. CASE TakeCompletions
  <2>1. Done' = <<>> /\ UNCHANGED <<queue, worker, job>>
    BY <1>7 DEF TakeCompletions, Done, QueueKinds
  <2>2. DoneInOrder' /\ DoneBeforeTodo' /\ Todo' = Todo
    BY <2>1, EmptyHasNone DEF DoneInOrder, DoneBeforeTodo, Todo
  <2>3. worker = "busy" /\ job.kind = "content" => DoneBefore(job)' /\ TodoAfter(job)'
    BY <1>order, <2>1, <2>2, EmptyHasNone DEF DoneBefore, TodoAfter
  <2> QED
    BY <1>goal, <2>1, <2>2, <2>3
<1>8. ASSUME NEW k \in Kinds, WorkerStarts(k) PROVE ContentInOrder'
  <2>1. /\ job' = NextRequest(k) /\ Pending(k) /\ UNCHANGED doneQueue /\ Done' = Done
        /\ "content" \in QueueKinds /\ "content" \notin SlotKinds
    BY <1>8 DEF WorkerStarts, TakeNextWork, Startable, Done, QueueKinds, SlotKinds
  <2>2. CASE k = "content"
    <3>1. /\ Todo' = Tail(Todo) /\ job' = Head(Todo) /\ Todo # <<>>
          /\ Todo \in Seq(Request) /\ KeysOnce(Todo)
      BY <1>8, <1>base, <2>1, <2>2, QueueTypes, OnePendingIsKeysOnce
         DEF WorkerStarts, NextRequest, Pending, Todo, TypeOK, BaseInv
    <3>2. /\ ToSet(Todo') \subseteq ToSet(Todo) /\ job' \in ToSet(Todo)
          /\ \A t \in ToSet(Todo') : t.key # job'.key
      BY <3>1, TailFacts
    <3>3. DoneInOrder' /\ DoneBeforeTodo'
      BY <1>order, <2>1, <3>2 DEF DoneInOrder, DoneBeforeTodo
    <3>4. DoneBefore(job)' /\ TodoAfter(job)'
      BY <1>order, <2>1, <3>2 DEF DoneBefore, TodoAfter, DoneBeforeTodo
    <3> QED
      BY <1>goal, <3>3, <3>4
  <2>3. CASE k # "content"
    <3>1. Todo' = Todo
      BY <1>8, <1>base, <2>1, <2>3 DEF WorkerStarts, Todo, TypeOK
    <3>2. job'.kind = k
      <4>1. active'[k] = TRUE
        BY <1>8, <1>base DEF WorkerStarts, TypeOK
      <4> QED
        BY <1>base, <4>1 DEF BaseInv, OneActive
    <3>3. DoneInOrder' /\ DoneBeforeTodo'
      BY <1>order, <2>1, <3>1 DEF DoneInOrder, DoneBeforeTodo
    <3> QED
      BY <1>goal, <2>3, <3>2, <3>3
  <2> QED
    BY <2>2, <2>3
<1>9. ASSUME NEW ok \in BOOLEAN, WorkerFinishes(ok) PROVE ContentInOrder'
  <2> DEFINE c == [req |-> job, ok |-> ok]
  <2>1. worker = "busy" /\ worker' = "idle" /\ UNCHANGED queue /\ Todo' = Todo
        /\ "content" \in QueueKinds /\ "content" \notin SlotKinds
    BY <1>9 DEF WorkerFinishes, Todo, QueueKinds, SlotKinds
  <2>2. c.req = job /\ c \in Completion
    BY <1>base, <2>1 DEF Completion, TypeOK
  <2>3. CASE job.kind = "content"
    <3>1. Done' = Append(Done, c) /\ Done \in Seq(Completion)
      BY <1>9, <1>base, <2>1, <2>3, QueueTypes DEF WorkerFinishes, Publish, Done, TypeOK
    <3> HIDE DEF c
    <3>2. ToSet(Done') = ToSet(Done) \cup {c}
      BY <2>2, <3>1, AppendMembers
    <3>3. DoneBefore(job) /\ TodoAfter(job)
      BY <1>order, <2>1, <2>3
    <3>4. DoneBeforeTodo'
      BY <1>order, <2>1, <2>2, <3>2, <3>3 DEF DoneBeforeTodo, TodoAfter
    <3>5. DoneInOrder'
      <4>1. /\ Len(Done') = Len(Done) + 1 /\ Done'[Len(Done) + 1] = c
            /\ \A i \in 1..Len(Done) : Done'[i] = Done[i] /\ Done[i] \in ToSet(Done)
            /\ Len(Done) \in Nat
        BY <2>2, <3>1, Members
      <4>2. ASSUME NEW i \in 1..Len(Done'), NEW j \in 1..Len(Done'), i < j,
                   Done'[i].req.key = Done'[j].req.key
            PROVE  Done'[i].req.id < Done'[j].req.id
        <5>1. i \in 1..Len(Done)
          BY <4>1, <4>2
        <5>2. CASE j \in 1..Len(Done)
          BY <1>order, <4>1, <4>2, <5>1, <5>2 DEF DoneInOrder
        <5>3. CASE j = Len(Done) + 1
          BY <2>2, <3>3, <4>1, <4>2, <5>1, <5>3 DEF DoneBefore
        <5> QED
          BY <4>1, <5>2, <5>3
      <4> QED
        BY <4>2 DEF DoneInOrder
    <3> QED
      BY <1>goal, <2>1, <3>4, <3>5
  <2>4. CASE job.kind # "content"
    <3>1. Done' = Done
      BY <1>9, <1>base, <2>1, <2>4 DEF WorkerFinishes, Done, TypeOK
    <3>2. DoneInOrder' /\ DoneBeforeTodo'
      BY <1>order, <2>1, <3>1 DEF DoneInOrder, DoneBeforeTodo
    <3> QED
      BY <1>goal, <2>1, <3>2
  <2> QED
    BY <2>3, <2>4
<1>10. CASE WorkerExits
  BY <1>10 DEF WorkerExits, WorkerRuns, shared, ContentInOrder
<1>11. CASE (\E k \in SlotKinds, key \in Keys : RequestSlot(k, key))
            \/ CancelPendingExternalOpen \/ UpdatePreviewRegistry
            \/ TakeAgentCompletions \/ WaitForCompletion
  BY <1>2, <1>11 DEF RequestSlot, CancelPendingExternalOpen, UpdatePreviewRegistry,
     TakeAgentCompletions, WaitForCompletion, shared
<1>12. CASE ClientWakes \/ Join \/ WorkerWaits \/ WorkerInstalls \/ Ended \/ UNCHANGED vars
  BY <1>2, <1>12 DEF ClientWakes, Join, WorkerWaits, WorkerInstalls, Ended, vars, shared
<1> QED
  BY <1>3, <1>4, <1>5, <1>6, <1>7, <1>8, <1>9, <1>10, <1>11, <1>12
     DEF Next, ClientStep, WorkerStep


----------------------------------------------------------------------------------
(* Nothing is lost *)

\* The history speaks of queue requests only.
AskedOfQueues == \A a \in asked : a.kind \in QueueKinds

LostInv == BaseInv /\ NothingLost /\ AskedOfQueues

\* A step of the client that leaves every request of a queue where it is, or
\* withdraws it, and adds none but to a queue.
LEMMA ClientLosesNothing ==
    ASSUME LostInv, UNCHANGED <<worker, job, doneQueue, delivered>>,
           withdrawn \subseteq withdrawn',
           \A k \in QueueKinds : \A x \in ToSet(queue[k]) :
              x \in asked => x \in ToSet(queue'[k]) \/ x \in withdrawn',
           \A a \in asked' : \/ a \in asked
                             \/ a.kind \in QueueKinds /\ a \in ToSet(queue'[a.kind])
    PROVE  NothingLost' /\ AskedOfQueues'
<1>1. AskedOfQueues'
  BY DEF LostInv, AskedOfQueues
<1>2. \A k \in QueueKinds : ToSet(queue'[k]) \subseteq Held'
  BY DEF Held, QueueKinds
<1>3. \A x \in Held : \/ \E k \in QueueKinds : x \in ToSet(queue[k])
                       \/ x \in Held'
  BY DEF Held, QueueKinds
<1>4. NothingLost'
  BY <1>2, <1>3 DEF LostInv, NothingLost
<1> QED
  BY <1>1, <1>4

LEMMA LostStep == LostInv /\ [Next]_vars => NothingLost' /\ AskedOfQueues'
<1> SUFFICES ASSUME LostInv, [Next]_vars PROVE NothingLost' /\ AskedOfQueues'
  OBVIOUS
<1>base. /\ BaseInv /\ TypeOK /\ InPlace /\ DOMAIN queue = QueueKinds
         /\ \A k \in QueueKinds : KeysOnce(queue[k]) /\ queue[k] \in Seq(Request)
         /\ \A k \in QueueKinds : \A x \in ToSet(queue[k]) : x.kind = k
         /\ "content" \in QueueKinds /\ "directory" \in QueueKinds
  BY OnePendingIsKeysOnce DEF LostInv, BaseInv, TypeOK, InPlace, QueueKinds
<1>1. ASSUME UNCHANGED <<worker, job, queue, doneQueue, asked, withdrawn, delivered>>
      PROVE  NothingLost' /\ AskedOfQueues'
  BY <1>1, ClientLosesNothing
<1>2. ASSUME NEW key \in Keys, RequestDirectory(key) PROVE NothingLost' /\ AskedOfQueues'
  <2> DEFINE r == Issue("directory", key)
             q == queue["directory"]
  <2>1. r \in Request /\ r.kind = "directory" /\ r.key = key
    <3>1. r \in Request
      BY <1>2, <1>base, IssueType DEF RequestDirectory, Kinds, QueueKinds
    <3> QED
      BY <3>1 DEF Issue
  <2>2. queue'["directory"] = SubmitDirectory(q, r) /\ queue'["content"] = queue["content"]
    BY <1>2, <1>base DEF RequestDirectory
  <2>3. asked' = IF \E i \in 1..Len(q) : q[i].key = key THEN asked ELSE asked \cup {r}
    BY <1>2 DEF RequestDirectory
  <2>4. UNCHANGED <<worker, job, doneQueue, withdrawn, delivered>>
    BY <1>2 DEF RequestDirectory
  <2> HIDE DEF r
  <2>5. /\ ToSet(q) \subseteq ToSet(SubmitDirectory(q, r))
        /\ (\E i \in 1..Len(q) : q[i].key = r.key) \/ r \in ToSet(SubmitDirectory(q, r))
    BY <1>base, <2>1, SubmitDirectoryFacts
  <2>6. \A a \in asked' : a \in asked \/ (a.kind = "directory" /\ a \in ToSet(queue'["directory"]))
    BY <2>1, <2>2, <2>3, <2>5
  <2>7. \A k \in QueueKinds : ToSet(queue[k]) \subseteq ToSet(queue'[k])
    BY <2>2, <2>5 DEF QueueKinds
  <2> QED
    BY <1>base, <2>4, <2>6, <2>7, ClientLosesNothing
<1>3. ASSUME NEW key \in Keys, RequestContent(key) PROVE NothingLost' /\ AskedOfQueues'
  <2> DEFINE r == Issue("content", key)
             q == queue["content"]
  <2>1. r \in Request /\ r.kind = "content" /\ r.key = key
    <3>1. r \in Request
      BY <1>3, <1>base, IssueType DEF RequestContent, Kinds, QueueKinds
    <3> QED
      BY <3>1 DEF Issue
  <2>2. queue'["content"] = SubmitContent(q, r) /\ queue'["directory"] = queue["directory"]
    BY <1>3, <1>base DEF RequestContent
  <2>3. /\ asked' = asked \cup {r}
        /\ withdrawn' = withdrawn \cup {a \in asked : a.kind = "content" /\ a.key = key}
        /\ UNCHANGED <<worker, job, doneQueue, delivered>>
    BY <1>3 DEF RequestContent
  <2> HIDE DEF r
  <2>4. /\ r \in ToSet(SubmitContent(q, r))
        /\ \A x \in ToSet(q) : x.key # r.key => x \in ToSet(SubmitContent(q, r))
    BY <1>base, <2>1, SubmitContentFacts
  <2>5. \A a \in asked' : a \in asked \/ (a.kind = "content" /\ a \in ToSet(queue'["content"]))
    BY <2>1, <2>2, <2>3, <2>4
  <2>6. \A x \in ToSet(q) : x \in asked => x \in ToSet(queue'["content"]) \/ x \in withdrawn'
    BY <1>base, <2>1, <2>2, <2>3, <2>4
  <2>7. \A k \in QueueKinds : \A x \in ToSet(queue[k]) :
           x \in asked => x \in ToSet(queue'[k]) \/ x \in withdrawn'
    BY <2>2, <2>6 DEF QueueKinds
  <2> QED
    BY <1>base, <2>3, <2>5, <2>7, ClientLosesNothing
<1>4. ASSUME NEW key \in Keys, CancelPendingContentForTab(key)
      PROVE  NothingLost' /\ AskedOfQueues'
  <2> DEFINE q == queue["content"]
  <2>1. queue'["content"] = CancelPendingForTab(q, key)
        /\ queue'["directory"] = queue["directory"]
    BY <1>4, <1>base DEF CancelPendingContentForTab
  <2>2. /\ withdrawn' = withdrawn \cup {a \in asked : a.kind = "content" /\ a.key = key}
        /\ UNCHANGED <<worker, job, doneQueue, asked, delivered>>
    BY <1>4 DEF CancelPendingContentForTab
  <2>3. \A x \in ToSet(q) : x.key # key => x \in ToSet(CancelPendingForTab(q, key))
    BY <1>base, CancelFacts
  <2>4. \A k \in QueueKinds : \A x \in ToSet(queue[k]) :
           x \in asked => x \in ToSet(queue'[k]) \/ x \in withdrawn'
    BY <1>base, <2>1, <2>2, <2>3 DEF QueueKinds
  <2> QED
    BY <2>2, <2>4, ClientLosesNothing
<1>5. CASE CancelPendingContent
  <2>1. /\ queue'["directory"] = queue["directory"]
        /\ withdrawn' = withdrawn \cup {a \in asked : a.kind = "content"}
        /\ UNCHANGED <<worker, job, doneQueue, asked, delivered>>
    BY <1>5, <1>base DEF CancelPendingContent
  <2>2. \A k \in QueueKinds : \A x \in ToSet(queue[k]) :
           x \in asked => x \in ToSet(queue'[k]) \/ x \in withdrawn'
    BY <1>base, <2>1 DEF QueueKinds
  <2> QED
    BY <2>1, <2>2, ClientLosesNothing
<1>6. CASE Drop
  <2>1. asked' = asked /\ withdrawn' = asked
    BY <1>6 DEF Drop
  <2> QED
    BY <2>1 DEF NothingLost, AskedOfQueues, LostInv
<1>7. CASE TakeCompletions
  <2>1. /\ delivered' = delivered \cup
               UNION {{c.req : c \in ToSet(doneQueue[k])} : k \in QueueKinds}
        /\ UNCHANGED <<worker, job, queue, asked, withdrawn>>
    BY <1>7 DEF TakeCompletions
  <2>2. \A k \in QueueKinds : {c.req : c \in ToSet(doneQueue[k])} \subseteq delivered'
    BY <2>1
  <2>3. Held \subseteq Held'
    BY <1>base, <2>1, <2>2 DEF Held
  <2> QED
    BY <2>1, <2>3 DEF LostInv, NothingLost, AskedOfQueues
<1>8. ASSUME NEW k \in Kinds, WorkerStarts(k) PROVE NothingLost' /\ AskedOfQueues'
  <2>1. worker = "idle" /\ worker' = "busy" /\ job' = NextRequest(k) /\ Pending(k)
        /\ UNCHANGED <<doneQueue, asked, withdrawn, delivered>>
    BY <1>8 DEF WorkerStarts, WorkerRuns, TakeNextWork, Startable, history
  <2>2. \A j \in QueueKinds : ToSet(queue[j]) \subseteq ToSet(queue'[j]) \cup {job'}
    <3>1. CASE k \in SlotKinds
      BY <1>8, <3>1 DEF WorkerStarts
    <3>2. CASE k \notin SlotKinds
      <4>1. k \in QueueKinds /\ queue[k] # <<>> /\ job' = Head(queue[k])
            /\ queue' = [queue EXCEPT ![k] = Tail(@)]
        BY <1>8, <2>1, <3>2 DEF WorkerStarts, NextRequest, Pending, Kinds
      <4>2. ToSet(queue[k]) = ToSet(Tail(queue[k])) \cup {job'}
        BY <1>base, <4>1, TailFacts
      <4> QED
        BY <1>base, <4>1, <4>2
    <3> QED
      BY <3>1, <3>2
  <2>3. Held \subseteq Held'
    BY <1>base, <2>1, <2>2 DEF Held
  <2> QED
    BY <2>1, <2>3 DEF LostInv, NothingLost, AskedOfQueues
<1>9. ASSUME NEW ok \in BOOLEAN, WorkerFinishes(ok) PROVE NothingLost' /\ AskedOfQueues'
  <2> DEFINE c == [req |-> job, ok |-> ok]
  <2>1. worker = "busy" /\ worker' = "idle" /\ c.req = job /\ c \in Completion
        /\ UNCHANGED <<queue, asked, withdrawn, delivered>>
    BY <1>9, <1>base DEF WorkerFinishes, history, Completion, TypeOK
  <2>2. CASE job.kind \in QueueKinds
    <3>1. /\ doneQueue' = [doneQueue EXCEPT ![job.kind] = Append(@, c)]
          /\ doneQueue \in [QueueKinds -> Seq(Completion)]
      BY <1>9, <1>base, <2>2 DEF WorkerFinishes, Publish, TypeOK, SlotKinds, QueueKinds
    <3> HIDE DEF c
    <3>2. ToSet(doneQueue'[job.kind]) = ToSet(doneQueue[job.kind]) \cup {c}
      BY <2>1, <2>2, <3>1, AppendMembers
    <3>3. /\ \A k \in QueueKinds : ToSet(doneQueue[k]) \subseteq ToSet(doneQueue'[k])
          /\ \E k \in QueueKinds : c \in ToSet(doneQueue'[k])
      BY <2>2, <3>1, <3>2
    <3>4. Held \subseteq Held'
      BY <2>1, <3>3 DEF Held, QueueKinds
    <3> QED
      BY <2>1, <3>4 DEF LostInv, NothingLost, AskedOfQueues
  <2>3. CASE job.kind \notin QueueKinds
    <3>1. job \notin asked /\ doneQueue' = doneQueue
      BY <1>9, <1>base, <2>1, <2>3
         DEF WorkerFinishes, LostInv, AskedOfQueues, TypeOK, Request, Kinds
    <3>2. Held \subseteq Held' \cup {job}
      BY <2>1, <3>1 DEF Held
    <3> QED
      BY <2>1, <3>1, <3>2 DEF LostInv, NothingLost, AskedOfQueues
  <2> QED
    BY <2>2, <2>3
<1>10. CASE WorkerExits
  <2>1. worker = "idle" /\ worker' = "exited"
        /\ UNCHANGED <<queue, doneQueue, asked, withdrawn, delivered>>
    BY <1>10 DEF WorkerExits, WorkerRuns, shared, history
  <2>2. Held \subseteq Held'
    BY <2>1 DEF Held
  <2> QED
    BY <2>1, <2>2 DEF LostInv, NothingLost, AskedOfQueues
<1>11. CASE (\E k \in SlotKinds, key \in Keys : RequestSlot(k, key))
            \/ CancelPendingExternalOpen \/ UpdatePreviewRegistry
            \/ TakeAgentCompletions \/ WaitForCompletion
  BY <1>1, <1>11 DEF RequestSlot, CancelPendingExternalOpen, UpdatePreviewRegistry,
     TakeAgentCompletions, WaitForCompletion, shared, history
<1>12. CASE ClientWakes \/ Join \/ WorkerWaits \/ WorkerInstalls \/ Ended \/ UNCHANGED vars
  BY <1>1, <1>12 DEF ClientWakes, Join, WorkerWaits, WorkerInstalls, Ended, vars, shared,
     history
<1> QED
  BY <1>2, <1>3, <1>4, <1>5, <1>6, <1>7, <1>8, <1>9, <1>10, <1>11, <1>12
     DEF Next, ClientStep, WorkerStep

RequestsInv == BaseInv /\ ContentInOrder /\ RefreshBeforeContent /\ NothingLost
               /\ AskedOfQueues

LEMMA RequestsInit == Init => RequestsInv
<1> SUFFICES ASSUME Init PROVE RequestsInv
  OBVIOUS
<1>1. /\ \A k \in QueueKinds : queue[k] = <<>> /\ doneQueue[k] = <<>>
      /\ \A k \in SlotKinds : slot[k] = None
      /\ worker = "idle" /\ asked = {}
      /\ "content" \in QueueKinds /\ "refresh" \in SlotKinds
  BY DEF Init, QueueKinds, SlotKinds
<1>2. TypeOK
  BY TypeInit
<1>3. OneActive
  BY DEF Init, OneActive
<1>4. InPlace /\ IdsAreIssued
  BY <1>1, EmptyHasNone DEF InPlace, IdsAreIssued
<1>5. OnePendingPerKey
  BY <1>1 DEF OnePendingPerKey
<1>6. ContentInOrder
  BY <1>1 DEF ContentInOrder
<1>7. RefreshBeforeContent /\ NothingLost /\ AskedOfQueues
  BY <1>1 DEF RefreshBeforeContent, NothingLost, AskedOfQueues
<1> QED
  BY <1>2, <1>3, <1>4, <1>5, <1>6, <1>7 DEF RequestsInv, BaseInv

\* No directory or content request is lost between the threads, the requests of a tab
\* coalesce, their results come back in their order, and a preview is never built while
\* a refresh asked for before it still waits: what the UI's generation check and its
\* loading indicators rely on.
THEOREM RequestsAreKept == Spec => []RequestsKeepTheirOrder
<1>1. RequestsInv /\ [Next]_vars => RequestsInv'
  BY BaseStep, OrderStep, RefreshStep, LostStep DEF RequestsInv, OrderInv, LostInv
<1>2. RequestsInv => RequestsKeepTheirOrder
  BY DEF RequestsInv, RequestsKeepTheirOrder, BaseInv
<1> QED
  BY <1>1, <1>2, RequestsInit, PTL DEF Spec
==================================================================================
