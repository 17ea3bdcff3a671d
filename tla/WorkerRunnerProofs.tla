------------------------- MODULE WorkerRunnerProofs -------------------------
(***************************************************************************)
(* Proofs about the worker pool, for every number of requests, slots,      *)
(* threads, faults and configuration changes, every choice of tokens, and  *)
(* whether or not thread events are punctual.                              *)
(***************************************************************************)
EXTENDS WorkerRunner, SequenceTheorems, FiniteSetTheorems, TLAPS

\* What drain() knows across its await: the slot it waits for exists and stays
\* free, and only a call of drain() that is waiting has a thread starting.
AwaitInv ==
  /\ pc \in {"wait", "ready", "fail"} <=> starting # None
  /\ starting # None => waitSlot \in 1 .. open /\ current[waitSlot] = None
  /\ starting # None /\ growing => waitSlot = open
  /\ \A s \in Slots : s > open => current[s] = None

IInv == TypeOK /\ AwaitInv /\ RequestConserved /\ NoLostWakeup

USE RunnerAssumption DEF Requests, Slots, Threads, Configs, None

-----------------------------------------------------------------------------
(* Lemmas about the operators of the model                                 *)

\* Cancelling a queued request shifts the requests behind it by one.
LEMMA RemoveAtFacts ==
  ASSUME NEW S, NEW q \in Seq(S), NEW i \in 1 .. Len(q)
  PROVE  /\ RemoveAt(q, i) \in Seq(S)
         /\ Len(RemoveAt(q, i)) = Len(q) - 1
         /\ \A j \in 1 .. Len(q) - 1 : RemoveAt(q, i)[j] = IF j < i THEN q[j] ELSE q[j + 1]
<1>1. /\ SubSeq(q, 1, i - 1) \in Seq(S)
      /\ Len(SubSeq(q, 1, i - 1)) = i - 1
      /\ \A j \in 1 .. i - 1 : SubSeq(q, 1, i - 1)[j] = q[j]
  BY SubSeqProperties
<1>2. /\ SubSeq(q, i + 1, Len(q)) \in Seq(S)
      /\ Len(SubSeq(q, i + 1, Len(q))) = Len(q) - i
      /\ \A j \in 1 .. Len(q) - i : SubSeq(q, i + 1, Len(q))[j] = q[i + j]
  BY SubSeqProperties
<1> DEFINE front == SubSeq(q, 1, i - 1)
           back == SubSeq(q, i + 1, Len(q))
<1>3. /\ front \o back \in Seq(S)
      /\ Len(front \o back) = Len(front) + Len(back)
      /\ \A j \in 1 .. Len(front) + Len(back) :
           (front \o back)[j] = IF j <= Len(front) THEN front[j] ELSE back[j - Len(front)]
  BY <1>1, <1>2, ConcatProperties
<1>4. RemoveAt(q, i) = front \o back
  BY DEF RemoveAt
<1> HIDE DEF front, back
<1>5. Len(q) \in Nat /\ Len(front) = i - 1 /\ Len(back) = Len(q) - i
  BY <1>1, <1>2 DEF front, back
<1>6. ASSUME NEW j \in 1 .. Len(q) - 1
      PROVE  RemoveAt(q, i)[j] = IF j < i THEN q[j] ELSE q[j + 1]
  <2>1. CASE j < i
    BY <2>1, <1>1, <1>3, <1>4, <1>5 DEF front
  <2>2. CASE ~(j < i)
    <3>1. back[j - (i - 1)] = q[i + (j - (i - 1))]
      BY <2>2, <1>2, <1>5 DEF back
    <3>2. QED
      BY <3>1, <2>2, <1>3, <1>4, <1>5
  <2>3. QED
    BY <2>1, <2>2
<1>7. RemoveAt(q, i) \in Seq(S)
  BY <1>3, <1>4, Zenon
<1>8. Len(RemoveAt(q, i)) = Len(front) + Len(back)
  BY <1>3, <1>4, Zenon
<1>9. QED
  BY <1>5, <1>6, <1>7, <1>8

\* The members of the message sets that the program sends.
LEMMA Messages ==
  /\ \A c \in Configs : /\ [type |-> "init", config |-> c] \in HostMessages
                        /\ [type |-> "reconfigure", config |-> c] \in HostMessages
  /\ \A r \in Requests : /\ [type |-> "request", id |-> r] \in HostMessages
                         /\ [type |-> "cancel", id |-> r] \in HostMessages
  /\ [type |-> "shutdown"] \in HostMessages
  /\ [type |-> "ready"] \in WorkerMessages
  /\ \A r \in Requests, kind \in {"done", "error", "cancelled", "progress"} :
       [type |-> kind, id |-> r] \in WorkerMessages
  BY DEF HostMessages, WorkerMessages

\* Posting keeps inboxes well formed.
LEMMA PostedType ==
  ASSUME TypeOK, NEW T, NEW m \in HostMessages
  PROVE  Posted(T, m) \in [Threads -> Seq(HostMessages)]
  BY DEF TypeOK, Posted

\* worker.terminate() keeps every thread in a phase of its life.
LEMMA TerminatedType ==
  ASSUME TypeOK, NEW T
  PROVE  Terminated(T) \in [Threads -> Phases]
  BY DEF TypeOK, Terminated, Phases, Alive

\* The error and exit listeners leave a well-formed slot behind.
LEMMA LoseSlotType ==
  ASSUME TypeOK, NEW s, LoseSlot(s)
  PROVE  /\ worker' \in [Slots -> Threads \cup {None}]
         /\ ready' \in [Slots -> BOOLEAN]
         /\ failed' \in [Slots -> BOOLEAN]
         /\ current' \in [Slots -> Requests \cup {None}]
         /\ status' \in [Requests -> {"new", "pending"} \cup Answers]
  BY DEF TypeOK, LoseSlot, Answers

\* ensureSlotReady fills the slot with one fresh thread.
LEMMA SpawnType ==
  ASSUME TypeOK, NEW s \in Slots, Spawn(s)
  PROVE  /\ worker' \in [Slots -> Threads \cup {None}]
         /\ ready' \in [Slots -> BOOLEAN]
         /\ failed' \in [Slots -> BOOLEAN]
         /\ current' = current /\ queue' = queue
         /\ pc' = "wait" /\ waitSlot' = s /\ starting' \in Threads
         /\ slotOf' \in [Threads -> Slots \cup {None}]
         /\ phase' \in [Threads -> Phases]
         /\ inbox' \in [Threads -> Seq(HostMessages)]
         /\ UNCHANGED <<callerVars, envVars, outbox, workVars>>
<1>1. PICK t \in Threads : Spawn(s)!(t)
  BY DEF Spawn
<1>2. Terminated({worker[s]}) \in [Threads -> Phases] /\ "boot" \in Phases
  BY TerminatedType DEF Phases
<1> DEFINE m == [type |-> "init", config |-> config]
<1>3. <<m>> \in Seq(HostMessages)
  <2>1. m \in HostMessages
    BY Messages DEF TypeOK
  <2> HIDE DEF m
  <2>2. QED
    BY <2>1
<1>4. QED
  BY <1>1, <1>2, <1>3 DEF TypeOK

\* Handling, taking and posting one message keeps the channels well formed.
LEMMA ReceiveType ==
  ASSUME TypeOK, NEW t \in Threads, NEW m, Receive(t, m)
  PROVE  outbox' \in [Threads -> Seq(WorkerMessages)]
<1>1. outbox[t] \in Seq(WorkerMessages) /\ outbox[t] # <<>>
  BY DEF TypeOK, Receive
<1>2. Tail(outbox[t]) \in Seq(WorkerMessages)
  BY <1>1
<1>3. QED
  BY <1>2 DEF TypeOK, Receive

\* A thread that takes a message leaves a well-formed inbox.
LEMMA TakeType ==
  ASSUME TypeOK, NEW t \in Threads, NEW m, Take(t, m)
  PROVE  inbox' \in [Threads -> Seq(HostMessages)]
<1>1. inbox[t] \in Seq(HostMessages) /\ inbox[t] # <<>>
  BY DEF TypeOK, Take
<1>2. Tail(inbox[t]) \in Seq(HostMessages)
  BY <1>1
<1>3. QED
  BY <1>2 DEF TypeOK, Take

\* A thread that posts a message leaves a well-formed outbox.
LEMMA ReplyType ==
  ASSUME TypeOK, NEW t \in Threads, NEW m \in WorkerMessages, Reply(t, m)
  PROVE  outbox' \in [Threads -> Seq(WorkerMessages)]
<1>1. Append(outbox[t], m) \in Seq(WorkerMessages)
  BY DEF TypeOK
<1>2. QED
  BY <1>1 DEF TypeOK, Reply

\* What queue.shift() returns and leaves.
LEMMA QueueParts ==
  ASSUME TypeOK, queue # <<>>
  PROVE  Head(queue) \in Requests /\ Tail(queue) \in Seq(Requests)
<1>1. queue \in Seq(Requests)
  BY DEF TypeOK
<1> HIDE DEF Requests
<1>2. QED
  BY <1>1, HeadTailProperties

\* drain() hands the oldest request to a slot.
LEMMA AssignType ==
  ASSUME TypeOK, NEW s \in Slots, queue # <<>>, Assign(s)
  PROVE  /\ queue' \in Seq(Requests)
         /\ current' \in [Slots -> Requests \cup {None}]
         /\ inbox' \in [Threads -> Seq(HostMessages)]
<1>1. Head(queue) \in Requests /\ Tail(queue) \in Seq(Requests)
  BY QueueParts
<1> DEFINE m == [type |-> "request", id |-> Head(queue)]
<1>2. m \in HostMessages
  BY <1>1, Messages
<1>3. inbox' \in [Threads -> Seq(HostMessages)]
  <2> HIDE DEF m
  <2>1. Posted({worker[s]}, m) \in [Threads -> Seq(HostMessages)]
    BY <1>2, PostedType
  <2> USE DEF m
  <2>2. inbox' = Posted({worker[s]}, m)
    BY DEF Assign
  <2> HIDE DEF m
  <2>3. QED
    BY <2>1, <2>2
<1>4. queue' \in Seq(Requests) /\ current' \in [Slots -> Requests \cup {None}]
  BY <1>1 DEF TypeOK, Assign
<1>5. QED
  BY <1>3, <1>4

\* Calling drain() only starts it when it is at rest.
LEMMA CallDrainType ==
  ASSUME TypeOK, CallDrain
  PROVE  pc' \in {"idle", "loop", "wait", "ready", "fail"}
  BY DEF TypeOK, CallDrain

-----------------------------------------------------------------------------
(* Type correctness                                                        *)

\* Rejecting the oldest request keeps queue and promises well formed.
LEMMA RejectHeadType ==
  ASSUME TypeOK, RejectHead
  PROVE  /\ queue' \in Seq(Requests)
         /\ status' \in [Requests -> {"new", "pending"} \cup Answers]
<1>1. CASE queue = <<>>
  BY <1>1 DEF TypeOK, RejectHead
<1>2. CASE queue # <<>>
  <2>1. Head(queue) \in Requests /\ Tail(queue) \in Seq(Requests)
    BY <1>2, QueueParts
  <2>2. queue' = Tail(queue) /\ status' = [status EXCEPT ![Head(queue)] = "spawnFailed"]
    BY <1>2 DEF RejectHead
  <2>3. status' \in [Requests -> {"new", "pending"} \cup Answers]
    BY <2>1, <2>2 DEF TypeOK, Answers
  <2>4. QED
    BY <2>1, <2>2, <2>3
<1>3. QED
  BY <1>1, <1>2

\* No step of the runner breaks a type, given what drain() remembers of its await.
LEMMA TypeStep == TypeOK /\ AwaitInv /\ [Next]_vars => TypeOK'
<1> SUFFICES ASSUME TypeOK, AwaitInv, [Next]_vars PROVE TypeOK'
  OBVIOUS
<1> USE DEF slotVars, drainVars, callerVars, hostVars, envVars, workVars, threadVars
<1>1. ASSUME NEW r \in Requests, RunCancelled(r) PROVE TypeOK'
  <2>1. status' \in [Requests -> {"new", "pending"} \cup Answers]
    BY <1>1 DEF TypeOK, RunCancelled, Answers
  <2> QED
    BY <1>1, <2>1 DEF TypeOK, RunCancelled
<1>2. ASSUME NEW r \in Requests, Run(r) PROVE TypeOK'
  <2>1. queue' \in Seq(Requests)
    BY <1>2, AppendProperties DEF TypeOK, Run
  <2>2. status' \in [Requests -> {"new", "pending"} \cup Answers]
    BY <1>2 DEF TypeOK, Run
  <2>3. pc' \in {"idle", "loop", "wait", "ready", "fail"}
    BY <1>2, CallDrainType DEF Run
  <2> QED
    BY <1>2, <2>1, <2>2, <2>3 DEF TypeOK, Run
<1>3. ASSUME NEW r \in Requests, CancelUnheard(r) PROVE TypeOK'
  BY <1>3 DEF TypeOK, CancelUnheard, CancelGuard
<1>4. ASSUME NEW r \in Requests, CancelQueued(r) PROVE TypeOK'
  <2>1. queue' \in Seq(Requests)
    BY <1>4, RemoveAtFacts DEF TypeOK, CancelQueued
  <2>2. status' \in [Requests -> {"new", "pending"} \cup Answers]
    BY <1>4 DEF TypeOK, CancelQueued, Answers
  <2> QED
    BY <1>4, <2>1, <2>2 DEF TypeOK, CancelQueued, CancelGuard
<1>5. ASSUME NEW r \in Requests, CancelAssigned(r) PROVE TypeOK'
  <2>1. inbox' \in [Threads -> Seq(HostMessages)]
    <3>1. PICK s \in 1 .. open : inbox' = Posted({worker[s]}, [type |-> "cancel", id |-> r])
      BY <1>5 DEF CancelAssigned
    <3>2. QED
      BY <3>1, PostedType, Messages
  <2> QED
    BY <1>5, <2>1 DEF TypeOK, CancelAssigned, CancelGuard
<1>6. CASE Reconfigure
  <2>1. config' \in Configs
    BY <1>6 DEF TypeOK, Reconfigure
  <2>2. inbox' \in [Threads -> Seq(HostMessages)]
    BY <1>6, <2>1, PostedType, Messages DEF Reconfigure
  <2> QED
    BY <1>6, <2>1, <2>2 DEF TypeOK, Reconfigure
<1>7. CASE Dispose
  <2>1. inbox' \in [Threads -> Seq(HostMessages)]
    BY <1>7, PostedType, Messages DEF Dispose
  <2>2. doomed' \subseteq Threads
    <3>1. \A s \in 1 .. open : worker[s] \in Threads \cup {None}
      BY DEF TypeOK
    <3>2. QED
      BY <1>7, <3>1 DEF Dispose, Disposable
  <2>3. status' \in [Requests -> {"new", "pending"} \cup Answers]
    BY <1>7 DEF TypeOK, Dispose, Answers
  <2>4. worker' \in [Slots -> Threads \cup {None}] /\ ready' \in [Slots -> BOOLEAN]
    BY <1>7 DEF Dispose
  <2>5. current' \in [Slots -> Requests \cup {None}]
    BY <1>7 DEF Dispose
  <2>6. queue' \in Seq(Requests)
    BY <1>7 DEF Dispose
  <2> QED
    BY <1>7, <2>1, <2>2, <2>3, <2>4, <2>5, <2>6 DEF TypeOK, Dispose
<1>8. CASE DrainEmpty
  BY <1>8 DEF TypeOK, DrainEmpty
<1>9. CASE DrainDropCancelled
  <2>1. queue' \in Seq(Requests)
    BY <1>9, HeadTailProperties DEF TypeOK, DrainDropCancelled
  <2>2. status' \in [Requests -> {"new", "pending"} \cup Answers]
    BY <1>9, HeadTailProperties DEF TypeOK, DrainDropCancelled, Answers
  <2> QED
    BY <1>9, <2>1, <2>2 DEF TypeOK, DrainDropCancelled
<1>10. CASE DrainAssign
  <2>1. queue # <<>> /\ \E s \in Slots : Assign(s)
    BY <1>10 DEF DrainAssign, Serving
  <2>2. /\ queue' \in Seq(Requests)
        /\ current' \in [Slots -> Requests \cup {None}]
        /\ inbox' \in [Threads -> Seq(HostMessages)]
    BY <1>10, <2>1, AssignType
  <2> QED
    BY <1>10, <2>1, <2>2 DEF TypeOK, DrainAssign
<1>11. CASE DrainRespawn
  BY <1>11, SpawnType DEF TypeOK, DrainRespawn
<1>12. CASE DrainGrow
  <2>1. open + 1 \in Slots /\ Spawn(open + 1)
    BY <1>12 DEF TypeOK, DrainGrow
  <2>2. open' \in 0 .. PoolSize
    BY <1>12, <2>1 DEF TypeOK, DrainGrow
  <2> QED
    BY <1>12, <2>1, <2>2, SpawnType DEF TypeOK, DrainGrow
<1>13. CASE DrainAllBusy
  BY <1>13 DEF TypeOK, DrainAllBusy
<1>14. CASE ResumeEmpty
  BY <1>14 DEF TypeOK, ResumeEmpty
<1>15. CASE ResumeAssign
  <2>1. queue # <<>> /\ waitSlot \in Slots /\ Assign(waitSlot)
    BY <1>15 DEF TypeOK, AwaitInv, ResumeAssign
  <2>2. /\ queue' \in Seq(Requests)
        /\ current' \in [Slots -> Requests \cup {None}]
        /\ inbox' \in [Threads -> Seq(HostMessages)]
    BY <1>15, <2>1, AssignType
  <2> QED
    BY <1>15, <2>1, <2>2 DEF TypeOK, ResumeAssign
<1>16. CASE RespawnFailed
  <2>1. phase' \in [Threads -> Phases]
    BY <1>16, TerminatedType DEF RespawnFailed, SpawnFailed
  <2>2. queue' \in Seq(Requests)
    BY <1>16, RejectHeadType DEF RespawnFailed, SpawnFailed
  <2>3. status' \in [Requests -> {"new", "pending"} \cup Answers]
    BY <1>16, RejectHeadType DEF RespawnFailed, SpawnFailed
  <2>4. worker' \in [Slots -> Threads \cup {None}]
    BY <1>16 DEF TypeOK, RespawnFailed, SpawnFailed
  <2> QED
    BY <1>16, <2>1, <2>2, <2>3, <2>4 DEF TypeOK, RespawnFailed, SpawnFailed
<1>17. CASE GrowFailed
  <2>1. phase' \in [Threads -> Phases]
    BY <1>17, TerminatedType DEF GrowFailed, SpawnFailed
  <2>2. queue' \in Seq(Requests)
    BY <1>17, RejectHeadType DEF GrowFailed, SpawnFailed
  <2>3. status' \in [Requests -> {"new", "pending"} \cup Answers]
    BY <1>17, RejectHeadType DEF GrowFailed, SpawnFailed
  <2>4. worker' \in [Slots -> Threads \cup {None}]
    BY <1>17 DEF TypeOK, GrowFailed, SpawnFailed
  <2>5. open' \in 0 .. PoolSize
    BY <1>17 DEF TypeOK, AwaitInv, GrowFailed, SpawnFailed
  <2>6. ready' \in [Slots -> BOOLEAN] /\ failed' \in [Slots -> BOOLEAN]
    BY <1>17 DEF TypeOK, GrowFailed
  <2>7. /\ current' \in [Slots -> Requests \cup {None}]
        /\ slotOf' \in [Threads -> Slots \cup {None}]
    BY <1>17 DEF TypeOK, GrowFailed
  <2> QED
    BY <1>17, <2>1, <2>2, <2>3, <2>4, <2>5, <2>6, <2>7 DEF TypeOK, GrowFailed, SpawnFailed
<1>18. CASE ReadyTimeout
  BY <1>18 DEF TypeOK, ReadyTimeout
<1>19. ASSUME NEW t \in Threads, TerminateDoomed(t) PROVE TypeOK'
  <2>1. phase' \in [Threads -> Phases]
    BY <1>19, TerminatedType DEF TerminateDoomed
  <2> QED
    BY <1>19, <2>1 DEF TypeOK, TerminateDoomed
<1>20. ASSUME NEW t \in Threads, OnReady(t) PROVE TypeOK'
  <2>1. outbox' \in [Threads -> Seq(WorkerMessages)]
    BY <1>20, ReceiveType DEF OnReady
  <2> QED
    BY <1>20, <2>1 DEF TypeOK, OnReady
<1>21. ASSUME NEW t \in Threads, OnProgress(t) PROVE TypeOK'
  <2>1. outbox' \in [Threads -> Seq(WorkerMessages)]
    BY <1>21, ReceiveType DEF OnProgress
  <2> QED
    BY <1>21, <2>1 DEF TypeOK, OnProgress
<1>22. ASSUME NEW t \in Threads, OnReply(t) PROVE TypeOK'
  <2>1. outbox' \in [Threads -> Seq(WorkerMessages)]
    BY <1>22, ReceiveType DEF OnReply
  <2>2. pc' \in {"idle", "loop", "wait", "ready", "fail"}
    BY <1>22, CallDrainType DEF OnReply
  <2>3. status' \in [Requests -> {"new", "pending"} \cup Answers]
    BY <1>22 DEF TypeOK, OnReply, Answers
  <2> QED
    BY <1>22, <2>1, <2>2, <2>3 DEF TypeOK, OnReply
<1>23. ASSUME NEW t \in Threads, OnStaleReply(t) PROVE TypeOK'
  <2>1. outbox' \in [Threads -> Seq(WorkerMessages)]
    BY <1>23, ReceiveType DEF OnStaleReply
  <2> QED
    BY <1>23, <2>1 DEF TypeOK, OnStaleReply
<1>24. ASSUME NEW t \in Threads, OnError(t) PROVE TypeOK'
  <2>1. /\ worker' \in [Slots -> Threads \cup {None}]
        /\ ready' \in [Slots -> BOOLEAN]
        /\ failed' \in [Slots -> BOOLEAN]
        /\ current' \in [Slots -> Requests \cup {None}]
        /\ status' \in [Requests -> {"new", "pending"} \cup Answers]
    BY <1>24, LoseSlotType DEF TypeOK, OnError
  <2>2. pc' \in {"idle", "loop", "wait", "ready", "fail"}
    BY <1>24, CallDrainType DEF OnError
  <2>3. phase' \in [Threads -> Phases]
    BY <1>24 DEF TypeOK, OnError, Phases
  <2> QED
    BY <1>24, <2>1, <2>2, <2>3 DEF TypeOK, OnError
<1>25. ASSUME NEW t \in Threads, OnUnexpectedExit(t) PROVE TypeOK'
  <2>1. /\ worker' \in [Slots -> Threads \cup {None}]
        /\ ready' \in [Slots -> BOOLEAN]
        /\ failed' \in [Slots -> BOOLEAN]
        /\ current' \in [Slots -> Requests \cup {None}]
        /\ status' \in [Requests -> {"new", "pending"} \cup Answers]
    BY <1>25, LoseSlotType DEF OnUnexpectedExit
  <2>2. pc' \in {"idle", "loop", "wait", "ready", "fail"}
    BY <1>25, CallDrainType DEF OnUnexpectedExit
  <2>3. phase' \in [Threads -> Phases]
    BY <1>25 DEF TypeOK, OnUnexpectedExit, ExitGuard, Phases
  <2> QED
    BY <1>25, <2>1, <2>2, <2>3 DEF TypeOK, OnUnexpectedExit
<1>26. ASSUME NEW t \in Threads, OnIgnoredExit(t) PROVE TypeOK'
  <2>1. phase' \in [Threads -> Phases]
    BY <1>26 DEF TypeOK, OnIgnoredExit, ExitGuard, Phases
  <2> QED
    BY <1>26, <2>1 DEF TypeOK, OnIgnoredExit
<1>27. ASSUME NEW t \in Threads, TakeInit(t) PROVE TypeOK'
  <2>1. inbox' \in [Threads -> Seq(HostMessages)]
    BY <1>27, TakeType DEF TakeInit
  <2>2. outbox' \in [Threads -> Seq(WorkerMessages)]
    BY <1>27, ReplyType, Messages DEF TakeInit
  <2>3. cfg' \in [Threads -> Configs]
    BY <1>27 DEF TypeOK, TakeInit
  <2>4. phase' \in [Threads -> Phases]
    BY <1>27 DEF TypeOK, TakeInit, Phases
  <2> QED
    BY <1>27, <2>1, <2>2, <2>3, <2>4 DEF TypeOK, TakeInit
<1>28. ASSUME NEW t \in Threads, TakeReconfigure(t) PROVE TypeOK'
  <2>1. inbox' \in [Threads -> Seq(HostMessages)]
    BY <1>28, TakeType DEF TakeReconfigure
  <2>2. cfg' \in [Threads -> Configs]
    BY <1>28 DEF TypeOK, TakeReconfigure
  <2> QED
    BY <1>28, <2>1, <2>2 DEF TypeOK, TakeReconfigure
<1>29. ASSUME NEW t \in Threads, TakeRequest(t) PROVE TypeOK'
  <2>1. inbox' \in [Threads -> Seq(HostMessages)]
    BY <1>29, TakeType DEF TakeRequest
  <2>2. chain' \in [Threads -> Seq(Requests)]
    BY <1>29, AppendProperties DEF TypeOK, TakeRequest
  <2> QED
    BY <1>29, <2>1, <2>2 DEF TypeOK, TakeRequest
<1>30. ASSUME NEW t \in Threads, TakeCancel(t) PROVE TypeOK'
  <2>1. inbox' \in [Threads -> Seq(HostMessages)]
    BY <1>30, TakeType DEF TakeCancel
  <2>2. cancelled' \in [Threads -> SUBSET Requests]
    <3>1. PICK r \in Requests : cancelled' = [cancelled EXCEPT ![t] = @ \cup {r}]
      BY <1>30 DEF TakeCancel
    <3>2. cancelled[t] \cup {r} \in SUBSET Requests
      BY DEF TypeOK
    <3>3. QED
      BY <3>1, <3>2 DEF TypeOK
  <2> QED
    BY <1>30, <2>1, <2>2 DEF TypeOK, TakeCancel
<1>31. ASSUME NEW t \in Threads, TakeShutdown(t) PROVE TypeOK'
  <2>1. inbox' \in [Threads -> Seq(HostMessages)]
    BY <1>31, TakeType DEF TakeShutdown
  <2>2. phase' \in [Threads -> Phases]
    BY <1>31 DEF TypeOK, TakeShutdown, Phases
  <2> QED
    BY <1>31, <2>1, <2>2 DEF TypeOK, TakeShutdown
<1>32. ASSUME NEW t \in Threads, Report(t) PROVE TypeOK'
  <2>1. Head(chain[t]) \in Requests
    BY <1>32, HeadTailProperties DEF TypeOK, Report
  <2>2. outbox' \in [Threads -> Seq(WorkerMessages)]
    BY <1>32, <2>1, ReplyType, Messages DEF Report
  <2> QED
    BY <1>32, <2>1, <2>2 DEF TypeOK, Report
<1>33. ASSUME NEW t \in Threads, Finish(t) PROVE TypeOK'
  <2>1. Head(chain[t]) \in Requests /\ Tail(chain[t]) \in Seq(Requests)
    BY <1>33, HeadTailProperties DEF TypeOK, Finish
  <2>2. outbox' \in [Threads -> Seq(WorkerMessages)]
    BY <1>33, <2>1, ReplyType, Messages DEF Finish, Outcomes
  <2>3. /\ chain' \in [Threads -> Seq(Requests)]
        /\ cancelled' \in [Threads -> SUBSET Requests]
    BY <1>33, <2>1 DEF TypeOK, Finish
  <2> QED
    BY <1>33, <2>1, <2>2, <2>3 DEF TypeOK, Finish
<1>34. ASSUME NEW t \in Threads, Crash(t) PROVE TypeOK'
  <2>1. phase' \in [Threads -> Phases]
    BY <1>34 DEF TypeOK, Crash, Phases
  <2> QED
    BY <1>34, <2>1 DEF TypeOK, Crash
<1>35. CASE UNCHANGED vars
  BY <1>35 DEF TypeOK, vars
<1> QED
  BY <1>1, <1>2, <1>3, <1>4, <1>5, <1>6, <1>7, <1>8, <1>9, <1>10, <1>11, <1>12, <1>13, <1>14, <1>15, <1>16, <1>17, <1>18, <1>19, <1>20, <1>21, <1>22, <1>23, <1>24, <1>25, <1>26, <1>27, <1>28, <1>29, <1>30, <1>31, <1>32, <1>33, <1>34, <1>35
     DEF Next, Callers, Drain, Timers, Listen, Handler, Finished

-----------------------------------------------------------------------------
(* Request conservation                                                    *)

\* What the three ways to change the queue do to its set of requests.
LEMMA QueueAppend ==
  ASSUME TypeOK, QueuedOnce, NEW r \in Requests, ~Queued(r), queue' = Append(queue, r)
  PROVE  /\ QueuedOnce'
         /\ \A q \in Requests : Queued(q)' <=> Queued(q) \/ q = r
<1>1. /\ Len(queue) \in Nat
      /\ Len(queue') = Len(queue) + 1
      /\ queue'[Len(queue) + 1] = r
      /\ \A i \in 1 .. Len(queue) : queue'[i] = queue[i]
  BY AppendProperties, SMTT(20) DEF TypeOK
<1>2. QED
  BY <1>1 DEF QueuedOnce, Queued

\* queue.shift() removes the head and nothing else.
LEMMA QueueShift ==
  ASSUME TypeOK, QueuedOnce, queue # <<>>, queue' = Tail(queue)
  PROVE  /\ QueuedOnce'
         /\ Head(queue) \in Requests /\ Queued(Head(queue))
         /\ \A q \in Requests : Queued(q)' <=> Queued(q) /\ q # Head(queue)
<1>0. queue \in Seq(Requests)
  BY DEF TypeOK
<1>1. /\ Len(queue) \in Nat /\ Len(queue) > 0
      /\ Len(queue') = Len(queue) - 1
      /\ Head(queue) = queue[1] /\ queue[1] \in Requests
      /\ \A i \in 1 .. Len(queue) - 1 : queue'[i] = queue[i + 1]
  BY <1>0, HeadTailProperties
<1>2. QueuedOnce'
  BY <1>1 DEF QueuedOnce
<1>3. Queued(Head(queue))
  BY <1>1 DEF Queued
<1>4. ASSUME NEW q \in Requests PROVE Queued(q)' <=> Queued(q) /\ q # Head(queue)
  <2>1. ASSUME Queued(q)' PROVE Queued(q) /\ q # Head(queue)
    <3>1. PICK i \in 1 .. Len(queue) - 1 : queue[i + 1] = q
      BY <1>1, <2>1 DEF Queued
    <3>2. QED
      BY <1>1, <3>1 DEF Queued, QueuedOnce
  <2>2. ASSUME Queued(q), q # Head(queue) PROVE Queued(q)'
    <3>1. PICK i \in 1 .. Len(queue) : queue[i] = q
      BY <2>2 DEF Queued
    <3>2. i - 1 \in 1 .. Len(queue') /\ queue'[i - 1] = q
      BY <1>1, <2>2, <3>1
    <3>3. QED
      BY <3>2 DEF Queued
  <2>3. QED
    BY <2>1, <2>2
<1>5. QED
  BY <1>1, <1>2, <1>3, <1>4

\* queue.splice(idx, 1) of cancel() removes that request and nothing else.
LEMMA QueueRemove ==
  ASSUME TypeOK, QueuedOnce, NEW k \in 1 .. Len(queue), queue' = RemoveAt(queue, k)
  PROVE  /\ QueuedOnce'
         /\ \A q \in Requests : Queued(q)' <=> Queued(q) /\ q # queue[k]
<1>1. /\ Len(queue) \in Nat
      /\ Len(queue') = Len(queue) - 1
      /\ \A i \in 1 .. Len(queue) - 1 : queue'[i] = IF i < k THEN queue[i] ELSE queue[i + 1]
  <2>1. queue \in Seq(Requests)
    BY DEF TypeOK
  <2>2. /\ Len(RemoveAt(queue, k)) = Len(queue) - 1
        /\ \A i \in 1 .. Len(queue) - 1 :
             RemoveAt(queue, k)[i] = IF i < k THEN queue[i] ELSE queue[i + 1]
    BY <2>1, RemoveAtFacts
  <2>3. QED
    BY <2>1, <2>2
<1>2. QueuedOnce'
  <2> SUFFICES ASSUME NEW i \in 1 .. Len(queue'), NEW j \in 1 .. Len(queue'), queue'[i] = queue'[j]
               PROVE  i = j
    BY DEF QueuedOnce
  <2>1. \A a, b \in 1 .. Len(queue) : queue[a] = queue[b] => a = b
    BY DEF QueuedOnce
  <2> DEFINE a == IF i < k THEN i ELSE i + 1
             b == IF j < k THEN j ELSE j + 1
  <2>2. queue'[i] = queue[a] /\ queue'[j] = queue[b] /\ a \in 1 .. Len(queue) /\ b \in 1 .. Len(queue)
    BY <1>1
  <2>3. a = b
    <3> HIDE DEF a, b
    <3>1. queue[a] = queue[b]
      BY <2>2
    <3>2. QED
      BY <2>1, <2>2, <3>1
  <2>4. QED
    BY <1>1, <2>3
<1>3. ASSUME NEW q \in Requests PROVE Queued(q)' <=> Queued(q) /\ q # queue[k]
  <2>1. ASSUME Queued(q)' PROVE Queued(q) /\ q # queue[k]
    <3>1. PICK i \in 1 .. Len(queue) - 1 : queue'[i] = q
      BY <1>1, <2>1 DEF Queued
    <3>2. QED
      BY <1>1, <3>1 DEF Queued, QueuedOnce
  <2>2. ASSUME Queued(q), q # queue[k] PROVE Queued(q)'
    <3>1. PICK i \in 1 .. Len(queue) : queue[i] = q
      BY <2>2 DEF Queued
    <3>2. CASE i < k
      BY <1>1, <3>1, <3>2 DEF Queued
    <3>3. CASE i > k
      <4>1. i - 1 \in 1 .. Len(queue') /\ queue'[i - 1] = q
        BY <1>1, <3>1, <3>3
      <4>2. QED
        BY <4>1 DEF Queued
    <3>4. QED
      BY <2>2, <3>1, <3>2, <3>3
  <2>3. QED
    BY <2>1, <2>2
<1>4. QED
  BY <1>2, <1>3

\* The ways a request moves.  The hypotheses are those of the actions below.
LEMMA HeadRejected ==
  ASSUME TypeOK, RequestConserved, queue # <<>>, NEW a \in Answers,
         queue' = Tail(queue), status' = [status EXCEPT ![Head(queue)] = a], current' = current
  PROVE  RequestConserved'
<1>1. /\ QueuedOnce' /\ Head(queue) \in Requests /\ Queued(Head(queue))
      /\ \A q \in Requests : Queued(q)' <=> Queued(q) /\ q # Head(queue)
  BY QueueShift DEF RequestConserved
<1>2. \A q \in Requests : Assigned(q)' <=> Assigned(q)
  BY DEF Assigned
<1>3. AssignedOnce'
  BY DEF RequestConserved, AssignedOnce
<1>4. \A q \in Requests : status'[q] = IF q = Head(queue) THEN a ELSE status[q]
  BY <1>1 DEF TypeOK
<1>5. QED
  BY <1>1, <1>2, <1>3, <1>4 DEF RequestConserved, Answers

\* Settling the current request of a slot frees that slot and nothing else.
LEMMA SlotFreed ==
  ASSUME TypeOK, RequestConserved, NEW s \in Slots, NEW a \in Answers, queue' = queue,
         current' = [current EXCEPT ![s] = None],
         status' = [r \in Requests |-> IF r = current[s] THEN a ELSE status[r]]
  PROVE  RequestConserved'
<1>1. QueuedOnce' /\ \A q \in Requests : Queued(q)' <=> Queued(q)
  BY DEF RequestConserved, QueuedOnce, Queued
<1>2. \A u \in Slots : current'[u] = IF u = s THEN None ELSE current[u]
  BY DEF TypeOK
<1>3. AssignedOnce'
  BY <1>2 DEF RequestConserved, AssignedOnce
<1>4. \A q \in Requests : Assigned(q)' <=> Assigned(q) /\ q # current[s]
  BY <1>2 DEF Assigned, RequestConserved, AssignedOnce
<1>5. \A q \in Requests : q = current[s] => Assigned(q)
  BY DEF Assigned
<1>6. QED
  BY <1>1, <1>3, <1>4, <1>5 DEF RequestConserved, Answers

\* assign() moves the head of the queue into a free slot.
LEMMA HeadAssigned ==
  ASSUME TypeOK, RequestConserved, NEW s \in Slots, current[s] = None, queue # <<>>,
         Assign(s), status' = status
  PROVE  RequestConserved'
<1>1. /\ QueuedOnce' /\ Head(queue) \in Requests /\ Queued(Head(queue))
      /\ \A q \in Requests : Queued(q)' <=> Queued(q) /\ q # Head(queue)
  BY QueueShift DEF RequestConserved, Assign
<1>2. \A u \in Slots : current'[u] = IF u = s THEN Head(queue) ELSE current[u]
  BY DEF TypeOK, Assign
<1>3. ~Assigned(Head(queue))
  BY <1>1 DEF RequestConserved
<1>4. AssignedOnce'
  BY <1>2, <1>3 DEF RequestConserved, AssignedOnce, Assigned
<1>5. \A q \in Requests : Assigned(q)' <=> Assigned(q) \/ q = Head(queue)
  BY <1>2 DEF Assigned
<1>6. QED
  BY <1>1, <1>3, <1>4, <1>5 DEF RequestConserved

\* A step that leaves queue, slots and promises alone conserves requests.
LEMMA NothingMoved ==
  ASSUME RequestConserved, queue' = queue, current' = current, status' = status
  PROVE  RequestConserved'
  BY DEF RequestConserved, QueuedOnce, AssignedOnce, Queued, Assigned

\* No step of the runner loses or duplicates a request.
LEMMA ConservedStep == TypeOK /\ AwaitInv /\ RequestConserved /\ [Next]_vars => RequestConserved'
<1> SUFFICES ASSUME TypeOK, AwaitInv, RequestConserved, [Next]_vars PROVE RequestConserved'
  OBVIOUS
<1> USE DEF slotVars, drainVars, callerVars, hostVars, envVars, workVars, threadVars
\* A refused request is pending neither before nor after.
<1>1. ASSUME NEW r \in Requests, RunCancelled(r) PROVE RequestConserved'
  <2>1. \A q \in Requests : (status'[q] = "pending") <=> (status[q] = "pending")
    BY <1>1 DEF TypeOK, RunCancelled, RunGuard
  <2>2. QED
    BY <1>1, <2>1 DEF RunCancelled, RequestConserved, QueuedOnce, AssignedOnce, Queued, Assigned
\* A new request enters the queue.
<1>2. ASSUME NEW r \in Requests, Run(r) PROVE RequestConserved'
  <2>1. ~Queued(r) /\ ~Assigned(r)
    BY <1>2 DEF RequestConserved, Run, RunGuard
  <2>2. QueuedOnce' /\ \A q \in Requests : Queued(q)' <=> Queued(q) \/ q = r
    BY <1>2, <2>1, QueueAppend DEF RequestConserved, Run
  <2>3. AssignedOnce' /\ \A q \in Requests : Assigned(q)' <=> Assigned(q)
    BY <1>2 DEF Run, RequestConserved, AssignedOnce, Assigned
  <2>4. \A q \in Requests : status'[q] = IF q = r THEN "pending" ELSE status[q]
    BY <1>2 DEF TypeOK, Run
  <2>5. QED
    BY <2>1, <2>2, <2>3, <2>4 DEF RequestConserved
\* A cancelled request leaves the queue from wherever it stands.
<1>3. ASSUME NEW r \in Requests, CancelQueued(r) PROVE RequestConserved'
  <2>1. PICK k \in 1 .. Len(queue) : queue[k] = r /\ queue' = RemoveAt(queue, k)
    BY <1>3 DEF CancelQueued
  <2>2. QueuedOnce' /\ \A q \in Requests : Queued(q)' <=> Queued(q) /\ q # r
    BY <2>1, QueueRemove DEF RequestConserved
  <2>3. AssignedOnce' /\ \A q \in Requests : Assigned(q)' <=> Assigned(q)
    BY <1>3 DEF CancelQueued, RequestConserved, AssignedOnce, Assigned
  <2>4. \A q \in Requests : status'[q] = IF q = r THEN "cancelled" ELSE status[q]
    BY <1>3 DEF TypeOK, CancelQueued
  <2>5. Queued(r)
    BY <2>1 DEF Queued
  <2>6. QED
    BY <2>2, <2>3, <2>4, <2>5 DEF RequestConserved
\* Nothing is held once the runner is disposed.
<1>4. CASE Dispose
  <2>1. QueuedOnce' /\ AssignedOnce' /\ \A r \in Requests : ~Queued(r)' /\ ~Assigned(r)'
    BY <1>4 DEF Dispose, QueuedOnce, AssignedOnce, Queued, Assigned
  <2>2. \A r \in Requests : status'[r] # "pending"
    BY <1>4 DEF Dispose
  <2>3. QED
    BY <2>1, <2>2 DEF RequestConserved
<1>5. CASE DrainDropCancelled
  BY <1>5, HeadRejected DEF DrainDropCancelled, Answers
<1>6. CASE DrainAssign
  BY <1>6, HeadAssigned DEF DrainAssign, Serving, First, IdleReady
<1>7. CASE ResumeAssign
  <2>1. waitSlot \in Slots /\ current[waitSlot] = None
    BY <1>7 DEF ResumeAssign, AwaitInv, TypeOK
  <2>2. QED
    BY <1>7, <2>1, HeadAssigned DEF ResumeAssign
<1>8. CASE RespawnFailed
  BY <1>8, HeadRejected, NothingMoved DEF RespawnFailed, SpawnFailed, RejectHead, Answers
<1>9. CASE GrowFailed
  <2>1. current' = current
    BY <1>9 DEF GrowFailed, SpawnFailed, AwaitInv, TypeOK
  <2>2. QED
    BY <1>9, <2>1, HeadRejected, NothingMoved DEF GrowFailed, SpawnFailed, RejectHead, Answers
<1>10. ASSUME NEW t \in Threads, OnReply(t) PROVE RequestConserved'
  <2>1. PICK r \in Requests, answer \in {"done", "error", "cancelled"} :
          /\ CurrentOf(t) = r
          /\ status' = [status EXCEPT ![r] = answer]
          /\ current' = [current EXCEPT ![slotOf[t]] = None]
          /\ queue' = queue
    BY <1>10 DEF OnReply
  <2>2. slotOf[t] \in Slots /\ current[slotOf[t]] = r
    BY <2>1 DEF TypeOK, CurrentOf
  <2>3. status' = [q \in Requests |-> IF q = current[slotOf[t]] THEN answer ELSE status[q]]
    BY <2>1, <2>2 DEF TypeOK
  <2>4. answer \in Answers
    BY DEF Answers
  <2>5. QED
    BY <2>1, <2>2, <2>3, <2>4, SlotFreed
<1>11. ASSUME NEW t \in Threads, OnError(t) PROVE RequestConserved'
  <2>1. CASE slotOf[t] = None
    BY <1>11, <2>1, NothingMoved DEF OnError
  <2>2. CASE slotOf[t] # None
    <3>1. slotOf[t] \in Slots
      BY <2>2 DEF TypeOK
    <3>2. QED
      BY <1>11, <2>2, <3>1, SlotFreed DEF OnError, LoseSlot, Answers
  <2>3. QED
    BY <2>1, <2>2
<1>12. ASSUME NEW t \in Threads, OnUnexpectedExit(t) PROVE RequestConserved'
  <2>1. slotOf[t] \in Slots
    BY <1>12 DEF TypeOK, OnUnexpectedExit, ExitConcerns
  <2>2. QED
    BY <1>12, <2>1, SlotFreed DEF OnUnexpectedExit, LoseSlot, Answers
\* Every other step moves no request.
<1>13. ASSUME NEW r \in Requests, CancelUnheard(r) PROVE RequestConserved'
  BY <1>13, NothingMoved DEF CancelUnheard
<1>14. ASSUME NEW r \in Requests, CancelAssigned(r) PROVE RequestConserved'
  BY <1>14, NothingMoved DEF CancelAssigned
<1>15. CASE Reconfigure
  BY <1>15, NothingMoved DEF Reconfigure
<1>16. CASE DrainEmpty
  BY <1>16, NothingMoved DEF DrainEmpty
<1>17. CASE DrainRespawn
  BY <1>17, NothingMoved DEF DrainRespawn, Spawn
<1>18. CASE DrainGrow
  BY <1>18, NothingMoved DEF DrainGrow, Spawn
<1>19. CASE DrainAllBusy
  BY <1>19, NothingMoved DEF DrainAllBusy
<1>20. CASE ResumeEmpty
  BY <1>20, NothingMoved DEF ResumeEmpty
<1>21. CASE ReadyTimeout
  BY <1>21, NothingMoved DEF ReadyTimeout
<1>22. ASSUME NEW t \in Threads, TerminateDoomed(t) PROVE RequestConserved'
  BY <1>22, NothingMoved DEF TerminateDoomed
<1>23. ASSUME NEW t \in Threads, OnReady(t) PROVE RequestConserved'
  BY <1>23, NothingMoved DEF OnReady
<1>24. ASSUME NEW t \in Threads, OnProgress(t) PROVE RequestConserved'
  BY <1>24, NothingMoved DEF OnProgress
<1>25. ASSUME NEW t \in Threads, OnStaleReply(t) PROVE RequestConserved'
  BY <1>25, NothingMoved DEF OnStaleReply
<1>26. ASSUME NEW t \in Threads, OnIgnoredExit(t) PROVE RequestConserved'
  BY <1>26, NothingMoved DEF OnIgnoredExit
<1>27. ASSUME NEW t \in Threads, TakeInit(t) PROVE RequestConserved'
  BY <1>27, NothingMoved DEF TakeInit
<1>28. ASSUME NEW t \in Threads, TakeReconfigure(t) PROVE RequestConserved'
  BY <1>28, NothingMoved DEF TakeReconfigure
<1>29. ASSUME NEW t \in Threads, TakeRequest(t) PROVE RequestConserved'
  BY <1>29, NothingMoved DEF TakeRequest
<1>30. ASSUME NEW t \in Threads, TakeCancel(t) PROVE RequestConserved'
  BY <1>30, NothingMoved DEF TakeCancel
<1>31. ASSUME NEW t \in Threads, TakeShutdown(t) PROVE RequestConserved'
  BY <1>31, NothingMoved DEF TakeShutdown
<1>32. ASSUME NEW t \in Threads, Report(t) PROVE RequestConserved'
  BY <1>32, NothingMoved DEF Report
<1>33. ASSUME NEW t \in Threads, Finish(t) PROVE RequestConserved'
  BY <1>33, NothingMoved DEF Finish
<1>34. ASSUME NEW t \in Threads, Crash(t) PROVE RequestConserved'
  BY <1>34, NothingMoved DEF Crash
<1>35. CASE UNCHANGED vars
  BY <1>35, NothingMoved DEF vars
<1> QED
  BY <1>1, <1>2, <1>3, <1>4, <1>5, <1>6, <1>7, <1>8, <1>9, <1>10, <1>11, <1>12, <1>13, <1>14, <1>15, <1>16, <1>17, <1>18, <1>19, <1>20, <1>21, <1>22, <1>23, <1>24, <1>25, <1>26, <1>27, <1>28, <1>29, <1>30, <1>31, <1>32, <1>33, <1>34, <1>35
     DEF Next, Callers, Drain, Timers, Listen, Handler, Finished

-----------------------------------------------------------------------------
(* drain() and its await                                                   *)

\* What drain() remembers of its await stays true while other callbacks run.
LEMMA AwaitStep == TypeOK /\ AwaitInv /\ [Next]_vars => AwaitInv'
<1> SUFFICES ASSUME TypeOK, AwaitInv, [Next]_vars PROVE AwaitInv'
  OBVIOUS
<1> USE DEF TypeOK, AwaitInv, slotVars, drainVars, callerVars, hostVars, envVars, workVars, threadVars
<1>1. ASSUME NEW r \in Requests, RunCancelled(r) PROVE AwaitInv'
  BY <1>1 DEF RunCancelled, RunGuard
<1>2. ASSUME NEW r \in Requests, Run(r) PROVE AwaitInv'
  BY <1>2 DEF Run, RunGuard, HostFree, CallDrain
<1>3. ASSUME NEW r \in Requests, CancelUnheard(r) PROVE AwaitInv'
  BY <1>3 DEF CancelUnheard
<1>4. ASSUME NEW r \in Requests, CancelQueued(r) PROVE AwaitInv'
  BY <1>4 DEF CancelQueued, CancelGuard
<1>5. ASSUME NEW r \in Requests, CancelAssigned(r) PROVE AwaitInv'
  BY <1>5 DEF CancelAssigned, CancelGuard
<1>6. CASE Reconfigure
  BY <1>6 DEF Reconfigure
<1>7. CASE Dispose
  BY <1>7 DEF Dispose
<1>8. CASE DrainEmpty
  BY <1>8 DEF DrainEmpty
<1>9. CASE DrainDropCancelled
  BY <1>9 DEF DrainDropCancelled
<1>10. CASE DrainAssign
  BY <1>10, SMTT(20) DEF DrainAssign, Serving, First, IdleReady, Assign
<1>11. CASE DrainRespawn
  BY <1>11, SMTT(20) DEF DrainRespawn, Serving, Spawn, First, Dead
<1>12. CASE DrainGrow
  <2>1. open < PoolSize /\ open' = open + 1 /\ growing' = TRUE /\ Spawn(open + 1)
    BY <1>12 DEF DrainGrow
  <2>2. /\ starting' \in Threads /\ waitSlot' = open + 1
        /\ pc' = "wait" /\ current' = current
    BY <2>1 DEF Spawn
  <2>3. open + 1 \in Slots /\ current[open + 1] = None
    BY <2>1
  <2>4. QED
    BY <2>1, <2>2, <2>3, SMTT(30)
<1>13. CASE DrainAllBusy
  BY <1>13 DEF DrainAllBusy, Serving
<1>14. CASE ResumeEmpty
  BY <1>14 DEF ResumeEmpty
<1>15. CASE ResumeAssign
  BY <1>15, SMTT(20) DEF ResumeAssign, Assign
<1>16. CASE RespawnFailed
  BY <1>16 DEF RespawnFailed, SpawnFailed
<1>17. CASE GrowFailed
  BY <1>17 DEF GrowFailed, SpawnFailed
<1>18. CASE ReadyTimeout
  BY <1>18 DEF ReadyTimeout
<1>19. ASSUME NEW t \in Threads, TerminateDoomed(t) PROVE AwaitInv'
  BY <1>19 DEF TerminateDoomed
<1>20. ASSUME NEW t \in Threads, OnReady(t) PROVE AwaitInv'
  BY <1>20 DEF OnReady, Receive, HostFree
<1>21. ASSUME NEW t \in Threads, OnProgress(t) PROVE AwaitInv'
  BY <1>21 DEF OnProgress
<1>22. ASSUME NEW t \in Threads, OnReply(t) PROVE AwaitInv'
  <2>1. \A u \in Slots : current'[u] \in {current[u], None}
    BY <1>22 DEF OnReply
  <2>2. pc \in {"idle", "wait"} /\ pc' = IF pc = "idle" THEN "loop" ELSE pc
    BY <1>22 DEF OnReply, Receive, HostFree, CallDrain
  <2>3. open' = open /\ starting' = starting /\ waitSlot' = waitSlot /\ growing' = growing
    BY <1>22 DEF OnReply
  <2>4. QED
    BY <2>1, <2>2, <2>3
<1>23. ASSUME NEW t \in Threads, OnStaleReply(t) PROVE AwaitInv'
  BY <1>23 DEF OnStaleReply
<1>24. ASSUME NEW t \in Threads, OnError(t) PROVE AwaitInv'
  <2>1. \A u \in Slots : current'[u] \in {current[u], None}
    BY <1>24 DEF OnError, LoseSlot
  <2>2. pc \in {"idle", "wait"} /\ pc' = IF starting = t THEN "fail" ELSE IF pc = "idle" THEN "loop" ELSE pc
    BY <1>24 DEF OnError, HostFree, CallDrain
  <2>3. open' = open /\ starting' = starting /\ waitSlot' = waitSlot /\ growing' = growing
    BY <1>24 DEF OnError
  <2>4. QED
    BY <2>1, <2>2, <2>3
<1>25. ASSUME NEW t \in Threads, OnUnexpectedExit(t) PROVE AwaitInv'
  <2>1. \A u \in Slots : current'[u] \in {current[u], None}
    BY <1>25 DEF OnUnexpectedExit, LoseSlot
  <2>2. pc \in {"idle", "wait"} /\ pc' = IF pc = "idle" THEN "loop" ELSE pc
    BY <1>25 DEF OnUnexpectedExit, ExitGuard, HostFree, CallDrain
  <2>3. open' = open /\ starting' = starting /\ waitSlot' = waitSlot /\ growing' = growing
    BY <1>25 DEF OnUnexpectedExit
  <2>4. QED
    BY <2>1, <2>2, <2>3
<1>26. ASSUME NEW t \in Threads, OnIgnoredExit(t) PROVE AwaitInv'
  BY <1>26 DEF OnIgnoredExit
<1>27. ASSUME NEW t \in Threads, TakeInit(t) PROVE AwaitInv'
  BY <1>27 DEF TakeInit
<1>28. ASSUME NEW t \in Threads, TakeReconfigure(t) PROVE AwaitInv'
  BY <1>28 DEF TakeReconfigure
<1>29. ASSUME NEW t \in Threads, TakeRequest(t) PROVE AwaitInv'
  BY <1>29 DEF TakeRequest
<1>30. ASSUME NEW t \in Threads, TakeCancel(t) PROVE AwaitInv'
  BY <1>30 DEF TakeCancel
<1>31. ASSUME NEW t \in Threads, TakeShutdown(t) PROVE AwaitInv'
  BY <1>31 DEF TakeShutdown
<1>32. ASSUME NEW t \in Threads, Report(t) PROVE AwaitInv'
  BY <1>32 DEF Report
<1>33. ASSUME NEW t \in Threads, Finish(t) PROVE AwaitInv'
  BY <1>33 DEF Finish
<1>34. ASSUME NEW t \in Threads, Crash(t) PROVE AwaitInv'
  BY <1>34 DEF Crash
<1>35. CASE UNCHANGED vars
  BY <1>35 DEF vars
<1> QED
  BY <1>1, <1>2, <1>3, <1>4, <1>5, <1>6, <1>7, <1>8, <1>9, <1>10, <1>11, <1>12, <1>13, <1>14, <1>15, <1>16, <1>17, <1>18, <1>19, <1>20, <1>21, <1>22, <1>23, <1>24, <1>25, <1>26, <1>27, <1>28, <1>29, <1>30, <1>31, <1>32, <1>33, <1>34, <1>35
     DEF Next, Callers, Drain, Timers, Listen, Handler, Finished

\* No step leaves drain() at rest with work that some slot could take.
LEMMA WakeupStep ==
  TypeOK /\ AwaitInv /\ NoLostWakeup /\ [Next]_vars => NoLostWakeup'
<1> SUFFICES ASSUME TypeOK, AwaitInv, NoLostWakeup, [Next]_vars PROVE NoLostWakeup'
  OBVIOUS
<1> USE DEF NoLostWakeup, slotVars, drainVars, callerVars, hostVars, envVars, workVars, threadVars
<1>1. ASSUME NEW r \in Requests, RunCancelled(r) PROVE NoLostWakeup'
  BY <1>1 DEF RunCancelled
<1>2. ASSUME NEW r \in Requests, Run(r) PROVE NoLostWakeup'
  BY <1>2 DEF Run, RunGuard, HostFree, CallDrain
<1>3. ASSUME NEW r \in Requests, CancelUnheard(r) PROVE NoLostWakeup'
  BY <1>3 DEF CancelUnheard
<1>4. ASSUME NEW r \in Requests, CancelQueued(r) PROVE NoLostWakeup'
  BY <1>4, RemoveAtFacts DEF CancelQueued, CancelGuard, TypeOK
<1>5. ASSUME NEW r \in Requests, CancelAssigned(r) PROVE NoLostWakeup'
  BY <1>5 DEF CancelAssigned, CancelGuard
<1>6. CASE Reconfigure
  BY <1>6 DEF Reconfigure
<1>7. CASE Dispose
  BY <1>7 DEF Dispose
<1>8. CASE DrainEmpty
  BY <1>8 DEF DrainEmpty
<1>9. CASE DrainDropCancelled
  BY <1>9 DEF DrainDropCancelled
<1>10. CASE DrainAssign
  BY <1>10 DEF DrainAssign, Serving, First, IdleReady, Assign
<1>11. CASE DrainRespawn
  BY <1>11 DEF DrainRespawn, Serving, Spawn, First, Dead
<1>12. CASE DrainGrow
  BY <1>12 DEF DrainGrow, Serving, Spawn
<1>13. CASE DrainAllBusy
  BY <1>13 DEF DrainAllBusy, Serving, TypeOK, IdleReady, Dead
<1>14. CASE ResumeEmpty
  BY <1>14 DEF ResumeEmpty
<1>15. CASE ResumeAssign
  BY <1>15 DEF ResumeAssign, Assign
<1>16. CASE RespawnFailed
  BY <1>16 DEF RespawnFailed, SpawnFailed
<1>17. CASE GrowFailed
  BY <1>17 DEF GrowFailed, SpawnFailed
<1>18. CASE ReadyTimeout
  BY <1>18 DEF ReadyTimeout
<1>19. ASSUME NEW t \in Threads, TerminateDoomed(t) PROVE NoLostWakeup'
  BY <1>19 DEF TerminateDoomed
<1>20. ASSUME NEW t \in Threads, OnReady(t) PROVE NoLostWakeup'
  BY <1>20 DEF OnReady, Receive, HostFree
<1>21. ASSUME NEW t \in Threads, OnProgress(t) PROVE NoLostWakeup'
  BY <1>21 DEF OnProgress
<1>22. ASSUME NEW t \in Threads, OnReply(t) PROVE NoLostWakeup'
  BY <1>22 DEF OnReply, Receive, HostFree, CallDrain
<1>23. ASSUME NEW t \in Threads, OnStaleReply(t) PROVE NoLostWakeup'
  BY <1>23 DEF OnStaleReply
<1>24. ASSUME NEW t \in Threads, OnError(t) PROVE NoLostWakeup'
  BY <1>24 DEF OnError, HostFree, CallDrain, LoseSlot
<1>25. ASSUME NEW t \in Threads, OnUnexpectedExit(t) PROVE NoLostWakeup'
  BY <1>25 DEF OnUnexpectedExit, ExitGuard, HostFree, CallDrain, LoseSlot
<1>26. ASSUME NEW t \in Threads, OnIgnoredExit(t) PROVE NoLostWakeup'
  BY <1>26 DEF OnIgnoredExit
<1>27. ASSUME NEW t \in Threads, TakeInit(t) PROVE NoLostWakeup'
  BY <1>27 DEF TakeInit
<1>28. ASSUME NEW t \in Threads, TakeReconfigure(t) PROVE NoLostWakeup'
  BY <1>28 DEF TakeReconfigure
<1>29. ASSUME NEW t \in Threads, TakeRequest(t) PROVE NoLostWakeup'
  BY <1>29 DEF TakeRequest
<1>30. ASSUME NEW t \in Threads, TakeCancel(t) PROVE NoLostWakeup'
  BY <1>30 DEF TakeCancel
<1>31. ASSUME NEW t \in Threads, TakeShutdown(t) PROVE NoLostWakeup'
  BY <1>31 DEF TakeShutdown
<1>32. ASSUME NEW t \in Threads, Report(t) PROVE NoLostWakeup'
  BY <1>32 DEF Report
<1>33. ASSUME NEW t \in Threads, Finish(t) PROVE NoLostWakeup'
  BY <1>33 DEF Finish
<1>34. ASSUME NEW t \in Threads, Crash(t) PROVE NoLostWakeup'
  BY <1>34 DEF Crash
<1>35. CASE UNCHANGED vars
  BY <1>35 DEF vars
<1> QED
  BY <1>1, <1>2, <1>3, <1>4, <1>5, <1>6, <1>7, <1>8, <1>9, <1>10, <1>11, <1>12, <1>13, <1>14, <1>15, <1>16, <1>17, <1>18, <1>19, <1>20, <1>21, <1>22, <1>23, <1>24, <1>25, <1>26, <1>27, <1>28, <1>29, <1>30, <1>31, <1>32, <1>33, <1>34, <1>35
     DEF Next, Callers, Drain, Timers, Listen, Handler, Finished

-----------------------------------------------------------------------------
(* The theorems                                                            *)

\* The inductive invariant holds when the runner is created.
LEMMA InitInv == Init => IInv
<1> SUFFICES ASSUME Init PROVE IInv
  OBVIOUS
<1>1. TypeOK
  <2>1. /\ <<>> \in Seq(Requests)
        /\ <<>> \in Seq(HostMessages)
        /\ <<>> \in Seq(WorkerMessages)
    OBVIOUS
  <2>2. 0 \in Configs /\ 0 \in 0 .. PoolSize /\ "unborn" \in Phases
    BY DEF Phases
  <2>3. QED
    BY <2>1, <2>2 DEF Init, TypeOK
<1>2. AwaitInv /\ NoLostWakeup
  BY DEF Init, AwaitInv, NoLostWakeup
<1>3. RequestConserved
  BY DEF Init, RequestConserved, QueuedOnce, AssignedOnce, Queued, Assigned
<1>4. QED
  BY <1>1, <1>2, <1>3 DEF IInv

\* Every step keeps the inductive invariant.
LEMMA StepInv == IInv /\ [Next]_vars => IInv'
  BY TypeStep, AwaitStep, ConservedStep, WakeupStep DEF IInv

\* Hence it holds in every reachable state.
LEMMA Invariance == Spec => []IInv
  BY InitInv, StepInv, PTL DEF Spec

\* Every variable keeps its type: in particular the pool never has more than
\* PoolSize slots, and slots.pop() never runs on an empty pool.
THEOREM TypeCorrect == Spec => []TypeOK
  BY Invariance, PTL DEF IInv

\* No request of a caller is lost or held twice, whatever threads do.
THEOREM RequestsConserved == Spec => []RequestConserved
  BY Invariance, PTL DEF IInv

\* drain() never leaves a request waiting while a slot could serve it.
THEOREM WakeupsNotLost == Spec => []NoLostWakeup
  BY Invariance, PTL DEF IInv

-----------------------------------------------------------------------------
(* The runner implements the job service                                   *)

\* The started jobs of the service, as ImplementsJobService maps them.
Running == {current[s] : s \in Slots} \ {None}

\* The service and the runner count and remove alike: each instance of a module
\* has operators of its own, with the same definitions.
LEMMA SameOperators ==
  /\ \A S : Jobs!Cardinality(S) = Cardinality(S)
  /\ \A q, i : Jobs!RemoveAt(q, i) = RemoveAt(q, i)
<1>1. \A S : Jobs!Cardinality(S) = Cardinality(S)
  BY DEF Jobs!Cardinality, Cardinality
<1>2. \A q, i : Jobs!RemoveAt(q, i) = RemoveAt(q, i)
  BY DEF Jobs!RemoveAt, RemoveAt
<1>3. QED
  BY <1>1, <1>2

\* A slot that serves nobody leaves room for one more job.
LEMMA RoomForOne ==
  ASSUME TypeOK, NEW s \in Slots, current[s] = None
  PROVE  Cardinality(Running) < PoolSize
<1> DEFINE others == Slots \ {s}
           f == [u \in others |-> current[u]]
           R == {f[u] : u \in others}
<1>1. IsFiniteSet(Slots) /\ Cardinality(Slots) = PoolSize
  BY FS_Interval
<1>2. IsFiniteSet(others) /\ Cardinality(others) = PoolSize - 1
  <2> HIDE DEF Slots
  <2>1. QED
    BY <1>1, FS_RemoveElement
<1>3. f \in Surjection(others, R)
  BY DEF Surjection
<1>4. IsFiniteSet(R) /\ Cardinality(R) <= Cardinality(others)
  <2> HIDE DEF f, R, others
  <2>1. QED
    BY <1>2, <1>3, FS_Surjection
<1>5. Running \subseteq R
  BY DEF Running
<1> HIDE DEF f, R, others
<1>6. Cardinality(Running) <= Cardinality(R) /\ IsFiniteSet(Running)
  BY <1>4, <1>5, FS_Subset
<1>7. Cardinality(Running) \in Nat /\ Cardinality(R) \in Nat
  BY <1>4, <1>6, FS_CardinalityType
<1>8. QED
  BY <1>2, <1>4, <1>6, <1>7

\* assign() starts the oldest job.
LEMMA AssignStarts ==
  ASSUME TypeOK, NEW s \in Slots, current[s] = None, queue # <<>>, Assign(s), UNCHANGED <<status, disposed>>
  PROVE  Jobs!Start
<1>1. Head(queue) \in Requests
  BY QueueParts
<1>2. \A u \in Slots : current'[u] = IF u = s THEN Head(queue) ELSE current[u]
  BY DEF Assign, TypeOK
<1>3. Running' = Running \cup {Head(queue)}
  BY <1>1, <1>2 DEF Running
<1>4. Cardinality(Running) < PoolSize
  BY RoomForOne
<1>5. queue' = Tail(queue)
  BY DEF Assign
<1>6. QED
  BY <1>3, <1>4, <1>5, SameOperators DEF Jobs!Start, Running

\* Settling the request of a slot finishes its job.
LEMMA SlotFinishes ==
  ASSUME TypeOK, RequestConserved, NEW s \in Slots, NEW r \in Requests, current[s] = r, NEW a,
         status' = [status EXCEPT ![r] = a], current' = [current EXCEPT ![s] = None],
         UNCHANGED <<queue, disposed>>
  PROVE  Jobs!Finish(r, a)
<1>1. \A u \in Slots : current'[u] = IF u = s THEN None ELSE current[u]
  BY DEF TypeOK
<1>2. \A u \in Slots : u # s => current[u] # r
  BY DEF RequestConserved, AssignedOnce
<1>3. Running' = Running \ {r}
  BY <1>1, <1>2 DEF Running
<1>4. r \in Running
  BY DEF Running
<1>5. QED
  BY <1>3, <1>4 DEF Jobs!Finish, Running

\* A slot that loses its thread finishes its job, if it has one.
LEMMA LostFinishes ==
  ASSUME TypeOK, RequestConserved, NEW s \in Slots, LoseSlot(s), UNCHANGED <<queue, disposed>>
  PROVE  Jobs!Next \/ UNCHANGED Jobs!vars
<1>1. CASE current[s] = None
  <2>1. \A u \in Slots : current'[u] = current[u]
    BY <1>1 DEF LoseSlot, TypeOK
  <2>2. Running' = Running
    BY <2>1 DEF Running
  <2>3. status' = status
    BY <1>1 DEF LoseSlot, TypeOK
  <2>4. QED
    BY <2>2, <2>3 DEF Jobs!vars, Running
<1>2. CASE current[s] # None
  <2>1. current[s] \in Requests
    BY <1>2 DEF TypeOK
  <2>2. status' = [status EXCEPT ![current[s]] = "crashed"] /\ current' = [current EXCEPT ![s] = None]
    BY DEF LoseSlot, TypeOK
  <2>3. Jobs!Finish(current[s], "crashed")
    BY <2>1, <2>2, SlotFinishes
  <2>4. QED
    BY <2>1, <2>3 DEF Jobs!Next
<1>3. QED
  BY <1>1, <1>2

\* Rejecting the oldest request fails its job, if there is one.
LEMMA RejectFails ==
  ASSUME RejectHead, UNCHANGED <<current, disposed>>
  PROVE  Jobs!Next \/ UNCHANGED Jobs!vars
<1>1. CASE queue = <<>>
  BY <1>1 DEF RejectHead, Jobs!vars
<1>2. CASE queue # <<>>
  BY <1>2 DEF RejectHead, Jobs!Next, Jobs!Fail
<1>3. QED
  BY <1>1, <1>2

\* Dropping the oldest request withdraws its job.
LEMMA HeadWithdrawn ==
  ASSUME TypeOK, queue # <<>>, queue' = Tail(queue), status' = [status EXCEPT ![Head(queue)] = "cancelled"],
         UNCHANGED <<current, disposed>>
  PROVE  Jobs!Next
<1>1. queue \in Seq(Requests)
  BY DEF TypeOK
<1>2. /\ Len(queue) \in Nat \ {0} /\ Head(queue) = queue[1] /\ Tail(queue) \in Seq(Requests)
      /\ Len(Tail(queue)) = Len(queue) - 1
      /\ \A i \in 1 .. Len(queue) - 1 : Tail(queue)[i] = queue[i + 1]
  <2> HIDE DEF Requests
  <2>1. QED
    BY <1>1, HeadTailProperties
<1>3. 1 \in 1 .. Len(queue)
  BY <1>2
<1>4. /\ RemoveAt(queue, 1) \in Seq(Requests)
      /\ Len(RemoveAt(queue, 1)) = Len(queue) - 1
      /\ \A i \in 1 .. Len(queue) - 1 : RemoveAt(queue, 1)[i] = queue[i + 1]
  <2> DEFINE k == 1
  <2>1. k \in 1 .. Len(queue) /\ \A j \in 1 .. Len(queue) - 1 : ~(j < k)
    BY <1>2
  <2>2. /\ RemoveAt(queue, k) \in Seq(Requests)
        /\ Len(RemoveAt(queue, k)) = Len(queue) - 1
        /\ \A j \in 1 .. Len(queue) - 1 : RemoveAt(queue, k)[j] = IF j < k THEN queue[j] ELSE queue[j + 1]
    <3> HIDE DEF k, Requests
    <3>1. QED
      BY <1>1, <2>1, RemoveAtFacts
  <2>3. QED
    BY <2>1, <2>2
<1>5. Tail(queue) = RemoveAt(queue, 1)
  <2> HIDE DEF Requests
  <2>1. QED
    BY <1>2, <1>4, SeqEqual
<1>6. Jobs!Withdraw(1)
  BY <1>2, <1>5, SameOperators DEF Jobs!Withdraw
<1>7. QED
  BY <1>3, <1>6 DEF Jobs!Next

\* Every step of the runner is a step of the service, or none of its business.
LEMMA ServiceStep == IInv /\ [Next]_vars => [Jobs!Next]_(Jobs!vars)
<1> SUFFICES ASSUME IInv, [Next]_vars PROVE Jobs!Next \/ UNCHANGED Jobs!vars
  OBVIOUS
<1> USE DEF slotVars, drainVars, callerVars, hostVars, envVars, workVars, threadVars
<1>0. TypeOK /\ AwaitInv /\ RequestConserved
  BY DEF IInv
<1>1. ASSUME UNCHANGED <<queue, current, status, disposed>> PROVE UNCHANGED Jobs!vars
  BY <1>1 DEF Jobs!vars
<1>2. ASSUME NEW r \in Requests, RunCancelled(r) PROVE Jobs!Next
  BY <1>2 DEF RunCancelled, RunGuard, Jobs!Next, Jobs!Refuse
<1>3. ASSUME NEW r \in Requests, Run(r) PROVE Jobs!Next
  BY <1>3 DEF Run, RunGuard, Jobs!Next, Jobs!Submit
<1>4. ASSUME NEW r \in Requests, CancelUnheard(r) PROVE UNCHANGED Jobs!vars
  BY <1>1, <1>4 DEF CancelUnheard
<1>5. ASSUME NEW r \in Requests, CancelQueued(r) PROVE Jobs!Next
  <2>1. PICK i \in 1 .. Len(queue) : queue[i] = r /\ queue' = RemoveAt(queue, i)
    BY <1>5 DEF CancelQueued
  <2>2. Jobs!Withdraw(i)
    BY <1>5, <2>1, SameOperators DEF CancelQueued, Jobs!Withdraw
  <2>3. QED
    BY <2>2 DEF Jobs!Next
<1>6. ASSUME NEW r \in Requests, CancelAssigned(r) PROVE UNCHANGED Jobs!vars
  BY <1>1, <1>6 DEF CancelAssigned
<1>7. CASE Reconfigure
  BY <1>1, <1>7 DEF Reconfigure
<1>8. CASE Dispose
  <2>1. Running' = {}
    BY <1>8 DEF Dispose, Running
  <2>2. Jobs!Close
    BY <1>8, <2>1 DEF Dispose, Jobs!Close, Running
  <2>3. QED
    BY <2>2 DEF Jobs!Next
<1>9. CASE DrainEmpty \/ DrainAllBusy \/ ResumeEmpty \/ ReadyTimeout
  BY <1>1, <1>9 DEF DrainEmpty, DrainAllBusy, ResumeEmpty, ReadyTimeout
<1>10. CASE DrainDropCancelled
  BY <1>0, <1>10, HeadWithdrawn DEF DrainDropCancelled
<1>11. CASE DrainAssign
  <2>1. PICK s \in Slots : current[s] = None /\ Assign(s)
    BY <1>11 DEF DrainAssign, First, IdleReady
  <2>2. Jobs!Start
    BY <1>0, <1>11, <2>1, AssignStarts DEF DrainAssign, Serving
  <2>3. QED
    BY <2>2 DEF Jobs!Next
<1>12. CASE DrainRespawn \/ DrainGrow
  <2>1. PICK s \in Slots : Spawn(s)
    BY <1>0, <1>12 DEF DrainRespawn, DrainGrow, First, TypeOK
  <2>2. UNCHANGED <<queue, current, status, disposed>>
    BY <1>0, <2>1, SpawnType
  <2>3. QED
    BY <1>1, <2>2
<1>13. CASE ResumeAssign
  <2>1. waitSlot \in Slots /\ current[waitSlot] = None
    BY <1>0, <1>13 DEF ResumeAssign, AwaitInv, TypeOK
  <2>2. Jobs!Start
    BY <1>0, <1>13, <2>1, AssignStarts DEF ResumeAssign
  <2>3. QED
    BY <2>2 DEF Jobs!Next
<1>14. CASE RespawnFailed
  BY <1>14, RejectFails DEF RespawnFailed, SpawnFailed
<1>15. CASE GrowFailed
  <2>1. current[waitSlot] = None /\ starting # None
    BY <1>0, <1>15 DEF GrowFailed, SpawnFailed, AwaitInv
  <2>2. current' = current
    BY <1>0, <1>15, <2>1 DEF GrowFailed, TypeOK
  <2>3. QED
    BY <1>15, <2>2, RejectFails DEF GrowFailed, SpawnFailed
<1>16. ASSUME NEW t \in Threads, OnReply(t) PROVE Jobs!Next
  <2>1. PICK r \in Requests, a \in {"done", "error", "cancelled"} :
          /\ CurrentOf(t) = r
          /\ status' = [status EXCEPT ![r] = a]
          /\ current' = [current EXCEPT ![slotOf[t]] = None]
    BY <1>16 DEF OnReply
  <2>2. slotOf[t] \in Slots /\ current[slotOf[t]] = r
    BY <1>0, <2>1 DEF CurrentOf, TypeOK
  <2>3. Jobs!Finish(r, a)
    BY <1>0, <1>16, <2>1, <2>2, SlotFinishes DEF OnReply
  <2>4. QED
    BY <2>3 DEF Jobs!Next
<1>17. ASSUME NEW t \in Threads, OnReady(t) \/ OnProgress(t) \/ OnStaleReply(t) PROVE UNCHANGED Jobs!vars
  BY <1>1, <1>17 DEF OnReady, OnProgress, OnStaleReply
<1>18. ASSUME NEW t \in Threads, OnError(t) PROVE Jobs!Next \/ UNCHANGED Jobs!vars
  <2>1. CASE slotOf[t] = None
    BY <1>1, <1>18, <2>1 DEF OnError
  <2>2. CASE slotOf[t] # None
    <3>1. slotOf[t] \in Slots /\ LoseSlot(slotOf[t]) /\ UNCHANGED <<queue, disposed>>
      BY <1>0, <1>18, <2>2 DEF OnError, TypeOK
    <3>2. QED
      BY <1>0, <3>1, LostFinishes
  <2>3. QED
    BY <2>1, <2>2
<1>19. ASSUME NEW t \in Threads, OnUnexpectedExit(t) PROVE Jobs!Next \/ UNCHANGED Jobs!vars
  <2>1. slotOf[t] \in Slots /\ LoseSlot(slotOf[t]) /\ UNCHANGED <<queue, disposed>>
    BY <1>0, <1>19 DEF OnUnexpectedExit, ExitConcerns, TypeOK
  <2>2. QED
    BY <1>0, <2>1, LostFinishes
<1>20. ASSUME NEW t \in Threads, OnIgnoredExit(t) \/ TerminateDoomed(t) \/ Crash(t) PROVE UNCHANGED Jobs!vars
  BY <1>1, <1>20 DEF OnIgnoredExit, TerminateDoomed, Crash
<1>21. ASSUME NEW t \in Threads, Handler(t) \/ Report(t) \/ Finish(t) PROVE UNCHANGED Jobs!vars
  BY <1>1, <1>21 DEF Handler, TakeInit, TakeReconfigure, TakeRequest, TakeCancel, TakeShutdown, Report, Finish
<1>22. CASE UNCHANGED vars
  BY <1>1, <1>22 DEF vars
<1>23. QED
  BY <1>2, <1>3, <1>4, <1>5, <1>6, <1>7, <1>8, <1>9, <1>10, <1>11, <1>12, <1>13, <1>14, <1>15, <1>16,
     <1>17, <1>18, <1>19, <1>20, <1>21, <1>22
     DEF Next, Callers, Drain, Timers, Listen, Finished

\* Whatever threads and their events do, the runner answers its callers as the
\* job service may: accepted requests start in the order of run(), at most
\* PoolSize at a time, and each is answered once.
THEOREM ImplementsService == Spec => Jobs!SafeSpec
<1>1. Init => Jobs!Init
  BY DEF Init, Jobs!Init
<1>2. QED
  BY <1>1, Invariance, ServiceStep, PTL DEF Spec, Jobs!SafeSpec

=============================================================================
