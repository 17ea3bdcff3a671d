------------------------- MODULE WorkerThreadsProofs -------------------------
(***************************************************************************)
(* Proofs about the threads of the worker pool: what each of them holds,   *)
(* which slot it belongs to, and whose work it does.  Most of them need    *)
(* the events of threads to reach the host in time and in order (the       *)
(* constant Punctual of WorkerRunner): LateHang.cfg and LateGhost.cfg show *)
(* what late ones do.                                                      *)
(*                                                                         *)
(* The definitions come first, then one lemma for each of them that no     *)
(* step breaks it, then what they say together, and the theorems.          *)
(***************************************************************************)
EXTENDS WorkerRunnerProofs

\* What the messages of a channel are about.
Asks(t) == {i \in 1 .. Len(inbox[t]) : inbox[t][i].type = "request"}
Replies(t) == {i \in 1 .. Len(outbox[t]) : outbox[t][i].type \notin {"ready", "progress"}}

\* A thread without a slot, or one whose slot has another thread or none.
Stale(t) == slotOf[t] = None \/ worker[slotOf[t]] # t

\* What a thread is and holds at each stage of its life.
ThreadShape ==
  \A t \in Threads :
    /\ slotOf[t] # None => slotOf[t] \in 1 .. open
    /\ phase[t] = "unborn" =>
         slotOf[t] = None /\ inbox[t] = <<>> /\ outbox[t] = <<>> /\ chain[t] = <<>>
    /\ phase[t] = "boot" =>
         chain[t] = <<>> /\ outbox[t] = <<>> /\ inbox[t] # <<>> /\ inbox[t][1].type = "init"
    /\ phase[t] = "gone" => outbox[t] = <<>>

\* A slot and its thread know each other, and a slot that drain() has just
\* added has had no other thread.
SlotShape ==
  /\ \A s \in Slots : worker[s] # None =>
       s <= open /\ slotOf[worker[s]] = s /\ phase[worker[s]] # "unborn"
  /\ starting # None =>
       /\ slotOf[starting] = waitSlot /\ phase[starting] # "unborn"
       /\ worker[waitSlot] \in {starting, None}
       /\ growing => \A t \in Threads : slotOf[t] = waitSlot => t = starting

\* After dispose() nothing starts again and every live thread has its timer.
Closed ==
  disposed =>
    /\ queue = <<>>
    /\ \A s \in Slots : worker[s] = None /\ current[s] = None
    /\ \A t \in Threads : Alive(t) => t \in doomed

\* Before, live threads have slots, and a slot's flags tell about its thread.
Held ==
  ~disposed =>
    /\ \A t \in Threads : Alive(t) => ~Stale(t)
    /\ \A s \in Slots :
         /\ ready[s] => worker[s] # None /\ phase[worker[s]] \in {"live", "crashed", "stopped"}
         /\ worker[s] # None => ~failed[s] /\ (ready[s] \/ starting = worker[s])
         /\ current[s] # None => ready[s]

\* A stale thread has nothing left to say but its exit, and until that is
\* handled its slot has no thread that is up.
Silent ==
  ~disposed => \A t \in Threads : Stale(t) =>
    /\ outbox[t] = <<>>
    /\ phase[t] \in {"unborn", "stopped", "gone"}
    /\ phase[t] = "stopped" /\ slotOf[t] # None =>
         LET u == worker[slotOf[t]]
         IN u = None \/ (~ready[slotOf[t]] /\ outbox[u] = <<>> /\ phase[u] # "live")

\* drain()'s await ends with a ready thread or with one that never spoke.
AwaitEnds ==
  ~disposed =>
    /\ pc = "ready" => ready[waitSlot]
    /\ pc = "fail" /\ worker[waitSlot] # None =>
         outbox[starting] = <<>> /\ phase[starting] \in {"boot", "stopped", "gone"}
    /\ pc \in {"wait", "fail"} => ~ready[waitSlot]

\* The thread t of slot s has at most one piece of work, and it is the slot's
\* current request: posted to it, on its chain, or answered.
JobOf(s, t) ==
  /\ Len(chain[t]) <= 1
  /\ chain[t] # <<>> => chain[t][1] = current[s] /\ Asks(t) = {} /\ Replies(t) = {}
  /\ \A i, j \in Asks(t) : i = j
  /\ \A i \in Asks(t) : inbox[t][i].id = current[s] /\ Replies(t) = {}
  /\ \A i \in 1 .. Len(outbox[t]) : outbox[t][i].type # "ready" => outbox[t][i].id = current[s]
  /\ Replies(t) \subseteq {Len(outbox[t])}
  /\ current[s] # None /\ phase[t] = "live" =>
       chain[t] # <<>> \/ Asks(t) # {} \/ Replies(t) # {}

OneJob == \A s \in Slots : worker[s] # None => JobOf(s, worker[s])

\* A cancelled request only stays in the queue if nobody could be told.
QueuedPolled == \A r \in Requests : Queued(r) /\ r \in cancelReq => r \in Polled

\* The thread t knows of the cancelled request r, will know, has replied or is
\* lost: what CancelReachesThread asks of a busy slot's thread.
Told(t, r) ==
  \/ ~Alive(t)
  \/ ReplySent(t, r)
  \/ r \in cancelled[t]
  \/ \E i \in 1 .. Len(inbox[t]) : inbox[t][i] = [type |-> "cancel", id |-> r]

\* The configuration c is the last one posted to t, or the one t has applied and
\* none is on its way.
Configures(m) == m.type \in {"init", "reconfigure"}
LastConfig(t, i) ==
  /\ i \in 1 .. Len(inbox[t])
  /\ Configures(inbox[t][i])
  /\ \A j \in 1 .. Len(inbox[t]) : j > i => ~Configures(inbox[t][j])
Settled(t, c) ==
  \/ \E i \in 1 .. Len(inbox[t]) : LastConfig(t, i) /\ inbox[t][i].config = c
  \/ cfg[t] = c /\ \A i \in 1 .. Len(inbox[t]) : ~Configures(inbox[t][i])

\* It is always known which configuration a thread is about to have.
Definite == \A t \in Threads : \E c \in Configs : Settled(t, c)

\* What a step does to that: nothing, or it sends the current configuration, or
\* this thread is not in service and misses a change.
Evolves(t) ==
  \/ /\ config' = config /\ (Alive(t)' => Alive(t))
     /\ \A c \in Configs : Settled(t, c) => Settled(t, c)'
  \/ config' \in Configs /\ Settled(t, config)'
  \/ /\ config' # config /\ (InService(t) => ~Alive(t)')
     /\ \A c \in Configs : Settled(t, c) => Settled(t, c)'
Evolution == \A t \in Threads : Evolves(t)

\* Whoever speaks of a cancellation has been told of it.
CancelTrail ==
  \A t \in Threads :
    /\ \A i \in 1 .. Len(inbox[t]) : inbox[t][i].type = "cancel" => inbox[t][i].id \in cancelReq
    /\ cancelled[t] \subseteq cancelReq
    /\ \A i \in 1 .. Len(outbox[t]) : outbox[t][i].type = "cancelled" => outbox[t][i].id \in cancelReq

USE RunnerAssumption DEF Slots, None

\* A thread, a slot or a request is never null.
LEMMA NotNone == None \notin Threads /\ None \notin Slots /\ None \notin Requests
  BY DEF Threads, Requests

-----------------------------------------------------------------------------
(* Messages that are taken, handled and posted                             *)

\* What shifting a channel leaves.
LEMMA TailFacts ==
  ASSUME NEW S, NEW q \in Seq(S), q # <<>>
  PROVE  /\ Len(q) \in Nat \ {0}
         /\ Head(q) = q[1]
         /\ Tail(q) \in Seq(S)
         /\ Len(Tail(q)) = Len(q) - 1
         /\ \A i \in 1 .. Len(q) - 1 : Tail(q)[i] = q[i + 1]
  BY HeadTailProperties

\* A thread takes the oldest message posted to it.
LEMMA TakeFacts ==
  ASSUME TypeOK, NEW t \in Threads, NEW m, Take(t, m)
  PROVE  /\ Alive(t)
         /\ Len(inbox[t]) \in Nat \ {0}
         /\ inbox[t] # <<>>
         /\ inbox[t][1] = m
         /\ inbox'[t] \in Seq(HostMessages)
         /\ Len(inbox'[t]) = Len(inbox[t]) - 1
         /\ \A i \in 1 .. Len(inbox[t]) - 1 : inbox'[t][i] = inbox[t][i + 1]
         /\ \A u \in Threads \ {t} : inbox'[u] = inbox[u]
<1>1. inbox[t] \in Seq(HostMessages) /\ inbox[t] # <<>>
  BY DEF TypeOK, Take
<1>2. inbox'[t] = Tail(inbox[t]) /\ \A u \in Threads \ {t} : inbox'[u] = inbox[u]
  BY DEF TypeOK, Take
<1>3. Alive(t) /\ m = Head(inbox[t])
  BY DEF Take
<1>4. QED
  BY <1>1, <1>2, <1>3, TailFacts

\* The host handles the oldest message a thread has posted.
LEMMA ReceiveFacts ==
  ASSUME TypeOK, NEW t \in Threads, NEW m, Receive(t, m)
  PROVE  /\ HostFree
         /\ Len(outbox[t]) \in Nat \ {0}
         /\ outbox[t] # <<>>
         /\ outbox[t][1] = m
         /\ outbox'[t] \in Seq(WorkerMessages)
         /\ Len(outbox'[t]) = Len(outbox[t]) - 1
         /\ \A i \in 1 .. Len(outbox[t]) - 1 : outbox'[t][i] = outbox[t][i + 1]
         /\ \A u \in Threads \ {t} : outbox'[u] = outbox[u]
<1>1. outbox[t] \in Seq(WorkerMessages) /\ outbox[t] # <<>>
  BY DEF TypeOK, Receive
<1>2. outbox'[t] = Tail(outbox[t]) /\ \A u \in Threads \ {t} : outbox'[u] = outbox[u]
  BY DEF TypeOK, Receive
<1>3. HostFree /\ m = Head(outbox[t])
  BY DEF Receive
<1>4. QED
  BY <1>1, <1>2, <1>3, TailFacts

\* A thread posts behind what it has already posted.
LEMMA ReplyFacts ==
  ASSUME TypeOK, NEW t \in Threads, NEW m \in WorkerMessages, Reply(t, m)
  PROVE  /\ Len(outbox[t]) \in Nat
         /\ outbox'[t] # <<>>
         /\ Len(outbox'[t]) = Len(outbox[t]) + 1
         /\ \A i \in 1 .. Len(outbox[t]) : outbox'[t][i] = outbox[t][i]
         /\ outbox'[t][Len(outbox[t]) + 1] = m
         /\ \A u \in Threads \ {t} : outbox'[u] = outbox[u]
<1>1. outbox[t] \in Seq(WorkerMessages)
  BY DEF TypeOK
<1>2. outbox'[t] = Append(outbox[t], m) /\ \A u \in Threads \ {t} : outbox'[u] = outbox[u]
  BY DEF TypeOK, Reply
<1>3. QED
  BY <1>1, <1>2, AppendProperties

\* The places of a sequence that has grown by one.
LEMMA OneMore ==
  ASSUME NEW n \in Nat, NEW k, k = n + 1
  PROVE  1 .. k = (1 .. n) \cup {k} /\ k \notin 1 .. n
  OBVIOUS

\* What a thread posts is one more reply, unless it is news of its start or progress.
LEMMA RepliesPosted ==
  ASSUME NEW t, Len(outbox[t]) \in Nat, Len(outbox'[t]) = Len(outbox[t]) + 1,
         \A i \in 1 .. Len(outbox[t]) : outbox'[t][i] = outbox[t][i]
  PROVE  Replies(t)' = Replies(t) \cup {k \in {Len(outbox'[t])} : outbox'[t][k].type \notin {"ready", "progress"}}
<1> DEFINE n == Len(outbox[t])
           k == Len(outbox'[t])
           Counts(x) == x.type \notin {"ready", "progress"}
<1>1. 1 .. k = (1 .. n) \cup {k}
  BY OneMore
<1>2. \A i \in 1 .. n : Counts(outbox'[t][i]) <=> Counts(outbox[t][i])
  OBVIOUS
<1>3. Replies(t) = {i \in 1 .. n : Counts(outbox[t][i])} /\ Replies(t)' = {i \in 1 .. k : Counts(outbox'[t][i])}
  BY DEF Replies
<1> HIDE DEF n, k, Counts
<1>4. Replies(t)' = Replies(t) \cup {i \in {k} : Counts(outbox'[t][i])}
  BY <1>1, <1>2, <1>3
<1>5. QED
  BY <1>4 DEF k, Counts

\* The host posts behind what it has already posted, to live threads only.
LEMMA PostedFacts ==
  ASSUME TypeOK, NEW T, NEW m \in HostMessages, NEW t \in Threads
  PROVE  /\ Len(inbox[t]) \in Nat
         /\ ~(t \in T /\ Alive(t)) => Posted(T, m)[t] = inbox[t]
         /\ t \in T /\ Alive(t) =>
              /\ Posted(T, m)[t] # <<>>
              /\ Len(Posted(T, m)[t]) = Len(inbox[t]) + 1
              /\ \A i \in 1 .. Len(inbox[t]) : Posted(T, m)[t][i] = inbox[t][i]
              /\ Posted(T, m)[t][Len(inbox[t]) + 1] = m
<1>1. inbox[t] \in Seq(HostMessages)
  BY DEF TypeOK
<1>2. Posted(T, m)[t] = IF t \in T /\ Alive(t) THEN Append(inbox[t], m) ELSE inbox[t]
  BY DEF Posted
<1>3. QED
  BY <1>1, <1>2, AppendProperties

-----------------------------------------------------------------------------
(* The life of a thread                                                    *)

\* Posting disturbs nothing that is known of a thread.
LEMMA PostedShape ==
  ASSUME TypeOK, ThreadShape, NEW T, NEW m \in HostMessages, inbox' = Posted(T, m),
         UNCHANGED <<open, slotOf, phase, outbox, chain>>
  PROVE  ThreadShape'
<1>1. ASSUME NEW t \in Threads PROVE ThreadShape!(t)'
  <2>1. CASE t \in T /\ Alive(t)
    BY <2>1, PostedFacts DEF ThreadShape, Alive
  <2>2. CASE ~(t \in T /\ Alive(t))
    BY <2>2, PostedFacts DEF ThreadShape
  <2>3. QED
    BY <2>1, <2>2
<1>2. QED
  BY <1>1 DEF ThreadShape

\* A thread that is not starting may take any message but the first.
LEMMA TakenShape ==
  ASSUME TypeOK, ThreadShape, NEW t \in Threads, NEW m, Take(t, m), m.type # "init",
         UNCHANGED <<open, slotOf, outbox>>,
         \A u \in Threads \ {t} : phase'[u] = phase[u] /\ chain'[u] = chain[u],
         phase'[t] \in {phase[t], "stopped"}
  PROVE  ThreadShape'
<1>1. phase[t] = "live"
  BY TakeFacts DEF ThreadShape, Alive
<1>2. QED
  BY <1>1, TakeFacts DEF ThreadShape

\* A thread whose message the host handles has started and is not gone.
LEMMA ReceivedShape ==
  ASSUME TypeOK, ThreadShape, NEW t \in Threads, NEW m, Receive(t, m),
         UNCHANGED <<open, slotOf, phase, inbox, chain>>
  PROVE  ThreadShape'
<1>1. phase[t] \notin {"unborn", "boot", "gone"}
  BY ReceiveFacts DEF ThreadShape
<1>2. QED
  BY <1>1, ReceiveFacts DEF ThreadShape

\* A new thread starts with nothing but its first message.
LEMMA SpawnShape ==
  ASSUME TypeOK, ThreadShape, NEW s \in Slots, Spawn(s), open' \in Nat, s <= open', open <= open'
  PROVE  ThreadShape'
<1>1. PICK t \in Threads : Spawn(s)!(t)
  BY DEF Spawn
<1>2. ASSUME NEW u \in Threads, u # t PROVE ThreadShape!(u)'
  <2>1. phase'[u] = phase[u] \/ phase'[u] = "stopped"
    BY <1>1, <1>2 DEF TypeOK, Terminated
  <2>2. slotOf'[u] = slotOf[u] /\ inbox'[u] = inbox[u] /\ outbox' = outbox /\ chain' = chain
    BY <1>1, <1>2 DEF TypeOK, workVars
  <2>3. slotOf[u] # None => slotOf[u] \in 1 .. open'
    <3>1. open \in Nat /\ (slotOf[u] # None => slotOf[u] \in 1 .. open)
      BY DEF TypeOK, ThreadShape
    <3>2. QED
      BY <3>1
  <2>4. QED
    BY <2>1, <2>2, <2>3 DEF ThreadShape
<1>3. ThreadShape!(t)'
  <2>1. phase'[t] = "boot" /\ slotOf'[t] = s
    BY <1>1, TerminatedType DEF TypeOK
  <2>2. inbox'[t] = <<[type |-> "init", config |-> config]>>
    BY <1>1 DEF TypeOK
  <2>3. inbox'[t] # <<>> /\ inbox'[t][1].type = "init"
    BY <2>2
  <2>4. outbox'[t] = <<>> /\ chain'[t] = <<>>
    BY <1>1 DEF ThreadShape, workVars
  <2>5. QED
    BY <2>1, <2>3, <2>4
<1>4. QED
  BY <1>2, <1>3 DEF ThreadShape

\* No step of the runner or of a thread disturbs what is known of its life.
LEMMA ThreadShapeStep ==
  TypeOK /\ AwaitInv /\ SlotShape /\ ThreadShape /\ [Next]_vars => ThreadShape'
<1> SUFFICES ASSUME TypeOK, AwaitInv, SlotShape, ThreadShape, [Next]_vars
             PROVE  ThreadShape'
  OBVIOUS
<1> USE DEF slotVars, drainVars, callerVars, hostVars, envVars, workVars, threadVars
<1>1. ASSUME NEW r \in Requests, RunCancelled(r) PROVE ThreadShape'
  BY <1>1 DEF RunCancelled, ThreadShape
<1>2. ASSUME NEW r \in Requests, Run(r) PROVE ThreadShape'
  BY <1>2 DEF Run, ThreadShape
<1>3. ASSUME NEW r \in Requests, CancelUnheard(r) PROVE ThreadShape'
  BY <1>3 DEF CancelUnheard, ThreadShape
<1>4. ASSUME NEW r \in Requests, CancelQueued(r) PROVE ThreadShape'
  BY <1>4 DEF CancelQueued, ThreadShape
<1>5. ASSUME NEW r \in Requests, CancelAssigned(r) PROVE ThreadShape'
  <2>1. PICK s \in 1 .. open : inbox' = Posted({worker[s]}, [type |-> "cancel", id |-> r])
    BY <1>5 DEF CancelAssigned
  <2>2. QED
    BY <1>5, <2>1, Messages, PostedShape DEF CancelAssigned
<1>6. CASE Reconfigure
  <2>1. config' \in Configs
    BY <1>6 DEF TypeOK, Reconfigure, Configs
  <2>2. QED
    BY <1>6, <2>1, Messages, PostedShape DEF Reconfigure
<1>7. CASE Dispose
  BY <1>7, Messages, PostedShape DEF Dispose
<1>8. CASE DrainEmpty
  BY <1>8 DEF DrainEmpty, ThreadShape
<1>9. CASE DrainDropCancelled
  BY <1>9 DEF DrainDropCancelled, ThreadShape
<1>10. CASE DrainAssign
  <2>1. PICK s \in Slots : inbox' = Posted({worker[s]}, [type |-> "request", id |-> Head(queue)])
    BY <1>10 DEF DrainAssign, Assign, AwaitInv, TypeOK
  <2>2. [type |-> "request", id |-> Head(queue)] \in HostMessages
    BY <1>10, QueueParts, Messages DEF DrainAssign, Serving
  <2>3. QED
    BY <1>10, <2>1, <2>2, PostedShape DEF DrainAssign, Assign
<1>11. CASE DrainRespawn
  <2>1. PICK s \in Slots : First(s, Dead) /\ Spawn(s)
    BY <1>11 DEF DrainRespawn
  <2>2. s <= open /\ open' = open
    BY <1>11, <2>1 DEF DrainRespawn, First, Dead
  <2>3. open' \in Nat /\ open <= open'
    BY <2>2 DEF TypeOK
  <2>4. QED
    BY <2>1, <2>2, <2>3, SpawnShape
<1>12. CASE DrainGrow
  <2>1. open + 1 \in Slots /\ Spawn(open + 1) /\ open' = open + 1
    BY <1>12 DEF TypeOK, DrainGrow
  <2>2. open + 1 \in Nat /\ open <= open + 1
    BY DEF TypeOK
  <2>3. QED
    BY <2>1, <2>2, SpawnShape
<1>13. CASE DrainAllBusy
  BY <1>13 DEF DrainAllBusy, ThreadShape
<1>14. CASE ResumeEmpty
  BY <1>14 DEF ResumeEmpty, ThreadShape
<1>15. CASE ResumeAssign
  <2>1. PICK s \in Slots : inbox' = Posted({worker[s]}, [type |-> "request", id |-> Head(queue)])
    <3>1. waitSlot \in Slots
      BY <1>15 DEF ResumeAssign, AwaitInv, TypeOK
    <3>2. QED
      BY <1>15, <3>1 DEF ResumeAssign, Assign
  <2>2. [type |-> "request", id |-> Head(queue)] \in HostMessages
    BY <1>15, QueueParts, Messages DEF ResumeAssign, Serving
  <2>3. QED
    BY <1>15, <2>1, <2>2, PostedShape DEF ResumeAssign, Assign
<1>16. CASE RespawnFailed
  BY <1>16 DEF RespawnFailed, SpawnFailed, Terminated, Alive, TypeOK, ThreadShape
<1>17. CASE GrowFailed
  <2>1. waitSlot = open /\ open \in 1 .. PoolSize /\ open' = open - 1 /\ starting \in Threads
    BY <1>17, NotNone DEF TypeOK, AwaitInv, GrowFailed, SpawnFailed
  <2>2. \A u \in Threads : slotOf'[u] = IF u = starting THEN None ELSE slotOf[u]
    BY <1>17 DEF TypeOK, GrowFailed
  <2>3. \A u \in Threads : u # starting => slotOf[u] # open
    BY <1>17, <2>1, NotNone DEF SlotShape, GrowFailed
  <2>4. \A u \in Threads : slotOf'[u] # None => slotOf'[u] \in 1 .. open'
    <3>1. \A u \in Threads : slotOf[u] # None => slotOf[u] \in 1 .. open
      BY DEF ThreadShape
    <3>2. \A u \in Threads : u # starting /\ slotOf[u] # None => slotOf[u] \in 1 .. open - 1
      BY <2>1, <2>3, <3>1
    <3>3. QED
      BY <2>1, <2>2, <3>2
  <2>5. \A u \in Threads : phase'[u] = phase[u] \/ phase'[u] = "stopped"
    BY <1>17 DEF TypeOK, GrowFailed, SpawnFailed, Terminated
  <2>6. inbox' = inbox /\ outbox' = outbox /\ chain' = chain
    BY <1>17 DEF GrowFailed, SpawnFailed
  <2>7. starting # None /\ phase[starting] # "unborn"
    BY <2>1, NotNone DEF SlotShape
  <2>8. \A u \in Threads : phase[u] = "unborn" => u # starting
    BY <2>7
  <2>9. QED
    BY <2>2, <2>4, <2>5, <2>6, <2>8 DEF ThreadShape
<1>18. CASE ReadyTimeout
  BY <1>18 DEF ReadyTimeout, ThreadShape
<1>19. ASSUME NEW t \in Threads, TerminateDoomed(t) PROVE ThreadShape'
  BY <1>19 DEF TerminateDoomed, Terminated, Alive, TypeOK, ThreadShape
<1>20. ASSUME NEW t \in Threads, OnReady(t) PROVE ThreadShape'
  BY <1>20, ReceivedShape DEF OnReady
<1>21. ASSUME NEW t \in Threads, OnProgress(t) PROVE ThreadShape'
  BY <1>21, ReceivedShape DEF OnProgress
<1>22. ASSUME NEW t \in Threads, OnReply(t) PROVE ThreadShape'
  BY <1>22, ReceivedShape DEF OnReply
<1>23. ASSUME NEW t \in Threads, OnStaleReply(t) PROVE ThreadShape'
  BY <1>23, ReceivedShape DEF OnStaleReply
<1>24. ASSUME NEW t \in Threads, OnError(t) PROVE ThreadShape'
  BY <1>24 DEF OnError, TypeOK, ThreadShape, LoseSlot
<1>25. ASSUME NEW t \in Threads, OnUnexpectedExit(t) PROVE ThreadShape'
  BY <1>25 DEF OnUnexpectedExit, ExitGuard, TypeOK, ThreadShape
<1>26. ASSUME NEW t \in Threads, OnIgnoredExit(t) PROVE ThreadShape'
  BY <1>26 DEF OnIgnoredExit, ExitGuard, TypeOK, ThreadShape
<1>27. ASSUME NEW t \in Threads, TakeInit(t) PROVE ThreadShape'
  <2>1. PICK c \in Configs : Take(t, [type |-> "init", config |-> c])
    BY <1>27 DEF TakeInit
  <2>2. Reply(t, [type |-> "ready"]) /\ phase' = [phase EXCEPT ![t] = "live"]
    BY <1>27 DEF TakeInit
  <2>3. slotOf' = slotOf /\ chain' = chain /\ open' = open
    BY <1>27 DEF TakeInit
  <2>4. \A u \in Threads \ {t} : inbox'[u] = inbox[u] /\ outbox'[u] = outbox[u] /\ phase'[u] = phase[u]
    BY <2>1, <2>2, TakeFacts, ReplyFacts, Messages DEF TypeOK
  <2>5. phase'[t] = "live"
    BY <2>2 DEF TypeOK
  <2>6. QED
    BY <2>3, <2>4, <2>5 DEF ThreadShape
<1>28. ASSUME NEW t \in Threads, TakeReconfigure(t) PROVE ThreadShape'
  BY <1>28, TakenShape DEF TakeReconfigure, TypeOK
<1>29. ASSUME NEW t \in Threads, TakeRequest(t) PROVE ThreadShape'
  BY <1>29, TakenShape DEF TakeRequest, TypeOK
<1>30. ASSUME NEW t \in Threads, TakeCancel(t) PROVE ThreadShape'
  BY <1>30, TakenShape DEF TakeCancel, TypeOK
<1>31. ASSUME NEW t \in Threads, TakeShutdown(t) PROVE ThreadShape'
  BY <1>31, TakenShape DEF TakeShutdown, TypeOK
<1>32. ASSUME NEW t \in Threads, Report(t) PROVE ThreadShape'
  <2>1. phase[t] = "live"
    BY <1>32 DEF Report, ThreadShape, Alive
  <2>2. \A u \in Threads \ {t} : outbox'[u] = outbox[u] /\ chain'[u] = chain[u]
    BY <1>32 DEF Report, Reply, TypeOK
  <2>3. slotOf' = slotOf /\ phase' = phase /\ inbox' = inbox /\ open' = open
    BY <1>32 DEF Report
  <2>4. QED
    BY <2>1, <2>2, <2>3 DEF ThreadShape
<1>33. ASSUME NEW t \in Threads, Finish(t) PROVE ThreadShape'
  <2>1. phase[t] = "live"
    BY <1>33 DEF Finish, ThreadShape, Alive
  <2>2. \A u \in Threads \ {t} : outbox'[u] = outbox[u] /\ chain'[u] = chain[u]
    BY <1>33 DEF Finish, Reply, TypeOK
  <2>3. slotOf' = slotOf /\ phase' = phase /\ inbox' = inbox /\ open' = open
    BY <1>33 DEF Finish
  <2>4. QED
    BY <2>1, <2>2, <2>3 DEF ThreadShape
<1>34. ASSUME NEW t \in Threads, Crash(t) PROVE ThreadShape'
  BY <1>34 DEF Crash, Alive, TypeOK, ThreadShape
<1>35. CASE UNCHANGED vars
  BY <1>35 DEF vars, ThreadShape
<1> QED
  BY <1>1, <1>2, <1>3, <1>4, <1>5, <1>6, <1>7, <1>8, <1>9, <1>10, <1>11, <1>12, <1>13, <1>14,
     <1>15, <1>16, <1>17, <1>18, <1>19, <1>20, <1>21, <1>22, <1>23, <1>24, <1>25, <1>26,
     <1>27, <1>28, <1>29, <1>30, <1>31, <1>32, <1>33, <1>34, <1>35
     DEF Next, Callers, Drain, Timers, Listen, Handler, Finished

\* A step that leaves slots and drain() alone keeps them in shape.
LEMMA QuietShape ==
  ASSUME SlotShape, UNCHANGED <<open, worker, growing, waitSlot, starting, slotOf>>,
         \A t \in Threads : phase[t] # "unborn" => phase'[t] # "unborn", TypeOK
  PROVE  SlotShape'
  BY NotNone DEF SlotShape, TypeOK

\* drain() waits for a slot that exists.
LEMMA AwaitSlot == TypeOK /\ AwaitInv /\ starting # None => waitSlot \in Slots
  BY DEF TypeOK, AwaitInv

\* A slot may always lose its thread.
LEMMA LostShape ==
  ASSUME SlotShape, AwaitInv, UNCHANGED <<open, growing, waitSlot, starting, slotOf>>, TypeOK,
         \A s \in Slots : worker'[s] \in {worker[s], None},
         \A t \in Threads : phase[t] # "unborn" => phase'[t] # "unborn"
  PROVE  SlotShape'
<1>1. \A s \in Slots : worker'[s] # None =>
        s <= open' /\ slotOf'[worker'[s]] = s /\ phase'[worker'[s]] # "unborn"
  BY NotNone DEF SlotShape, TypeOK
<1>2. starting' # None =>
        /\ slotOf'[starting'] = waitSlot' /\ phase'[starting'] # "unborn"
        /\ worker'[waitSlot'] \in {starting', None}
        /\ growing' => \A t \in Threads : slotOf'[t] = waitSlot' => t = starting'
  <2>1. CASE starting # None
    <3>1. starting \in Threads /\ slotOf[starting] = waitSlot /\ waitSlot \in Slots
      BY <2>1, AwaitSlot DEF SlotShape, TypeOK
    <3>2. QED
      BY <2>1, <3>1 DEF SlotShape
  <2>2. QED
    BY <2>1
<1>3. QED
  BY <1>1, <1>2 DEF SlotShape

\* A slot that gets a new thread knows it, and is known by it.
LEMMA SpawnSlotShape ==
  ASSUME TypeOK, ThreadShape, SlotShape, NEW s \in Slots, Spawn(s),
         open' \in Nat, s <= open', open <= open',
         growing' => \A t \in Threads : slotOf[t] # s
  PROVE  SlotShape'
<1>1. PICK t \in Threads : Spawn(s)!(t)
  BY DEF Spawn
<1>2. \A u \in Threads : slotOf'[u] = IF u = t THEN s ELSE slotOf[u]
  BY <1>1 DEF TypeOK
<1>3. \A u \in Slots : worker'[u] = IF u = s THEN t ELSE worker[u]
  BY <1>1 DEF TypeOK
<1>4. phase'[t] = "boot" /\ \A u \in Threads \ {t} : phase[u] # "unborn" => phase'[u] # "unborn"
  BY <1>1, TerminatedType DEF TypeOK, Terminated
<1>5. starting' = t /\ waitSlot' = s /\ t # None
  BY <1>1, NotNone
<1>6. ASSUME NEW u \in Slots, worker'[u] # None
      PROVE  u <= open' /\ slotOf'[worker'[u]] = u /\ phase'[worker'[u]] # "unborn"
  <2>1. CASE u = s
    BY <2>1, <1>2, <1>3, <1>4
  <2>2. CASE u # s
    <3>1. worker'[u] = worker[u] /\ worker[u] \in Threads
      BY <2>2, <1>3, <1>6 DEF TypeOK
    <3>2. u <= open /\ slotOf[worker[u]] = u /\ phase[worker[u]] # "unborn"
      BY <3>1, <1>6 DEF SlotShape
    <3>3. worker[u] # t
      BY <3>2, <1>1
    <3>4. u <= open'
      BY <3>2 DEF TypeOK
    <3>5. QED
      BY <3>1, <3>2, <3>3, <3>4, <1>2, <1>4
  <2>3. QED
    BY <2>1, <2>2
<1>7. growing' => \A u \in Threads : slotOf'[u] = s => u = t
  BY <1>2
<1>8. slotOf'[t] = s /\ phase'[t] # "unborn" /\ worker'[s] = t
  BY <1>2, <1>3, <1>4
<1>9. QED
  BY <1>5, <1>6, <1>7, <1>8 DEF SlotShape

\* No step separates a slot from its thread without saying so to both.
LEMMA SlotShapeStep ==
  TypeOK /\ AwaitInv /\ ThreadShape /\ SlotShape /\ [Next]_vars => SlotShape'
<1> SUFFICES ASSUME TypeOK, AwaitInv, ThreadShape, SlotShape, [Next]_vars
             PROVE  SlotShape'
  OBVIOUS
<1> USE DEF slotVars, drainVars, callerVars, hostVars, envVars, workVars, threadVars
<1>1. ASSUME NEW r \in Requests, RunCancelled(r) PROVE SlotShape'
  BY <1>1, QuietShape DEF RunCancelled
<1>2. ASSUME NEW r \in Requests, Run(r) PROVE SlotShape'
  BY <1>2, QuietShape DEF Run
<1>3. ASSUME NEW r \in Requests, CancelUnheard(r) PROVE SlotShape'
  BY <1>3, QuietShape DEF CancelUnheard
<1>4. ASSUME NEW r \in Requests, CancelQueued(r) PROVE SlotShape'
  BY <1>4, QuietShape DEF CancelQueued
<1>5. ASSUME NEW r \in Requests, CancelAssigned(r) PROVE SlotShape'
  BY <1>5, QuietShape DEF CancelAssigned
<1>6. CASE Reconfigure
  BY <1>6, QuietShape DEF Reconfigure
<1>7. CASE Dispose
  BY <1>7, LostShape DEF Dispose
<1>8. CASE DrainEmpty
  BY <1>8, QuietShape DEF DrainEmpty
<1>9. CASE DrainDropCancelled
  BY <1>9, QuietShape DEF DrainDropCancelled
<1>10. CASE DrainAssign
  BY <1>10, QuietShape DEF DrainAssign
<1>11. CASE DrainRespawn
  <2>1. PICK s \in Slots : First(s, Dead) /\ Spawn(s)
    BY <1>11 DEF DrainRespawn
  <2>2. s <= open /\ open' = open /\ growing' = FALSE
    BY <1>11, <2>1 DEF DrainRespawn, First, Dead
  <2>3. open' \in Nat /\ open <= open'
    BY <2>2 DEF TypeOK
  <2>4. QED
    BY <2>1, <2>2, <2>3, SpawnSlotShape
<1>12. CASE DrainGrow
  <2>1. open + 1 \in Slots /\ Spawn(open + 1) /\ open' = open + 1
    BY <1>12 DEF TypeOK, DrainGrow
  <2>2. open + 1 \in Nat /\ open <= open + 1
    BY DEF TypeOK
  <2>3. \A t \in Threads : slotOf[t] # open + 1
    <3>1. \A t \in Threads : slotOf[t] = None \/ slotOf[t] \in 1 .. open
      BY DEF ThreadShape
    <3>2. None # open + 1 /\ open + 1 \notin 1 .. open
      BY DEF TypeOK
    <3>3. QED
      BY <3>1, <3>2
  <2>4. QED
    BY <2>1, <2>2, <2>3, SpawnSlotShape
<1>13. CASE DrainAllBusy
  BY <1>13, QuietShape DEF DrainAllBusy
<1>14. CASE ResumeEmpty
  BY <1>14 DEF ResumeEmpty, Assign, SlotShape
<1>15. CASE ResumeAssign
  BY <1>15 DEF ResumeAssign, Assign, SlotShape
<1>16. CASE RespawnFailed
  BY <1>16, NotNone DEF RespawnFailed, SpawnFailed, Terminated, Alive, TypeOK, SlotShape
<1>17. CASE GrowFailed
  <2>1. waitSlot = open /\ open \in 1 .. PoolSize /\ open' = open - 1 /\ starting \in Threads
    BY <1>17, NotNone DEF TypeOK, AwaitInv, GrowFailed, SpawnFailed
  <2>2. \A u \in Threads : slotOf'[u] = IF u = starting THEN None ELSE slotOf[u]
    BY <1>17 DEF TypeOK, GrowFailed
  <2>3. \A u \in Slots : worker'[u] = IF u = open THEN None ELSE worker[u]
    BY <1>17, <2>1 DEF TypeOK, GrowFailed, SpawnFailed
  <2>4. \A u \in Threads : phase'[u] = phase[u] \/ phase'[u] = "stopped"
    BY <1>17 DEF TypeOK, GrowFailed, SpawnFailed, Terminated
  <2>5. starting' = None /\ slotOf[starting] = open
    BY <1>17, <2>1, NotNone DEF GrowFailed, SpawnFailed, SlotShape
  <2>6. ASSUME NEW u \in Slots, worker'[u] # None
        PROVE  u <= open' /\ slotOf'[worker'[u]] = u /\ phase'[worker'[u]] # "unborn"
    <3>1. u # open /\ worker'[u] = worker[u] /\ worker[u] \in Threads
      BY <2>3, <2>6 DEF TypeOK
    <3>2. u <= open /\ slotOf[worker[u]] = u /\ phase[worker[u]] # "unborn"
      BY <3>1, <2>6 DEF SlotShape
    <3>3. worker[u] # starting
      BY <3>1, <3>2, <2>5
    <3>4. u <= open'
      BY <2>1, <3>1, <3>2
    <3>5. QED
      BY <3>1, <3>2, <3>3, <3>4, <2>2, <2>4
  <2>7. QED
    BY <2>5, <2>6 DEF SlotShape
<1>18. CASE ReadyTimeout
  BY <1>18, QuietShape DEF ReadyTimeout
<1>19. ASSUME NEW t \in Threads, TerminateDoomed(t) PROVE SlotShape'
  BY <1>19, QuietShape DEF TerminateDoomed, Terminated, TypeOK
<1>20. ASSUME NEW t \in Threads, OnReady(t) PROVE SlotShape'
  BY <1>20, QuietShape DEF OnReady
<1>21. ASSUME NEW t \in Threads, OnProgress(t) PROVE SlotShape'
  BY <1>21, QuietShape DEF OnProgress
<1>22. ASSUME NEW t \in Threads, OnReply(t) PROVE SlotShape'
  BY <1>22, QuietShape DEF OnReply
<1>23. ASSUME NEW t \in Threads, OnStaleReply(t) PROVE SlotShape'
  BY <1>23, QuietShape DEF OnStaleReply
<1>24. ASSUME NEW t \in Threads, OnError(t) PROVE SlotShape'
  BY <1>24, LostShape DEF OnError, LoseSlot, TypeOK
<1>25. ASSUME NEW t \in Threads, OnUnexpectedExit(t) PROVE SlotShape'
  BY <1>25, LostShape DEF OnUnexpectedExit, LoseSlot, ExitGuard, TypeOK
<1>26. ASSUME NEW t \in Threads, OnIgnoredExit(t) PROVE SlotShape'
  BY <1>26, QuietShape DEF OnIgnoredExit, ExitGuard, TypeOK
<1>27. ASSUME NEW t \in Threads, TakeInit(t) PROVE SlotShape'
  BY <1>27, QuietShape DEF TakeInit, TypeOK
<1>28. ASSUME NEW t \in Threads, TakeReconfigure(t) PROVE SlotShape'
  BY <1>28, QuietShape DEF TakeReconfigure
<1>29. ASSUME NEW t \in Threads, TakeRequest(t) PROVE SlotShape'
  BY <1>29, QuietShape DEF TakeRequest
<1>30. ASSUME NEW t \in Threads, TakeCancel(t) PROVE SlotShape'
  BY <1>30, QuietShape DEF TakeCancel
<1>31. ASSUME NEW t \in Threads, TakeShutdown(t) PROVE SlotShape'
  BY <1>31, QuietShape DEF TakeShutdown, TypeOK
<1>32. ASSUME NEW t \in Threads, Report(t) PROVE SlotShape'
  BY <1>32, QuietShape DEF Report
<1>33. ASSUME NEW t \in Threads, Finish(t) PROVE SlotShape'
  BY <1>33, QuietShape DEF Finish
<1>34. ASSUME NEW t \in Threads, Crash(t) PROVE SlotShape'
  BY <1>34, QuietShape DEF Crash, TypeOK
<1>35. CASE UNCHANGED vars
  BY <1>35, QuietShape DEF vars
<1> QED
  BY <1>1, <1>2, <1>3, <1>4, <1>5, <1>6, <1>7, <1>8, <1>9, <1>10, <1>11, <1>12, <1>13, <1>14,
     <1>15, <1>16, <1>17, <1>18, <1>19, <1>20, <1>21, <1>22, <1>23, <1>24, <1>25, <1>26,
     <1>27, <1>28, <1>29, <1>30, <1>31, <1>32, <1>33, <1>34, <1>35
     DEF Next, Callers, Drain, Timers, Listen, Handler, Finished

-----------------------------------------------------------------------------
(* Slots and their threads, until dispose() and after it                   *)

\* A step that starts nothing keeps a closed runner closed.
LEMMA QuietClosed ==
  ASSUME Closed, UNCHANGED <<disposed, doomed>>, disposed => queue' = queue,
         disposed => \A s \in Slots : worker'[s] \in {worker[s], None} /\ current'[s] \in {current[s], None},
         \A t \in Threads : phase'[t] \in {"boot", "live"} => phase[t] \in {"boot", "live"}
  PROVE  Closed'
  BY DEF Closed, Alive

\* A thread that is not stale is the thread of a slot of the pool.
LEMMA LiveSlot ==
  ASSUME TypeOK, ThreadShape, NEW t \in Threads, ~Stale(t)
  PROVE  slotOf[t] \in 1 .. open /\ slotOf[t] \in Slots /\ worker[slotOf[t]] = t
<1>1. slotOf[t] # None /\ worker[slotOf[t]] = t
  BY DEF Stale
<1>2. QED
  BY <1>1 DEF TypeOK, ThreadShape

\* dispose() reaches every live thread, and nothing starts after it.
LEMMA ClosedStep ==
  TypeOK /\ AwaitInv /\ ThreadShape /\ Held /\ Closed /\ [Next]_vars => Closed'
<1> SUFFICES ASSUME TypeOK, AwaitInv, ThreadShape, Held, Closed, [Next]_vars
             PROVE  Closed'
  OBVIOUS
<1> USE DEF slotVars, drainVars, callerVars, hostVars, envVars, workVars, threadVars
<1>1. ASSUME NEW r \in Requests, RunCancelled(r) PROVE Closed'
  BY <1>1, QuietClosed DEF RunCancelled
<1>2. ASSUME NEW r \in Requests, Run(r) PROVE Closed'
  BY <1>2 DEF Run, RunGuard, Closed
<1>3. ASSUME NEW r \in Requests, CancelUnheard(r) PROVE Closed'
  BY <1>3, QuietClosed DEF CancelUnheard
<1>4. ASSUME NEW r \in Requests, CancelQueued(r) PROVE Closed'
  <2>1. ~disposed
    BY <1>4 DEF CancelQueued, Closed
  <2>2. QED
    BY <1>4, <2>1 DEF CancelQueued, CancelGuard, Closed
<1>5. ASSUME NEW r \in Requests, CancelAssigned(r) PROVE Closed'
  BY <1>5, QuietClosed DEF CancelAssigned
<1>6. CASE Reconfigure
  BY <1>6, QuietClosed DEF Reconfigure
<1>7. CASE Dispose
  <2>1. ASSUME NEW t \in Threads, Alive(t) PROVE t \in doomed'
    <3>1. ~Stale(t)
      BY <1>7, <2>1 DEF Dispose, Held
    <3>2. slotOf[t] \in 1 .. open /\ worker[slotOf[t]] = t
      BY <3>1, LiveSlot
    <3>3. QED
      BY <1>7, <3>2, NotNone DEF Dispose, Disposable
  <2>2. \A t \in Threads : Alive(t)' => Alive(t)
    BY <1>7 DEF Dispose, Alive
  <2>3. QED
    BY <1>7, <2>1, <2>2 DEF Dispose, Closed
<1>8. CASE DrainEmpty
  BY <1>8, QuietClosed DEF DrainEmpty
<1>9. CASE DrainDropCancelled
  BY <1>9 DEF DrainDropCancelled, Closed
<1>10. CASE DrainAssign
  <2>1. ~disposed
    BY <1>10 DEF DrainAssign, Serving, Closed
  <2>2. disposed' = disposed
    BY <1>10 DEF DrainAssign, Spawn
  <2>3. QED
    BY <2>1, <2>2 DEF Closed
<1>11. CASE DrainRespawn
  <2>1. ~disposed
    BY <1>11 DEF DrainRespawn, Serving, Closed
  <2>2. disposed' = disposed
    BY <1>11 DEF DrainRespawn, Spawn
  <2>3. QED
    BY <2>1, <2>2 DEF Closed
<1>12. CASE DrainGrow
  <2>1. ~disposed
    BY <1>12 DEF DrainGrow, Serving, Closed
  <2>2. disposed' = disposed
    BY <1>12 DEF DrainGrow, Spawn
  <2>3. QED
    BY <2>1, <2>2 DEF Closed
<1>13. CASE DrainAllBusy
  BY <1>13, QuietClosed DEF DrainAllBusy
<1>14. CASE ResumeEmpty
  BY <1>14, QuietClosed DEF ResumeEmpty
<1>15. CASE ResumeAssign
  <2>1. ~disposed
    BY <1>15 DEF ResumeAssign, Closed
  <2>2. QED
    BY <1>15, <2>1 DEF ResumeAssign, Closed
<1>16. CASE RespawnFailed
  <2>1. disposed => queue' = queue
    BY <1>16 DEF RespawnFailed, SpawnFailed, RejectHead, Closed
  <2>2. \A s \in Slots : worker'[s] \in {worker[s], None} /\ current'[s] \in {current[s], None}
    BY <1>16 DEF RespawnFailed, SpawnFailed, TypeOK
  <2>3. \A t \in Threads : phase'[t] \in {"boot", "live"} => phase[t] \in {"boot", "live"}
    BY <1>16 DEF RespawnFailed, SpawnFailed, Terminated, Alive
  <2>4. QED
    BY <1>16, <2>1, <2>2, <2>3, QuietClosed DEF RespawnFailed, SpawnFailed
<1>17. CASE GrowFailed
  <2>1. disposed => queue' = queue
    BY <1>17 DEF GrowFailed, SpawnFailed, RejectHead, Closed
  <2>2. \A s \in Slots : worker'[s] \in {worker[s], None} /\ current'[s] \in {current[s], None}
    BY <1>17 DEF GrowFailed, SpawnFailed, TypeOK
  <2>3. \A t \in Threads : phase'[t] \in {"boot", "live"} => phase[t] \in {"boot", "live"}
    BY <1>17 DEF GrowFailed, SpawnFailed, Terminated, Alive
  <2>4. QED
    BY <1>17, <2>1, <2>2, <2>3, QuietClosed DEF GrowFailed, SpawnFailed
<1>18. CASE ReadyTimeout
  BY <1>18, QuietClosed DEF ReadyTimeout
<1>19. ASSUME NEW t \in Threads, TerminateDoomed(t) PROVE Closed'
  BY <1>19, QuietClosed DEF TerminateDoomed, Terminated, TypeOK, Alive
<1>20. ASSUME NEW t \in Threads, OnReady(t) PROVE Closed'
  BY <1>20, QuietClosed DEF OnReady
<1>21. ASSUME NEW t \in Threads, OnProgress(t) PROVE Closed'
  BY <1>21, QuietClosed DEF OnProgress
<1>22. ASSUME NEW t \in Threads, OnReply(t) PROVE Closed'
  BY <1>22, QuietClosed DEF OnReply, TypeOK
<1>23. ASSUME NEW t \in Threads, OnStaleReply(t) PROVE Closed'
  BY <1>23, QuietClosed DEF OnStaleReply
<1>24. ASSUME NEW t \in Threads, OnError(t) PROVE Closed'
  BY <1>24, QuietClosed DEF OnError, LoseSlot, TypeOK
<1>25. ASSUME NEW t \in Threads, OnUnexpectedExit(t) PROVE Closed'
  BY <1>25, QuietClosed DEF OnUnexpectedExit, LoseSlot, ExitGuard, TypeOK
<1>26. ASSUME NEW t \in Threads, OnIgnoredExit(t) PROVE Closed'
  BY <1>26, QuietClosed DEF OnIgnoredExit, ExitGuard, TypeOK
<1>27. ASSUME NEW t \in Threads, TakeInit(t) PROVE Closed'
  BY <1>27, QuietClosed DEF TakeInit, TypeOK, Alive
<1>28. ASSUME NEW t \in Threads, TakeReconfigure(t) PROVE Closed'
  BY <1>28, QuietClosed DEF TakeReconfigure
<1>29. ASSUME NEW t \in Threads, TakeRequest(t) PROVE Closed'
  BY <1>29, QuietClosed DEF TakeRequest
<1>30. ASSUME NEW t \in Threads, TakeCancel(t) PROVE Closed'
  BY <1>30, QuietClosed DEF TakeCancel
<1>31. ASSUME NEW t \in Threads, TakeShutdown(t) PROVE Closed'
  BY <1>31, QuietClosed DEF TakeShutdown, TypeOK, Alive
<1>32. ASSUME NEW t \in Threads, Report(t) PROVE Closed'
  BY <1>32, QuietClosed DEF Report
<1>33. ASSUME NEW t \in Threads, Finish(t) PROVE Closed'
  BY <1>33, QuietClosed DEF Finish
<1>34. ASSUME NEW t \in Threads, Crash(t) PROVE Closed'
  BY <1>34, QuietClosed DEF Crash, TypeOK, Alive
<1>35. CASE UNCHANGED vars
  BY <1>35, QuietClosed DEF vars
<1> QED
  BY <1>1, <1>2, <1>3, <1>4, <1>5, <1>6, <1>7, <1>8, <1>9, <1>10, <1>11, <1>12, <1>13, <1>14,
     <1>15, <1>16, <1>17, <1>18, <1>19, <1>20, <1>21, <1>22, <1>23, <1>24, <1>25, <1>26,
     <1>27, <1>28, <1>29, <1>30, <1>31, <1>32, <1>33, <1>34, <1>35
     DEF Next, Callers, Drain, Timers, Listen, Handler, Finished

\* A step that leaves slots alone, and starts and ends no thread, keeps them held.
LEMMA QuietHeld ==
  ASSUME TypeOK, SlotShape, Held,
         UNCHANGED <<disposed, slotOf, worker, ready, failed, starting>>,
         \A s \in Slots : current'[s] \in {current[s], None},
         \A t \in Threads : phase'[t] \in {"boot", "live"} => phase[t] \in {"boot", "live"},
         \A t \in Threads : phase[t] \in {"live", "crashed", "stopped"} /\ ~Stale(t) /\ ready[slotOf[t]]
           => phase'[t] \in {"live", "crashed", "stopped"}
  PROVE  Held'
<1> SUFFICES ASSUME ~disposed' PROVE Held!2'
  BY DEF Held
<1>1. ~disposed
  OBVIOUS
<1>2. \A t \in Threads : Alive(t)' => ~Stale(t)'
  BY <1>1 DEF Held, Alive, Stale
<1>3. ASSUME NEW s \in Slots PROVE Held!2!2!(s)'
  <2>1. Held!2!2!(s)
    BY <1>1 DEF Held
  <2>2. ready'[s] => worker'[s] # None /\ phase'[worker'[s]] \in {"live", "crashed", "stopped"}
    <3>1. SUFFICES ASSUME ready[s] PROVE phase'[worker[s]] \in {"live", "crashed", "stopped"}
      BY <2>1
    <3>2. worker[s] # None /\ worker[s] \in Threads /\ slotOf[worker[s]] = s
      BY <2>1, <3>1 DEF TypeOK, SlotShape
    <3>3. ~Stale(worker[s])
      BY <3>2, NotNone DEF Stale
    <3>4. QED
      BY <2>1, <3>1, <3>2, <3>3
  <2>3. QED
    BY <2>1, <2>2
<1>4. QED
  BY <1>2, <1>3


\* A thread that ends while its slot listens leaves the slot without a thread.
LEMMA LostHeld ==
  ASSUME TypeOK, ThreadShape, SlotShape, Held, NEW t \in Threads, ~Stale(t), LoseSlot(slotOf[t]),
         phase' \in {[phase EXCEPT ![t] = "stopped"], [phase EXCEPT ![t] = "gone"]},
         UNCHANGED <<disposed, slotOf, starting>>
  PROVE  Held'
<1> SUFFICES ASSUME ~disposed PROVE Held!2'
  BY DEF Held
<1> DEFINE s == slotOf[t]
<1>1. s \in Slots /\ worker[s] = t
  BY LiveSlot
<1>2. \A u \in Slots : /\ worker'[u] = IF u = s THEN None ELSE worker[u]
                       /\ ready'[u] = IF u = s THEN FALSE ELSE ready[u]
                       /\ failed'[u] = IF u = s THEN TRUE ELSE failed[u]
                       /\ current'[u] = IF u = s THEN None ELSE current[u]
  BY <1>1 DEF LoseSlot, TypeOK
<1>3. \A u \in Threads : u # t => phase'[u] = phase[u]
  BY DEF TypeOK
<1>4. phase'[t] \notin {"boot", "live"}
  BY DEF TypeOK
<1>5. ASSUME NEW u \in Threads, Alive(u)' PROVE ~Stale(u)'
  <2>1. u # t /\ Alive(u)
    BY <1>3, <1>4, <1>5 DEF Alive
  <2>2. ~Stale(u)
    BY <2>1 DEF Held
  <2>3. slotOf[u] \in Slots /\ worker[slotOf[u]] = u /\ slotOf[u] # s
    BY <2>1, <2>2, <1>1, LiveSlot
  <2>4. QED
    BY <2>3, <1>2, NotNone DEF Stale
<1>6. ASSUME NEW u \in Slots PROVE Held!2!2!(u)'
  <2>1. Held!2!2!(u)
    BY DEF Held
  <2>2. CASE u = s
    BY <2>2, <1>2
  <2>3. CASE u # s
    <3>1. worker[u] # t
      BY <2>3, NotNone DEF SlotShape
    <3>2. worker[u] # None => phase'[worker[u]] = phase[worker[u]]
      BY <3>1, <1>3 DEF TypeOK
    <3>3. QED
      BY <2>1, <2>3, <3>2, <1>2
  <2>4. QED
    BY <2>2, <2>3
<1>7. QED
  BY <1>5, <1>6

\* drain() only starts a thread for a slot of its own or of a thread that it
\* has already given up.
LEMMA SpawnSlot ==
  ASSUME TypeOK, AwaitInv, ThreadShape, SlotShape, Closed, Held, DrainRespawn \/ DrainGrow
  PROVE  /\ ~disposed /\ starting = None
         /\ \E s \in Slots : Spawn(s) /\ worker[s] = None /\ current[s] = None
<1>1. ~disposed /\ starting = None
  BY DEF DrainRespawn, DrainGrow, Serving, Closed, AwaitInv
<1>2. CASE DrainRespawn
  <2>1. PICK s \in Slots : First(s, Dead) /\ Spawn(s)
    BY <1>2 DEF DrainRespawn
  <2>2. current[s] = None /\ ~ready[s]
    BY <2>1 DEF First, Dead
  <2>3. worker[s] = None
    BY <1>1, <2>2 DEF Held
  <2>4. QED
    BY <1>1, <2>1, <2>2, <2>3
<1>3. CASE DrainGrow
  <2>1. open + 1 \in Slots /\ Spawn(open + 1)
    BY <1>3 DEF TypeOK, DrainGrow
  <2>2. open + 1 > open
    BY DEF TypeOK
  <2>3. worker[open + 1] = None /\ current[open + 1] = None
    BY <2>1, <2>2 DEF SlotShape, AwaitInv, TypeOK
  <2>4. QED
    BY <1>1, <2>1, <2>3
<1>4. QED
  BY <1>2, <1>3

\* What the start of thread t for an empty slot does to slots and threads.
Started(s, t) ==
  /\ phase[t] = "unborn" /\ t # None
  /\ \A u \in Threads : phase'[u] = IF u = t THEN "boot" ELSE phase[u]
  /\ \A u \in Threads : slotOf'[u] = IF u = t THEN s ELSE slotOf[u]
  /\ \A u \in Slots : worker'[u] = IF u = s THEN t ELSE worker[u]
  /\ \A u \in Slots : ready'[u] = IF u = s THEN FALSE ELSE ready[u]
  /\ \A u \in Slots : failed'[u] = IF u = s THEN FALSE ELSE failed[u]
  /\ \A u \in Threads \ {t} : inbox'[u] = inbox[u]
  /\ inbox'[t] = <<[type |-> "init", config |-> config]>>
  /\ starting' = t /\ waitSlot' = s /\ pc' = "wait"
  /\ UNCHANGED <<queue, current, callerVars, envVars, outbox, workVars>>

\* drain() starts one thread for an empty slot.
LEMMA SpawnEffect ==
  ASSUME TypeOK, NEW s \in Slots, Spawn(s), worker[s] = None
  PROVE  \E t \in Threads : Started(s, t)
<1>1. PICK t \in Threads : Spawn(s)!(t)
  BY DEF Spawn
<1>2. t # None
  BY NotNone
<1>3. \A u \in Threads : ~(u \in {worker[s]} /\ Alive(u))
  BY NotNone
<1>4. \A u \in Threads : phase'[u] = IF u = t THEN "boot" ELSE phase[u]
  BY <1>1, <1>3 DEF TypeOK, Terminated
<1>5. \A u \in Threads : slotOf'[u] = IF u = t THEN s ELSE slotOf[u]
  BY <1>1 DEF TypeOK
<1>6. \A u \in Slots : /\ worker'[u] = IF u = s THEN t ELSE worker[u]
                       /\ ready'[u] = IF u = s THEN FALSE ELSE ready[u]
                       /\ failed'[u] = IF u = s THEN FALSE ELSE failed[u]
  BY <1>1 DEF TypeOK
<1>7. /\ \A u \in Threads \ {t} : inbox'[u] = inbox[u]
      /\ inbox'[t] = <<[type |-> "init", config |-> config]>>
  BY <1>1 DEF TypeOK
<1>8. /\ starting' = t /\ waitSlot' = s /\ pc' = "wait"
      /\ UNCHANGED <<queue, current, callerVars, envVars, outbox, workVars>>
  BY <1>1
<1>9. phase[t] = "unborn"
  BY <1>1
<1>10. QED
  BY <1>2, <1>4, <1>5, <1>6, <1>7, <1>8, <1>9 DEF Started

\* Starting a thread for an empty slot keeps slots and threads together.
LEMMA SpawnHeld ==
  ASSUME TypeOK, ThreadShape, SlotShape, Held, NEW s \in Slots, Spawn(s),
         worker[s] = None, current[s] = None, starting = None
  PROVE  Held'
<1> USE DEF Started
<1>1. PICK t \in Threads : Started(s, t)
  BY SpawnEffect
<1> SUFFICES ASSUME ~disposed PROVE Held!2'
  BY <1>1 DEF Started, Held, envVars
<1>2. ASSUME NEW u \in Threads, Alive(u)' PROVE ~Stale(u)'
  <2>1. CASE u = t
    BY <2>1, <1>1, NotNone DEF Stale
  <2>2. CASE u # t
    <3>1. ~Stale(u)
      BY <2>2, <1>1, <1>2 DEF Held, Alive
    <3>2. slotOf[u] \in Slots /\ worker[slotOf[u]] = u /\ slotOf[u] # s
      BY <3>1, LiveSlot, NotNone
    <3>3. QED
      BY <3>2, <2>2, <1>1, NotNone DEF Stale
  <2>3. QED
    BY <2>1, <2>2
<1>3. ASSUME NEW u \in Slots PROVE Held!2!2!(u)'
  <2>1. Held!2!2!(u)
    BY DEF Held
  <2>2. CASE u = s
    BY <2>2, <1>1, <2>1
  <2>3. CASE u # s
    <3>1. worker[u] # None => worker[u] \in Threads /\ phase[worker[u]] # "unborn"
      BY DEF SlotShape, TypeOK
    <3>2. worker[u] # None => phase'[worker[u]] = phase[worker[u]]
      BY <3>1, <1>1
    <3>3. worker'[u] = worker[u] /\ ready'[u] = ready[u] /\ failed'[u] = failed[u] /\ current'[u] = current[u]
      BY <2>3, <1>1
    <3>4. ~(worker[u] # None /\ starting = worker[u])
      BY DEF Held
    <3>5. QED
      BY <2>1, <3>2, <3>3, <3>4
  <2>4. QED
    BY <2>2, <2>3
<1>4. QED
  BY <1>2, <1>3

\* A message comes from a thread that its slot still knows.
LEMMA Speaker ==
  ASSUME TypeOK, ThreadShape, Silent, ~disposed, NEW t \in Threads, outbox[t] # <<>>
  PROVE  /\ ~Stale(t) /\ slotOf[t] \in Slots /\ worker[slotOf[t]] = t
         /\ phase[t] \in {"live", "crashed", "stopped"}
<1>1. ~Stale(t)
  BY DEF Silent
<1>2. slotOf[t] \in Slots /\ worker[slotOf[t]] = t
  BY <1>1, LiveSlot
<1>3. phase[t] \in {"live", "crashed", "stopped"}
  BY DEF ThreadShape, TypeOK, Phases
<1>4. QED
  BY <1>1, <1>2, <1>3

\* No punctual step parts a live thread from its slot.
LEMMA HeldStep ==
  TypeOK /\ AwaitInv /\ ThreadShape /\ SlotShape /\ Closed /\ Held /\ Silent /\
  AwaitEnds /\ [Next]_vars => Held'
<1> SUFFICES ASSUME TypeOK, AwaitInv, ThreadShape, SlotShape, Closed, Held, Silent,
                    AwaitEnds, [Next]_vars
             PROVE  Held'
  OBVIOUS
<1> USE DEF slotVars, drainVars, callerVars, hostVars, envVars, workVars, threadVars
<1>1. ASSUME NEW r \in Requests, RunCancelled(r) PROVE Held'
  BY <1>1, QuietHeld DEF RunCancelled
<1>2. ASSUME NEW r \in Requests, Run(r) PROVE Held'
  BY <1>2, QuietHeld DEF Run
<1>3. ASSUME NEW r \in Requests, CancelUnheard(r) PROVE Held'
  BY <1>3, QuietHeld DEF CancelUnheard
<1>4. ASSUME NEW r \in Requests, CancelQueued(r) PROVE Held'
  BY <1>4, QuietHeld DEF CancelQueued
<1>5. ASSUME NEW r \in Requests, CancelAssigned(r) PROVE Held'
  BY <1>5, QuietHeld DEF CancelAssigned
<1>6. CASE Reconfigure
  BY <1>6, QuietHeld DEF Reconfigure
<1>7. CASE Dispose
  BY <1>7 DEF Dispose, Held
<1>8. CASE DrainEmpty
  BY <1>8, QuietHeld DEF DrainEmpty
<1>9. CASE DrainDropCancelled
  BY <1>9, QuietHeld DEF DrainDropCancelled
<1>10. CASE DrainAssign
  <2>1. PICK s \in Slots : s \in IdleReady /\ current' = [current EXCEPT ![s] = Head(queue)]
    BY <1>10 DEF DrainAssign, First, Assign
  <2>2. ready[s] /\ \A u \in Slots : u # s => current'[u] = current[u]
    BY <2>1 DEF IdleReady, TypeOK
  <2>3. UNCHANGED <<disposed, slotOf, worker, ready, failed, starting, phase>>
    BY <1>10 DEF DrainAssign
  <2>4. QED
    BY <2>2, <2>3 DEF Held, Alive, Stale
<1>11. CASE DrainRespawn
  BY <1>11, SpawnSlot, SpawnHeld
<1>12. CASE DrainGrow
  BY <1>12, SpawnSlot, SpawnHeld
<1>13. CASE DrainAllBusy
  BY <1>13, QuietHeld DEF DrainAllBusy
<1>14. CASE ResumeEmpty
  <2>1. starting' = None /\ UNCHANGED <<disposed, slotOf, worker, ready, failed, current, phase>>
    BY <1>14 DEF ResumeEmpty
  <2>2. ~disposed => \A s \in Slots : worker[s] # None => ready[s]
    BY <1>14 DEF ResumeEmpty, Held, AwaitEnds, SlotShape
  <2>3. QED
    BY <2>1, <2>2, Zenon DEF Held, Alive, Stale
<1>15. CASE ResumeAssign
  <2>1. starting' = None /\ UNCHANGED <<disposed, slotOf, worker, ready, failed, phase>>
    BY <1>15 DEF ResumeAssign
  <2>2. ~disposed => \A s \in Slots : worker[s] # None => ready[s]
    BY <1>15 DEF ResumeAssign, Held, AwaitEnds, SlotShape
  <2>3. ~disposed => ready[waitSlot] /\ \A s \in Slots : s # waitSlot => current'[s] = current[s]
    BY <1>15 DEF ResumeAssign, Assign, AwaitEnds, TypeOK
  <2>4. QED
    BY <2>1, <2>2, <2>3, Zenon DEF Held, Alive, Stale
<1>16. CASE RespawnFailed
  <2> SUFFICES ASSUME ~disposed PROVE Held!2'
    BY <1>16 DEF Held, RespawnFailed, SpawnFailed
  <2>1. waitSlot \in Slots /\ starting \in Threads /\ slotOf[starting] = waitSlot
    BY <1>16, AwaitSlot, NotNone DEF RespawnFailed, SpawnFailed, AwaitInv, SlotShape, TypeOK
  <2>2. ~ready[waitSlot] /\ current[waitSlot] = None
    BY <1>16, <2>1 DEF RespawnFailed, SpawnFailed, AwaitEnds, AwaitInv
  <2>3. \A u \in Slots : worker'[u] = IF u = waitSlot THEN None ELSE worker[u]
    BY <1>16 DEF RespawnFailed, SpawnFailed, TypeOK
  <2>4. \A u \in Slots : u # waitSlot => /\ ready'[u] = ready[u] /\ failed'[u] = failed[u]
                                         /\ current'[u] = current[u]
    BY <1>16 DEF RespawnFailed, TypeOK
  <2>5. ~ready'[waitSlot] /\ current'[waitSlot] = None
    BY <1>16, <2>1, <2>2 DEF RespawnFailed, TypeOK
  <2>6. \A u \in Threads : phase'[u] = IF u = worker[waitSlot] /\ Alive(u) THEN "stopped" ELSE phase[u]
    BY <1>16 DEF RespawnFailed, SpawnFailed, Terminated
  <2>7. ASSUME NEW u \in Threads, Alive(u)' PROVE ~Stale(u)'
    <3>1. Alive(u) /\ u # worker[waitSlot]
      BY <2>6, <2>7 DEF Alive
    <3>2. slotOf[u] \in Slots /\ worker[slotOf[u]] = u
      BY <3>1, LiveSlot DEF Held
    <3>3. slotOf[u] # waitSlot /\ u # starting
      BY <3>1, <3>2, <2>1
    <3>4. slotOf'[u] = slotOf[u]
      BY <1>16, <3>3 DEF RespawnFailed, TypeOK
    <3>5. QED
      BY <3>2, <3>3, <3>4, <2>3, NotNone DEF Stale
  <2>8. ASSUME NEW u \in Slots PROVE Held!2!2!(u)'
    <3>1. Held!2!2!(u)
      BY DEF Held
    <3>2. CASE u = waitSlot
      BY <3>2, <2>3, <2>5
    <3>3. CASE u # waitSlot
      <4>1. worker[u] # None => slotOf[worker[u]] = u /\ worker[u] \in Threads
        BY DEF SlotShape, TypeOK
      <4>2. worker[u] # None => worker[u] # worker[waitSlot] /\ starting # worker[u]
        BY <4>1, <3>3, <2>1, NotNone DEF SlotShape
      <4>3. worker[u] # None => phase'[worker[u]] = phase[worker[u]]
        BY <4>1, <4>2, <2>6
      <4>4. QED
        BY <3>1, <3>3, <4>2, <4>3, <2>3, <2>4
    <3>4. QED
      BY <3>2, <3>3
  <2>9. QED
    BY <2>7, <2>8
<1>17. CASE GrowFailed
  <2> SUFFICES ASSUME ~disposed PROVE Held!2'
    BY <1>17 DEF Held, GrowFailed, SpawnFailed
  <2>1. waitSlot \in Slots /\ starting \in Threads /\ slotOf[starting] = waitSlot
    BY <1>17, AwaitSlot, NotNone DEF GrowFailed, SpawnFailed, AwaitInv, SlotShape, TypeOK
  <2>2. ~ready[waitSlot] /\ current[waitSlot] = None
    BY <1>17, <2>1 DEF GrowFailed, SpawnFailed, AwaitEnds, AwaitInv
  <2>3. \A u \in Slots : worker'[u] = IF u = waitSlot THEN None ELSE worker[u]
    BY <1>17 DEF GrowFailed, SpawnFailed, TypeOK
  <2>4. \A u \in Slots : u # waitSlot => /\ ready'[u] = ready[u] /\ failed'[u] = failed[u]
                                         /\ current'[u] = current[u]
    BY <1>17 DEF GrowFailed, TypeOK
  <2>5. ~ready'[waitSlot] /\ current'[waitSlot] = None
    BY <1>17, <2>1, <2>2 DEF GrowFailed, TypeOK
  <2>6. \A u \in Threads : phase'[u] = IF u = worker[waitSlot] /\ Alive(u) THEN "stopped" ELSE phase[u]
    BY <1>17 DEF GrowFailed, SpawnFailed, Terminated
  <2>7. ASSUME NEW u \in Threads, Alive(u)' PROVE ~Stale(u)'
    <3>1. Alive(u) /\ u # worker[waitSlot]
      BY <2>6, <2>7 DEF Alive
    <3>2. slotOf[u] \in Slots /\ worker[slotOf[u]] = u
      BY <3>1, LiveSlot DEF Held
    <3>3. slotOf[u] # waitSlot /\ u # starting
      BY <3>1, <3>2, <2>1
    <3>4. slotOf'[u] = slotOf[u]
      BY <1>17, <3>3 DEF GrowFailed, TypeOK
    <3>5. QED
      BY <3>2, <3>3, <3>4, <2>3, NotNone DEF Stale
  <2>8. ASSUME NEW u \in Slots PROVE Held!2!2!(u)'
    <3>1. Held!2!2!(u)
      BY DEF Held
    <3>2. CASE u = waitSlot
      BY <3>2, <2>3, <2>5
    <3>3. CASE u # waitSlot
      <4>1. worker[u] # None => slotOf[worker[u]] = u /\ worker[u] \in Threads
        BY DEF SlotShape, TypeOK
      <4>2. worker[u] # None => worker[u] # worker[waitSlot] /\ starting # worker[u]
        BY <4>1, <3>3, <2>1, NotNone DEF SlotShape
      <4>3. worker[u] # None => phase'[worker[u]] = phase[worker[u]]
        BY <4>1, <4>2, <2>6
      <4>4. QED
        BY <3>1, <3>3, <4>2, <4>3, <2>3, <2>4
    <3>4. QED
      BY <3>2, <3>3
  <2>9. QED
    BY <2>7, <2>8
<1>18. CASE ReadyTimeout
  BY <1>18, QuietHeld DEF ReadyTimeout
<1>19. ASSUME NEW t \in Threads, TerminateDoomed(t) PROVE Held'
  BY <1>19, QuietHeld DEF TerminateDoomed, Terminated, TypeOK, Alive
<1>20. ASSUME NEW t \in Threads, OnReady(t) PROVE Held'
  <2> SUFFICES ASSUME ~disposed PROVE Held!2'
    BY <1>20 DEF Held, OnReady
  <2>1. slotOf[t] \in Slots /\ worker[slotOf[t]] = t /\ phase[t] \in {"live", "crashed", "stopped"}
    BY <1>20, ReceiveFacts, Speaker DEF OnReady
  <2>2. \A u \in Slots : ready'[u] = IF u = slotOf[t] THEN TRUE ELSE ready[u]
    BY <1>20 DEF OnReady
  <2>3. UNCHANGED <<worker, failed, current, slotOf, phase, starting>>
    BY <1>20 DEF OnReady
  <2>4. \A u \in Threads : Alive(u)' => ~Stale(u)'
    BY <2>3 DEF Held, Alive, Stale
  <2>5. \A u \in Slots : Held!2!2!(u)'
    BY <2>1, <2>2, <2>3, NotNone DEF Held
  <2>6. QED
    BY <2>4, <2>5
<1>21. ASSUME NEW t \in Threads, OnProgress(t) PROVE Held'
  BY <1>21, QuietHeld DEF OnProgress
<1>22. ASSUME NEW t \in Threads, OnReply(t) PROVE Held'
  BY <1>22, QuietHeld DEF OnReply, TypeOK
<1>23. ASSUME NEW t \in Threads, OnStaleReply(t) PROVE Held'
  BY <1>23, QuietHeld DEF OnStaleReply
<1>24. ASSUME NEW t \in Threads, OnError(t) PROVE Held'
  <2>1. CASE disposed
    BY <1>24, <2>1 DEF OnError, Held
  <2>2. CASE ~disposed
    <3>1. ~Stale(t)
      BY <1>24, <2>2 DEF OnError, Silent
    <3>2. LoseSlot(slotOf[t])
      BY <1>24, <3>1 DEF OnError, Stale
    <3>3. QED
      BY <1>24, <3>1, <3>2, LostHeld DEF OnError
  <2>3. QED
    BY <2>1, <2>2
<1>25. ASSUME NEW t \in Threads, OnUnexpectedExit(t) PROVE Held'
  <2>1. CASE disposed
    BY <1>25, <2>1 DEF OnUnexpectedExit, ExitGuard, Held
  <2>2. CASE ~disposed
    <3>1. slotOf[t] \in Slots /\ slotOf[t] # None /\ ready[slotOf[t]] /\ phase[t] = "stopped"
      BY <1>25 DEF OnUnexpectedExit, ExitConcerns, ExitGuard, TypeOK
    <3>2. ~Stale(t)
      BY <2>2, <3>1 DEF Silent, Held
    <3>3. QED
      BY <1>25, <3>2, LostHeld DEF OnUnexpectedExit, ExitGuard
  <2>3. QED
    BY <2>1, <2>2
<1>26. ASSUME NEW t \in Threads, OnIgnoredExit(t) PROVE Held'
  <2>1. CASE disposed
    BY <1>26, <2>1 DEF OnIgnoredExit, ExitGuard, Held
  <2>2. CASE ~disposed
    <3>1. ~(~Stale(t) /\ ready[slotOf[t]])
      <4>1. SUFFICES ASSUME ~Stale(t), ready[slotOf[t]] PROVE FALSE
        OBVIOUS
      <4>2. slotOf[t] \in Slots /\ worker[slotOf[t]] = t
        BY <4>1, LiveSlot
      <4>3. ~failed[slotOf[t]]
        BY <2>2, <4>1, <4>2, NotNone DEF Held
      <4>4. QED
        BY <1>26, <4>1, <4>2, <4>3, NotNone DEF OnIgnoredExit, ExitConcerns
    <3>2. QED
      BY <1>26, <3>1, QuietHeld DEF OnIgnoredExit, ExitGuard, TypeOK
  <2>3. QED
    BY <2>1, <2>2
<1>27. ASSUME NEW t \in Threads, TakeInit(t) PROVE Held'
  BY <1>27, QuietHeld DEF TakeInit, TypeOK, Take, Alive
<1>28. ASSUME NEW t \in Threads, TakeReconfigure(t) PROVE Held'
  BY <1>28, QuietHeld DEF TakeReconfigure
<1>29. ASSUME NEW t \in Threads, TakeRequest(t) PROVE Held'
  BY <1>29, QuietHeld DEF TakeRequest
<1>30. ASSUME NEW t \in Threads, TakeCancel(t) PROVE Held'
  BY <1>30, QuietHeld DEF TakeCancel
<1>31. ASSUME NEW t \in Threads, TakeShutdown(t) PROVE Held'
  BY <1>31, QuietHeld DEF TakeShutdown, TypeOK, Take, Alive
<1>32. ASSUME NEW t \in Threads, Report(t) PROVE Held'
  BY <1>32, QuietHeld DEF Report
<1>33. ASSUME NEW t \in Threads, Finish(t) PROVE Held'
  BY <1>33, QuietHeld DEF Finish
<1>34. ASSUME NEW t \in Threads, Crash(t) PROVE Held'
  BY <1>34, QuietHeld DEF Crash, TypeOK, Take, Alive
<1>35. CASE UNCHANGED vars
  BY <1>35, QuietHeld DEF vars
<1> QED
  BY <1>1, <1>2, <1>3, <1>4, <1>5, <1>6, <1>7, <1>8, <1>9, <1>10, <1>11, <1>12, <1>13, <1>14,
     <1>15, <1>16, <1>17, <1>18, <1>19, <1>20, <1>21, <1>22, <1>23, <1>24, <1>25, <1>26,
     <1>27, <1>28, <1>29, <1>30, <1>31, <1>32, <1>33, <1>34, <1>35
     DEF Next, Callers, Drain, Timers, Listen, Handler, Finished

-----------------------------------------------------------------------------
(* Threads that have lost their slot                                       *)

\* While the slots stand, threads whose slot knows them may do as they like,
\* except come up or speak before their predecessors are gone.
LEMMA QuietSilent ==
  ASSUME TypeOK, SlotShape, Silent, UNCHANGED <<disposed, slotOf, worker, ready>>,
         \A t \in Threads : Stale(t) => outbox'[t] = outbox[t] /\ phase'[t] \in {phase[t], "gone"},
         \A t \in Threads : ~Stale(t) /\ ~ready[slotOf[t]] /\ outbox[t] = <<>> /\ phase[t] # "live"
           /\ (\E u \in Threads \ {t} : slotOf[u] = slotOf[t] /\ phase[u] # "gone")
             => outbox'[t] = <<>> /\ phase'[t] # "live"
  PROVE  Silent'
<1> SUFFICES ASSUME ~disposed, NEW t \in Threads, Stale(t)' PROVE Silent!2!(t)!2'
  BY DEF Silent
<1>1. Stale(t) /\ Silent!2!(t)!2
  BY DEF Silent, Stale
<1>2. outbox'[t] = <<>> /\ phase'[t] \in {"unborn", "stopped", "gone"}
  BY <1>1
<1>3. ASSUME phase'[t] = "stopped", slotOf[t] # None, worker[slotOf[t]] # None
      PROVE  ~ready[slotOf[t]] /\ outbox'[worker[slotOf[t]]] = <<>> /\ phase'[worker[slotOf[t]]] # "live"
  <2>1. phase[t] = "stopped"
    BY <1>1, <1>3
  <2>2. slotOf[t] \in Slots /\ worker[slotOf[t]] \in Threads /\ worker[slotOf[t]] # t
    BY <1>1, <1>3 DEF TypeOK, Stale
  <2>3. slotOf[worker[slotOf[t]]] = slotOf[t]
    BY <1>3, <2>2 DEF SlotShape
  <2>4. ~Stale(worker[slotOf[t]])
    BY <1>3, <2>3 DEF Stale
  <2>5. ~ready[slotOf[t]] /\ outbox[worker[slotOf[t]]] = <<>> /\ phase[worker[slotOf[t]]] # "live"
    BY <1>1, <1>3, <2>1
  <2>6. QED
    BY <1>1, <1>3, <2>1, <2>2, <2>3, <2>4, <2>5
<1>4. QED
  BY <1>2, <1>3

\* A thread that has said everything may lose its slot.
LEMMA LostSilent ==
  ASSUME TypeOK, ThreadShape, SlotShape, Silent, NEW t \in Threads, ~Stale(t), LoseSlot(slotOf[t]),
         outbox[t] = <<>>, UNCHANGED <<disposed, slotOf, outbox>>,
         phase' \in {[phase EXCEPT ![t] = "stopped"], [phase EXCEPT ![t] = "gone"]}
  PROVE  Silent'
<1> SUFFICES ASSUME ~disposed, NEW u \in Threads, Stale(u)' PROVE Silent!2!(u)!2'
  BY DEF Silent
<1> DEFINE s == slotOf[t]
<1>1. s \in Slots /\ worker[s] = t
  BY LiveSlot
<1>2. \A v \in Slots : /\ worker'[v] = IF v = s THEN None ELSE worker[v]
                       /\ ready'[v] = IF v = s THEN FALSE ELSE ready[v]
  BY <1>1 DEF LoseSlot, TypeOK
<1>3. phase'[t] \in {"stopped", "gone"} /\ \A v \in Threads : v # t => phase'[v] = phase[v]
  BY DEF TypeOK
<1>4. CASE u = t
  BY <1>1, <1>2, <1>3, <1>4
<1>5. CASE u # t
  <2>1. Stale(u)
    <3>1. SUFFICES ASSUME slotOf[u] # None, worker[slotOf[u]] = u PROVE FALSE
      BY DEF Stale
    <3>2. slotOf[u] \in Slots /\ slotOf[u] # s
      BY <3>1, <1>1, <1>5 DEF TypeOK
    <3>3. QED
      BY <3>1, <3>2, <1>2 DEF Stale
  <2>2. Silent!2!(u)!2
    BY <2>1 DEF Silent
  <2>3. CASE slotOf[u] = s \/ slotOf[u] = None
    BY <2>2, <2>3, <1>1, <1>2, <1>3, <1>5
  <2>4. CASE slotOf[u] # s /\ slotOf[u] # None
    <3>1. slotOf[u] \in Slots /\ (worker[slotOf[u]] # None => worker[slotOf[u]] \in Threads)
      BY <2>4 DEF TypeOK
    <3>2. worker[slotOf[u]] # t
      BY <2>4, <3>1, NotNone DEF SlotShape
    <3>3. worker'[slotOf[u]] = worker[slotOf[u]] /\ ready'[slotOf[u]] = ready[slotOf[u]]
      BY <2>4, <3>1, <1>2
    <3>4. QED
      BY <2>2, <3>1, <3>2, <3>3, <1>3, <1>5
  <2>5. QED
    BY <2>3, <2>4
<1>6. QED
  BY <1>4, <1>5

\* A new thread is no successor of one that is up.
LEMMA SpawnSilent ==
  ASSUME TypeOK, ThreadShape, SlotShape, Silent, NEW s \in Slots, Spawn(s), worker[s] = None
  PROVE  Silent'
<1>1. PICK t \in Threads : Started(s, t)
  BY SpawnEffect
<1> SUFFICES ASSUME ~disposed, NEW u \in Threads, Stale(u)' PROVE Silent!2!(u)!2'
  BY <1>1 DEF Silent, Started, envVars
<1>2. /\ phase[t] = "unborn" /\ t # None
      /\ \A v \in Threads : phase'[v] = IF v = t THEN "boot" ELSE phase[v]
      /\ \A v \in Threads : slotOf'[v] = IF v = t THEN s ELSE slotOf[v]
      /\ \A v \in Slots : worker'[v] = IF v = s THEN t ELSE worker[v]
      /\ \A v \in Slots : ready'[v] = IF v = s THEN FALSE ELSE ready[v]
      /\ outbox' = outbox
  BY <1>1 DEF Started
<1>3. u # t
  BY <1>2 DEF Stale
<1>4. Stale(u)
  <2>1. SUFFICES ASSUME slotOf[u] # None, worker[slotOf[u]] = u PROVE FALSE
    BY DEF Stale
  <2>2. slotOf[u] \in Slots /\ slotOf[u] # s
    BY <2>1, NotNone DEF TypeOK
  <2>3. QED
    BY <2>1, <2>2, <1>2, <1>3 DEF Stale
<1>5. Silent!2!(u)!2
  BY <1>4 DEF Silent
<1>6. CASE slotOf[u] = s
  BY <1>2, <1>3, <1>5, <1>6 DEF ThreadShape
<1>7. CASE slotOf[u] = None
  BY <1>2, <1>3, <1>5, <1>7
<1>8. CASE slotOf[u] # s /\ slotOf[u] # None
  <2>1. slotOf[u] \in Slots
    BY <1>8 DEF TypeOK
  <2>2. worker[slotOf[u]] # None => worker[slotOf[u]] \in Threads /\ worker[slotOf[u]] # t
    BY <2>1, <1>2 DEF TypeOK, SlotShape
  <2>3. slotOf'[u] = slotOf[u] /\ phase'[u] = phase[u] /\ outbox' = outbox
    BY <1>2, <1>3
  <2>4. worker'[slotOf[u]] = worker[slotOf[u]] /\ ready'[slotOf[u]] = ready[slotOf[u]]
    BY <1>2, <1>8, <2>1
  <2>5. worker[slotOf[u]] # None => phase'[worker[slotOf[u]]] = phase[worker[slotOf[u]]]
    BY <1>2, <2>2
  <2>6. QED
    BY <1>5, <2>3, <2>4, <2>5
<1>9. QED
  BY <1>6, <1>7, <1>8

\* In a punctual host a thread that has lost its slot has nothing left to say.
LEMMA SilentStep ==
  Punctual /\ TypeOK /\ AwaitInv /\ ThreadShape /\ SlotShape /\ Closed /\ Held /\
  Silent /\ AwaitEnds /\ [Next]_vars => Silent'
<1> SUFFICES ASSUME Punctual, TypeOK, AwaitInv, ThreadShape, SlotShape, Closed, Held,
                    Silent, AwaitEnds, [Next]_vars
             PROVE  Silent'
  OBVIOUS
<1> USE DEF slotVars, drainVars, callerVars, hostVars, envVars, workVars, threadVars
<1>1. ASSUME NEW r \in Requests, RunCancelled(r) PROVE Silent'
  BY <1>1, QuietSilent DEF RunCancelled
<1>2. ASSUME NEW r \in Requests, Run(r) PROVE Silent'
  BY <1>2, QuietSilent DEF Run
<1>3. ASSUME NEW r \in Requests, CancelUnheard(r) PROVE Silent'
  BY <1>3, QuietSilent DEF CancelUnheard
<1>4. ASSUME NEW r \in Requests, CancelQueued(r) PROVE Silent'
  BY <1>4, QuietSilent DEF CancelQueued
<1>5. ASSUME NEW r \in Requests, CancelAssigned(r) PROVE Silent'
  BY <1>5, QuietSilent DEF CancelAssigned
<1>6. CASE Reconfigure
  BY <1>6, QuietSilent DEF Reconfigure
<1>7. CASE Dispose
  BY <1>7 DEF Dispose, Silent
<1>8. CASE DrainEmpty
  BY <1>8, QuietSilent DEF DrainEmpty
<1>9. CASE DrainDropCancelled
  BY <1>9, QuietSilent DEF DrainDropCancelled
<1>10. CASE DrainAssign
  BY <1>10, QuietSilent DEF DrainAssign
<1>11. CASE DrainRespawn
  BY <1>11, SpawnSlot, SpawnSilent
<1>12. CASE DrainGrow
  BY <1>12, SpawnSlot, SpawnSilent
<1>13. CASE DrainAllBusy
  BY <1>13, QuietSilent DEF DrainAllBusy
<1>14. CASE ResumeEmpty
  BY <1>14, QuietSilent DEF ResumeEmpty
<1>15. CASE ResumeAssign
  BY <1>15, QuietSilent DEF ResumeAssign
<1>16. CASE RespawnFailed
  <2> SUFFICES ASSUME ~disposed, NEW u \in Threads, Stale(u)' PROVE Silent!2!(u)!2'
    BY <1>16 DEF Silent, RespawnFailed, SpawnFailed
  <2>1. waitSlot \in Slots /\ starting \in Threads /\ slotOf[starting] = waitSlot
    BY <1>16, AwaitSlot, NotNone DEF RespawnFailed, SpawnFailed, AwaitInv, SlotShape, TypeOK
  <2>2. worker[waitSlot] = starting \/ worker[waitSlot] = None
    BY <1>16, <2>1, NotNone DEF SlotShape
  <2>3. \A v \in Slots : worker'[v] = IF v = waitSlot THEN None ELSE worker[v]
    BY <1>16 DEF RespawnFailed, SpawnFailed, TypeOK
  <2>4. \A v \in Slots : v # waitSlot => ready'[v] = ready[v]
    BY <1>16 DEF RespawnFailed, TypeOK
  <2>5. \A v \in Threads : phase'[v] = IF v = worker[waitSlot] /\ Alive(v) THEN "stopped" ELSE phase[v]
    BY <1>16 DEF RespawnFailed, SpawnFailed, Terminated
  <2>6. outbox' = outbox
    BY <1>16 DEF RespawnFailed, SpawnFailed
  <2>7. CASE u = worker[waitSlot]
    <3>1. u = starting /\ outbox[starting] = <<>> /\ phase[starting] \in {"boot", "stopped", "gone"}
      BY <1>16, <2>2, <2>7, NotNone DEF AwaitEnds, RespawnFailed, SpawnFailed
    <3>2. phase'[u] \in {"stopped", "gone"}
      BY <3>1, <2>5, <2>7 DEF Alive
    <3>3. slotOf'[u] \in {waitSlot, None}
      BY <1>16, <3>1, <2>1 DEF RespawnFailed, TypeOK
    <3>4. QED
      BY <3>1, <3>2, <3>3, <2>1, <2>3, <2>6
  <2>8. CASE u # worker[waitSlot]
    <3>1. slotOf'[u] = slotOf[u] \/ slotOf'[u] = None
      BY <1>16 DEF RespawnFailed, TypeOK
    <3>2. Stale(u)
      <4>1. SUFFICES ASSUME slotOf[u] # None, worker[slotOf[u]] = u PROVE FALSE
        BY DEF Stale
      <4>2. slotOf[u] \in Slots /\ slotOf[u] # waitSlot /\ u # starting
        BY <4>1, <2>1, <2>8 DEF TypeOK
      <4>3. slotOf'[u] = slotOf[u]
        BY <1>16, <4>2 DEF RespawnFailed, TypeOK
      <4>4. QED
        BY <4>1, <4>2, <4>3, <2>3 DEF Stale
    <3>3. Silent!2!(u)!2
      BY <3>2 DEF Silent
    <3>4. phase'[u] = phase[u]
      BY <2>5, <2>8
    <3>5. CASE slotOf'[u] = None
      BY <3>3, <3>4, <3>5, <2>6
    <3>6. CASE slotOf'[u] = waitSlot
      BY <3>3, <3>4, <3>6, <2>1, <2>3, <2>6
    <3>7. CASE slotOf'[u] # None /\ slotOf'[u] # waitSlot
      <4>1. slotOf'[u] = slotOf[u] /\ slotOf[u] \in Slots
        BY <3>1, <3>7 DEF TypeOK
      <4>2. worker[slotOf[u]] # None => worker[slotOf[u]] \in Threads /\ worker[slotOf[u]] # worker[waitSlot]
        BY <4>1, <3>7, <2>1 DEF TypeOK, SlotShape
      <4>3. worker[slotOf[u]] # None => phase'[worker[slotOf[u]]] = phase[worker[slotOf[u]]]
        BY <4>2, <2>5
      <4>4. QED
        BY <3>3, <3>4, <3>7, <4>1, <4>3, <2>3, <2>4, <2>6
    <3>8. QED
      BY <3>5, <3>6, <3>7
  <2>9. QED
    BY <2>7, <2>8
<1>17. CASE GrowFailed
  <2> SUFFICES ASSUME ~disposed, NEW u \in Threads, Stale(u)' PROVE Silent!2!(u)!2'
    BY <1>17 DEF Silent, GrowFailed, SpawnFailed
  <2>1. waitSlot \in Slots /\ starting \in Threads /\ slotOf[starting] = waitSlot
    BY <1>17, AwaitSlot, NotNone DEF GrowFailed, SpawnFailed, AwaitInv, SlotShape, TypeOK
  <2>2. worker[waitSlot] = starting \/ worker[waitSlot] = None
    BY <1>17, <2>1, NotNone DEF SlotShape
  <2>3. \A v \in Slots : worker'[v] = IF v = waitSlot THEN None ELSE worker[v]
    BY <1>17 DEF GrowFailed, SpawnFailed, TypeOK
  <2>4. \A v \in Slots : v # waitSlot => ready'[v] = ready[v]
    BY <1>17 DEF GrowFailed, TypeOK
  <2>5. \A v \in Threads : phase'[v] = IF v = worker[waitSlot] /\ Alive(v) THEN "stopped" ELSE phase[v]
    BY <1>17 DEF GrowFailed, SpawnFailed, Terminated
  <2>6. outbox' = outbox
    BY <1>17 DEF GrowFailed, SpawnFailed
  <2>7. CASE u = worker[waitSlot]
    <3>1. u = starting /\ outbox[starting] = <<>> /\ phase[starting] \in {"boot", "stopped", "gone"}
      BY <1>17, <2>2, <2>7, NotNone DEF AwaitEnds, GrowFailed, SpawnFailed
    <3>2. phase'[u] \in {"stopped", "gone"}
      BY <3>1, <2>5, <2>7 DEF Alive
    <3>3. slotOf'[u] \in {waitSlot, None}
      BY <1>17, <3>1, <2>1 DEF GrowFailed, TypeOK
    <3>4. QED
      BY <3>1, <3>2, <3>3, <2>1, <2>3, <2>6
  <2>8. CASE u # worker[waitSlot]
    <3>1. slotOf'[u] = slotOf[u] \/ slotOf'[u] = None
      BY <1>17 DEF GrowFailed, TypeOK
    <3>2. Stale(u)
      <4>1. SUFFICES ASSUME slotOf[u] # None, worker[slotOf[u]] = u PROVE FALSE
        BY DEF Stale
      <4>2. slotOf[u] \in Slots /\ slotOf[u] # waitSlot /\ u # starting
        BY <4>1, <2>1, <2>8 DEF TypeOK
      <4>3. slotOf'[u] = slotOf[u]
        BY <1>17, <4>2 DEF GrowFailed, TypeOK
      <4>4. QED
        BY <4>1, <4>2, <4>3, <2>3 DEF Stale
    <3>3. Silent!2!(u)!2
      BY <3>2 DEF Silent
    <3>4. phase'[u] = phase[u]
      BY <2>5, <2>8
    <3>5. CASE slotOf'[u] = None
      BY <3>3, <3>4, <3>5, <2>6
    <3>6. CASE slotOf'[u] = waitSlot
      BY <3>3, <3>4, <3>6, <2>1, <2>3, <2>6
    <3>7. CASE slotOf'[u] # None /\ slotOf'[u] # waitSlot
      <4>1. slotOf'[u] = slotOf[u] /\ slotOf[u] \in Slots
        BY <3>1, <3>7 DEF TypeOK
      <4>2. worker[slotOf[u]] # None => worker[slotOf[u]] \in Threads /\ worker[slotOf[u]] # worker[waitSlot]
        BY <4>1, <3>7, <2>1 DEF TypeOK, SlotShape
      <4>3. worker[slotOf[u]] # None => phase'[worker[slotOf[u]]] = phase[worker[slotOf[u]]]
        BY <4>2, <2>5
      <4>4. QED
        BY <3>3, <3>4, <3>7, <4>1, <4>3, <2>3, <2>4, <2>6
    <3>8. QED
      BY <3>5, <3>6, <3>7
  <2>9. QED
    BY <2>7, <2>8
<1>18. CASE ReadyTimeout
  BY <1>18, QuietSilent DEF ReadyTimeout
<1>19. ASSUME NEW t \in Threads, TerminateDoomed(t) PROVE Silent'
  <2>1. CASE disposed
    BY <1>19, <2>1 DEF TerminateDoomed, Silent
  <2>2. CASE ~disposed
    <3>1. ~Stale(t)
      BY <1>19, <2>2 DEF TerminateDoomed, Take, Silent, Alive
    <3>2. phase'[t] # "live" /\ \A u \in Threads \ {t} : phase'[u] = phase[u]
      BY <1>19 DEF TerminateDoomed, Terminated, TypeOK, Alive
    <3>3. QED
      BY <1>19, <3>1, <3>2, QuietSilent DEF TerminateDoomed
  <2>3. QED
    BY <2>1, <2>2
<1>20. ASSUME NEW t \in Threads, OnReady(t) PROVE Silent'
  <2> SUFFICES ASSUME ~disposed, NEW u \in Threads, Stale(u)' PROVE Silent!2!(u)!2'
    BY <1>20 DEF Silent, OnReady
  <2>1. slotOf[t] \in Slots /\ worker[slotOf[t]] = t /\ ~Stale(t) /\ outbox[t] # <<>>
    BY <1>20, ReceiveFacts, Speaker DEF OnReady
  <2>2. \A v \in Slots : v # slotOf[t] => ready'[v] = ready[v]
    BY <1>20 DEF OnReady
  <2>3. UNCHANGED <<worker, slotOf, phase>> /\ \A v \in Threads \ {t} : outbox'[v] = outbox[v]
    BY <1>20, ReceiveFacts DEF OnReady
  <2>4. Stale(u) /\ u # t
    BY <2>1, <2>3 DEF Stale
  <2>5. Silent!2!(u)!2
    BY <2>4 DEF Silent
  <2>6. ASSUME phase[u] = "stopped", slotOf[u] # None PROVE slotOf[u] # slotOf[t]
    BY <2>1, <2>5, <2>6, NotNone
  <2>7. ASSUME slotOf[u] # None, slotOf[u] # slotOf[t]
        PROVE  slotOf[u] \in Slots /\ worker[slotOf[u]] # t
    BY <2>7, NotNone DEF TypeOK, SlotShape
  <2>8. ASSUME slotOf[u] # None, worker[slotOf[u]] # None PROVE worker[slotOf[u]] \in Threads
    BY <2>8 DEF TypeOK
  <2>9. QED
    BY <2>2, <2>3, <2>4, <2>5, <2>6, <2>7, <2>8
<1>21. ASSUME NEW t \in Threads, OnProgress(t) PROVE Silent'
  <2>1. CASE disposed
    BY <1>21, <2>1 DEF OnProgress, Silent
  <2>2. CASE ~disposed
    <3>1. ~Stale(t) /\ outbox[t] # <<>> /\ \A v \in Threads \ {t} : outbox'[v] = outbox[v]
      BY <1>21, <2>2, ReceiveFacts, Speaker DEF OnProgress
    <3>2. QED
      BY <1>21, <3>1, QuietSilent DEF OnProgress
  <2>3. QED
    BY <2>1, <2>2
<1>22. ASSUME NEW t \in Threads, OnReply(t) PROVE Silent'
  <2>1. CASE disposed
    BY <1>22, <2>1 DEF OnReply, Silent
  <2>2. CASE ~disposed
    <3>1. ~Stale(t) /\ outbox[t] # <<>> /\ \A v \in Threads \ {t} : outbox'[v] = outbox[v]
      BY <1>22, <2>2, ReceiveFacts, Speaker DEF OnReply
    <3>2. QED
      BY <1>22, <3>1, QuietSilent DEF OnReply
  <2>3. QED
    BY <2>1, <2>2
<1>23. ASSUME NEW t \in Threads, OnStaleReply(t) PROVE Silent'
  <2>1. CASE disposed
    BY <1>23, <2>1 DEF OnStaleReply, Silent
  <2>2. CASE ~disposed
    <3>1. ~Stale(t) /\ outbox[t] # <<>> /\ \A v \in Threads \ {t} : outbox'[v] = outbox[v]
      BY <1>23, <2>2, ReceiveFacts, Speaker DEF OnStaleReply
    <3>2. QED
      BY <1>23, <3>1, QuietSilent DEF OnStaleReply
  <2>3. QED
    BY <2>1, <2>2
<1>24. ASSUME NEW t \in Threads, OnError(t) PROVE Silent'
  <2>1. CASE disposed
    BY <1>24, <2>1 DEF OnError, Silent
  <2>2. CASE ~disposed
    <3>1. ~Stale(t) /\ outbox[t] = <<>>
      BY <1>24, <2>2 DEF OnError, Silent
    <3>2. LoseSlot(slotOf[t])
      BY <1>24, <3>1 DEF OnError, Stale
    <3>3. QED
      BY <1>24, <3>1, <3>2, LostSilent DEF OnError
  <2>3. QED
    BY <2>1, <2>2
<1>25. ASSUME NEW t \in Threads, OnUnexpectedExit(t) PROVE Silent'
  <2>1. CASE disposed
    BY <1>25, <2>1 DEF OnUnexpectedExit, ExitGuard, Silent
  <2>2. CASE ~disposed
    <3>1. slotOf[t] \in Slots /\ slotOf[t] # None /\ ready[slotOf[t]] /\ phase[t] = "stopped"
      BY <1>25 DEF OnUnexpectedExit, ExitConcerns, ExitGuard, TypeOK
    <3>2. ~Stale(t)
      BY <2>2, <3>1 DEF Silent, Held
    <3>3. QED
      BY <1>25, <3>2, LostSilent DEF OnUnexpectedExit, ExitGuard
  <2>3. QED
    BY <2>1, <2>2
<1>26. ASSUME NEW t \in Threads, OnIgnoredExit(t) PROVE Silent'
  <2>1. \A u \in Threads : phase'[u] \in {phase[u], "gone"}
    BY <1>26 DEF OnIgnoredExit, ExitGuard, TypeOK
  <2>2. QED
    BY <1>26, <2>1, QuietSilent DEF OnIgnoredExit
<1>27. ASSUME NEW t \in Threads, TakeInit(t) PROVE Silent'
  <2>1. CASE disposed
    BY <1>27, <2>1 DEF TakeInit, Silent
  <2>2. CASE ~disposed
    <3>1. ~Stale(t) /\ slotOf[t] # None
      BY <1>27, <2>2 DEF TakeInit, Silent, Stale
    <3>2. \A u \in Threads \ {t} : slotOf[u] = slotOf[t] => phase[u] = "gone"
      BY <1>27, <3>1 DEF TakeInit, PredecessorsGone
    <3>3. \A u \in Threads \ {t} : phase'[u] = phase[u] /\ outbox'[u] = outbox[u]
      BY <1>27 DEF TakeInit, Reply, TypeOK
    <3>4. QED
      BY <1>27, <3>1, <3>2, <3>3, QuietSilent DEF TakeInit
  <2>3. QED
    BY <2>1, <2>2
<1>28. ASSUME NEW t \in Threads, TakeReconfigure(t) PROVE Silent'
  BY <1>28, QuietSilent DEF TakeReconfigure
<1>29. ASSUME NEW t \in Threads, TakeRequest(t) PROVE Silent'
  BY <1>29, QuietSilent DEF TakeRequest
<1>30. ASSUME NEW t \in Threads, TakeCancel(t) PROVE Silent'
  BY <1>30, QuietSilent DEF TakeCancel
<1>31. ASSUME NEW t \in Threads, TakeShutdown(t) PROVE Silent'
  <2>1. CASE disposed
    BY <1>31, <2>1 DEF TakeShutdown, Silent
  <2>2. CASE ~disposed
    <3>1. ~Stale(t)
      BY <1>31, <2>2 DEF TakeShutdown, Take, Silent, Alive
    <3>2. phase'[t] # "live" /\ \A u \in Threads \ {t} : phase'[u] = phase[u]
      BY <1>31 DEF TakeShutdown, Terminated, TypeOK, Alive
    <3>3. QED
      BY <1>31, <3>1, <3>2, QuietSilent DEF TakeShutdown
  <2>3. QED
    BY <2>1, <2>2
<1>32. ASSUME NEW t \in Threads, Report(t) PROVE Silent'
  <2>1. CASE disposed
    BY <1>32, <2>1 DEF Report, Silent
  <2>2. CASE ~disposed
    <3>1. ~Stale(t) /\ phase[t] = "live"
      BY <1>32, <2>2 DEF Report, Silent, ThreadShape, Alive
    <3>2. phase' = phase /\ \A u \in Threads \ {t} : outbox'[u] = outbox[u]
      BY <1>32 DEF Report, Reply, TypeOK
    <3>3. QED
      BY <1>32, <3>1, <3>2, QuietSilent DEF Report
  <2>3. QED
    BY <2>1, <2>2
<1>33. ASSUME NEW t \in Threads, Finish(t) PROVE Silent'
  <2>1. CASE disposed
    BY <1>33, <2>1 DEF Finish, Silent
  <2>2. CASE ~disposed
    <3>1. ~Stale(t) /\ phase[t] = "live"
      BY <1>33, <2>2 DEF Finish, Silent, ThreadShape, Alive
    <3>2. phase' = phase /\ \A u \in Threads \ {t} : outbox'[u] = outbox[u]
      BY <1>33 DEF Finish, Reply, TypeOK
    <3>3. QED
      BY <1>33, <3>1, <3>2, QuietSilent DEF Finish
  <2>3. QED
    BY <2>1, <2>2
<1>34. ASSUME NEW t \in Threads, Crash(t) PROVE Silent'
  <2>1. CASE disposed
    BY <1>34, <2>1 DEF Crash, Silent
  <2>2. CASE ~disposed
    <3>1. ~Stale(t)
      BY <1>34, <2>2 DEF Crash, Take, Silent, Alive
    <3>2. phase'[t] # "live" /\ \A u \in Threads \ {t} : phase'[u] = phase[u]
      BY <1>34 DEF Crash, Terminated, TypeOK, Alive
    <3>3. QED
      BY <1>34, <3>1, <3>2, QuietSilent DEF Crash
  <2>3. QED
    BY <2>1, <2>2
<1>35. CASE UNCHANGED vars
  BY <1>35, QuietSilent DEF vars
<1> QED
  BY <1>1, <1>2, <1>3, <1>4, <1>5, <1>6, <1>7, <1>8, <1>9, <1>10, <1>11, <1>12, <1>13, <1>14,
     <1>15, <1>16, <1>17, <1>18, <1>19, <1>20, <1>21, <1>22, <1>23, <1>24, <1>25, <1>26,
     <1>27, <1>28, <1>29, <1>30, <1>31, <1>32, <1>33, <1>34, <1>35
     DEF Next, Callers, Drain, Timers, Listen, Handler, Finished

\* A step that leaves drain()'s await alone.
LEMMA QuietAwait ==
  ASSUME AwaitEnds, UNCHANGED <<disposed, starting, waitSlot, ready, worker>>,
         pc' # pc => pc' \in {"idle", "loop"},
         pc = "fail" /\ worker[waitSlot] # None /\ ~disposed =>
           outbox'[starting] = outbox[starting] /\ phase'[starting] \in {phase[starting], "stopped", "gone"}
  PROVE  AwaitEnds'
  BY DEF AwaitEnds

\* A slot that nobody is starting a thread for may lose its own.
LEMMA LostAwait ==
  ASSUME TypeOK, AwaitEnds, HostFree, UNCHANGED <<disposed, starting, waitSlot>>, NEW s \in Slots,
         LoseSlot(s), pc' \in {"idle", "loop", "wait"}, pc = "wait" \/ pc' # "wait"
  PROVE  AwaitEnds'
<1>1. \A u \in Slots : ready'[u] => ready[u]
  BY DEF LoseSlot, TypeOK
<1>2. ready' = [ready EXCEPT ![s] = FALSE]
  BY DEF LoseSlot
<1>4. QED
  BY <1>1, <1>2 DEF AwaitEnds, HostFree, TypeOK

\* drain() never goes on with a slot whose thread still has something to say.
LEMMA AwaitEndsStep ==
  Punctual /\ TypeOK /\ AwaitInv /\ ThreadShape /\ SlotShape /\ Closed /\ Held /\
  Silent /\ AwaitEnds /\ [Next]_vars => AwaitEnds'
<1> SUFFICES ASSUME Punctual, TypeOK, AwaitInv, ThreadShape, SlotShape, Closed, Held,
                    Silent, AwaitEnds, [Next]_vars
             PROVE  AwaitEnds'
  OBVIOUS
<1> USE DEF slotVars, drainVars, callerVars, hostVars, envVars, workVars, threadVars
<1>1. ASSUME NEW r \in Requests, RunCancelled(r) PROVE AwaitEnds'
  BY <1>1, QuietAwait DEF RunCancelled
<1>2. ASSUME NEW r \in Requests, Run(r) PROVE AwaitEnds'
  BY <1>2, QuietAwait DEF Run, RunGuard, Receive, HostFree, CallDrain
<1>3. ASSUME NEW r \in Requests, CancelUnheard(r) PROVE AwaitEnds'
  BY <1>3, QuietAwait DEF CancelUnheard
<1>4. ASSUME NEW r \in Requests, CancelQueued(r) PROVE AwaitEnds'
  BY <1>4, QuietAwait DEF CancelQueued
<1>5. ASSUME NEW r \in Requests, CancelAssigned(r) PROVE AwaitEnds'
  BY <1>5, QuietAwait DEF CancelAssigned
<1>6. CASE Reconfigure
  BY <1>6, QuietAwait DEF Reconfigure
<1>7. CASE Dispose
  BY <1>7 DEF Dispose, AwaitEnds
<1>8. CASE DrainEmpty
  BY <1>8 DEF DrainEmpty, Assign, AwaitEnds, Serving
<1>9. CASE DrainDropCancelled
  BY <1>9, QuietAwait DEF DrainDropCancelled
<1>10. CASE DrainAssign
  BY <1>10, QuietAwait DEF DrainAssign, Serving
<1>11. CASE DrainRespawn
  <2>1. PICK s \in Slots : Spawn(s) /\ worker[s] = None
    BY <1>11, SpawnSlot
  <2>2. PICK t \in Threads : Started(s, t)
    BY <2>1, SpawnEffect
  <2>3. pc' = "wait" /\ waitSlot' = s /\ ~ready'[s]
    BY <2>2 DEF Started
  <2>4. QED
    BY <2>3 DEF AwaitEnds
<1>12. CASE DrainGrow
  <2>1. PICK s \in Slots : Spawn(s) /\ worker[s] = None
    BY <1>12, SpawnSlot
  <2>2. PICK t \in Threads : Started(s, t)
    BY <2>1, SpawnEffect
  <2>3. pc' = "wait" /\ waitSlot' = s /\ ~ready'[s]
    BY <2>2 DEF Started
  <2>4. QED
    BY <2>3 DEF AwaitEnds
<1>13. CASE DrainAllBusy
  BY <1>13 DEF DrainAllBusy, Assign, AwaitEnds, Serving
<1>14. CASE ResumeEmpty
  BY <1>14 DEF ResumeEmpty, Assign, AwaitEnds, Serving
<1>15. CASE ResumeAssign
  BY <1>15 DEF ResumeAssign, Assign, AwaitEnds, Serving
<1>16. CASE RespawnFailed
  BY <1>16 DEF RespawnFailed, SpawnFailed, AwaitEnds
<1>17. CASE GrowFailed
  BY <1>17 DEF GrowFailed, SpawnFailed, AwaitEnds
<1>18. CASE ReadyTimeout
  <2>1. phase[starting] \in {"boot", "gone"} /\ starting \in Threads
    BY <1>18, NotNone DEF ReadyTimeout, AwaitInv, TypeOK
  <2>2. outbox[starting] = <<>>
    BY <2>1 DEF ThreadShape
  <2>3. QED
    BY <1>18, <2>1, <2>2 DEF ReadyTimeout, AwaitEnds
<1>19. ASSUME NEW t \in Threads, TerminateDoomed(t) PROVE AwaitEnds'
  BY <1>19, QuietAwait DEF TerminateDoomed, HostFree
<1>20. ASSUME NEW t \in Threads, OnReady(t) PROVE AwaitEnds'
  <2>1. CASE disposed
    BY <1>20, <2>1 DEF OnReady, AwaitEnds
  <2>2. CASE ~disposed
    <3>1. slotOf[t] \in Slots /\ worker[slotOf[t]] = t /\ HostFree
      BY <1>20, <2>2, ReceiveFacts, Speaker DEF OnReady
    <3>2. \A u \in Slots : ready'[u] = IF u = slotOf[t] THEN TRUE ELSE ready[u]
      BY <1>20 DEF OnReady
    <3>3. CASE starting = t
      BY <1>20, <3>1, <3>2, <3>3, NotNone DEF OnReady, AwaitEnds, SlotShape
    <3>4. CASE starting # t /\ starting # None
      <4>1. waitSlot \in Slots /\ waitSlot # slotOf[t]
        BY <3>1, <3>4, AwaitSlot, NotNone DEF SlotShape
      <4>2. QED
        BY <1>20, <3>1, <3>2, <3>4, <4>1 DEF OnReady, AwaitEnds, HostFree
    <3>5. CASE starting = None
      <4>1. t # starting
        BY <3>5, NotNone
      <4>2. QED
        BY <1>20, <3>1, <3>5, <4>1 DEF OnReady, AwaitEnds, AwaitInv, HostFree
    <3>6. QED
      BY <3>3, <3>4, <3>5
  <2>3. QED
    BY <2>1, <2>2
<1>21. ASSUME NEW t \in Threads, OnProgress(t) PROVE AwaitEnds'
  BY <1>21, QuietAwait DEF OnProgress, Receive, HostFree
<1>22. ASSUME NEW t \in Threads, OnReply(t) PROVE AwaitEnds'
  BY <1>22, QuietAwait DEF OnReply, RunGuard, Receive, HostFree, CallDrain
<1>23. ASSUME NEW t \in Threads, OnStaleReply(t) PROVE AwaitEnds'
  BY <1>23, QuietAwait DEF OnStaleReply, Receive, HostFree
<1>24. ASSUME NEW t \in Threads, OnError(t) PROVE AwaitEnds'
  <2>1. CASE disposed
    BY <1>24, <2>1 DEF OnError, AwaitEnds
  <2>2. CASE ~disposed
    <3>1. ~Stale(t)
      BY <1>24, <2>2 DEF OnError, Silent
    <3>2. LoseSlot(slotOf[t]) /\ slotOf[t] \in Slots /\ slotOf[t] # None
      BY <1>24, <3>1, LiveSlot DEF OnError, Stale
    <3>3. CASE starting = t
      <4>1. slotOf[t] = waitSlot
        BY <3>3, NotNone DEF SlotShape
      <4>2. worker'[waitSlot] = None /\ ~ready'[waitSlot] /\ pc' = "fail"
        BY <1>24, <3>2, <3>3, <4>1 DEF OnError, LoseSlot, TypeOK
      <4>3. waitSlot' = waitSlot
        BY <1>24 DEF OnError
      <4>4. QED
        BY <4>2, <4>3 DEF AwaitEnds
    <3>4. CASE starting # t
      BY <1>24, <3>2, <3>4, LostAwait DEF OnError, CallDrain, HostFree
    <3>5. QED
      BY <3>3, <3>4
  <2>3. QED
    BY <2>1, <2>2
<1>25. ASSUME NEW t \in Threads, OnUnexpectedExit(t) PROVE AwaitEnds'
  <2>1. slotOf[t] \in Slots
    BY <1>25 DEF OnUnexpectedExit, ExitConcerns, TypeOK
  <2>2. QED
    BY <1>25, <2>1, LostAwait DEF OnUnexpectedExit, ExitGuard, CallDrain, HostFree
<1>26. ASSUME NEW t \in Threads, OnIgnoredExit(t) PROVE AwaitEnds'
  BY <1>26, QuietAwait DEF OnIgnoredExit, ExitGuard, HostFree
<1>27. ASSUME NEW t \in Threads, TakeInit(t) PROVE AwaitEnds'
  <2>1. SUFFICES ASSUME pc = "fail", worker[waitSlot] # None, ~disposed
               PROVE  outbox'[starting] = outbox[starting] /\ phase'[starting] \in {phase[starting], "stopped", "gone"}
    BY <1>27, QuietAwait DEF TakeInit
  <2>2. starting \in Threads
    BY <2>1, NotNone DEF AwaitInv, TypeOK
  <2>3. CASE t # starting
    BY <1>27, <2>2, <2>3 DEF TakeInit, Reply, TypeOK
  <2>4. CASE t = starting
    BY <1>27, <2>1, <2>4 DEF TakeInit, Take, Alive, AwaitEnds, ThreadShape, GivenUp, TypeOK
  <2>5. QED
    BY <2>3, <2>4
<1>28. ASSUME NEW t \in Threads, TakeReconfigure(t) PROVE AwaitEnds'
  BY <1>28, QuietAwait DEF TakeReconfigure
<1>29. ASSUME NEW t \in Threads, TakeRequest(t) PROVE AwaitEnds'
  BY <1>29, QuietAwait DEF TakeRequest
<1>30. ASSUME NEW t \in Threads, TakeCancel(t) PROVE AwaitEnds'
  BY <1>30, QuietAwait DEF TakeCancel
<1>31. ASSUME NEW t \in Threads, TakeShutdown(t) PROVE AwaitEnds'
  <2>1. SUFFICES ASSUME pc = "fail", worker[waitSlot] # None, ~disposed
               PROVE  outbox'[starting] = outbox[starting] /\ phase'[starting] \in {phase[starting], "stopped", "gone"}
    BY <1>31, QuietAwait DEF TakeShutdown
  <2>2. starting \in Threads
    BY <2>1, NotNone DEF AwaitInv, TypeOK
  <2>3. CASE t # starting
    BY <1>31, <2>2, <2>3 DEF TakeShutdown, Reply, TypeOK
  <2>4. CASE t = starting
    BY <1>31, <2>1, <2>4 DEF TakeShutdown, Take, Alive, AwaitEnds, ThreadShape, GivenUp, TypeOK
  <2>5. QED
    BY <2>3, <2>4
<1>32. ASSUME NEW t \in Threads, Report(t) PROVE AwaitEnds'
  <2>1. SUFFICES ASSUME pc = "fail", worker[waitSlot] # None, ~disposed
               PROVE  outbox'[starting] = outbox[starting] /\ phase'[starting] \in {phase[starting], "stopped", "gone"}
    BY <1>32, QuietAwait DEF Report
  <2>2. starting \in Threads
    BY <2>1, NotNone DEF AwaitInv, TypeOK
  <2>3. CASE t # starting
    BY <1>32, <2>2, <2>3 DEF Report, Reply, TypeOK
  <2>4. CASE t = starting
    BY <1>32, <2>1, <2>4 DEF Report, Take, Alive, AwaitEnds, ThreadShape, GivenUp, TypeOK
  <2>5. QED
    BY <2>3, <2>4
<1>33. ASSUME NEW t \in Threads, Finish(t) PROVE AwaitEnds'
  <2>1. SUFFICES ASSUME pc = "fail", worker[waitSlot] # None, ~disposed
               PROVE  outbox'[starting] = outbox[starting] /\ phase'[starting] \in {phase[starting], "stopped", "gone"}
    BY <1>33, QuietAwait DEF Finish
  <2>2. starting \in Threads
    BY <2>1, NotNone DEF AwaitInv, TypeOK
  <2>3. CASE t # starting
    BY <1>33, <2>2, <2>3 DEF Finish, Reply, TypeOK
  <2>4. CASE t = starting
    BY <1>33, <2>1, <2>4 DEF Finish, Take, Alive, AwaitEnds, ThreadShape, GivenUp, TypeOK
  <2>5. QED
    BY <2>3, <2>4
<1>34. ASSUME NEW t \in Threads, Crash(t) PROVE AwaitEnds'
  <2>1. SUFFICES ASSUME pc = "fail", worker[waitSlot] # None, ~disposed
               PROVE  outbox'[starting] = outbox[starting] /\ phase'[starting] \in {phase[starting], "stopped", "gone"}
    BY <1>34, QuietAwait DEF Crash
  <2>2. starting \in Threads
    BY <2>1, NotNone DEF AwaitInv, TypeOK
  <2>3. CASE t # starting
    BY <1>34, <2>2, <2>3 DEF Crash, Reply, TypeOK
  <2>4. CASE t = starting
    BY <1>34, <2>1, <2>4 DEF Crash, Take, Alive, AwaitEnds, ThreadShape, GivenUp, TypeOK
  <2>5. QED
    BY <2>3, <2>4
<1>35. CASE UNCHANGED vars
  BY <1>35, QuietAwait DEF vars
<1> QED
  BY <1>1, <1>2, <1>3, <1>4, <1>5, <1>6, <1>7, <1>8, <1>9, <1>10, <1>11, <1>12, <1>13, <1>14,
     <1>15, <1>16, <1>17, <1>18, <1>19, <1>20, <1>21, <1>22, <1>23, <1>24, <1>25, <1>26,
     <1>27, <1>28, <1>29, <1>30, <1>31, <1>32, <1>33, <1>34, <1>35
     DEF Next, Callers, Drain, Timers, Listen, Handler, Finished

-----------------------------------------------------------------------------
(* One piece of work for each thread                                       *)

\* What messages of each kind carry.
LEMMA MessageShape ==
  /\ \A m \in HostMessages : m.type = "request" => m.id \in Requests
  /\ \A m \in WorkerMessages : m.type # "ready" => m.id \in Requests
  BY DEF HostMessages, WorkerMessages

\* What the channels of a thread hold.
LEMMA ChannelTypes ==
  ASSUME TypeOK, NEW t \in Threads
  PROVE  /\ Len(inbox[t]) \in Nat /\ Len(outbox[t]) \in Nat /\ Len(chain[t]) \in Nat
         /\ \A i \in 1 .. Len(inbox[t]) : inbox[t][i] \in HostMessages
         /\ \A i \in 1 .. Len(outbox[t]) : outbox[t][i] \in WorkerMessages
         /\ \A i \in 1 .. Len(chain[t]) : chain[t][i] \in Requests
         /\ chain[t] # <<>> => Len(chain[t]) > 0
<1>1. inbox[t] \in Seq(HostMessages) /\ outbox[t] \in Seq(WorkerMessages) /\ chain[t] \in Seq(Requests)
  BY DEF TypeOK
<1>2. QED
  BY <1>1

\* The thread of a slot that serves nobody has nothing in hand.
LEMMA IdleThread ==
  ASSUME TypeOK, NEW s \in Slots, NEW t \in Threads, JobOf(s, t), current[s] = None
  PROVE  /\ chain[t] = <<>> /\ Asks(t) = {} /\ Replies(t) = {}
         /\ \A i \in 1 .. Len(outbox[t]) : outbox[t][i].type = "ready"
<1>1. chain[t] = <<>>
  BY ChannelTypes, NotNone DEF JobOf
<1>2. Asks(t) = {}
  BY ChannelTypes, MessageShape, NotNone DEF JobOf, Asks
<1>3. \A i \in 1 .. Len(outbox[t]) : outbox[t][i].type = "ready"
  BY ChannelTypes, MessageShape, NotNone DEF JobOf
<1>4. Replies(t) = {}
  BY <1>3 DEF Replies
<1>5. QED
  BY <1>1, <1>2, <1>3, <1>4

\* A thread and slot that a step leaves alone.
LEMMA SameJob ==
  ASSUME NEW s, NEW t, JobOf(s, t), inbox'[t] = inbox[t], outbox'[t] = outbox[t], chain'[t] = chain[t],
         current'[s] = current[s], phase'[t] = "live" => phase[t] = "live"
  PROVE  JobOf(s, t)'
<1>1. Asks(t)' = Asks(t)
  BY DEF Asks
<1>2. Replies(t)' = Replies(t)
  BY DEF Replies
<1>3. QED
  BY <1>1, <1>2 DEF JobOf

\* Steps that do not touch the channels of a slot's thread.
LEMMA QuietJob ==
  ASSUME OneJob, UNCHANGED <<inbox, outbox, chain>>,
         \A s \in Slots : worker'[s] # None => worker'[s] = worker[s] /\ current'[s] = current[s],
         \A s \in Slots : worker'[s] # None /\ phase'[worker[s]] = "live" => phase[worker[s]] = "live"
  PROVE  OneJob'
<1> SUFFICES ASSUME NEW s \in Slots, worker'[s] # None PROVE JobOf(s, worker[s])'
  BY DEF OneJob
<1>1. JobOf(s, worker[s]) /\ worker'[s] = worker[s]
  BY DEF OneJob
<1>2. Asks(worker[s])' = Asks(worker[s]) /\ Replies(worker[s])' = Replies(worker[s])
  BY <1>1 DEF Asks, Replies
<1>3. QED
  BY <1>1, <1>2 DEF JobOf

\* Posting anything but a request gives a thread no work.
LEMMA PostedJob ==
  ASSUME TypeOK, OneJob, NEW T, NEW m \in HostMessages, m.type # "request", inbox' = Posted(T, m),
         UNCHANGED <<worker, current, phase, outbox, chain>>
  PROVE  OneJob'
<1> SUFFICES ASSUME NEW s \in Slots, worker'[s] # None PROVE JobOf(s, worker[s])'
  BY DEF OneJob
<1> DEFINE t == worker[s]
<1>1. JobOf(s, t) /\ t \in Threads
  BY DEF OneJob, TypeOK
<1>2. Asks(t)' = Asks(t) /\ \A i \in Asks(t) : inbox'[t][i] = inbox[t][i]
  <2>1. CASE t \in T /\ Alive(t)
    BY <1>1, <2>1, PostedFacts DEF Asks
  <2>2. CASE ~(t \in T /\ Alive(t))
    BY <1>1, <2>2, PostedFacts DEF Asks
  <2>3. QED
    BY <2>1, <2>2
<1>3. Replies(t)' = Replies(t)
  BY DEF Replies
<1>4. QED
  BY <1>1, <1>2, <1>3 DEF JobOf

\* Taking anything but a request does not end a thread's work.
LEMMA TakenJob ==
  ASSUME TypeOK, OneJob, NEW t \in Threads, NEW m, Take(t, m), m.type # "request",
         UNCHANGED <<worker, current, outbox, chain>>,
         \A u \in Threads : phase'[u] = "live" => phase[u] = "live"
  PROVE  OneJob'
<1> SUFFICES ASSUME NEW s \in Slots, worker'[s] # None PROVE JobOf(s, worker[s])'
  BY DEF OneJob
<1>1. JobOf(s, worker[s]) /\ worker[s] \in Threads
  BY DEF OneJob, TypeOK
<1>2. CASE worker[s] # t
  <2>1. inbox'[worker[s]] = inbox[worker[s]]
    BY <1>1, <1>2, TakeFacts
  <2>2. QED
    BY <1>1, <2>1 DEF JobOf, Asks, Replies
<1>3. CASE worker[s] = t
  <2>1. ASSUME NEW i \in Asks(t) PROVE i - 1 \in Asks(t)'
    <3>1. i \in 1 .. Len(inbox[t]) /\ inbox[t][i].type = "request" /\ i # 1
      BY TakeFacts DEF Asks
    <3>2. i - 1 \in 1 .. Len(inbox'[t]) /\ inbox'[t][i - 1] = inbox[t][i]
      BY <3>1, TakeFacts
    <3>3. QED
      BY <3>1, <3>2 DEF Asks
  <2>2. \A i \in Asks(t)' : i + 1 \in Asks(t) /\ inbox'[t][i] = inbox[t][i + 1] /\ i \in Nat
    BY TakeFacts DEF Asks
  <2>3. \A i, j \in Asks(t)' : i = j
    BY <1>1, <1>3, <2>2 DEF JobOf
  <2>4. Replies(t)' = Replies(t)
    BY DEF Replies
  <2>5. Asks(t) = {} <=> Asks(t)' = {}
    BY <2>1, <2>2
  <2>6. \A i \in Asks(t)' : inbox'[t][i].id = current[s] /\ Replies(t) = {}
    BY <1>1, <1>3, <2>2 DEF JobOf
  <2>7. QED
    BY <1>1, <1>3, <2>3, <2>4, <2>5, <2>6 DEF JobOf
<1>4. QED
  BY <1>2, <1>3

\* Handling anything but a reply does not either.
LEMMA ReceivedJob ==
  ASSUME TypeOK, OneJob, NEW t \in Threads, NEW m, Receive(t, m), m.type \in {"ready", "progress"},
         UNCHANGED <<worker, current, phase, inbox, chain>>
  PROVE  OneJob'
<1> SUFFICES ASSUME NEW s \in Slots, worker'[s] # None PROVE JobOf(s, worker[s])'
  BY DEF OneJob
<1>1. JobOf(s, worker[s]) /\ worker[s] \in Threads
  BY DEF OneJob, TypeOK
<1>2. CASE worker[s] # t
  <2>1. outbox'[worker[s]] = outbox[worker[s]]
    BY <1>1, <1>2, ReceiveFacts
  <2>2. QED
    BY <1>1, <2>1 DEF JobOf, Asks, Replies
<1>3. CASE worker[s] = t
  <2> DEFINE n == Len(outbox[t])
  <2>a. n \in Nat \ {0} /\ Len(outbox'[t]) = n - 1 /\ outbox[t][1] = m
    BY ReceiveFacts
  <2>b. \A i \in 1 .. n - 1 : outbox'[t][i] = outbox[t][i + 1]
    BY ReceiveFacts
  <2>c. \A i : i \in Replies(t) <=> i \in 1 .. n /\ outbox[t][i].type \notin {"ready", "progress"}
    BY DEF Replies
  <2>d. \A i : i \in Replies(t)' <=> i \in 1 .. n - 1 /\ outbox'[t][i].type \notin {"ready", "progress"}
    BY <2>a DEF Replies
  <2> HIDE DEF n
  <2>1. ASSUME NEW i \in Replies(t) PROVE i - 1 \in Replies(t)'
    <3>1. i \in 1 .. n /\ i # 1
      BY <2>1, <2>a, <2>c
    <3>2. i - 1 \in 1 .. n - 1 /\ (i - 1) + 1 = i
      BY <3>1, <2>a
    <3>3. outbox'[t][i - 1] = outbox[t][i]
      BY <3>2, <2>b
    <3>4. QED
      BY <2>1, <3>2, <3>3, <2>c, <2>d
  <2>2. ASSUME NEW i \in Replies(t)' PROVE i + 1 \in Replies(t) /\ i \in Nat
    <3>1. i \in 1 .. n - 1 /\ i + 1 \in 1 .. n /\ i \in Nat
      BY <2>2, <2>a, <2>d
    <3>2. QED
      BY <2>2, <3>1, <2>b, <2>c, <2>d
  <2>3. Replies(t)' \subseteq {Len(outbox'[t])}
    BY <1>1, <1>3, <2>2, <2>a DEF JobOf, n
  <2>4. Replies(t) = {} <=> Replies(t)' = {}
    BY <2>1, <2>2
  <2>5. Asks(t)' = Asks(t)
    BY DEF Asks
  <2>6. \A i \in 1 .. Len(outbox'[t]) : outbox'[t][i].type # "ready" => outbox'[t][i].id = current[s]
    <3>1. \A i \in 1 .. Len(outbox[t]) : outbox[t][i].type # "ready" => outbox[t][i].id = current[s]
      BY <1>1, <1>3 DEF JobOf
    <3> TAKE i \in 1 .. Len(outbox'[t])
    <3>2. i \in 1 .. n - 1 /\ i + 1 \in 1 .. Len(outbox[t])
      BY <2>a DEF n
    <3>3. outbox'[t][i] = outbox[t][i + 1]
      BY <3>2, <2>b
    <3>4. QED
      BY <3>1, <3>2, <3>3
  <2>7. QED
    <3>1. worker' = worker /\ current' = current /\ phase' = phase /\ inbox' = inbox /\ chain' = chain
      OBVIOUS
    <3>2. JobOf(s, t)
      BY <1>1, <1>3
    <3>3. /\ Len(chain'[t]) <= 1
          /\ chain'[t] # <<>> => chain'[t][1] = current'[s] /\ Asks(t)' = {} /\ Replies(t)' = {}
      BY <2>4, <2>5, <3>1, <3>2 DEF JobOf
    <3>4. /\ \A i, j \in Asks(t)' : i = j
          /\ \A i \in Asks(t)' : inbox'[t][i].id = current'[s] /\ Replies(t)' = {}
      BY <2>4, <2>5, <3>1, <3>2 DEF JobOf
    <3>5. current'[s] # None /\ phase'[t] = "live" =>
            chain'[t] # <<>> \/ Asks(t)' # {} \/ Replies(t)' # {}
      BY <2>4, <2>5, <3>1, <3>2 DEF JobOf
    <3>6. \A i \in 1 .. Len(outbox'[t]) : outbox'[t][i].type # "ready" => outbox'[t][i].id = current'[s]
      BY <2>6, <3>1
    <3>7. JobOf(s, t)'
      BY <2>3, <3>3, <3>4, <3>5, <3>6 DEF JobOf
    <3>8. QED
      BY <1>3, <3>7
<1>4. QED
  BY <1>2, <1>3

\* A slot that serves nobody is given one request, and so is its thread.
LEMMA AssignJob ==
  ASSUME TypeOK, SlotShape, OneJob, NEW s \in Slots, current[s] = None, queue # <<>>, Assign(s),
         UNCHANGED <<worker, phase, outbox, chain>>
  PROVE  OneJob'
<1> DEFINE r == Head(queue)
           m == [type |-> "request", id |-> Head(queue)]
<1>1. r \in Requests /\ m \in HostMessages
  BY QueueParts, Messages
<1>2. inbox' = Posted({worker[s]}, m)
  BY DEF Assign
<1>3. m.type = "request" /\ m.id = r
  OBVIOUS
<1>4. \A u \in Slots : current'[u] = IF u = s THEN r ELSE current[u]
  BY DEF Assign, TypeOK
<1> SUFFICES ASSUME NEW u \in Slots, worker'[u] # None PROVE JobOf(u, worker[u])'
  BY DEF OneJob
<1> HIDE DEF m
<1>5. JobOf(u, worker[u]) /\ worker[u] \in Threads
  BY DEF OneJob, TypeOK
<1>6. CASE u # s
  <2>1. worker[u] # worker[s]
    BY <1>6 DEF SlotShape
  <2>2. inbox'[worker[u]] = inbox[worker[u]]
    BY <1>1, <1>2, <1>5, <2>1, PostedFacts
  <2>3. QED
    BY <1>4, <1>5, <1>6, <2>2 DEF JobOf, Asks, Replies
<1>7. CASE u = s
  <2> DEFINE t == worker[s]
  <2>1. /\ chain[t] = <<>> /\ Asks(t) = {} /\ Replies(t) = {}
        /\ \A i \in 1 .. Len(outbox[t]) : outbox[t][i].type = "ready"
    BY <1>5, <1>7, IdleThread
  <2>2. Replies(t)' = Replies(t)
    BY DEF Replies
  <2>3. CASE Alive(t)
    <3>1. /\ Len(inbox[t]) \in Nat /\ Len(inbox'[t]) = Len(inbox[t]) + 1
          /\ \A i \in 1 .. Len(inbox[t]) : inbox'[t][i] = inbox[t][i]
          /\ inbox'[t][Len(inbox[t]) + 1] = m
      <4>1. inbox'[worker[s]] = Posted({worker[s]}, m)[worker[s]]
        BY <1>2
      <4>2. worker[s] \in Threads /\ Alive(worker[s])
        BY <1>5, <1>7, <2>3
      <4>3. Posted({worker[s]}, m)[worker[s]] = Append(inbox[worker[s]], m)
        BY <4>2 DEF Posted
      <4>4. inbox[worker[s]] \in Seq(HostMessages)
        BY <4>2 DEF TypeOK
      <4>5. /\ Len(Append(inbox[worker[s]], m)) = Len(inbox[worker[s]]) + 1
            /\ \A i \in 1 .. Len(inbox[worker[s]]) : Append(inbox[worker[s]], m)[i] = inbox[worker[s]][i]
            /\ Append(inbox[worker[s]], m)[Len(inbox[worker[s]]) + 1] = m
            /\ Len(inbox[worker[s]]) \in Nat
        BY <1>1, <4>4, AppendProperties
      <4>6. QED
        BY <4>1, <4>3, <4>5, Zenon
    <3>2. \A i \in 1 .. Len(inbox[t]) : inbox[t][i].type # "request"
      BY <2>1 DEF Asks
    <3>3. Asks(t)' = {Len(inbox[t]) + 1}
      <4>1. \A i \in 1 .. Len(inbox[t]) : inbox'[t][i].type # "request"
        BY <3>1, <3>2
      <4>2. inbox'[t][Len(inbox[t]) + 1].type = "request"
        BY <1>3, <3>1
      <4>3. 1 .. Len(inbox'[t]) = (1 .. Len(inbox[t])) \cup {Len(inbox[t]) + 1}
        BY <3>1
      <4>4. QED
        BY <4>1, <4>2, <4>3 DEF Asks
    <3>4. QED
      BY <1>3, <1>4, <1>5, <1>7, <2>1, <2>2, <3>1, <3>3 DEF JobOf
  <2>4. CASE ~Alive(t)
    <3> inbox'[t] = inbox[t]
      <4>1. inbox'[worker[s]] = Posted({worker[s]}, m)[worker[s]]
        BY <1>2
      <4>2. worker[s] \in Threads /\ ~Alive(worker[s])
        BY <1>5, <1>7, <2>4
      <4>3. Posted({worker[s]}, m)[worker[s]] = inbox[worker[s]]
        BY <4>2 DEF Posted
      <4>4. QED
        BY <4>1, <4>3
    <3>1. Asks(t)' = Asks(t)
      BY DEF Asks
    <3>2. QED
      BY <1>5, <1>7, <2>1, <2>2, <2>4, <3>1 DEF JobOf, Alive
  <2>5. QED
    BY <2>3, <2>4
<1>8. QED
  BY <1>6, <1>7

\* No step gives a thread two pieces of work, or drops the one it has.
LEMMA OneJobStep ==
  TypeOK /\ AwaitInv /\ ThreadShape /\ SlotShape /\ Closed /\ Held /\ Silent /\
  OneJob /\ [Next]_vars => OneJob'
<1> SUFFICES ASSUME TypeOK, AwaitInv, ThreadShape, SlotShape, Closed, Held, Silent,
                    OneJob, [Next]_vars
             PROVE  OneJob'
  OBVIOUS
<1> USE DEF slotVars, drainVars, callerVars, hostVars, envVars, workVars, threadVars
<1>1. ASSUME NEW r \in Requests, RunCancelled(r) PROVE OneJob'
  BY <1>1, QuietJob DEF RunCancelled
<1>2. ASSUME NEW r \in Requests, Run(r) PROVE OneJob'
  BY <1>2, QuietJob DEF Run
<1>3. ASSUME NEW r \in Requests, CancelUnheard(r) PROVE OneJob'
  BY <1>3, QuietJob DEF CancelUnheard
<1>4. ASSUME NEW r \in Requests, CancelQueued(r) PROVE OneJob'
  BY <1>4, QuietJob DEF CancelQueued
<1>5. ASSUME NEW r \in Requests, CancelAssigned(r) PROVE OneJob'
  <2>1. PICK s \in 1 .. open : inbox' = Posted({worker[s]}, [type |-> "cancel", id |-> r])
    BY <1>5 DEF CancelAssigned
  <2>2. QED
    BY <1>5, <2>1, Messages, PostedJob DEF CancelAssigned
<1>6. CASE Reconfigure
  <2>1. config' \in Configs
    BY <1>6 DEF TypeOK, Reconfigure, Configs
  <2>2. QED
    BY <1>6, <2>1, Messages, PostedJob DEF Reconfigure
<1>7. CASE Dispose
  BY <1>7 DEF Dispose, OneJob
<1>8. CASE DrainEmpty
  BY <1>8, QuietJob DEF DrainEmpty
<1>9. CASE DrainDropCancelled
  BY <1>9, QuietJob DEF DrainDropCancelled
<1>10. CASE DrainAssign
  <2>1. PICK s \in Slots : current[s] = None /\ Assign(s)
    BY <1>10 DEF DrainAssign, First, IdleReady
  <2>2. QED
    BY <1>10, <2>1, AssignJob DEF DrainAssign, Serving
<1>11. CASE DrainRespawn
  <2>1. PICK s \in Slots : Spawn(s) /\ worker[s] = None /\ current[s] = None
    BY <1>11, SpawnSlot
  <2>2. PICK t \in Threads : Started(s, t)
    BY <2>1, SpawnEffect
  <2>3. /\ \A u \in Slots : worker'[u] = IF u = s THEN t ELSE worker[u]
        /\ current' = current /\ outbox' = outbox /\ chain' = chain
        /\ \A u \in Threads \ {t} : inbox'[u] = inbox[u] /\ phase'[u] = phase[u]
        /\ phase'[t] = "boot" /\ phase[t] = "unborn"
    BY <2>2 DEF Started, workVars
  <2>4. outbox[t] = <<>> /\ chain[t] = <<>>
    BY <2>3 DEF ThreadShape
  <2>5. Len(inbox'[t]) = 1 /\ inbox'[t][1].type = "init"
    <3>1. inbox'[t] = <<[type |-> "init", config |-> config]>>
      BY <2>2 DEF Started
    <3>2. QED
      BY <3>1
  <2>6. SUFFICES ASSUME NEW u \in Slots, NEW v, worker'[u] = v, v # None PROVE JobOf(u, v)'
    BY DEF OneJob
  <2>7. CASE u = s
    <3>1. v = t /\ current'[u] = None
      BY <2>1, <2>3, <2>6, <2>7
    <3>2. Asks(t)' = {} /\ Replies(t)' = {}
      BY <2>3, <2>4, <2>5 DEF Asks, Replies
    <3>3. Len(chain'[t]) = 0 /\ chain'[t] = <<>> /\ Len(outbox'[t]) = 0
      BY <2>3, <2>4
    <3>4. QED
      BY <3>1, <3>2, <3>3 DEF JobOf
  <2>8. CASE u # s
    <3>1. worker[u] = v /\ v \in Threads /\ v # t
      BY <2>3, <2>6, <2>8 DEF TypeOK, SlotShape
    <3>2. JobOf(u, v)
      BY <2>6, <3>1 DEF OneJob
    <3>3. QED
      BY <2>3, <3>1, <3>2, SameJob
  <2>9. QED
    BY <2>7, <2>8
<1>12. CASE DrainGrow
  <2>1. PICK s \in Slots : Spawn(s) /\ worker[s] = None /\ current[s] = None
    BY <1>12, SpawnSlot
  <2>2. PICK t \in Threads : Started(s, t)
    BY <2>1, SpawnEffect
  <2>3. /\ \A u \in Slots : worker'[u] = IF u = s THEN t ELSE worker[u]
        /\ current' = current /\ outbox' = outbox /\ chain' = chain
        /\ \A u \in Threads \ {t} : inbox'[u] = inbox[u] /\ phase'[u] = phase[u]
        /\ phase'[t] = "boot" /\ phase[t] = "unborn"
    BY <2>2 DEF Started, workVars
  <2>4. outbox[t] = <<>> /\ chain[t] = <<>>
    BY <2>3 DEF ThreadShape
  <2>5. Len(inbox'[t]) = 1 /\ inbox'[t][1].type = "init"
    <3>1. inbox'[t] = <<[type |-> "init", config |-> config]>>
      BY <2>2 DEF Started
    <3>2. QED
      BY <3>1
  <2>6. SUFFICES ASSUME NEW u \in Slots, NEW v, worker'[u] = v, v # None PROVE JobOf(u, v)'
    BY DEF OneJob
  <2>7. CASE u = s
    <3>1. v = t /\ current'[u] = None
      BY <2>1, <2>3, <2>6, <2>7
    <3>2. Asks(t)' = {} /\ Replies(t)' = {}
      BY <2>3, <2>4, <2>5 DEF Asks, Replies
    <3>3. Len(chain'[t]) = 0 /\ chain'[t] = <<>> /\ Len(outbox'[t]) = 0
      BY <2>3, <2>4
    <3>4. QED
      BY <3>1, <3>2, <3>3 DEF JobOf
  <2>8. CASE u # s
    <3>1. worker[u] = v /\ v \in Threads /\ v # t
      BY <2>3, <2>6, <2>8 DEF TypeOK, SlotShape
    <3>2. JobOf(u, v)
      BY <2>6, <3>1 DEF OneJob
    <3>3. QED
      BY <2>3, <3>1, <3>2, SameJob
  <2>9. QED
    BY <2>7, <2>8
<1>13. CASE DrainAllBusy
  BY <1>13, QuietJob DEF DrainAllBusy
<1>14. CASE ResumeEmpty
  BY <1>14, QuietJob DEF ResumeEmpty
<1>15. CASE ResumeAssign
  <2>1. waitSlot \in Slots /\ current[waitSlot] = None
    BY <1>15, AwaitSlot DEF ResumeAssign, AwaitInv
  <2>2. QED
    BY <1>15, <2>1, AssignJob DEF ResumeAssign
<1>16. CASE RespawnFailed
  <2>1. waitSlot \in Slots
    BY <1>16, AwaitSlot, NotNone DEF RespawnFailed, SpawnFailed, AwaitInv, SlotShape, TypeOK
  <2>2. \A u \in Slots : worker'[u] = IF u = waitSlot THEN None ELSE worker[u]
    BY <1>16 DEF RespawnFailed, SpawnFailed, TypeOK
  <2>3. \A u \in Slots : u # waitSlot => current'[u] = current[u]
    BY <1>16 DEF RespawnFailed, TypeOK
  <2>4. \A u \in Threads : phase'[u] \in {phase[u], "stopped"}
    BY <1>16 DEF RespawnFailed, SpawnFailed, Terminated
  <2>5. \A u \in Slots : worker[u] # None => worker[u] \in Threads
    BY DEF TypeOK
  <2>6. UNCHANGED <<inbox, outbox, chain>>
    BY <1>16 DEF RespawnFailed, SpawnFailed
  <2>7. QED
    BY <2>2, <2>3, <2>4, <2>5, <2>6, QuietJob
<1>17. CASE GrowFailed
  <2>1. waitSlot \in Slots
    BY <1>17, AwaitSlot, NotNone DEF GrowFailed, SpawnFailed, AwaitInv, SlotShape, TypeOK
  <2>2. \A u \in Slots : worker'[u] = IF u = waitSlot THEN None ELSE worker[u]
    BY <1>17 DEF GrowFailed, SpawnFailed, TypeOK
  <2>3. \A u \in Slots : u # waitSlot => current'[u] = current[u]
    BY <1>17 DEF GrowFailed, TypeOK
  <2>4. \A u \in Threads : phase'[u] \in {phase[u], "stopped"}
    BY <1>17 DEF GrowFailed, SpawnFailed, Terminated
  <2>5. \A u \in Slots : worker[u] # None => worker[u] \in Threads
    BY DEF TypeOK
  <2>6. UNCHANGED <<inbox, outbox, chain>>
    BY <1>17 DEF GrowFailed, SpawnFailed
  <2>7. QED
    BY <2>2, <2>3, <2>4, <2>5, <2>6, QuietJob
<1>18. CASE ReadyTimeout
  BY <1>18, QuietJob DEF ReadyTimeout
<1>19. ASSUME NEW t \in Threads, TerminateDoomed(t) PROVE OneJob'
  <2>1. \A u \in Slots : worker'[u] # None => worker'[u] = worker[u] /\ current'[u] = current[u]
    BY <1>19 DEF TerminateDoomed, LoseSlot, TypeOK
  <2>2. \A u \in Threads : phase'[u] = "live" => phase[u] = "live"
    BY <1>19 DEF TerminateDoomed, ExitGuard, Terminated, TypeOK
  <2>3. \A u \in Slots : worker[u] # None => worker[u] \in Threads
    BY DEF TypeOK
  <2>4. UNCHANGED <<inbox, outbox, chain>>
    BY <1>19 DEF TerminateDoomed
  <2>5. QED
    BY <2>1, <2>2, <2>3, <2>4, QuietJob
<1>20. ASSUME NEW t \in Threads, OnReady(t) PROVE OneJob'
  BY <1>20, ReceivedJob DEF OnReady
<1>21. ASSUME NEW t \in Threads, OnProgress(t) PROVE OneJob'
  BY <1>21, ReceivedJob DEF OnProgress
<1>22. ASSUME NEW t \in Threads, OnReply(t) PROVE OneJob'
  <2>1. CASE disposed
    BY <1>22, <2>1 DEF OnReply, Closed, OneJob
  <2>2. CASE ~disposed
    <3>1. PICK r \in Requests, answer \in {"done", "error", "cancelled"} :
            /\ Receive(t, [type |-> answer, id |-> r])
            /\ current' = [current EXCEPT ![slotOf[t]] = None]
      BY <1>22 DEF OnReply
    <3>2. slotOf[t] \in Slots /\ worker[slotOf[t]] = t
      BY <2>2, <3>1, ReceiveFacts, Speaker
    <3>3. JobOf(slotOf[t], t)
      BY <3>2, NotNone DEF OneJob
    <3>4. 1 \in Replies(t)
      BY <3>1, ReceiveFacts DEF Replies
    <3>5. Len(outbox[t]) = 1 /\ chain[t] = <<>> /\ Asks(t) = {}
      BY <3>3, <3>4 DEF JobOf
    <3>6. Len(outbox'[t]) = 0 /\ \A u \in Threads \ {t} : outbox'[u] = outbox[u]
      BY <3>1, <3>5, ReceiveFacts
    <3>7. UNCHANGED <<worker, phase, inbox, chain>>
      BY <1>22 DEF OnReply
    <3>8. \A u \in Slots : current'[u] = IF u = slotOf[t] THEN None ELSE current[u]
      BY <3>1 DEF TypeOK
    <3>9. SUFFICES ASSUME NEW u \in Slots, worker'[u] # None PROVE JobOf(u, worker[u])'
      BY <3>7 DEF OneJob
    <3>10. CASE u = slotOf[t]
      <4>1. Asks(t)' = {} /\ Replies(t)' = {}
        BY <3>5, <3>6, <3>7 DEF Asks, Replies
      <4>2. QED
        BY <3>2, <3>5, <3>6, <3>7, <3>8, <3>10, <4>1 DEF JobOf
    <3>11. CASE u # slotOf[t]
      <4>1. JobOf(u, worker[u]) /\ worker[u] \in Threads
        BY <3>7, <3>9 DEF OneJob, TypeOK
      <4>2. worker[u] # t
        BY <3>2, <3>7, <3>9, <3>11 DEF SlotShape
      <4>3. outbox'[worker[u]] = outbox[worker[u]] /\ current'[u] = current[u]
        BY <3>6, <3>8, <3>11, <4>1, <4>2
      <4>4. QED
        BY <3>7, <4>1, <4>3 DEF JobOf, Asks, Replies
    <3>12. QED
      BY <3>10, <3>11
  <2>3. QED
    BY <2>1, <2>2
<1>23. ASSUME NEW t \in Threads, OnStaleReply(t) PROVE OneJob'
  <2>1. CASE disposed
    BY <1>23, <2>1 DEF OnStaleReply, Closed, OneJob
  <2>2. CASE ~disposed
    <3>1. PICK r \in Requests, answer \in {"done", "error", "cancelled"} :
            Receive(t, [type |-> answer, id |-> r]) /\ CurrentOf(t) # r
      BY <1>23 DEF OnStaleReply
    <3>2. slotOf[t] \in Slots /\ worker[slotOf[t]] = t
      BY <2>2, <3>1, ReceiveFacts, Speaker
    <3>3. JobOf(slotOf[t], t)
      BY <3>2, NotNone DEF OneJob
    <3>4. outbox[t][1] = [type |-> answer, id |-> r] /\ 1 \in 1 .. Len(outbox[t])
      BY <3>1, ReceiveFacts
    <3>5. current[slotOf[t]] = r
      BY <3>3, <3>4 DEF JobOf
    <3>6. QED
      BY <3>1, <3>2, <3>5, NotNone DEF CurrentOf
  <2>3. QED
    BY <2>1, <2>2
<1>24. ASSUME NEW t \in Threads, OnError(t) PROVE OneJob'
  <2>1. \A u \in Slots : worker'[u] # None => worker'[u] = worker[u] /\ current'[u] = current[u]
    BY <1>24 DEF OnError, LoseSlot, TypeOK
  <2>2. \A u \in Threads : phase'[u] = "live" => phase[u] = "live"
    BY <1>24 DEF OnError, ExitGuard, Terminated, TypeOK
  <2>3. \A u \in Slots : worker[u] # None => worker[u] \in Threads
    BY DEF TypeOK
  <2>4. UNCHANGED <<inbox, outbox, chain>>
    BY <1>24 DEF OnError
  <2>5. QED
    BY <2>1, <2>2, <2>3, <2>4, QuietJob
<1>25. ASSUME NEW t \in Threads, OnUnexpectedExit(t) PROVE OneJob'
  <2>1. \A u \in Slots : worker'[u] # None => worker'[u] = worker[u] /\ current'[u] = current[u]
    BY <1>25 DEF OnUnexpectedExit, LoseSlot, TypeOK
  <2>2. \A u \in Threads : phase'[u] = "live" => phase[u] = "live"
    BY <1>25 DEF OnUnexpectedExit, ExitGuard, Terminated, TypeOK
  <2>3. \A u \in Slots : worker[u] # None => worker[u] \in Threads
    BY DEF TypeOK
  <2>4. UNCHANGED <<inbox, outbox, chain>>
    BY <1>25 DEF OnUnexpectedExit
  <2>5. QED
    BY <2>1, <2>2, <2>3, <2>4, QuietJob
<1>26. ASSUME NEW t \in Threads, OnIgnoredExit(t) PROVE OneJob'
  <2>1. \A u \in Slots : worker'[u] # None => worker'[u] = worker[u] /\ current'[u] = current[u]
    BY <1>26 DEF OnIgnoredExit, LoseSlot, TypeOK
  <2>2. \A u \in Threads : phase'[u] = "live" => phase[u] = "live"
    BY <1>26 DEF OnIgnoredExit, ExitGuard, Terminated, TypeOK
  <2>3. \A u \in Slots : worker[u] # None => worker[u] \in Threads
    BY DEF TypeOK
  <2>4. UNCHANGED <<inbox, outbox, chain>>
    BY <1>26 DEF OnIgnoredExit
  <2>5. QED
    BY <2>1, <2>2, <2>3, <2>4, QuietJob
<1>27. ASSUME NEW t \in Threads, TakeInit(t) PROVE OneJob'
  <2>1. PICK c \in Configs : Take(t, [type |-> "init", config |-> c])
    BY <1>27 DEF TakeInit
  <2>2. /\ UNCHANGED <<worker, current, chain, disposed>> /\ Reply(t, [type |-> "ready"])
        /\ phase' = [phase EXCEPT ![t] = "live"] /\ phase[t] = "boot"
    BY <1>27 DEF TakeInit
  <2>3. SUFFICES ASSUME NEW s \in Slots, worker'[s] # None PROVE JobOf(s, worker[s])'
    BY <2>2 DEF OneJob
  <2>4. JobOf(s, worker[s]) /\ worker[s] \in Threads
    BY <2>2, <2>3 DEF OneJob, TypeOK
  <2>5. CASE worker[s] # t
    <3>1. /\ inbox'[worker[s]] = inbox[worker[s]] /\ outbox'[worker[s]] = outbox[worker[s]]
          /\ phase'[worker[s]] = phase[worker[s]]
      <4>1. inbox'[worker[s]] = inbox[worker[s]]
        BY <2>1, <2>4, <2>5, TakeFacts
      <4>2. outbox'[worker[s]] = outbox[worker[s]]
        BY <2>2, <2>4, <2>5 DEF Reply, TypeOK
      <4>3. phase'[worker[s]] = phase[worker[s]]
        BY <2>2, <2>4, <2>5 DEF TypeOK
      <4>4. QED
        BY <4>1, <4>2, <4>3
    <3>2. QED
      BY <2>2, <2>4, <3>1 DEF JobOf, Asks, Replies
  <2>6. CASE worker[s] = t
    <3>1. current[s] = None
      BY <2>2, <2>3, <2>6 DEF Held, Closed
    <3>2. chain[t] = <<>> /\ Asks(t) = {} /\ outbox[t] = <<>>
      BY <2>2, <2>4, <2>6, <3>1, IdleThread DEF ThreadShape
    <3>3. Asks(t)' = {}
      <4>1. SUFFICES ASSUME NEW i \in Asks(t)' PROVE i + 1 \in Asks(t)
        BY <3>2
      <4>2. i \in 1 .. Len(inbox'[t]) /\ inbox'[t][i].type = "request"
        BY <4>1 DEF Asks
      <4>3. /\ Len(inbox[t]) \in Nat \ {0} /\ Len(inbox'[t]) = Len(inbox[t]) - 1
            /\ \A j \in 1 .. Len(inbox[t]) - 1 : inbox'[t][j] = inbox[t][j + 1]
        BY <2>1, TakeFacts
      <4>4. i + 1 \in 1 .. Len(inbox[t]) /\ inbox'[t][i] = inbox[t][i + 1]
        BY <4>2, <4>3
      <4>5. QED
        BY <4>2, <4>4 DEF Asks
    <3>4. Len(outbox'[t]) = 1 /\ outbox'[t][1] = [type |-> "ready"]
      <4>1. outbox'[t] = Append(outbox[t], [type |-> "ready"])
        BY <2>2 DEF Reply, TypeOK
      <4>2. outbox'[t] = <<[type |-> "ready"]>>
        BY <4>1, <3>2
      <4>3. QED
        BY <4>2
    <3>5. Replies(t)' = {}
      BY <3>4 DEF Replies
    <3>6. QED
      BY <2>2, <2>6, <3>1, <3>2, <3>3, <3>4, <3>5 DEF JobOf
  <2>7. QED
    BY <2>5, <2>6
<1>28. ASSUME NEW t \in Threads, TakeReconfigure(t) PROVE OneJob'
  BY <1>28, TakenJob DEF TakeReconfigure, TypeOK
<1>29. ASSUME NEW t \in Threads, TakeRequest(t) PROVE OneJob'
  <2>1. PICK r \in Requests : /\ Take(t, [type |-> "request", id |-> r])
                              /\ chain' = [chain EXCEPT ![t] = Append(chain[t], r)]
    BY <1>29 DEF TakeRequest
  <2>2. UNCHANGED <<worker, current, phase, outbox>>
    BY <1>29 DEF TakeRequest
  <2>3. SUFFICES ASSUME NEW s \in Slots, worker'[s] # None PROVE JobOf(s, worker[s])'
    BY <2>2 DEF OneJob
  <2>4. JobOf(s, worker[s]) /\ worker[s] \in Threads
    BY <2>2, <2>3 DEF OneJob, TypeOK
  <2>5. CASE worker[s] # t
    <3>1. inbox'[worker[s]] = inbox[worker[s]] /\ chain'[worker[s]] = chain[worker[s]]
      BY <2>1, <2>4, <2>5, TakeFacts DEF TypeOK
    <3>2. QED
      BY <2>2, <2>4, <3>1 DEF JobOf, Asks, Replies
  <2>6. CASE worker[s] = t
    <3>1. 1 \in Asks(t) /\ inbox[t][1].id = r
      BY <2>1, TakeFacts DEF Asks
    <3>2. chain[t] = <<>> /\ Replies(t) = {} /\ current[s] = r
      BY <2>4, <2>6, <3>1 DEF JobOf
    <3>3. \A i \in Asks(t)' : i + 1 \in Asks(t) /\ i \in Nat /\ i >= 1
      <4> TAKE i \in Asks(t)'
      <4>1. i \in 1 .. Len(inbox'[t]) /\ inbox'[t][i].type = "request"
        BY DEF Asks
      <4>2. i \in Nat /\ i >= 1 /\ i + 1 \in 1 .. Len(inbox[t]) /\ inbox'[t][i] = inbox[t][i + 1]
        BY <2>1, <4>1, TakeFacts
      <4>3. QED
        BY <4>1, <4>2 DEF Asks
    <3>4. Asks(t)' = {}
      BY <2>4, <2>6, <3>1, <3>3 DEF JobOf
    <3>5. chain'[t] = <<r>>
      BY <2>1, <3>2 DEF TypeOK
    <3>6. Len(chain'[t]) = 1 /\ chain'[t][1] = r /\ chain'[t] # <<>>
      BY <3>5
    <3>7. Replies(t)' = {}
      BY <2>2, <3>2 DEF Replies
    <3>8. QED
      BY <2>2, <2>4, <2>6, <3>2, <3>4, <3>6, <3>7 DEF JobOf
  <2>7. QED
    BY <2>5, <2>6
<1>30. ASSUME NEW t \in Threads, TakeCancel(t) PROVE OneJob'
  BY <1>30, TakenJob DEF TakeCancel, TypeOK
<1>31. ASSUME NEW t \in Threads, TakeShutdown(t) PROVE OneJob'
  BY <1>31, TakenJob DEF TakeShutdown, TypeOK
<1>32. ASSUME NEW t \in Threads, Report(t) PROVE OneJob'
  <2>1. UNCHANGED <<worker, current, phase, inbox, chain>> /\ chain[t] # <<>> /\ Head(chain[t]) = chain[t][1]
    BY <1>32, ChannelTypes DEF Report, TypeOK
  <2>2. chain[t][1] \in Requests /\ Reply(t, [type |-> "progress", id |-> chain[t][1]])
    BY <1>32, <2>1, ChannelTypes DEF Report
  <2>3. SUFFICES ASSUME NEW s \in Slots, worker'[s] # None PROVE JobOf(s, worker[s])'
    BY <2>1 DEF OneJob
  <2>4. JobOf(s, worker[s]) /\ worker[s] \in Threads
    BY <2>1, <2>3 DEF OneJob, TypeOK
  <2>5. CASE worker[s] # t
    <3>1. outbox'[worker[s]] = outbox[worker[s]]
      BY <2>2, <2>4, <2>5, ReplyFacts, Messages
    <3>2. QED
      BY <2>1, <2>4, <3>1 DEF JobOf, Asks, Replies
  <2>6. CASE worker[s] = t
    <3>1. chain[t][1] = current[s] /\ Asks(t) = {} /\ Replies(t) = {}
      BY <2>1, <2>4, <2>6 DEF JobOf
    <3> DEFINE m == [type |-> "progress", id |-> chain[t][1]]
    <3>2. m \in WorkerMessages /\ m.type = "progress" /\ m.id = current[s]
      BY <2>2, <3>1, Messages
    <3>3. Reply(t, m)
      BY <2>2
    <3> HIDE DEF m
    <3>4. /\ Len(outbox[t]) \in Nat
          /\ Len(outbox'[t]) = Len(outbox[t]) + 1
          /\ \A i \in 1 .. Len(outbox[t]) : outbox'[t][i] = outbox[t][i]
          /\ outbox'[t][Len(outbox[t]) + 1] = m
      BY <3>2, <3>3, ReplyFacts
    <3>5. Replies(t)' = {}
      <4>1. Replies(t)' = Replies(t) \cup {k \in {Len(outbox'[t])} : outbox'[t][k].type \notin {"ready", "progress"}}
        BY <3>4, RepliesPosted
      <4>2. outbox'[t][Len(outbox'[t])] = m
        BY <3>4
      <4>3. QED
        BY <3>1, <3>2, <4>1, <4>2
    <3>6. Asks(t)' = {}
      BY <2>1, <3>1 DEF Asks
    <3>7. \A i \in 1 .. Len(outbox'[t]) : outbox'[t][i].type # "ready" => outbox'[t][i].id = current[s]
      <4>1. \A i \in 1 .. Len(outbox[t]) : outbox[t][i].type # "ready" => outbox[t][i].id = current[s]
        BY <2>4, <2>6 DEF JobOf
      <4> TAKE i \in 1 .. Len(outbox'[t])
      <4>2. i \in 1 .. Len(outbox[t]) \/ i = Len(outbox[t]) + 1
        BY <3>4
      <4>3. QED
        BY <3>2, <3>4, <4>1, <4>2
    <3>8. QED
      <4>1. JobOf(s, t)
        BY <2>4, <2>6
      <4>2. UNCHANGED <<current, phase, chain, inbox>> /\ chain[t] # <<>>
        BY <1>32, <2>1 DEF Report
      <4>3. Len(chain'[t]) <= 1 /\ chain'[t] # <<>> /\ chain'[t][1] = current'[s]
        BY <3>1, <4>1, <4>2 DEF JobOf
      <4>4. Replies(t)' \subseteq {Len(outbox'[t])} /\ Asks(t)' = {} /\ Replies(t)' = {}
        BY <3>5, <3>6
      <4>5. \A i \in 1 .. Len(outbox'[t]) : outbox'[t][i].type # "ready" => outbox'[t][i].id = current'[s]
        BY <3>7, <4>2
      <4>6. JobOf(s, t)'
        BY <4>3, <4>4, <4>5 DEF JobOf
      <4>7. QED
        BY <2>1, <2>6, <4>6
  <2>7. QED
    BY <2>5, <2>6
<1>33. ASSUME NEW t \in Threads, Finish(t) PROVE OneJob'
  <2>1. UNCHANGED <<worker, current, phase, inbox>> /\ chain[t] # <<>>
    BY <1>33 DEF Finish
  <2>2. chain[t] \in Seq(Requests) /\ Head(chain[t]) = chain[t][1] /\ chain[t][1] \in Requests
    BY <2>1, ChannelTypes DEF TypeOK
  <2>3. PICK answer \in Outcomes(t, Head(chain[t])) : Reply(t, [type |-> answer, id |-> Head(chain[t])])
    BY <1>33 DEF Finish
  <2>4. answer \in {"done", "error", "cancelled"}
    BY DEF Outcomes
  <2> DEFINE m == [type |-> answer, id |-> chain[t][1]]
  <2>5. m \in WorkerMessages /\ m.type \notin {"ready", "progress"} /\ m.id = chain[t][1] /\ Reply(t, m)
    BY <2>2, <2>3, <2>4, Messages
  <2> HIDE DEF m
  <2>6. /\ Len(outbox[t]) \in Nat
        /\ Len(outbox'[t]) = Len(outbox[t]) + 1
        /\ \A i \in 1 .. Len(outbox[t]) : outbox'[t][i] = outbox[t][i]
        /\ outbox'[t][Len(outbox[t]) + 1] = m
        /\ \A u \in Threads \ {t} : outbox'[u] = outbox[u]
    BY <2>5, ReplyFacts
  <2>7. chain'[t] = Tail(chain[t]) /\ \A u \in Threads \ {t} : chain'[u] = chain[u]
    BY <1>33 DEF Finish, TypeOK
  <2>8. SUFFICES ASSUME NEW s \in Slots, worker'[s] # None PROVE JobOf(s, worker[s])'
    BY <2>1 DEF OneJob
  <2>9. JobOf(s, worker[s]) /\ worker[s] \in Threads
    BY <2>1, <2>8 DEF OneJob, TypeOK
  <2>10. CASE worker[s] # t
    <3>1. outbox'[worker[s]] = outbox[worker[s]] /\ chain'[worker[s]] = chain[worker[s]]
      BY <2>6, <2>7, <2>9, <2>10
    <3>2. Asks(worker[s])' = Asks(worker[s]) /\ Replies(worker[s])' = Replies(worker[s])
      BY <2>1, <3>1 DEF Asks, Replies
    <3>3. QED
      BY <2>1, <2>9, <3>1, <3>2 DEF JobOf
  <2>11. CASE worker[s] = t
    <3>1. chain[t][1] = current[s] /\ Asks(t) = {} /\ Replies(t) = {} /\ Len(chain[t]) <= 1
      BY <2>1, <2>9, <2>11 DEF JobOf
    <3>2. Len(chain'[t]) = 0 /\ chain'[t] = <<>>
      <4>1. Len(Tail(chain[t])) = Len(chain[t]) - 1 /\ Tail(chain[t]) \in Seq(Requests) /\ Len(chain[t]) \in Nat \ {0}
        BY <2>1, <2>2, TailFacts
      <4>2. Len(chain[t]) = 1
        <5>1. Len(chain[t]) <= 1 /\ Len(chain[t]) \in Nat /\ Len(chain[t]) # 0
          BY <3>1, <4>1
        <5> DEFINE n == Len(chain[t])
        <5>2. n \in Nat /\ n <= 1 /\ n # 0
          BY <5>1
        <5> HIDE DEF n
        <5>3. n = 1
          BY <5>2
        <5>4. QED
          BY <5>3 DEF n
      <4>3. Len(chain'[t]) = 0 /\ chain'[t] \in Seq(Requests)
        BY <2>7, <4>1, <4>2
      <4>4. QED
        BY <4>3, EmptySeq
    <3>3. Replies(t)' = {Len(outbox'[t])}
      <4>1. Replies(t)' = Replies(t) \cup {k \in {Len(outbox'[t])} : outbox'[t][k].type \notin {"ready", "progress"}}
        BY <2>6, RepliesPosted
      <4>2. outbox'[t][Len(outbox'[t])] = m
        BY <2>6
      <4>3. QED
        BY <2>5, <3>1, <4>1, <4>2
    <3>4. Asks(t)' = {}
      BY <2>1, <3>1 DEF Asks
    <3>5. \A i \in 1 .. Len(outbox'[t]) : outbox'[t][i].type # "ready" => outbox'[t][i].id = current[s]
      <4>1. \A i \in 1 .. Len(outbox[t]) : outbox[t][i].type # "ready" => outbox[t][i].id = current[s]
        BY <2>9, <2>11 DEF JobOf
      <4>2. m.id = current[s]
        BY <2>5, <3>1
      <4>3. \A i \in 1 .. Len(outbox'[t]) : i \in 1 .. Len(outbox[t]) \/ outbox'[t][i] = m
        BY <2>6
      <4>4. QED
        BY <2>6, <4>1, <4>2, <4>3
    <3>6. QED
      BY <2>1, <2>11, <3>2, <3>3, <3>4, <3>5 DEF JobOf
  <2>12. QED
    BY <2>10, <2>11
<1>34. ASSUME NEW t \in Threads, Crash(t) PROVE OneJob'
  <2>1. \A u \in Slots : worker'[u] # None => worker'[u] = worker[u] /\ current'[u] = current[u]
    BY <1>34 DEF Crash, LoseSlot, TypeOK
  <2>2. \A u \in Threads : phase'[u] = "live" => phase[u] = "live"
    BY <1>34 DEF Crash, ExitGuard, Terminated, TypeOK
  <2>3. \A u \in Slots : worker[u] # None => worker[u] \in Threads
    BY DEF TypeOK
  <2>4. UNCHANGED <<inbox, outbox, chain>>
    BY <1>34 DEF Crash
  <2>5. QED
    BY <2>1, <2>2, <2>3, <2>4, QuietJob
<1>35. CASE UNCHANGED vars
  BY <1>35, QuietJob DEF vars
<1> QED
  BY <1>1, <1>2, <1>3, <1>4, <1>5, <1>6, <1>7, <1>8, <1>9, <1>10, <1>11, <1>12, <1>13, <1>14,
     <1>15, <1>16, <1>17, <1>18, <1>19, <1>20, <1>21, <1>22, <1>23, <1>24, <1>25, <1>26,
     <1>27, <1>28, <1>29, <1>30, <1>31, <1>32, <1>33, <1>34, <1>35
     DEF Next, Callers, Drain, Timers, Listen, Handler, Finished

-----------------------------------------------------------------------------
(* Cancellations that were asked for                                       *)

\* Posting, to any threads, a message that is no cancel or one asked for.
LEMMA PostedTrail ==
  ASSUME TypeOK, CancelTrail, NEW T, NEW m \in HostMessages, inbox' = Posted(T, m),
         m.type = "cancel" => m.id \in cancelReq', cancelReq \subseteq cancelReq',
         UNCHANGED <<outbox, cancelled>>
  PROVE  CancelTrail'
<1> SUFFICES ASSUME NEW t \in Threads
             PROVE  \A i \in 1 .. Len(inbox'[t]) : inbox'[t][i].type = "cancel" => inbox'[t][i].id \in cancelReq'
  BY DEF CancelTrail
<1>1. \A i \in 1 .. Len(inbox[t]) : inbox[t][i].type = "cancel" => inbox[t][i].id \in cancelReq'
  BY DEF CancelTrail
<1>2. CASE t \in T /\ Alive(t)
  <2>1. /\ Len(inbox[t]) \in Nat /\ Len(inbox'[t]) = Len(inbox[t]) + 1
        /\ \A i \in 1 .. Len(inbox[t]) : inbox'[t][i] = inbox[t][i]
        /\ inbox'[t][Len(inbox[t]) + 1] = m
    BY <1>2, PostedFacts
  <2>2. \A i \in 1 .. Len(inbox'[t]) : i \in 1 .. Len(inbox[t]) \/ inbox'[t][i] = m
    BY <2>1
  <2>3. QED
    BY <1>1, <2>1, <2>2
<1>3. CASE ~(t \in T /\ Alive(t))
  BY <1>1, <1>3, PostedFacts
<1>4. QED
  BY <1>2, <1>3

\* Taking a message, whatever the thread does about its own set.
LEMMA TakenTrail ==
  ASSUME TypeOK, CancelTrail, NEW t \in Threads, NEW m, Take(t, m), UNCHANGED cancelReq,
         \A u \in Threads : cancelled'[u] \subseteq cancelReq,
         \A u \in Threads : \A i \in 1 .. Len(outbox'[u]) :
            outbox'[u][i].type = "cancelled" => outbox'[u][i].id \in cancelReq
  PROVE  CancelTrail'
<1> SUFFICES ASSUME NEW u \in Threads
             PROVE  \A i \in 1 .. Len(inbox'[u]) : inbox'[u][i].type = "cancel" => inbox'[u][i].id \in cancelReq
  BY DEF CancelTrail
<1>1. CASE u = t
  BY <1>1, TakeFacts DEF CancelTrail
<1>2. CASE u # t
  BY <1>2, TakeFacts DEF CancelTrail
<1>3. QED
  BY <1>1, <1>2

\* Handling a message.
LEMMA ReceivedTrail ==
  ASSUME TypeOK, CancelTrail, NEW t \in Threads, NEW m, Receive(t, m), UNCHANGED <<cancelReq, inbox, cancelled>>
  PROVE  CancelTrail'
<1> SUFFICES ASSUME NEW u \in Threads
             PROVE  \A i \in 1 .. Len(outbox'[u]) : outbox'[u][i].type = "cancelled" => outbox'[u][i].id \in cancelReq
  BY DEF CancelTrail
<1>1. CASE u = t
  BY <1>1, ReceiveFacts DEF CancelTrail
<1>2. CASE u # t
  BY <1>2, ReceiveFacts DEF CancelTrail
<1>3. QED
  BY <1>1, <1>2

\* Posting to the host a message that is no "cancelled" or is about a request
\* the thread has been told of.
LEMMA ReplyTrail ==
  ASSUME TypeOK, CancelTrail, NEW t \in Threads, NEW m \in WorkerMessages, Reply(t, m),
         m.type = "cancelled" => m.id \in cancelReq
  PROVE  \A u \in Threads : \A i \in 1 .. Len(outbox'[u]) :
            outbox'[u][i].type = "cancelled" => outbox'[u][i].id \in cancelReq
<1> SUFFICES ASSUME NEW u \in Threads
             PROVE  \A i \in 1 .. Len(outbox'[u]) : outbox'[u][i].type = "cancelled" => outbox'[u][i].id \in cancelReq
  OBVIOUS
<1>1. CASE u = t
  <2>1. /\ Len(outbox[t]) \in Nat /\ Len(outbox'[t]) = Len(outbox[t]) + 1
        /\ \A i \in 1 .. Len(outbox[t]) : outbox'[t][i] = outbox[t][i]
        /\ outbox'[t][Len(outbox[t]) + 1] = m
    BY ReplyFacts
  <2>2. \A i \in 1 .. Len(outbox'[t]) : i \in 1 .. Len(outbox[t]) \/ outbox'[t][i] = m
    BY <2>1
  <2>3. QED
    BY <1>1, <2>1, <2>2 DEF CancelTrail
<1>2. CASE u # t
  BY <1>2, ReplyFacts DEF CancelTrail
<1>3. QED
  BY <1>1, <1>2

\* A slot that gets a request.
LEMMA AssignTrail ==
  ASSUME TypeOK, CancelTrail, NEW s \in Slots, queue # <<>>, Assign(s), UNCHANGED <<cancelReq, outbox, cancelled>>
  PROVE  CancelTrail'
<1>1. Head(queue) \in Requests
  BY QueueParts
<1>2. /\ [type |-> "request", id |-> Head(queue)] \in HostMessages
      /\ inbox' = Posted({worker[s]}, [type |-> "request", id |-> Head(queue)])
  BY <1>1, Messages DEF Assign
<1>3. QED
  BY <1>2, PostedTrail

\* A fresh thread is told nothing but its configuration.
LEMMA SpawnTrail ==
  ASSUME TypeOK, CancelTrail, NEW s \in Slots, Spawn(s)
  PROVE  CancelTrail'
<1>1. PICK t \in Threads : Spawn(s)!(t)
  BY DEF Spawn
<1>2. /\ cancelReq' = cancelReq /\ outbox' = outbox /\ cancelled' = cancelled
      /\ \A u \in Threads \ {t} : inbox'[u] = inbox[u]
      /\ inbox'[t] = <<[type |-> "init", config |-> config]>>
  BY <1>1 DEF TypeOK, callerVars, workVars
<1>3. Len(inbox'[t]) = 1 /\ inbox'[t][1].type = "init"
  BY <1>2
<1>4. \A u \in Threads : \A i \in 1 .. Len(inbox'[u]) :
        inbox'[u][i].type = "cancel" => inbox'[u][i].id \in cancelReq
  BY <1>2, <1>3 DEF CancelTrail
<1>5. QED
  BY <1>2, <1>4 DEF CancelTrail

\* No step speaks of a cancellation nobody asked for.
LEMMA CancelTrailStep ==
  TypeOK /\ AwaitInv /\ CancelTrail /\ [Next]_vars => CancelTrail'
<1> SUFFICES ASSUME TypeOK, AwaitInv, CancelTrail, [Next]_vars
             PROVE  CancelTrail'
  OBVIOUS
<1> USE DEF slotVars, drainVars, callerVars, hostVars, envVars, workVars, threadVars
<1>1. ASSUME NEW r \in Requests, RunCancelled(r) PROVE CancelTrail'
  BY <1>1 DEF RunCancelled, CancelTrail
<1>2. ASSUME NEW r \in Requests, Run(r) PROVE CancelTrail'
  BY <1>2 DEF Run, CancelTrail
<1>3. ASSUME NEW r \in Requests, CancelUnheard(r) PROVE CancelTrail'
  BY <1>3 DEF CancelUnheard, CancelGuard, CancelTrail
<1>4. ASSUME NEW r \in Requests, CancelQueued(r) PROVE CancelTrail'
  BY <1>4 DEF CancelQueued, CancelGuard, CancelTrail
<1>5. ASSUME NEW r \in Requests, CancelAssigned(r) PROVE CancelTrail'
  <2>1. PICK s \in 1 .. open : inbox' = Posted({worker[s]}, [type |-> "cancel", id |-> r])
    BY <1>5 DEF CancelAssigned
  <2>2. r \in cancelReq' /\ cancelReq \subseteq cancelReq' /\ UNCHANGED <<outbox, cancelled>>
    BY <1>5 DEF CancelAssigned, CancelGuard
  <2>3. QED
    BY <2>1, <2>2, Messages, PostedTrail
<1>6. CASE Reconfigure
  <2>1. config' \in Configs
    BY <1>6 DEF TypeOK, Reconfigure, Configs
  <2>2. QED
    BY <1>6, <2>1, Messages, PostedTrail DEF Reconfigure
<1>7. CASE Dispose
  BY <1>7, Messages, PostedTrail DEF Dispose
<1>8. CASE DrainEmpty
  BY <1>8 DEF DrainEmpty, CancelTrail
<1>9. CASE DrainDropCancelled
  BY <1>9 DEF DrainDropCancelled, CancelTrail
<1>10. CASE DrainAssign
  BY <1>10, AssignTrail DEF DrainAssign, Serving, First, IdleReady
<1>11. CASE DrainRespawn
  BY <1>11, SpawnTrail DEF DrainRespawn, First, Dead
<1>12. CASE DrainGrow
  <2>1. open + 1 \in Slots /\ Spawn(open + 1)
    BY <1>12 DEF TypeOK, DrainGrow
  <2>2. QED
    BY <2>1, SpawnTrail
<1>13. CASE DrainAllBusy
  BY <1>13 DEF DrainAllBusy, CancelTrail
<1>14. CASE ResumeEmpty
  BY <1>14 DEF ResumeEmpty, CancelTrail
<1>15. CASE ResumeAssign
  <2>1. waitSlot \in Slots
    BY <1>15, AwaitSlot DEF ResumeAssign, AwaitInv
  <2>2. QED
    BY <1>15, <2>1, AssignTrail DEF ResumeAssign
<1>16. CASE RespawnFailed
  BY <1>16 DEF RespawnFailed, SpawnFailed, CancelTrail
<1>17. CASE GrowFailed
  BY <1>17 DEF GrowFailed, SpawnFailed, CancelTrail
<1>18. CASE ReadyTimeout
  BY <1>18 DEF ReadyTimeout, CancelTrail
<1>19. ASSUME NEW t \in Threads, TerminateDoomed(t) PROVE CancelTrail'
  BY <1>19 DEF TerminateDoomed, CancelTrail
<1>20. ASSUME NEW t \in Threads, OnReady(t) PROVE CancelTrail'
  BY <1>20, ReceivedTrail DEF OnReady
<1>21. ASSUME NEW t \in Threads, OnProgress(t) PROVE CancelTrail'
  BY <1>21, ReceivedTrail DEF OnProgress
<1>22. ASSUME NEW t \in Threads, OnReply(t) PROVE CancelTrail'
  BY <1>22, ReceivedTrail DEF OnReply
<1>23. ASSUME NEW t \in Threads, OnStaleReply(t) PROVE CancelTrail'
  BY <1>23, ReceivedTrail DEF OnStaleReply
<1>24. ASSUME NEW t \in Threads, OnError(t) PROVE CancelTrail'
  BY <1>24 DEF OnError, CancelTrail
<1>25. ASSUME NEW t \in Threads, OnUnexpectedExit(t) PROVE CancelTrail'
  BY <1>25 DEF OnUnexpectedExit, ExitGuard, CancelTrail
<1>26. ASSUME NEW t \in Threads, OnIgnoredExit(t) PROVE CancelTrail'
  BY <1>26 DEF OnIgnoredExit, ExitGuard, CancelTrail
<1>27. ASSUME NEW t \in Threads, TakeInit(t) PROVE CancelTrail'
  <2>1. PICK c \in Configs : Take(t, [type |-> "init", config |-> c])
    BY <1>27 DEF TakeInit
  <2>2. Reply(t, [type |-> "ready"]) /\ UNCHANGED <<cancelReq, cancelled>>
    BY <1>27 DEF TakeInit
  <2>3. \A u \in Threads : \A i \in 1 .. Len(outbox'[u]) :
          outbox'[u][i].type = "cancelled" => outbox'[u][i].id \in cancelReq
    BY <2>2, ReplyTrail, Messages
  <2>4. QED
    BY <2>1, <2>2, <2>3, TakenTrail DEF CancelTrail
<1>28. ASSUME NEW t \in Threads, TakeReconfigure(t) PROVE CancelTrail'
  BY <1>28, TakenTrail DEF TakeReconfigure, CancelTrail
<1>29. ASSUME NEW t \in Threads, TakeRequest(t) PROVE CancelTrail'
  BY <1>29, TakenTrail DEF TakeRequest, CancelTrail
<1>30. ASSUME NEW t \in Threads, TakeCancel(t) PROVE CancelTrail'
  <2>1. PICK r \in Requests : /\ Take(t, [type |-> "cancel", id |-> r])
                              /\ cancelled' = [cancelled EXCEPT ![t] = cancelled[t] \cup {r}]
    BY <1>30 DEF TakeCancel
  <2>2. UNCHANGED <<cancelReq, outbox>>
    BY <1>30 DEF TakeCancel
  <2>3. r \in cancelReq
    BY <2>1, TakeFacts DEF CancelTrail
  <2>4. \A u \in Threads : cancelled'[u] \subseteq cancelReq
    BY <2>1, <2>3 DEF CancelTrail, TypeOK
  <2>5. QED
    BY <2>1, <2>2, <2>4, TakenTrail DEF CancelTrail
<1>31. ASSUME NEW t \in Threads, TakeShutdown(t) PROVE CancelTrail'
  BY <1>31, TakenTrail DEF TakeShutdown, CancelTrail
<1>32. ASSUME NEW t \in Threads, Report(t) PROVE CancelTrail'
  <2>1. chain[t] # <<>> /\ chain[t][1] \in Requests /\ Head(chain[t]) = chain[t][1]
    BY <1>32, ChannelTypes DEF Report, TypeOK
  <2>2. Reply(t, [type |-> "progress", id |-> chain[t][1]]) /\ UNCHANGED <<cancelReq, inbox, cancelled>>
    BY <1>32, <2>1 DEF Report
  <2>3. QED
    BY <2>1, <2>2, ReplyTrail, Messages DEF CancelTrail
<1>33. ASSUME NEW t \in Threads, Finish(t) PROVE CancelTrail'
  <2>1. chain[t] # <<>> /\ chain[t][1] \in Requests /\ Head(chain[t]) = chain[t][1]
    BY <1>33, ChannelTypes DEF Finish, TypeOK
  <2>2. PICK answer \in Outcomes(t, chain[t][1]) : Reply(t, [type |-> answer, id |-> chain[t][1]])
    BY <1>33, <2>1 DEF Finish
  <2>3. /\ answer \in {"done", "error", "cancelled"}
        /\ answer = "cancelled" => chain[t][1] \in cancelReq
    BY DEF Outcomes, CancelTrail
  <2>4. cancelReq' = cancelReq /\ inbox' = inbox
    BY <1>33 DEF Finish
  <2>5. \A u \in Threads : cancelled'[u] \subseteq cancelled[u]
    BY <1>33, <2>1 DEF Finish, TypeOK
  <2>6. \A u \in Threads : \A i \in 1 .. Len(outbox'[u]) :
          outbox'[u][i].type = "cancelled" => outbox'[u][i].id \in cancelReq
    BY <2>1, <2>2, <2>3, ReplyTrail, Messages
  <2>7. QED
    BY <2>4, <2>5, <2>6 DEF CancelTrail
<1>34. ASSUME NEW t \in Threads, Crash(t) PROVE CancelTrail'
  BY <1>34 DEF Crash, CancelTrail
<1>35. CASE UNCHANGED vars
  BY <1>35 DEF vars, CancelTrail
<1> QED
  BY <1>1, <1>2, <1>3, <1>4, <1>5, <1>6, <1>7, <1>8, <1>9, <1>10, <1>11, <1>12, <1>13, <1>14,
     <1>15, <1>16, <1>17, <1>18, <1>19, <1>20, <1>21, <1>22, <1>23, <1>24, <1>25, <1>26,
     <1>27, <1>28, <1>29, <1>30, <1>31, <1>32, <1>33, <1>34, <1>35
     DEF Next, Callers, Drain, Timers, Listen, Handler, Finished

\* Nor does a caller learn of one.
LEMMA CancelledStep ==
  TypeOK /\ AwaitInv /\ CancelTrail /\ CancelledOnRequest /\ [Next]_vars =>
  CancelledOnRequest'
<1> SUFFICES ASSUME TypeOK, AwaitInv, CancelTrail, CancelledOnRequest, [Next]_vars
             PROVE  CancelledOnRequest'
  OBVIOUS
<1> USE DEF slotVars, drainVars, callerVars, hostVars, envVars, workVars, threadVars
<1>1. ASSUME NEW r \in Requests, RunCancelled(r) PROVE CancelledOnRequest'
  BY <1>1 DEF RunCancelled, RunGuard, CancelledOnRequest, TypeOK
<1>2. ASSUME NEW r \in Requests, Run(r) PROVE CancelledOnRequest'
  BY <1>2 DEF Run, CancelledOnRequest, TypeOK
<1>3. ASSUME NEW r \in Requests, CancelUnheard(r) PROVE CancelledOnRequest'
  BY <1>3 DEF CancelUnheard, CancelGuard, CancelledOnRequest, TypeOK
<1>4. ASSUME NEW r \in Requests, CancelQueued(r) PROVE CancelledOnRequest'
  BY <1>4 DEF CancelQueued, CancelGuard, CancelledOnRequest, TypeOK
<1>5. ASSUME NEW r \in Requests, CancelAssigned(r) PROVE CancelledOnRequest'
  BY <1>5 DEF CancelAssigned, CancelGuard, CancelledOnRequest, TypeOK
<1>6. CASE Reconfigure
  BY <1>6 DEF Reconfigure, CancelledOnRequest
<1>7. CASE Dispose
  BY <1>7 DEF Dispose, CancelledOnRequest, TypeOK
<1>8. CASE DrainEmpty
  BY <1>8 DEF DrainEmpty, CancelledOnRequest
<1>9. CASE DrainDropCancelled
  BY <1>9, QueueParts DEF DrainDropCancelled, CancelledOnRequest, TypeOK
<1>10. CASE DrainAssign
  BY <1>10 DEF DrainAssign, Assign, CancelledOnRequest
<1>11. CASE DrainRespawn
  BY <1>11, SpawnType DEF DrainRespawn, First, Dead, CancelledOnRequest
<1>12. CASE DrainGrow
  <2>1. open + 1 \in Slots /\ Spawn(open + 1)
    BY <1>12 DEF TypeOK, DrainGrow
  <2>2. QED
    BY <2>1, SpawnType DEF CancelledOnRequest
<1>13. CASE DrainAllBusy
  BY <1>13 DEF DrainAllBusy, CancelledOnRequest
<1>14. CASE ResumeEmpty
  BY <1>14 DEF ResumeEmpty, CancelledOnRequest
<1>15. CASE ResumeAssign
  BY <1>15 DEF ResumeAssign, Assign, CancelledOnRequest
<1>16. CASE RespawnFailed
  <2>1. \A r \in Requests : status'[r] \in {status[r], "spawnFailed"}
    BY <1>16, QueueParts DEF RespawnFailed, SpawnFailed, RejectHead, TypeOK
  <2>2. UNCHANGED <<cancelReq, disposed>>
    BY <1>16 DEF RespawnFailed, SpawnFailed
  <2>3. QED
    BY <2>1, <2>2 DEF CancelledOnRequest
<1>17. CASE GrowFailed
  <2>1. \A r \in Requests : status'[r] \in {status[r], "spawnFailed"}
    BY <1>17, QueueParts DEF GrowFailed, SpawnFailed, RejectHead, TypeOK
  <2>2. UNCHANGED <<cancelReq, disposed>>
    BY <1>17 DEF GrowFailed, SpawnFailed
  <2>3. QED
    BY <2>1, <2>2 DEF CancelledOnRequest
<1>18. CASE ReadyTimeout
  BY <1>18 DEF ReadyTimeout, CancelledOnRequest
<1>19. ASSUME NEW t \in Threads, TerminateDoomed(t) PROVE CancelledOnRequest'
  BY <1>19 DEF TerminateDoomed, CancelledOnRequest
<1>20. ASSUME NEW t \in Threads, OnReady(t) PROVE CancelledOnRequest'
  BY <1>20 DEF OnReady, CancelledOnRequest
<1>21. ASSUME NEW t \in Threads, OnProgress(t) PROVE CancelledOnRequest'
  BY <1>21 DEF OnProgress, CancelledOnRequest
<1>22. ASSUME NEW t \in Threads, OnReply(t) PROVE CancelledOnRequest'
  <2>1. PICK r \in Requests, answer \in {"done", "error", "cancelled"} :
          Receive(t, [type |-> answer, id |-> r]) /\ status' = [status EXCEPT ![r] = answer]
    BY <1>22 DEF OnReply
  <2>2. answer = "cancelled" => r \in cancelReq
    BY <2>1, ReceiveFacts DEF CancelTrail
  <2>3. UNCHANGED <<cancelReq, disposed>>
    BY <1>22 DEF OnReply
  <2>4. \A q \in Requests : status'[q] = IF q = r THEN answer ELSE status[q]
    BY <2>1 DEF TypeOK
  <2>5. QED
    BY <2>2, <2>3, <2>4 DEF CancelledOnRequest
<1>23. ASSUME NEW t \in Threads, OnStaleReply(t) PROVE CancelledOnRequest'
  BY <1>23 DEF OnStaleReply, CancelledOnRequest
<1>24. ASSUME NEW t \in Threads, OnError(t) PROVE CancelledOnRequest'
  <2>1. UNCHANGED <<cancelReq, disposed>> /\ \A r \in Requests : status'[r] \in {status[r], "crashed"}
    BY <1>24 DEF OnError, LoseSlot, TypeOK
  <2>2. QED
    BY <2>1 DEF CancelledOnRequest
<1>25. ASSUME NEW t \in Threads, OnUnexpectedExit(t) PROVE CancelledOnRequest'
  <2>1. UNCHANGED <<cancelReq, disposed>> /\ \A r \in Requests : status'[r] \in {status[r], "crashed"}
    BY <1>25 DEF OnUnexpectedExit, LoseSlot, TypeOK
  <2>2. QED
    BY <2>1 DEF CancelledOnRequest
<1>26. ASSUME NEW t \in Threads, OnIgnoredExit(t) PROVE CancelledOnRequest'
  BY <1>26 DEF OnIgnoredExit, CancelledOnRequest
<1>27. ASSUME NEW t \in Threads, TakeInit(t) PROVE CancelledOnRequest'
  BY <1>27 DEF TakeInit, CancelledOnRequest
<1>28. ASSUME NEW t \in Threads, TakeReconfigure(t) PROVE CancelledOnRequest'
  BY <1>28 DEF TakeReconfigure, CancelledOnRequest
<1>29. ASSUME NEW t \in Threads, TakeRequest(t) PROVE CancelledOnRequest'
  BY <1>29 DEF TakeRequest, CancelledOnRequest
<1>30. ASSUME NEW t \in Threads, TakeCancel(t) PROVE CancelledOnRequest'
  BY <1>30 DEF TakeCancel, CancelledOnRequest
<1>31. ASSUME NEW t \in Threads, TakeShutdown(t) PROVE CancelledOnRequest'
  BY <1>31 DEF TakeShutdown, CancelledOnRequest
<1>32. ASSUME NEW t \in Threads, Report(t) PROVE CancelledOnRequest'
  BY <1>32 DEF Report, CancelledOnRequest
<1>33. ASSUME NEW t \in Threads, Finish(t) PROVE CancelledOnRequest'
  BY <1>33 DEF Finish, CancelledOnRequest
<1>34. ASSUME NEW t \in Threads, Crash(t) PROVE CancelledOnRequest'
  BY <1>34 DEF Crash, CancelledOnRequest
<1>35. CASE UNCHANGED vars
  BY <1>35 DEF vars, CancelledOnRequest
<1> QED
  BY <1>1, <1>2, <1>3, <1>4, <1>5, <1>6, <1>7, <1>8, <1>9, <1>10, <1>11, <1>12, <1>13, <1>14,
     <1>15, <1>16, <1>17, <1>18, <1>19, <1>20, <1>21, <1>22, <1>23, <1>24, <1>25, <1>26,
     <1>27, <1>28, <1>29, <1>30, <1>31, <1>32, <1>33, <1>34, <1>35
     DEF Next, Callers, Drain, Timers, Listen, Handler, Finished

-----------------------------------------------------------------------------
(* Cancellations reach the threads                                         *)

\* Queues that only lose requests.
LEMMA QueueShrinks ==
  ASSUME QueuedPolled, \A q \in Requests : Queued(q)' => Queued(q), UNCHANGED cancelReq
  PROVE  QueuedPolled'
  BY DEF QueuedPolled

\* No step leaves a cancelled request with a listener in the queue.
LEMMA QueuedPolledStep ==
  TypeOK /\ AwaitInv /\ RequestConserved /\ QueuedPolled /\ [Next]_vars => QueuedPolled'
<1> SUFFICES ASSUME TypeOK, AwaitInv, RequestConserved, QueuedPolled, [Next]_vars
             PROVE  QueuedPolled'
  OBVIOUS
<1> USE DEF slotVars, drainVars, callerVars, hostVars, envVars, workVars, threadVars
<1>1. ASSUME NEW r \in Requests, RunCancelled(r) PROVE QueuedPolled'
  BY <1>1, QueueShrinks DEF RunCancelled, Queued
<1>2. ASSUME NEW r \in Requests, Run(r) PROVE QueuedPolled'
  <2>1. \A q \in Requests : Queued(q)' => Queued(q) \/ q = r
    BY <1>2, QueueAppend DEF Run, RunGuard, RequestConserved
  <2>2. QED
    BY <1>2, <2>1 DEF Run, QueuedPolled
<1>3. ASSUME NEW r \in Requests, CancelUnheard(r) PROVE QueuedPolled'
  <2>1. r \in Polled \/ ~Queued(r)
    BY <1>3 DEF CancelUnheard, RequestConserved
  <2>2. queue' = queue /\ cancelReq' = cancelReq \cup {r}
    BY <1>3 DEF CancelUnheard, CancelGuard
  <2>3. QED
    BY <2>1, <2>2 DEF QueuedPolled, Queued
<1>4. ASSUME NEW r \in Requests, CancelQueued(r) PROVE QueuedPolled'
  <2>1. PICK i \in 1 .. Len(queue) : queue[i] = r /\ queue' = RemoveAt(queue, i)
    BY <1>4 DEF CancelQueued
  <2>2. \A q \in Requests : Queued(q)' <=> Queued(q) /\ q # r
    BY <2>1, QueueRemove DEF RequestConserved
  <2>3. cancelReq' = cancelReq \cup {r}
    BY <1>4 DEF CancelQueued, CancelGuard
  <2>4. QED
    BY <2>2, <2>3 DEF QueuedPolled
<1>5. ASSUME NEW r \in Requests, CancelAssigned(r) PROVE QueuedPolled'
  <2>1. ~Queued(r)
    BY <1>5 DEF CancelAssigned, RequestConserved, Assigned, TypeOK
  <2>2. queue' = queue /\ cancelReq' = cancelReq \cup {r}
    BY <1>5 DEF CancelAssigned, CancelGuard
  <2>3. QED
    BY <2>1, <2>2 DEF QueuedPolled, Queued
<1>6. CASE Reconfigure
  BY <1>6, QueueShrinks DEF Reconfigure, Queued
<1>7. CASE Dispose
  BY <1>7 DEF Dispose, QueuedPolled, Queued
<1>8. CASE DrainEmpty
  BY <1>8, QueueShrinks DEF DrainEmpty, Queued
<1>9. CASE DrainDropCancelled
  BY <1>9, QueueShift, QueueShrinks DEF DrainDropCancelled, RequestConserved
<1>10. CASE DrainAssign
  BY <1>10, QueueShift, QueueShrinks DEF DrainAssign, Serving, Assign, RequestConserved
<1>11. CASE DrainRespawn
  <2>1. queue' = queue /\ cancelReq' = cancelReq
    BY <1>11, SpawnType DEF DrainRespawn, First, Dead
  <2>2. QED
    BY <2>1, QueueShrinks DEF Queued
<1>12. CASE DrainGrow
  <2>1. open + 1 \in Slots /\ Spawn(open + 1)
    BY <1>12 DEF TypeOK, DrainGrow
  <2>2. queue' = queue /\ cancelReq' = cancelReq
    BY <2>1, SpawnType
  <2>3. QED
    BY <2>2, QueueShrinks DEF Queued
<1>13. CASE DrainAllBusy
  BY <1>13, QueueShrinks DEF DrainAllBusy, Queued
<1>14. CASE ResumeEmpty
  BY <1>14, QueueShrinks DEF ResumeEmpty, Queued
<1>15. CASE ResumeAssign
  BY <1>15, QueueShift, QueueShrinks DEF ResumeAssign, Assign, RequestConserved
<1>16. CASE RespawnFailed
  <2>1. cancelReq' = cancelReq /\ (queue' = queue \/ (queue # <<>> /\ queue' = Tail(queue)))
    BY <1>16 DEF RespawnFailed, SpawnFailed, RejectHead
  <2>2. \A q \in Requests : Queued(q)' => Queued(q)
    BY <2>1, QueueShift DEF RequestConserved, Queued
  <2>3. QED
    BY <2>1, <2>2, QueueShrinks
<1>17. CASE GrowFailed
  <2>1. cancelReq' = cancelReq /\ (queue' = queue \/ (queue # <<>> /\ queue' = Tail(queue)))
    BY <1>17 DEF GrowFailed, SpawnFailed, RejectHead
  <2>2. \A q \in Requests : Queued(q)' => Queued(q)
    BY <2>1, QueueShift DEF RequestConserved, Queued
  <2>3. QED
    BY <2>1, <2>2, QueueShrinks
<1>18. CASE ReadyTimeout
  BY <1>18, QueueShrinks DEF ReadyTimeout, Queued
<1>19. ASSUME NEW t \in Threads, TerminateDoomed(t) PROVE QueuedPolled'
  BY <1>19, QueueShrinks DEF TerminateDoomed, Queued
<1>20. ASSUME NEW t \in Threads, OnReady(t) PROVE QueuedPolled'
  BY <1>20, QueueShrinks DEF OnReady, Queued
<1>21. ASSUME NEW t \in Threads, OnProgress(t) PROVE QueuedPolled'
  BY <1>21, QueueShrinks DEF OnProgress, Queued
<1>22. ASSUME NEW t \in Threads, OnReply(t) PROVE QueuedPolled'
  BY <1>22, QueueShrinks DEF OnReply, Queued
<1>23. ASSUME NEW t \in Threads, OnStaleReply(t) PROVE QueuedPolled'
  BY <1>23, QueueShrinks DEF OnStaleReply, Queued
<1>24. ASSUME NEW t \in Threads, OnError(t) PROVE QueuedPolled'
  BY <1>24, QueueShrinks DEF OnError, Queued
<1>25. ASSUME NEW t \in Threads, OnUnexpectedExit(t) PROVE QueuedPolled'
  BY <1>25, QueueShrinks DEF OnUnexpectedExit, Queued
<1>26. ASSUME NEW t \in Threads, OnIgnoredExit(t) PROVE QueuedPolled'
  BY <1>26, QueueShrinks DEF OnIgnoredExit, Queued
<1>27. ASSUME NEW t \in Threads, TakeInit(t) PROVE QueuedPolled'
  BY <1>27, QueueShrinks DEF TakeInit, Queued
<1>28. ASSUME NEW t \in Threads, TakeReconfigure(t) PROVE QueuedPolled'
  BY <1>28, QueueShrinks DEF TakeReconfigure, Queued
<1>29. ASSUME NEW t \in Threads, TakeRequest(t) PROVE QueuedPolled'
  BY <1>29, QueueShrinks DEF TakeRequest, Queued
<1>30. ASSUME NEW t \in Threads, TakeCancel(t) PROVE QueuedPolled'
  BY <1>30, QueueShrinks DEF TakeCancel, Queued
<1>31. ASSUME NEW t \in Threads, TakeShutdown(t) PROVE QueuedPolled'
  BY <1>31, QueueShrinks DEF TakeShutdown, Queued
<1>32. ASSUME NEW t \in Threads, Report(t) PROVE QueuedPolled'
  BY <1>32, QueueShrinks DEF Report, Queued
<1>33. ASSUME NEW t \in Threads, Finish(t) PROVE QueuedPolled'
  BY <1>33, QueueShrinks DEF Finish, Queued
<1>34. ASSUME NEW t \in Threads, Crash(t) PROVE QueuedPolled'
  BY <1>34, QueueShrinks DEF Crash, Queued
<1>35. CASE UNCHANGED vars
  BY <1>35, QueueShrinks DEF vars, Queued
<1> QED
  BY <1>1, <1>2, <1>3, <1>4, <1>5, <1>6, <1>7, <1>8, <1>9, <1>10, <1>11, <1>12, <1>13, <1>14,
     <1>15, <1>16, <1>17, <1>18, <1>19, <1>20, <1>21, <1>22, <1>23, <1>24, <1>25, <1>26,
     <1>27, <1>28, <1>29, <1>30, <1>31, <1>32, <1>33, <1>34, <1>35
     DEF Next, Callers, Drain, Timers, Listen, Handler, Finished


\* The steps that settle no request of a thread that goes on: what the thread
\* of a busy slot knows must not be lost.
LEMMA ReachStep ==
  ASSUME CancelReachesThread, cancelReq' = cancelReq,
         \A s \in Slots : current'[s] # None =>
            /\ worker'[s] = worker[s] /\ current'[s] = current[s]
            /\ Told(worker[s], current[s]) => Told(worker[s], current[s])'
  PROVE  CancelReachesThread'
<1> SUFFICES ASSUME NEW s \in Slots, current'[s] # None, current'[s] \in cancelReq' \ Polled
             PROVE  Told(worker[s], current[s])'
  <2>1. ASSUME NEW s \in Slots, current'[s] # None
        PROVE  worker'[s] = worker[s] /\ current'[s] = current[s]
    BY <2>1
  <2>2. QED
    BY <2>1 DEF CancelReachesThread, Told
<1>1. current[s] # None /\ current[s] \in cancelReq \ Polled
  OBVIOUS
<1>2. Told(worker[s], current[s])
  BY <1>1 DEF CancelReachesThread, Told
<1>3. QED
  BY <1>2

\* What a thread knows outlasts the loss of threads,
LEMMA ToldQuiet ==
  ASSUME NEW t, NEW r, Told(t, r), Alive(t)' => Alive(t), outbox'[t] = outbox[t],
         inbox'[t] = inbox[t], cancelled'[t] = cancelled[t]
  PROVE  Told(t, r)'
  BY DEF Told, ReplySent

\* what is posted to it,
LEMMA ToldPosted ==
  ASSUME TypeOK, NEW t \in Threads, NEW r, Told(t, r), NEW T, NEW m \in HostMessages,
         inbox' = Posted(T, m), UNCHANGED <<phase, outbox, cancelled>>
  PROVE  Told(t, r)'
<1>1. Alive(t)' = Alive(t) /\ ReplySent(t, r)' = ReplySent(t, r)
  BY DEF Alive, ReplySent
<1>2. \A i \in 1 .. Len(inbox[t]) : i \in 1 .. Len(inbox'[t]) /\ inbox'[t][i] = inbox[t][i]
  BY PostedFacts
<1>3. QED
  BY <1>1, <1>2 DEF Told

\* what it takes, provided that it notes cancellations,
LEMMA ToldTaken ==
  ASSUME TypeOK, NEW t \in Threads, NEW r, Told(t, r), NEW u \in Threads, NEW m, Take(u, m),
         Alive(t)' => Alive(t),
         ReplySent(t, r) => ReplySent(t, r)',
         r \in cancelled[t] => r \in cancelled'[t],
         t = u /\ m = [type |-> "cancel", id |-> r] => r \in cancelled'[t]
  PROVE  Told(t, r)'
<1> SUFFICES ASSUME NEW i \in 1 .. Len(inbox[t]), inbox[t][i] = [type |-> "cancel", id |-> r]
             PROVE  Told(t, r)'
  BY DEF Told
<1>1. CASE t # u
  BY <1>1, TakeFacts DEF Told
<1>2. CASE t = u /\ i = 1
  BY <1>2, TakeFacts DEF Told
<1>3. CASE t = u /\ i # 1
  <2>1. i - 1 \in 1 .. Len(inbox'[t]) /\ inbox'[t][i - 1] = inbox[t][i]
    BY <1>3, TakeFacts
  <2>2. QED
    BY <2>1 DEF Told
<1>4. QED
  BY <1>1, <1>2, <1>3

\* and what the host handles of it, except the reply itself.
LEMMA ToldReceived ==
  ASSUME TypeOK, NEW t \in Threads, NEW r, Told(t, r), NEW u \in Threads, NEW m, Receive(u, m),
         t = u => m.type \in {"ready", "progress"} \/ m.id # r,
         UNCHANGED <<phase, inbox, cancelled>>
  PROVE  Told(t, r)'
<1>1. Alive(t)' = Alive(t)
  BY DEF Alive
<1> SUFFICES ASSUME ReplySent(t, r) PROVE ReplySent(t, r)'
  BY <1>1 DEF Told
<1>2. PICK i \in 1 .. Len(outbox[t]) :
        outbox[t][i].type # "ready" /\ outbox[t][i].type # "progress" /\ outbox[t][i].id = r
  BY DEF ReplySent
<1>3. CASE t # u
  <2>1. outbox'[t] = outbox[t]
    BY <1>3, ReceiveFacts
  <2>2. QED
    BY <2>1 DEF ReplySent
<1>4. CASE t = u
  <2>1. i # 1
    BY <1>2, <1>4, ReceiveFacts
  <2> DEFINE k == i - 1
  <2>2. k \in 1 .. Len(outbox'[t]) /\ outbox'[t][k] = outbox[t][i]
    BY <1>4, <2>1, ReceiveFacts
  <2> HIDE DEF k
  <2>3. outbox'[t][k].type # "ready" /\ outbox'[t][k].type # "progress" /\ outbox'[t][k].id = r
    BY <1>2, <2>2
  <2>4. QED
    BY <2>2, <2>3 DEF ReplySent
<1>5. QED
  BY <1>3, <1>4

\* A reply that was sent stays sent when the thread posts more.
LEMMA SentReplied ==
  ASSUME TypeOK, NEW t \in Threads, NEW r, NEW u \in Threads, NEW m \in WorkerMessages, Reply(u, m)
  PROVE  /\ ReplySent(t, r) => ReplySent(t, r)'
         /\ t = u /\ m.type \notin {"ready", "progress"} /\ m.id = r => ReplySent(t, r)'
<1>1. CASE t # u
  BY <1>1, ReplyFacts DEF ReplySent
<1>2. CASE t = u
  <2>1. /\ Len(outbox[t]) \in Nat /\ Len(outbox'[t]) = Len(outbox[t]) + 1
        /\ \A i \in 1 .. Len(outbox[t]) : outbox'[t][i] = outbox[t][i]
        /\ outbox'[t][Len(outbox[t]) + 1] = m
    BY <1>2, ReplyFacts
  <2>2. ReplySent(t, r) => ReplySent(t, r)'
    BY <2>1 DEF ReplySent
  <2>3. m.type \notin {"ready", "progress"} /\ m.id = r => ReplySent(t, r)'
    BY <2>1 DEF ReplySent
  <2>4. QED
    BY <2>2, <2>3
<1>3. QED
  BY <1>1, <1>2

\* The request given to a free slot is not cancelled, or nobody is to be told.
LEMMA AssignReach ==
  ASSUME TypeOK, SlotShape, Closed, Held, RequestConserved, CancelReachesThread, QueuedPolled,
         NEW s \in Slots, current[s] = None, queue # <<>>, Assign(s),
         UNCHANGED <<worker, phase, outbox, cancelled, cancelReq>>
  PROVE  CancelReachesThread'
<1>1. Head(queue) \in Requests /\ Queued(Head(queue))
  BY QueueShift DEF RequestConserved, Assign
<1>2. Head(queue) \notin cancelReq \ Polled
  BY <1>1 DEF QueuedPolled
<1>3. /\ [type |-> "request", id |-> Head(queue)] \in HostMessages
      /\ inbox' = Posted({worker[s]}, [type |-> "request", id |-> Head(queue)])
  BY <1>1, Messages DEF Assign
<1>4. \A u \in Slots : current'[u] = IF u = s THEN Head(queue) ELSE current[u]
  BY DEF Assign, TypeOK
<1>5. ASSUME NEW u \in Slots, current'[u] # None, current'[u] \in cancelReq \ Polled
      PROVE  Told(worker[u], current[u])'
  <2>1. u # s /\ current'[u] = current[u] /\ current[u] # None
    BY <1>2, <1>4, <1>5
  <2>2. worker[u] \in Threads
    BY <2>1 DEF Held, Closed, TypeOK
  <2>3. Told(worker[u], current[u])
    BY <1>5, <2>1 DEF CancelReachesThread, Told
  <2>4. \A t \in Threads, r \in Requests : Told(t, r) => Told(t, r)'
    BY <1>3, ToldPosted
  <2>5. current[u] \in Requests
    BY <2>1 DEF TypeOK
  <2>6. QED
    BY <2>1, <2>2, <2>3, <2>4, <2>5
<1>6. QED
  BY <1>5 DEF CancelReachesThread, Told


\* Steps of the queue and of drain()'s bookkeeping.
LEMMA SameReach ==
  ASSUME CancelReachesThread, UNCHANGED <<worker, current, phase, inbox, outbox, cancelled, cancelReq>>
  PROVE  CancelReachesThread'
  BY DEF CancelReachesThread, Alive, ReplySent

\* No step loses a cancellation on its way to a thread.
LEMMA CancelReachesStep ==
  TypeOK /\ AwaitInv /\ RequestConserved /\ ThreadShape /\ SlotShape /\ Closed /\
  Held /\ QueuedPolled /\ CancelReachesThread /\ [Next]_vars => CancelReachesThread'
<1> SUFFICES ASSUME TypeOK, AwaitInv, RequestConserved, ThreadShape, SlotShape, Closed,
                    Held, QueuedPolled, CancelReachesThread, [Next]_vars
             PROVE  CancelReachesThread'
  OBVIOUS
<1> USE DEF slotVars, drainVars, callerVars, hostVars, envVars, workVars, threadVars
<1>0. \A s \in Slots : current[s] # None => worker[s] \in Threads /\ current[s] \in Requests
  BY DEF Held, Closed, TypeOK
<1>1. ASSUME NEW r \in Requests, RunCancelled(r) PROVE CancelReachesThread'
  <2>1. UNCHANGED <<worker, current, phase, inbox, outbox, cancelled, cancelReq>>
    BY <1>1 DEF RunCancelled
  <2>2. QED
    BY <2>1, SameReach
<1>2. ASSUME NEW r \in Requests, Run(r) PROVE CancelReachesThread'
  <2>1. UNCHANGED <<worker, current, phase, inbox, outbox, cancelled, cancelReq>>
    BY <1>2 DEF Run
  <2>2. QED
    BY <2>1, SameReach
<1>3. ASSUME NEW r \in Requests, CancelUnheard(r) PROVE CancelReachesThread'
  <2>1. r \in Polled \/ ~Assigned(r)
    BY <1>3 DEF CancelUnheard, RequestConserved, Queued
  <2>2. /\ cancelReq' = cancelReq \cup {r}
        /\ UNCHANGED <<worker, current, phase, inbox, outbox, cancelled>>
    BY <1>3 DEF CancelUnheard, CancelGuard
  <2>3. \A s \in Slots : current[s] # None /\ current[s] \in cancelReq' \ Polled => current[s] \in cancelReq
    BY <2>1, <2>2 DEF Assigned
  <2>4. \A s \in Slots : Told(worker[s], current[s])' = Told(worker[s], current[s])
    BY <2>2 DEF Told, ReplySent, Alive
  <2>5. QED
    BY <2>2, <2>3, <2>4 DEF CancelReachesThread, Told
<1>4. ASSUME NEW r \in Requests, CancelQueued(r) PROVE CancelReachesThread'
  <2>1. r \in Polled \/ ~Assigned(r)
    BY <1>4 DEF CancelQueued, RequestConserved, Queued
  <2>2. /\ cancelReq' = cancelReq \cup {r}
        /\ UNCHANGED <<worker, current, phase, inbox, outbox, cancelled>>
    BY <1>4 DEF CancelQueued, CancelGuard
  <2>3. \A s \in Slots : current[s] # None /\ current[s] \in cancelReq' \ Polled => current[s] \in cancelReq
    BY <2>1, <2>2 DEF Assigned
  <2>4. \A s \in Slots : Told(worker[s], current[s])' = Told(worker[s], current[s])
    BY <2>2 DEF Told, ReplySent, Alive
  <2>5. QED
    BY <2>2, <2>3, <2>4 DEF CancelReachesThread, Told
<1>5. ASSUME NEW r \in Requests, CancelAssigned(r) PROVE CancelReachesThread'
  <2>1. PICK s \in 1 .. open : current[s] = r /\ inbox' = Posted({worker[s]}, [type |-> "cancel", id |-> r])
    BY <1>5 DEF CancelAssigned
  <2>2. /\ cancelReq' = cancelReq \cup {r} /\ s \in Slots /\ r # None
        /\ UNCHANGED <<worker, current, phase, outbox, cancelled>>
    BY <1>5, NotNone DEF CancelAssigned, CancelGuard, TypeOK
  <2>3. SUFFICES ASSUME NEW u \in Slots, current[u] # None, current[u] \in cancelReq' \ Polled
                 PROVE  Told(worker[u], current[u])'
    BY <2>2 DEF CancelReachesThread, Told
  <2>4. CASE current[u] # r
    <3>1. Told(worker[u], current[u])
      BY <2>2, <2>3, <2>4 DEF CancelReachesThread, Told
    <3>2. QED
      BY <1>0, <2>1, <2>2, <2>3, <3>1, Messages, ToldPosted
  <2>5. CASE current[u] = r
    <3>1. u = s
      BY <2>1, <2>2, <2>3, <2>5 DEF RequestConserved, AssignedOnce
    <3> DEFINE m == [type |-> "cancel", id |-> r]
    <3>2. worker[s] \in Threads /\ m \in HostMessages
      BY <1>0, <2>1, <2>2, Messages
    <3>3. inbox' = Posted({worker[s]}, m)
      BY <2>1
    <3>4. inbox[worker[s]] \in Seq(HostMessages)
      BY <3>2 DEF TypeOK
    <3> HIDE DEF m
    <3>5. CASE Alive(worker[s])
      <4>1. inbox'[worker[s]] = Append(inbox[worker[s]], m)
        BY <3>2, <3>3, <3>5 DEF Posted
      <4>2. /\ Len(Append(inbox[worker[s]], m)) = Len(inbox[worker[s]]) + 1
            /\ Append(inbox[worker[s]], m)[Len(inbox[worker[s]]) + 1] = m
            /\ Len(inbox[worker[s]]) \in Nat
        BY <3>2, <3>4, AppendProperties
      <4>3. \E i \in 1 .. Len(inbox'[worker[s]]) : inbox'[worker[s]][i] = m
        BY <4>1, <4>2
      <4>4. QED
        BY <2>2, <2>5, <3>1, <4>3 DEF Told, m
    <3>6. CASE ~Alive(worker[s])
      BY <2>2, <3>1, <3>6 DEF Told, Alive
    <3>7. QED
      BY <3>5, <3>6
  <2>6. QED
    BY <2>4, <2>5
<1>6. CASE Reconfigure
  <2>1. config' \in Configs
    BY <1>6 DEF TypeOK, Reconfigure, Configs
  <2>2. /\ inbox' = Posted(ReadyWorkers, [type |-> "reconfigure", config |-> config'])
        /\ UNCHANGED <<worker, current, phase, outbox, cancelled, cancelReq>>
    BY <1>6 DEF Reconfigure
  <2>3. \A t \in Threads, r \in Requests : Told(t, r) => Told(t, r)'
    BY <2>1, <2>2, Messages, ToldPosted
  <2>4. QED
    BY <1>0, <2>2, <2>3, ReachStep
<1>7. CASE Dispose
  BY <1>7 DEF Dispose, CancelReachesThread
<1>8. CASE DrainEmpty
  <2>1. UNCHANGED <<worker, current, phase, inbox, outbox, cancelled, cancelReq>>
    BY <1>8 DEF DrainEmpty
  <2>2. QED
    BY <2>1, SameReach
<1>9. CASE DrainDropCancelled
  <2>1. UNCHANGED <<worker, current, phase, inbox, outbox, cancelled, cancelReq>>
    BY <1>9 DEF DrainDropCancelled
  <2>2. QED
    BY <2>1, SameReach
<1>10. CASE DrainAssign
  <2>1. PICK s \in Slots : current[s] = None /\ Assign(s)
    BY <1>10 DEF DrainAssign, First, IdleReady
  <2>2. QED
    BY <1>10, <2>1, AssignReach DEF DrainAssign, Serving
<1>11. CASE DrainRespawn
  <2>1. PICK s \in Slots : Spawn(s) /\ worker[s] = None /\ current[s] = None
    BY <1>11, SpawnSlot
  <2>2. PICK t \in Threads : Started(s, t)
    BY <2>1, SpawnEffect
  <2>3. /\ \A u \in Slots : worker'[u] = IF u = s THEN t ELSE worker[u]
        /\ UNCHANGED <<current, outbox, cancelled, cancelReq>>
        /\ \A u \in Threads \ {t} : inbox'[u] = inbox[u] /\ phase'[u] = phase[u]
        /\ phase[t] = "unborn"
    BY <2>2 DEF Started, workVars, callerVars
  <2>4. SUFFICES ASSUME NEW u \in Slots, current'[u] # None
                 PROVE  /\ worker'[u] = worker[u] /\ current'[u] = current[u]
                        /\ Told(worker[u], current[u]) => Told(worker[u], current[u])'
    BY <2>3, ReachStep
  <2>5. u # s /\ current'[u] = current[u] /\ worker'[u] = worker[u] /\ worker[u] \in Threads
    BY <1>0, <2>1, <2>3, <2>4
  <2>6. worker[u] # t
    BY <2>3, <2>5, NotNone DEF SlotShape
  <2>7. (Alive(worker[u])' => Alive(worker[u])) /\ inbox'[worker[u]] = inbox[worker[u]]
    BY <2>3, <2>5, <2>6 DEF Alive
  <2>8. QED
    BY <2>3, <2>5, <2>7, ToldQuiet
<1>12. CASE DrainGrow
  <2>1. PICK s \in Slots : Spawn(s) /\ worker[s] = None /\ current[s] = None
    BY <1>12, SpawnSlot
  <2>2. PICK t \in Threads : Started(s, t)
    BY <2>1, SpawnEffect
  <2>3. /\ \A u \in Slots : worker'[u] = IF u = s THEN t ELSE worker[u]
        /\ UNCHANGED <<current, outbox, cancelled, cancelReq>>
        /\ \A u \in Threads \ {t} : inbox'[u] = inbox[u] /\ phase'[u] = phase[u]
        /\ phase[t] = "unborn"
    BY <2>2 DEF Started, workVars, callerVars
  <2>4. SUFFICES ASSUME NEW u \in Slots, current'[u] # None
                 PROVE  /\ worker'[u] = worker[u] /\ current'[u] = current[u]
                        /\ Told(worker[u], current[u]) => Told(worker[u], current[u])'
    BY <2>3, ReachStep
  <2>5. u # s /\ current'[u] = current[u] /\ worker'[u] = worker[u] /\ worker[u] \in Threads
    BY <1>0, <2>1, <2>3, <2>4
  <2>6. worker[u] # t
    BY <2>3, <2>5, NotNone DEF SlotShape
  <2>7. (Alive(worker[u])' => Alive(worker[u])) /\ inbox'[worker[u]] = inbox[worker[u]]
    BY <2>3, <2>5, <2>6 DEF Alive
  <2>8. QED
    BY <2>3, <2>5, <2>7, ToldQuiet
<1>13. CASE DrainAllBusy
  <2>1. UNCHANGED <<worker, current, phase, inbox, outbox, cancelled, cancelReq>>
    BY <1>13 DEF DrainAllBusy
  <2>2. QED
    BY <2>1, SameReach
<1>14. CASE ResumeEmpty
  <2>1. UNCHANGED <<worker, current, phase, inbox, outbox, cancelled, cancelReq>>
    BY <1>14 DEF ResumeEmpty
  <2>2. QED
    BY <2>1, SameReach
<1>15. CASE ResumeAssign
  <2>1. waitSlot \in Slots /\ current[waitSlot] = None
    BY <1>15, AwaitSlot DEF ResumeAssign, AwaitInv
  <2>2. QED
    BY <1>15, <2>1, AssignReach DEF ResumeAssign
<1>16. CASE RespawnFailed
  <2>1. waitSlot \in Slots /\ current[waitSlot] = None
    BY <1>16, AwaitSlot DEF RespawnFailed, SpawnFailed, AwaitInv
  <2>2. /\ \A u \in Slots : worker'[u] = IF u = waitSlot THEN None ELSE worker[u]
        /\ \A u \in Slots : current'[u] = IF u = waitSlot THEN None ELSE current[u]
    BY <1>16, <2>1 DEF RespawnFailed, SpawnFailed, TypeOK
  <2>3. UNCHANGED <<inbox, outbox, cancelled, cancelReq>>
    BY <1>16 DEF RespawnFailed, SpawnFailed
  <2>4. \A t \in Threads : Alive(t)' => Alive(t)
    BY <1>16 DEF RespawnFailed, SpawnFailed, Terminated, Alive
  <2>5. QED
    BY <1>0, <2>2, <2>3, <2>4, ReachStep, ToldQuiet
<1>17. CASE GrowFailed
  <2>1. waitSlot \in Slots /\ current[waitSlot] = None
    BY <1>17, AwaitSlot DEF GrowFailed, SpawnFailed, AwaitInv
  <2>2. /\ \A u \in Slots : worker'[u] = IF u = waitSlot THEN None ELSE worker[u]
        /\ \A u \in Slots : current'[u] = IF u = waitSlot THEN None ELSE current[u]
    BY <1>17, <2>1 DEF GrowFailed, SpawnFailed, TypeOK
  <2>3. UNCHANGED <<inbox, outbox, cancelled, cancelReq>>
    BY <1>17 DEF GrowFailed, SpawnFailed
  <2>4. \A t \in Threads : Alive(t)' => Alive(t)
    BY <1>17 DEF GrowFailed, SpawnFailed, Terminated, Alive
  <2>5. QED
    BY <1>0, <2>2, <2>3, <2>4, ReachStep, ToldQuiet
<1>18. CASE ReadyTimeout
  <2>1. UNCHANGED <<worker, current, phase, inbox, outbox, cancelled, cancelReq>>
    BY <1>18 DEF ReadyTimeout
  <2>2. QED
    BY <2>1, SameReach
<1>19. ASSUME NEW t \in Threads, TerminateDoomed(t) PROVE CancelReachesThread'
  <2>1. UNCHANGED <<worker, current, inbox, outbox, cancelled, cancelReq>>
    BY <1>19 DEF TerminateDoomed
  <2>2. \A u \in Threads : Alive(u)' => Alive(u)
    BY <1>19 DEF TerminateDoomed, Terminated, Alive
  <2>3. QED
    BY <1>0, <2>1, <2>2, ReachStep, ToldQuiet
<1>20. ASSUME NEW t \in Threads, OnReady(t) PROVE CancelReachesThread'
  <2>1. PICK m : Receive(t, m) /\ (m.type \in {"ready", "progress"} \/ m.id # CurrentOf(t))
    BY <1>20 DEF OnReady
  <2>2. UNCHANGED <<worker, current, phase, inbox, cancelled, cancelReq>>
    BY <1>20 DEF OnReady
  <2>3. \A s \in Slots : worker[s] = t => t = None \/ CurrentOf(t) = current[s]
    BY DEF SlotShape, CurrentOf
  <2>4. \A s \in Slots : current[s] # None /\ Told(worker[s], current[s]) => Told(worker[s], current[s])'
    BY <1>0, <2>1, <2>2, <2>3, NotNone, ToldReceived
  <2>5. QED
    BY <2>2, <2>4, ReachStep
<1>21. ASSUME NEW t \in Threads, OnProgress(t) PROVE CancelReachesThread'
  <2>1. PICK m : Receive(t, m) /\ (m.type \in {"ready", "progress"} \/ m.id # CurrentOf(t))
    BY <1>21 DEF OnProgress
  <2>2. UNCHANGED <<worker, current, phase, inbox, cancelled, cancelReq>>
    BY <1>21 DEF OnProgress
  <2>3. \A s \in Slots : worker[s] = t => t = None \/ CurrentOf(t) = current[s]
    BY DEF SlotShape, CurrentOf
  <2>4. \A s \in Slots : current[s] # None /\ Told(worker[s], current[s]) => Told(worker[s], current[s])'
    BY <1>0, <2>1, <2>2, <2>3, NotNone, ToldReceived
  <2>5. QED
    BY <2>2, <2>4, ReachStep
<1>22. ASSUME NEW t \in Threads, OnReply(t) PROVE CancelReachesThread'
  <2>1. PICK r \in Requests, answer \in {"done", "error", "cancelled"} :
          /\ Receive(t, [type |-> answer, id |-> r])
          /\ CurrentOf(t) = r
          /\ current' = [current EXCEPT ![slotOf[t]] = None]
    BY <1>22 DEF OnReply
  <2>2. UNCHANGED <<worker, phase, inbox, cancelled, cancelReq>>
    BY <1>22 DEF OnReply
  <2>3. slotOf[t] \in Slots
    BY <2>1, NotNone DEF CurrentOf, TypeOK
  <2>4. \A s \in Slots : current'[s] = IF s = slotOf[t] THEN None ELSE current[s]
    BY <2>1, <2>3 DEF TypeOK
  <2>5. \A s \in Slots : s # slotOf[t] => worker[s] # t
    BY NotNone DEF SlotShape
  <2>6. \A s \in Slots : current'[s] # None /\ Told(worker[s], current[s]) => Told(worker[s], current[s])'
    BY <1>0, <2>1, <2>2, <2>4, <2>5, ToldReceived
  <2>7. QED
    BY <2>2, <2>4, <2>6, ReachStep
<1>23. ASSUME NEW t \in Threads, OnStaleReply(t) PROVE CancelReachesThread'
  <2>1. PICK m : Receive(t, m) /\ (m.type \in {"ready", "progress"} \/ m.id # CurrentOf(t))
    BY <1>23 DEF OnStaleReply
  <2>2. UNCHANGED <<worker, current, phase, inbox, cancelled, cancelReq>>
    BY <1>23 DEF OnStaleReply
  <2>3. \A s \in Slots : worker[s] = t => t = None \/ CurrentOf(t) = current[s]
    BY DEF SlotShape, CurrentOf
  <2>4. \A s \in Slots : current[s] # None /\ Told(worker[s], current[s]) => Told(worker[s], current[s])'
    BY <1>0, <2>1, <2>2, <2>3, NotNone, ToldReceived
  <2>5. QED
    BY <2>2, <2>4, ReachStep
<1>24. ASSUME NEW t \in Threads, OnError(t) PROVE CancelReachesThread'
  <2>1. UNCHANGED <<inbox, outbox, cancelled, cancelReq>>
    BY <1>24 DEF OnError
  <2>2. \A s \in Slots : current'[s] # None => worker'[s] = worker[s] /\ current'[s] = current[s]
    BY <1>24 DEF OnError, LoseSlot, TypeOK
  <2>3. \A u \in Threads : Alive(u)' => Alive(u)
    BY <1>24 DEF OnError, ExitGuard, Alive, TypeOK
  <2>4. QED
    BY <1>0, <2>1, <2>2, <2>3, ReachStep, ToldQuiet
<1>25. ASSUME NEW t \in Threads, OnUnexpectedExit(t) PROVE CancelReachesThread'
  <2>1. UNCHANGED <<inbox, outbox, cancelled, cancelReq>>
    BY <1>25 DEF OnUnexpectedExit
  <2>2. \A s \in Slots : current'[s] # None => worker'[s] = worker[s] /\ current'[s] = current[s]
    BY <1>25 DEF OnUnexpectedExit, LoseSlot, TypeOK
  <2>3. \A u \in Threads : Alive(u)' => Alive(u)
    BY <1>25 DEF OnUnexpectedExit, ExitGuard, Alive, TypeOK
  <2>4. QED
    BY <1>0, <2>1, <2>2, <2>3, ReachStep, ToldQuiet
<1>26. ASSUME NEW t \in Threads, OnIgnoredExit(t) PROVE CancelReachesThread'
  <2>1. UNCHANGED <<worker, current, inbox, outbox, cancelled, cancelReq>>
    BY <1>26 DEF OnIgnoredExit
  <2>2. \A u \in Threads : Alive(u)' => Alive(u)
    BY <1>26 DEF OnIgnoredExit, ExitGuard, Alive, TypeOK
  <2>3. QED
    BY <1>0, <2>1, <2>2, ReachStep, ToldQuiet
<1>27. ASSUME NEW t \in Threads, TakeInit(t) PROVE CancelReachesThread'
  <2>1. PICK m : Take(t, m) /\ m.type # "cancel"
    BY <1>27 DEF TakeInit
  <2>2. UNCHANGED <<worker, current, cancelled, cancelReq>>
    BY <1>27 DEF TakeInit
  <2>3. \A u \in Threads : Alive(u)' => Alive(u)
    BY <1>27, <2>1 DEF TakeInit, Take, Alive, TypeOK
  <2>4. \A u \in Threads, r \in Requests : ReplySent(u, r) => ReplySent(u, r)'
    BY <1>27, Messages, SentReplied DEF TakeInit
  <2>5. \A u \in Threads, r \in Requests : Told(u, r) => Told(u, r)'
    BY <2>1, <2>2, <2>3, <2>4, ToldTaken
  <2>6. QED
    BY <1>0, <2>2, <2>5, ReachStep
<1>28. ASSUME NEW t \in Threads, TakeReconfigure(t) PROVE CancelReachesThread'
  <2>1. PICK m : Take(t, m) /\ m.type # "cancel"
    BY <1>28 DEF TakeReconfigure
  <2>2. UNCHANGED <<worker, current, cancelled, cancelReq>>
    BY <1>28 DEF TakeReconfigure
  <2>3. \A u \in Threads : Alive(u)' => Alive(u)
    BY <1>28, <2>1 DEF TakeReconfigure, Take, Alive, TypeOK
  <2>4. \A u \in Threads, r \in Requests : ReplySent(u, r) => ReplySent(u, r)'
    BY <1>28 DEF TakeReconfigure, ReplySent
  <2>5. \A u \in Threads, r \in Requests : Told(u, r) => Told(u, r)'
    BY <2>1, <2>2, <2>3, <2>4, ToldTaken
  <2>6. QED
    BY <1>0, <2>2, <2>5, ReachStep
<1>29. ASSUME NEW t \in Threads, TakeRequest(t) PROVE CancelReachesThread'
  <2>1. PICK m : Take(t, m) /\ m.type # "cancel"
    BY <1>29 DEF TakeRequest
  <2>2. UNCHANGED <<worker, current, cancelled, cancelReq>>
    BY <1>29 DEF TakeRequest
  <2>3. \A u \in Threads : Alive(u)' => Alive(u)
    BY <1>29, <2>1 DEF TakeRequest, Take, Alive, TypeOK
  <2>4. \A u \in Threads, r \in Requests : ReplySent(u, r) => ReplySent(u, r)'
    BY <1>29 DEF TakeRequest, ReplySent
  <2>5. \A u \in Threads, r \in Requests : Told(u, r) => Told(u, r)'
    BY <2>1, <2>2, <2>3, <2>4, ToldTaken
  <2>6. QED
    BY <1>0, <2>2, <2>5, ReachStep
<1>30. ASSUME NEW t \in Threads, TakeCancel(t) PROVE CancelReachesThread'
  <2>1. PICK r \in Requests : /\ Take(t, [type |-> "cancel", id |-> r])
                              /\ cancelled' = [cancelled EXCEPT ![t] = cancelled[t] \cup {r}]
    BY <1>30 DEF TakeCancel
  <2>2. UNCHANGED <<worker, current, phase, outbox, cancelReq>>
    BY <1>30 DEF TakeCancel
  <2>3. (\A u \in Threads : cancelled[u] \subseteq cancelled'[u]) /\ r \in cancelled'[t]
    BY <2>1 DEF TypeOK
  <2>4. \A u \in Threads, q \in Requests : Told(u, q) => Told(u, q)'
    <3> SUFFICES ASSUME NEW u \in Threads, NEW q \in Requests, Told(u, q) PROVE Told(u, q)'
      OBVIOUS
    <3>1. (Alive(u)' => Alive(u)) /\ (ReplySent(u, q) => ReplySent(u, q)')
      BY <2>2 DEF Alive, ReplySent
    <3>2. [type |-> "cancel", id |-> r] = [type |-> "cancel", id |-> q] => r = q
      OBVIOUS
    <3>3. QED
      BY <2>1, <2>3, <3>1, <3>2, ToldTaken
  <2>5. QED
    BY <1>0, <2>2, <2>4, ReachStep
<1>31. ASSUME NEW t \in Threads, TakeShutdown(t) PROVE CancelReachesThread'
  <2>1. PICK m : Take(t, m) /\ m.type # "cancel"
    BY <1>31 DEF TakeShutdown
  <2>2. UNCHANGED <<worker, current, cancelled, cancelReq>>
    BY <1>31 DEF TakeShutdown
  <2>3. \A u \in Threads : Alive(u)' => Alive(u)
    BY <1>31, <2>1 DEF TakeShutdown, Take, Alive, TypeOK
  <2>4. \A u \in Threads, r \in Requests : ReplySent(u, r) => ReplySent(u, r)'
    BY <1>31 DEF TakeShutdown, ReplySent
  <2>5. \A u \in Threads, r \in Requests : Told(u, r) => Told(u, r)'
    BY <2>1, <2>2, <2>3, <2>4, ToldTaken
  <2>6. QED
    BY <1>0, <2>2, <2>5, ReachStep
<1>32. ASSUME NEW t \in Threads, Report(t) PROVE CancelReachesThread'
  <2>1. chain[t] # <<>> /\ chain[t][1] \in Requests /\ Head(chain[t]) = chain[t][1]
    BY <1>32, ChannelTypes DEF Report, TypeOK
  <2>2. /\ Reply(t, [type |-> "progress", id |-> chain[t][1]])
        /\ UNCHANGED <<worker, current, phase, inbox, cancelled, cancelReq>>
    BY <1>32, <2>1 DEF Report
  <2>3. \A u \in Threads, q \in Requests : Told(u, q) => Told(u, q)'
    <3> SUFFICES ASSUME NEW u \in Threads, NEW q \in Requests, Told(u, q) PROVE Told(u, q)'
      OBVIOUS
    <3>1. ReplySent(u, q) => ReplySent(u, q)'
      BY <2>1, <2>2, SentReplied, Messages
    <3>2. QED
      BY <2>2, <3>1 DEF Told, Alive
  <2>4. QED
    BY <1>0, <2>2, <2>3, ReachStep
<1>33. ASSUME NEW t \in Threads, Finish(t) PROVE CancelReachesThread'
  <2>1. chain[t] # <<>> /\ chain[t][1] \in Requests /\ Head(chain[t]) = chain[t][1]
    BY <1>33, ChannelTypes DEF Finish, TypeOK
  <2>2. PICK answer \in Outcomes(t, chain[t][1]) : Reply(t, [type |-> answer, id |-> chain[t][1]])
    BY <1>33, <2>1 DEF Finish
  <2>3. answer \in {"done", "error", "cancelled"}
    BY DEF Outcomes
  <2>4. UNCHANGED <<worker, current, phase, inbox, cancelReq>>
    BY <1>33 DEF Finish
  <2>5. \A u \in Threads : \A q \in cancelled[u] : q \in cancelled'[u] \/ (u = t /\ q = chain[t][1])
    BY <1>33, <2>1 DEF Finish, TypeOK
  <2>6. \A u \in Threads, q \in Requests : Told(u, q) => Told(u, q)'
    <3> SUFFICES ASSUME NEW u \in Threads, NEW q \in Requests, Told(u, q) PROVE Told(u, q)'
      OBVIOUS
    <3> DEFINE m == [type |-> answer, id |-> chain[t][1]]
    <3>1. m \in WorkerMessages /\ m.type \notin {"ready", "progress"} /\ m.id = chain[t][1] /\ Reply(t, m)
      BY <2>1, <2>2, <2>3, Messages
    <3> HIDE DEF m
    <3>2. /\ ReplySent(u, q) => ReplySent(u, q)'
          /\ u = t /\ q = chain[t][1] => ReplySent(u, q)'
      BY <3>1, SentReplied
    <3>3. QED
      BY <2>4, <2>5, <3>2 DEF Told, Alive
  <2>7. QED
    BY <1>0, <2>4, <2>6, ReachStep
<1>34. ASSUME NEW t \in Threads, Crash(t) PROVE CancelReachesThread'
  <2>1. UNCHANGED <<worker, current, inbox, outbox, cancelled, cancelReq>>
    BY <1>34 DEF Crash
  <2>2. \A u \in Threads : Alive(u)' => Alive(u)
    BY <1>34 DEF Crash, ExitGuard, Alive, TypeOK
  <2>3. QED
    BY <1>0, <2>1, <2>2, ReachStep, ToldQuiet
<1>35. CASE UNCHANGED vars
  <2>1. UNCHANGED <<worker, current, phase, inbox, outbox, cancelled, cancelReq>>
    BY <1>35 DEF vars
  <2>2. QED
    BY <2>1, SameReach
<1> QED
  BY <1>1, <1>2, <1>3, <1>4, <1>5, <1>6, <1>7, <1>8, <1>9, <1>10, <1>11, <1>12, <1>13, <1>14,
     <1>15, <1>16, <1>17, <1>18, <1>19, <1>20, <1>21, <1>22, <1>23, <1>24, <1>25, <1>26,
     <1>27, <1>28, <1>29, <1>30, <1>31, <1>32, <1>33, <1>34, <1>35
     DEF Next, Callers, Drain, Timers, Listen, Handler, Finished

-----------------------------------------------------------------------------
(* Configurations reach the threads                                        *)

\* Steps that change no configuration.
LEMMA Undisturbed ==
  ASSUME config' = config, \A u \in Threads : Alive(u)' => Alive(u),
         \A u \in Threads, c \in Configs : Settled(u, c) => Settled(u, c)'
  PROVE  Evolution
  BY DEF Evolution, Evolves

\* What a thread is about to have depends on its inbox and what it has applied.
LEMMA SettledQuiet ==
  ASSUME NEW t, NEW c, Settled(t, c), inbox'[t] = inbox[t], cfg'[t] = cfg[t]
  PROVE  Settled(t, c)'
  BY DEF Settled, LastConfig

\* Posting anything but a configuration does not matter.
LEMMA SettledPosted ==
  ASSUME TypeOK, NEW t \in Threads, NEW c, Settled(t, c), NEW T, NEW m \in HostMessages, ~Configures(m),
         inbox' = Posted(T, m), cfg' = cfg
  PROVE  Settled(t, c)'
<1>1. CASE ~(t \in T /\ Alive(t))
  <2>1. inbox'[t] = inbox[t]
    BY <1>1, PostedFacts
  <2>2. QED
    BY <2>1, SettledQuiet
<1>2. CASE t \in T /\ Alive(t)
  <2>1. /\ Len(inbox[t]) \in Nat /\ Len(inbox'[t]) = Len(inbox[t]) + 1
        /\ \A i \in 1 .. Len(inbox[t]) : inbox'[t][i] = inbox[t][i]
        /\ inbox'[t][Len(inbox[t]) + 1] = m
    BY <1>2, PostedFacts
  <2>2. \A i \in 1 .. Len(inbox'[t]) :
          i \in 1 .. Len(inbox[t]) \/ (i = Len(inbox[t]) + 1 /\ inbox'[t][i] = m)
    BY <2>1
  <2>3. \A i \in 1 .. Len(inbox[t]) : LastConfig(t, i) => LastConfig(t, i)'
    <3>1. SUFFICES ASSUME NEW i \in 1 .. Len(inbox[t]), LastConfig(t, i)
                   PROVE  LastConfig(t, i)'
      OBVIOUS
    <3>2. Configures(inbox'[t][i])
      BY <2>1, <3>1 DEF LastConfig
    <3>3. ASSUME NEW j \in 1 .. Len(inbox'[t]), j > i
          PROVE  ~Configures(inbox'[t][j])
      <4>1. CASE j \in 1 .. Len(inbox[t])
        BY <2>1, <3>1, <3>3, <4>1 DEF LastConfig
      <4>2. CASE inbox'[t][j] = m
        BY <4>2
      <4>3. QED
        BY <2>2, <4>1, <4>2
    <3>4. i \in 1 .. Len(inbox'[t])
      BY <2>1, <3>1
    <3>5. QED
      BY <3>2, <3>3, <3>4 DEF LastConfig, Configures
  <2>4. \A i \in 1 .. Len(inbox[t]) : i \in 1 .. Len(inbox'[t])
    BY <2>1
  <2>5. CASE \E i \in 1 .. Len(inbox[t]) : LastConfig(t, i) /\ inbox[t][i].config = c
    BY <2>1, <2>3, <2>4, <2>5 DEF Settled
  <2>6. CASE cfg[t] = c /\ \A i \in 1 .. Len(inbox[t]) : ~Configures(inbox[t][i])
    <3>1. \A i \in 1 .. Len(inbox'[t]) : ~Configures(inbox'[t][i])
      BY <2>1, <2>2, <2>6 DEF Configures
    <3>2. QED
      BY <2>6, <3>1 DEF Settled, Configures
  <2>7. QED
    BY <2>5, <2>6 DEF Settled
<1>3. QED
  BY <1>1, <1>2

\* A configuration posted to a live thread is the one it will have.
LEMMA ConfigPosted ==
  ASSUME TypeOK, NEW t \in Threads, NEW T, NEW m \in HostMessages, Configures(m), t \in T, Alive(t),
         inbox' = Posted(T, m)
  PROVE  Settled(t, m.config)'
<1>1. /\ Len(inbox[t]) \in Nat /\ Len(inbox'[t]) = Len(inbox[t]) + 1
      /\ inbox'[t][Len(inbox[t]) + 1] = m
  BY PostedFacts
<1>2. PICK k \in 1 .. Len(inbox'[t]) : inbox'[t][k] = m /\ \A j \in 1 .. Len(inbox'[t]) : ~(j > k)
  BY <1>1
<1>3. LastConfig(t, k)'
  BY <1>2 DEF LastConfig, Configures
<1>4. QED
  BY <1>2, <1>3 DEF Settled

\* A thread applies the configurations it takes.
LEMMA SettledTaken ==
  ASSUME TypeOK, NEW t \in Threads, NEW c, Settled(t, c), NEW u \in Threads, NEW m, Take(u, m),
         \A v \in Threads : cfg'[v] = IF v = u /\ Configures(m) THEN m.config ELSE cfg[v]
  PROVE  Settled(t, c)'
<1>1. CASE t # u
  BY <1>1, TakeFacts, SettledQuiet
<1>2. CASE t = u
  <2>1. /\ Len(inbox[t]) \in Nat \ {0} /\ inbox[t][1] = m
        /\ Len(inbox'[t]) = Len(inbox[t]) - 1
        /\ \A i \in 1 .. Len(inbox[t]) - 1 : inbox'[t][i] = inbox[t][i + 1]
    BY <1>2, TakeFacts
  <2>2. CASE \E i \in 1 .. Len(inbox[t]) : LastConfig(t, i) /\ inbox[t][i].config = c
    <3>1. PICK i \in 1 .. Len(inbox[t]) : LastConfig(t, i) /\ inbox[t][i].config = c
      BY <2>2
    <3>2. CASE i = 1
      <4>1. Configures(m) /\ m.config = c
        BY <2>1, <3>1, <3>2 DEF LastConfig
      <4>2. \A j \in 1 .. Len(inbox'[t]) : ~Configures(inbox'[t][j])
        <5> TAKE j \in 1 .. Len(inbox'[t])
        <5>1. inbox'[t][j] = inbox[t][j + 1] /\ j + 1 \in 1 .. Len(inbox[t]) /\ j + 1 > 1
          BY <2>1
        <5>2. QED
          BY <3>1, <3>2, <5>1 DEF LastConfig
      <4>3. cfg'[t] = c
        BY <1>2, <4>1
      <4>4. QED
        BY <4>2, <4>3 DEF Settled, Configures
    <3>3. CASE i # 1
      <4> DEFINE k == i - 1
      <4>1. k \in 1 .. Len(inbox'[t]) /\ inbox'[t][k] = inbox[t][i]
        BY <2>1, <3>3
      <4>2. \A j \in 1 .. Len(inbox'[t]) : j > k => ~Configures(inbox'[t][j])
        <5> SUFFICES ASSUME NEW j \in 1 .. Len(inbox'[t]), j > k PROVE ~Configures(inbox'[t][j])
          OBVIOUS
        <5>1. inbox'[t][j] = inbox[t][j + 1] /\ j + 1 \in 1 .. Len(inbox[t]) /\ j + 1 > i
          BY <2>1
        <5>2. QED
          BY <3>1, <5>1 DEF LastConfig
      <4> HIDE DEF k
      <4>3. LastConfig(t, k)' /\ inbox'[t][k].config = c
        BY <3>1, <4>1, <4>2 DEF LastConfig, Configures
      <4>4. QED
        BY <4>1, <4>3 DEF Settled
    <3>4. QED
      BY <3>2, <3>3
  <2>3. CASE cfg[t] = c /\ \A i \in 1 .. Len(inbox[t]) : ~Configures(inbox[t][i])
    <3>1. ~Configures(m)
      BY <2>1, <2>3
    <3>2. \A j \in 1 .. Len(inbox'[t]) : ~Configures(inbox'[t][j])
      <4> TAKE j \in 1 .. Len(inbox'[t])
      <4>1. inbox'[t][j] = inbox[t][j + 1] /\ j + 1 \in 1 .. Len(inbox[t])
        BY <2>1
      <4>2. QED
        BY <2>3, <4>1
    <3>3. cfg'[t] = c
      BY <2>3, <3>1
    <3>4. QED
      BY <3>2, <3>3 DEF Settled, Configures
  <2>4. QED
    BY <2>2, <2>3 DEF Settled
<1>3. QED
  BY <1>1, <1>2

\* A request that is posted changes no configuration.
LEMMA AssignEvolves ==
  ASSUME TypeOK, NEW s \in Slots, queue # <<>>, Assign(s), UNCHANGED <<phase, cfg, config>>
  PROVE  Evolution
<1>1. Head(queue) \in Requests
  BY QueueParts
<1> DEFINE m == [type |-> "request", id |-> Head(queue)]
<1>2. m \in HostMessages /\ ~Configures(m)
  BY <1>1, Messages DEF Configures
<1>3. inbox' = Posted({worker[s]}, m)
  BY DEF Assign
<1> HIDE DEF m
<1>4. \A u \in Threads, c \in Configs : Settled(u, c) => Settled(u, c)'
  BY <1>2, <1>3, SettledPosted
<1>5. \A u \in Threads : Alive(u)' => Alive(u)
  BY DEF Alive
<1>6. QED
  BY <1>4, <1>5, Undisturbed

\* The configuration that a fresh thread is given is the current one.
LEMMA SpawnEvolves ==
  ASSUME TypeOK, NEW s \in Slots, Spawn(s)
  PROVE  Evolution
<1>1. PICK t \in Threads : Spawn(s)!(t)
  BY DEF Spawn
<1>2. /\ \A u \in Threads \ {t} : inbox'[u] = inbox[u] /\ (Alive(u)' => Alive(u))
      /\ inbox'[t] = <<[type |-> "init", config |-> config]>>
      /\ UNCHANGED <<config, cfg>>
  BY <1>1 DEF Terminated, Alive, TypeOK, envVars, workVars
<1>3. Len(inbox'[t]) = 1 /\ inbox'[t][1].type = "init" /\ inbox'[t][1].config = config
  BY <1>2
<1>4. Settled(t, config)'
  <2>1. 1 \in 1 .. Len(inbox'[t]) /\ \A j \in 1 .. Len(inbox'[t]) : ~(j > 1)
    BY <1>3
  <2>2. LastConfig(t, 1)'
    BY <1>3, <2>1 DEF LastConfig, Configures
  <2>3. QED
    BY <1>2, <1>3, <2>1, <2>2 DEF Settled
<1>5. ASSUME NEW u \in Threads, u # t PROVE Evolves(u)
  <2>1. inbox'[u] = inbox[u] /\ cfg'[u] = cfg[u] /\ config' = config /\ (Alive(u)' => Alive(u))
    BY <1>2, <1>5
  <2>2. \A c \in Configs : Settled(u, c) => Settled(u, c)'
    BY <2>1, SettledQuiet
  <2>3. QED
    BY <2>1, <2>2 DEF Evolves
<1>6. Evolves(t)
  BY <1>2, <1>4 DEF Evolves, TypeOK
<1>7. QED
  BY <1>5, <1>6 DEF Evolution

\* Steps that post nothing, apply nothing and start no thread.
LEMMA QuietEvolves ==
  ASSUME UNCHANGED <<config, inbox, cfg>>, \A u \in Threads : Alive(u)' => Alive(u)
  PROVE  Evolution
  BY SettledQuiet, Undisturbed

\* Those that leave the threads alone.
LEMMA SameEvolves ==
  ASSUME UNCHANGED <<config, phase, inbox, cfg>>
  PROVE  Evolution
  BY QuietEvolves DEF Alive

\* No step does anything else.
LEMMA EvolutionStep == TypeOK /\ AwaitInv /\ [Next]_vars => Evolution
<1> SUFFICES ASSUME TypeOK, AwaitInv, [Next]_vars
             PROVE  Evolution
  OBVIOUS
<1> USE DEF slotVars, drainVars, callerVars, hostVars, envVars, workVars, threadVars
<1>1. ASSUME NEW r \in Requests, RunCancelled(r) PROVE Evolution
  <2>1. UNCHANGED <<config, phase, inbox, cfg>>
    BY <1>1 DEF RunCancelled
  <2>2. QED
    BY <2>1, SameEvolves
<1>2. ASSUME NEW r \in Requests, Run(r) PROVE Evolution
  <2>1. UNCHANGED <<config, phase, inbox, cfg>>
    BY <1>2 DEF Run
  <2>2. QED
    BY <2>1, SameEvolves
<1>3. ASSUME NEW r \in Requests, CancelUnheard(r) PROVE Evolution
  <2>1. UNCHANGED <<config, phase, inbox, cfg>>
    BY <1>3 DEF CancelUnheard, CancelGuard
  <2>2. QED
    BY <2>1, SameEvolves
<1>4. ASSUME NEW r \in Requests, CancelQueued(r) PROVE Evolution
  <2>1. UNCHANGED <<config, phase, inbox, cfg>>
    BY <1>4 DEF CancelQueued, CancelGuard
  <2>2. QED
    BY <2>1, SameEvolves
<1>5. ASSUME NEW r \in Requests, CancelAssigned(r) PROVE Evolution
  <2>1. PICK s \in 1 .. open : inbox' = Posted({worker[s]}, [type |-> "cancel", id |-> r])
    BY <1>5 DEF CancelAssigned
  <2>2. UNCHANGED <<config, phase, cfg>>
    BY <1>5 DEF CancelAssigned
  <2>3. [type |-> "cancel", id |-> r] \in HostMessages /\ ~Configures([type |-> "cancel", id |-> r])
    BY Messages DEF Configures
  <2>4. \A u \in Threads, c \in Configs : Settled(u, c) => Settled(u, c)'
    BY <2>1, <2>2, <2>3, SettledPosted
  <2>5. QED
    BY <2>2, <2>4, Undisturbed DEF Alive
<1>6. CASE Reconfigure
  <2>1. config' \in Configs /\ config' # config /\ UNCHANGED <<phase, cfg>>
    BY <1>6 DEF TypeOK, Reconfigure, Configs
  <2>2. PICK d \in Configs : d = config'
    BY <2>1
  <2> DEFINE m == [type |-> "reconfigure", config |-> d]
  <2>3. m \in HostMessages /\ Configures(m) /\ m.config = d
    BY Messages DEF Configures
  <2>4. inbox' = Posted(ReadyWorkers, m)
    BY <1>6, <2>2 DEF Reconfigure
  <2> HIDE DEF m
  <2>5. SUFFICES ASSUME NEW t \in Threads PROVE Evolves(t)
    BY DEF Evolution
  <2>6. CASE t \in ReadyWorkers /\ Alive(t)
    <3>1. Settled(t, d)'
      BY <2>3, <2>4, <2>6, ConfigPosted
    <3>2. QED
      BY <2>2, <3>1 DEF Evolves, Settled
  <2>7. CASE ~(t \in ReadyWorkers /\ Alive(t))
    <3>1. inbox'[t] = inbox[t] /\ cfg'[t] = cfg[t]
      BY <2>1, <2>3, <2>4, <2>7, PostedFacts
    <3>2. \A c \in Configs : Settled(t, c) => Settled(t, c)'
      BY <3>1, SettledQuiet
    <3>3. InService(t) => ~Alive(t)'
      BY <2>1, <2>7 DEF InService, ReadyWorkers, Alive
    <3>4. QED
      BY <2>1, <3>2, <3>3 DEF Evolves
  <2>8. QED
    BY <2>6, <2>7
<1>7. CASE Dispose
  <2>1. inbox' = Posted(Disposable, [type |-> "shutdown"])
    BY <1>7 DEF Dispose
  <2>2. UNCHANGED <<config, phase, cfg>>
    BY <1>7 DEF Dispose
  <2>3. [type |-> "shutdown"] \in HostMessages /\ ~Configures([type |-> "shutdown"])
    BY Messages DEF Configures
  <2>4. \A u \in Threads, c \in Configs : Settled(u, c) => Settled(u, c)'
    BY <2>1, <2>2, <2>3, SettledPosted
  <2>5. QED
    BY <2>2, <2>4, Undisturbed DEF Alive
<1>8. CASE DrainEmpty
  <2>1. UNCHANGED <<config, phase, inbox, cfg>>
    BY <1>8 DEF DrainEmpty
  <2>2. QED
    BY <2>1, SameEvolves
<1>9. CASE DrainDropCancelled
  <2>1. UNCHANGED <<config, phase, inbox, cfg>>
    BY <1>9 DEF DrainDropCancelled
  <2>2. QED
    BY <2>1, SameEvolves
<1>10. CASE DrainAssign
  BY <1>10, AssignEvolves DEF DrainAssign, Serving, First, IdleReady
<1>11. CASE DrainRespawn
  BY <1>11, SpawnEvolves DEF DrainRespawn
<1>12. CASE DrainGrow
  <2>1. open + 1 \in Slots
    BY <1>12 DEF DrainGrow, TypeOK
  <2>2. QED
    BY <1>12, <2>1, SpawnEvolves DEF DrainGrow
<1>13. CASE DrainAllBusy
  <2>1. UNCHANGED <<config, phase, inbox, cfg>>
    BY <1>13 DEF DrainAllBusy
  <2>2. QED
    BY <2>1, SameEvolves
<1>14. CASE ResumeEmpty
  <2>1. UNCHANGED <<config, phase, inbox, cfg>>
    BY <1>14 DEF ResumeEmpty
  <2>2. QED
    BY <2>1, SameEvolves
<1>15. CASE ResumeAssign
  <2>1. waitSlot \in Slots
    BY <1>15, AwaitSlot DEF ResumeAssign, AwaitInv
  <2>2. QED
    BY <1>15, <2>1, AssignEvolves DEF ResumeAssign
<1>16. CASE RespawnFailed
  <2>1. UNCHANGED <<config, inbox, cfg>>
    BY <1>16 DEF RespawnFailed, SpawnFailed
  <2>2. \A u \in Threads : Alive(u)' => Alive(u)
    BY <1>16 DEF RespawnFailed, SpawnFailed, Terminated, Alive, TypeOK
  <2>3. QED
    BY <2>1, <2>2, QuietEvolves
<1>17. CASE GrowFailed
  <2>1. UNCHANGED <<config, inbox, cfg>>
    BY <1>17 DEF GrowFailed, SpawnFailed
  <2>2. \A u \in Threads : Alive(u)' => Alive(u)
    BY <1>17 DEF GrowFailed, SpawnFailed, Terminated, Alive, TypeOK
  <2>3. QED
    BY <2>1, <2>2, QuietEvolves
<1>18. CASE ReadyTimeout
  <2>1. UNCHANGED <<config, phase, inbox, cfg>>
    BY <1>18 DEF ReadyTimeout
  <2>2. QED
    BY <2>1, SameEvolves
<1>19. ASSUME NEW t \in Threads, TerminateDoomed(t) PROVE Evolution
  <2>1. UNCHANGED <<config, inbox, cfg>>
    BY <1>19 DEF TerminateDoomed
  <2>2. \A u \in Threads : Alive(u)' => Alive(u)
    BY <1>19 DEF TerminateDoomed, Terminated, Alive, TypeOK
  <2>3. QED
    BY <2>1, <2>2, QuietEvolves
<1>20. ASSUME NEW t \in Threads, OnReady(t) PROVE Evolution
  <2>1. UNCHANGED <<config, phase, inbox, cfg>>
    BY <1>20 DEF OnReady
  <2>2. QED
    BY <2>1, SameEvolves
<1>21. ASSUME NEW t \in Threads, OnProgress(t) PROVE Evolution
  <2>1. UNCHANGED <<config, phase, inbox, cfg>>
    BY <1>21 DEF OnProgress
  <2>2. QED
    BY <2>1, SameEvolves
<1>22. ASSUME NEW t \in Threads, OnReply(t) PROVE Evolution
  <2>1. UNCHANGED <<config, phase, inbox, cfg>>
    BY <1>22 DEF OnReply
  <2>2. QED
    BY <2>1, SameEvolves
<1>23. ASSUME NEW t \in Threads, OnStaleReply(t) PROVE Evolution
  <2>1. UNCHANGED <<config, phase, inbox, cfg>>
    BY <1>23 DEF OnStaleReply
  <2>2. QED
    BY <2>1, SameEvolves
<1>24. ASSUME NEW t \in Threads, OnError(t) PROVE Evolution
  <2>1. UNCHANGED <<config, inbox, cfg>>
    BY <1>24 DEF OnError
  <2>2. \A u \in Threads : Alive(u)' => Alive(u)
    BY <1>24 DEF OnError, ExitGuard, Alive, TypeOK
  <2>3. QED
    BY <2>1, <2>2, QuietEvolves
<1>25. ASSUME NEW t \in Threads, OnUnexpectedExit(t) PROVE Evolution
  <2>1. UNCHANGED <<config, inbox, cfg>>
    BY <1>25 DEF OnUnexpectedExit
  <2>2. \A u \in Threads : Alive(u)' => Alive(u)
    BY <1>25 DEF OnUnexpectedExit, ExitGuard, Alive, TypeOK
  <2>3. QED
    BY <2>1, <2>2, QuietEvolves
<1>26. ASSUME NEW t \in Threads, OnIgnoredExit(t) PROVE Evolution
  <2>1. UNCHANGED <<config, inbox, cfg>>
    BY <1>26 DEF OnIgnoredExit
  <2>2. \A u \in Threads : Alive(u)' => Alive(u)
    BY <1>26 DEF OnIgnoredExit, ExitGuard, Alive, TypeOK
  <2>3. QED
    BY <2>1, <2>2, QuietEvolves
<1>27. ASSUME NEW t \in Threads, TakeInit(t) PROVE Evolution
  <2>1. PICK d \in Configs : /\ Take(t, [type |-> "init", config |-> d])
                             /\ cfg' = [cfg EXCEPT ![t] = d]
    BY <1>27 DEF TakeInit
  <2> DEFINE m == [type |-> "init", config |-> d]
  <2>2. Take(t, m) /\ Configures(m) /\ m.config = d
    BY <2>1 DEF Configures
  <2> HIDE DEF m
  <2>3. \A v \in Threads : cfg'[v] = IF v = t /\ Configures(m) THEN m.config ELSE cfg[v]
    BY <2>1, <2>2 DEF TypeOK
  <2>4. config' = config /\ \A u \in Threads : Alive(u)' => Alive(u)
    BY <1>27 DEF TakeInit, Alive, TypeOK
  <2>5. \A u \in Threads, c \in Configs : Settled(u, c) => Settled(u, c)'
    BY <2>2, <2>3, <2>4, SettledTaken
  <2>6. QED
    BY <2>4, <2>5, Undisturbed
<1>28. ASSUME NEW t \in Threads, TakeReconfigure(t) PROVE Evolution
  <2>1. PICK d \in Configs : /\ Take(t, [type |-> "reconfigure", config |-> d])
                             /\ cfg' = [cfg EXCEPT ![t] = d]
    BY <1>28 DEF TakeReconfigure
  <2> DEFINE m == [type |-> "reconfigure", config |-> d]
  <2>2. Take(t, m) /\ Configures(m) /\ m.config = d
    BY <2>1 DEF Configures
  <2> HIDE DEF m
  <2>3. \A v \in Threads : cfg'[v] = IF v = t /\ Configures(m) THEN m.config ELSE cfg[v]
    BY <2>1, <2>2 DEF TypeOK
  <2>4. config' = config /\ \A u \in Threads : Alive(u)' => Alive(u)
    BY <1>28 DEF TakeReconfigure, Alive, TypeOK
  <2>5. \A u \in Threads, c \in Configs : Settled(u, c) => Settled(u, c)'
    BY <2>2, <2>3, <2>4, SettledTaken
  <2>6. QED
    BY <2>4, <2>5, Undisturbed
<1>29. ASSUME NEW t \in Threads, TakeRequest(t) PROVE Evolution
  <2>1. PICK m : Take(t, m) /\ ~Configures(m)
    BY <1>29 DEF TakeRequest, Configures
  <2>2. UNCHANGED <<config, cfg>> /\ \A u \in Threads : Alive(u)' => Alive(u)
    BY <1>29 DEF TakeRequest, Alive, TypeOK
  <2>3. \A v \in Threads : cfg'[v] = IF v = t /\ Configures(m) THEN m.config ELSE cfg[v]
    BY <2>1, <2>2
  <2>4. \A u \in Threads, c \in Configs : Settled(u, c) => Settled(u, c)'
    BY <2>1, <2>2, <2>3, SettledTaken
  <2>5. QED
    BY <2>2, <2>4, Undisturbed
<1>30. ASSUME NEW t \in Threads, TakeCancel(t) PROVE Evolution
  <2>1. PICK m : Take(t, m) /\ ~Configures(m)
    BY <1>30 DEF TakeCancel, Configures
  <2>2. UNCHANGED <<config, cfg>> /\ \A u \in Threads : Alive(u)' => Alive(u)
    BY <1>30 DEF TakeCancel, Alive, TypeOK
  <2>3. \A v \in Threads : cfg'[v] = IF v = t /\ Configures(m) THEN m.config ELSE cfg[v]
    BY <2>1, <2>2
  <2>4. \A u \in Threads, c \in Configs : Settled(u, c) => Settled(u, c)'
    BY <2>1, <2>2, <2>3, SettledTaken
  <2>5. QED
    BY <2>2, <2>4, Undisturbed
<1>31. ASSUME NEW t \in Threads, TakeShutdown(t) PROVE Evolution
  <2>1. PICK m : Take(t, m) /\ ~Configures(m)
    BY <1>31 DEF TakeShutdown, Configures
  <2>2. UNCHANGED <<config, cfg>> /\ \A u \in Threads : Alive(u)' => Alive(u)
    BY <1>31 DEF TakeShutdown, Alive, TypeOK
  <2>3. \A v \in Threads : cfg'[v] = IF v = t /\ Configures(m) THEN m.config ELSE cfg[v]
    BY <2>1, <2>2
  <2>4. \A u \in Threads, c \in Configs : Settled(u, c) => Settled(u, c)'
    BY <2>1, <2>2, <2>3, SettledTaken
  <2>5. QED
    BY <2>2, <2>4, Undisturbed
<1>32. ASSUME NEW t \in Threads, Report(t) PROVE Evolution
  <2>1. UNCHANGED <<config, phase, inbox, cfg>>
    BY <1>32 DEF Report
  <2>2. QED
    BY <2>1, SameEvolves
<1>33. ASSUME NEW t \in Threads, Finish(t) PROVE Evolution
  <2>1. UNCHANGED <<config, phase, inbox, cfg>>
    BY <1>33 DEF Finish
  <2>2. QED
    BY <2>1, SameEvolves
<1>34. ASSUME NEW t \in Threads, Crash(t) PROVE Evolution
  <2>1. UNCHANGED <<config, inbox, cfg>>
    BY <1>34 DEF Crash
  <2>2. \A u \in Threads : Alive(u)' => Alive(u)
    BY <1>34 DEF Crash, ExitGuard, Alive, TypeOK
  <2>3. QED
    BY <2>1, <2>2, QuietEvolves
<1>35. CASE UNCHANGED vars
  <2>1. UNCHANGED <<config, phase, inbox, cfg>>
    BY <1>35 DEF vars
  <2>2. QED
    BY <2>1, SameEvolves
<1> QED
  BY <1>1, <1>2, <1>3, <1>4, <1>5, <1>6, <1>7, <1>8, <1>9, <1>10, <1>11, <1>12, <1>13, <1>14,
     <1>15, <1>16, <1>17, <1>18, <1>19, <1>20, <1>21, <1>22, <1>23, <1>24, <1>25, <1>26,
     <1>27, <1>28, <1>29, <1>30, <1>31, <1>32, <1>33, <1>34, <1>35
     DEF Next, Callers, Drain, Timers, Listen, Handler, Finished

-----------------------------------------------------------------------------
(* What the invariants say                                                 *)

\* A thread that has what it was last sent has the configuration of ConfigOf.
LEMMA SettledConfig ==
  ASSUME TypeOK, NEW t \in Threads, NEW c, Settled(t, c)
  PROVE  ConfigOf(t) = c
<1> DEFINE sent == {i \in 1 .. Len(inbox[t]) : inbox[t][i].type \in {"init", "reconfigure"}}
<1>1. CASE \A i \in 1 .. Len(inbox[t]) : ~Configures(inbox[t][i])
  <2>1. sent = {}
    BY <1>1 DEF Configures
  <2>2. cfg[t] = c
    BY <1>1 DEF Settled, LastConfig
  <2>3. QED
    BY <2>1, <2>2 DEF ConfigOf
<1>2. CASE \E i \in 1 .. Len(inbox[t]) : LastConfig(t, i) /\ inbox[t][i].config = c
  <2>1. PICK i \in 1 .. Len(inbox[t]) : LastConfig(t, i) /\ inbox[t][i].config = c
    BY <1>2
  <2>2. i \in sent /\ \A j \in sent : j <= i
    BY <2>1, ChannelTypes DEF LastConfig, Configures
  <2>3. \A k \in sent : (\A j \in sent : j <= k) => k = i
    BY <2>2, ChannelTypes
  <2>4. (CHOOSE k \in sent : \A j \in sent : j <= k) = i
    <3> HIDE DEF sent
    <3>1. QED
      BY <2>2, <2>3
  <2>5. sent # {} /\ ConfigOf(t) = inbox[t][CHOOSE k \in sent : \A j \in sent : j <= k].config
    BY <2>2 DEF ConfigOf
  <2>6. QED
    BY <2>1, <2>4, <2>5
<1>3. QED
  BY <1>1, <1>2 DEF Settled

\* The same after a step.
LEMMA SettledConfigNext ==
  ASSUME NEW t \in Threads, NEW c
  PROVE  TypeOK' /\ Settled(t, c)' => ConfigOf(t)' = c
<1>1. TypeOK /\ Settled(t, c) => ConfigOf(t) = c
  BY SettledConfig
<1>2. (TypeOK /\ Settled(t, c) => ConfigOf(t) = c)'
  BY <1>1, PTL
<1>3. QED
  BY <1>2

\* The parts that hold however late the events of threads are, and
ShapeInv == IInv /\ ThreadShape /\ SlotShape /\ QueuedPolled /\ CancelTrail /\ CancelledOnRequest

\* those that rest on punctual ones.
PunctualInv ==
  ShapeInv /\ Closed /\ Held /\ Silent /\ AwaitEnds /\ OneJob /\ CancelReachesThread

\* Requests in the hands of a live thread are its slot's current one.
LEMMA WorkInHand ==
  ASSUME TypeOK, NEW s \in Slots, NEW t \in Threads, JobOf(s, t), NEW r \in InHand(t)
  PROVE  r = current[s] /\ r \in Requests
<1>1. CASE \E i \in 1 .. Len(chain[t]) : r = chain[t][i]
  <2>1. PICK i \in 1 .. Len(chain[t]) : r = chain[t][i]
    BY <1>1
  <2>2. i = 1 /\ chain[t] # <<>>
    BY <2>1, ChannelTypes DEF JobOf
  <2>3. QED
    BY <2>1, <2>2, ChannelTypes DEF JobOf
<1>2. CASE \E i \in Asks(t) : r = inbox[t][i].id
  BY <1>2, ChannelTypes, MessageShape DEF JobOf, Asks
<1>3. QED
  BY <1>1, <1>2 DEF InHand, Asks

\* A live thread belongs to a slot, or dispose() has set its timer.
LEMMA LeaksNothing == PunctualInv => NoLeakedThread
<1> SUFFICES ASSUME PunctualInv, NEW t \in Threads, Alive(t)
             PROVE  t \in doomed \/ \E s \in 1 .. open : worker[s] = t
  BY DEF NoLeakedThread
<1> USE DEF PunctualInv, ShapeInv, IInv
<1>1. CASE disposed
  BY <1>1 DEF Closed
<1>2. CASE ~disposed
  <2>1. slotOf[t] \in Slots /\ worker[slotOf[t]] = t
    BY <1>2 DEF Held, Stale, TypeOK
  <2>2. slotOf[t] <= open /\ open \in Nat
    BY <2>1, NotNone DEF SlotShape, TypeOK
  <2>3. QED
    BY <2>1, <2>2
<1>3. QED
  BY <1>1, <1>2

\* A busy slot's request is posted, on the chain, answered, or lost with a
\* thread whose end will be noticed.
LEMMA BusyInFlight == PunctualInv => CurrentInFlight
<1> SUFFICES ASSUME PunctualInv, NEW s \in Slots, current[s] # None PROVE CurrentInFlight!(s)
  BY DEF CurrentInFlight
<1> USE DEF PunctualInv, ShapeInv, IInv
<1>1. ~disposed
  BY DEF Closed
<1>2. ready[s] /\ worker[s] # None /\ ~failed[s] /\ phase[worker[s]] \in {"live", "crashed", "stopped"}
  BY <1>1 DEF Held
<1> DEFINE t == worker[s]
<1>3. t \in Threads /\ slotOf[t] = s /\ JobOf(s, t)
  BY <1>2 DEF SlotShape, OneJob, TypeOK
<1>4. CASE phase[t] = "live"
  <2>1. chain[t] # <<>> \/ Asks(t) # {} \/ Replies(t) # {}
    BY <1>3, <1>4 DEF JobOf
  <2>2. ASSUME chain[t] # <<>> PROVE current[s] \in InHand(t)
    <3>1. 1 \in 1 .. Len(chain[t]) /\ chain[t][1] = current[s]
      BY <1>3, <2>2, ChannelTypes DEF JobOf
    <3>2. QED
      BY <3>1 DEF InHand
  <2>3. ASSUME Asks(t) # {} PROVE current[s] \in InHand(t)
    BY <1>3, <2>3 DEF JobOf, InHand, Asks
  <2>4. ASSUME Replies(t) # {} PROVE ReplySent(t, current[s])
    BY <1>3, <2>4 DEF JobOf, Replies, ReplySent
  <2>5. QED
    BY <1>2, <1>3, <1>4, <2>1, <2>2, <2>3, <2>4 DEF Alive
<1>5. QED
  BY <1>2, <1>3, <1>4

\* What a live thread works on is still pending.
LEMMA NoGhosts == PunctualInv => NoGhostWork
<1> SUFFICES ASSUME PunctualInv, ~disposed, NEW t \in Threads, Alive(t), NEW r \in InHand(t)
             PROVE  status[r] = "pending"
  BY DEF NoGhostWork
<1> USE DEF PunctualInv, ShapeInv, IInv
<1> DEFINE s == slotOf[t]
<1>1. s \in Slots /\ worker[s] = t /\ t # None
  BY NotNone DEF Held, Stale, TypeOK
<1>2. JobOf(s, t)
  BY <1>1 DEF OneJob
<1>3. r = current[s] /\ r \in Requests
  BY <1>1, <1>2, WorkInHand
<1>4. Assigned(r)
  BY <1>1, <1>3 DEF Assigned
<1>5. QED
  BY <1>3, <1>4 DEF RequestConserved

\* A progress message is of the slot's current request, or of none.
LEMMA ProgressOwned == PunctualInv => ProgressReachesOwner
<1> SUFFICES ASSUME PunctualInv, NEW t \in Threads, outbox[t] # <<>>, Head(outbox[t]).type = "progress",
                    slotOf[t] # None, current[slotOf[t]] # None
             PROVE  current[slotOf[t]] = Head(outbox[t]).id
  BY DEF ProgressReachesOwner, CurrentOf
<1> USE DEF PunctualInv, ShapeInv, IInv
<1> DEFINE s == slotOf[t]
<1>1. s \in Slots
  BY DEF TypeOK
<1>2. ~disposed
  BY <1>1 DEF Closed
<1>3. worker[s] = t
  BY <1>2 DEF Silent, Stale
<1>4. JobOf(s, t)
  BY <1>1, <1>3, NotNone DEF OneJob
<1>5. outbox[t] \in Seq(WorkerMessages)
  BY DEF TypeOK
<1>6. Len(outbox[t]) \in Nat \ {0} /\ Head(outbox[t]) = outbox[t][1]
  BY <1>5, TailFacts
<1>7. 1 \in 1 .. Len(outbox[t]) /\ outbox[t][1].type # "ready"
  BY <1>6
<1>8. outbox[t][1].id = current[s]
  BY <1>4, <1>7 DEF JobOf
<1>9. QED
  BY <1>6, <1>8

\* Settings are missed only by a thread that is starting.
LEMMA MissedStep ==
  ASSUME TypeOK, TypeOK', Definite, Evolution, NEW t \in Threads, Alive(t)', ConfigOf(t)' # config'
  PROVE  IF config' = config THEN Alive(t) /\ ConfigOf(t) # config ELSE ~InService(t)
<1>1. ASSUME NEW c, Settled(t, c)' PROVE ConfigOf(t)' = c
  BY <1>1, SettledConfigNext
<1>2. ~Settled(t, config)'
  BY <1>1
<1>3. CASE config' # config
  BY <1>2, <1>3 DEF Evolution, Evolves
<1>4. CASE config' = config
  <2>1. PICK c \in Configs : Settled(t, c)
    BY DEF Definite
  <2>2. Alive(t) /\ Settled(t, c)'
    BY <1>2, <1>4, <2>1 DEF Evolution, Evolves
  <2>3. c # config
    BY <1>1, <1>4, <2>2
  <2>4. ConfigOf(t) = c
    BY <2>1, SettledConfig
  <2>5. QED
    BY <1>4, <2>2, <2>3, <2>4
<1>5. QED
  BY <1>3, <1>4

\* The configuration that a thread is about to have stays a definite one.
LEMMA DefiniteStep == Definite /\ Evolution => Definite'
<1> SUFFICES ASSUME Definite, Evolution, NEW t \in Threads PROVE (\E c \in Configs : Settled(t, c))'
  BY DEF Definite
<1>1. PICK c \in Configs : Settled(t, c)
  BY DEF Definite
<1>2. CASE Settled(t, c)'
  BY <1>2 DEF Configs
<1>3. CASE config' \in Configs /\ Settled(t, config)'
  <2>1. PICK d \in Configs : d = config'
    BY <1>3
  <2>2. Settled(t, d)'
    BY <1>3, <2>1 DEF Settled
  <2>3. QED
    BY <2>2 DEF Configs
<1>4. QED
  BY <1>1, <1>2, <1>3 DEF Evolution, Evolves

-----------------------------------------------------------------------------
(* The theorems                                                            *)

\* When the runner is created nothing is posted, no slot has a thread and no
\* request has a slot.
LEMMA InitFacts ==
  ASSUME Init
  PROVE  /\ ~disposed /\ pc = "idle" /\ starting = None /\ cancelReq = {}
         /\ Len(queue) = 0
         /\ \A s \in Slots : worker[s] = None /\ current[s] = None /\ ~ready[s]
         /\ \A t \in Threads :
              /\ phase[t] = "unborn" /\ slotOf[t] = None /\ cancelled[t] = {}
              /\ inbox[t] = <<>> /\ outbox[t] = <<>> /\ chain[t] = <<>>
              /\ Len(inbox[t]) = 0 /\ Len(outbox[t]) = 0
         /\ \A r \in Requests : status[r] = "new"
  BY DEF Init

\* The invariants hold when the runner is created.
LEMMA InitThreads == Init => PunctualInv /\ Definite
<1> SUFFICES ASSUME Init PROVE PunctualInv /\ Definite
  OBVIOUS
<1>1. IInv
  BY InitInv
<1>2. ThreadShape /\ SlotShape
  BY InitFacts DEF ThreadShape, SlotShape
<1>3. QueuedPolled /\ CancelTrail /\ CancelledOnRequest
  BY InitFacts DEF QueuedPolled, CancelTrail, CancelledOnRequest, Queued
<1>4. Closed /\ Held
  BY InitFacts DEF Closed, Held, Alive
<1>5. Silent /\ AwaitEnds
  BY InitFacts DEF Silent, AwaitEnds
<1>6. OneJob /\ CancelReachesThread
  BY InitFacts DEF OneJob, CancelReachesThread
<1>7. Definite
  <2>1. 0 \in Configs /\ \A t \in Threads : cfg[t] = 0
    BY DEF Init, Configs
  <2>2. QED
    BY <2>1, InitFacts DEF Definite, Settled
<1>8. QED
  BY <1>1, <1>2, <1>3, <1>4, <1>5, <1>6, <1>7 DEF PunctualInv, ShapeInv

\* Every step keeps the shapes and the trail of cancellations.
LEMMA ShapeStep == ShapeInv /\ [Next]_vars => ShapeInv'
  BY StepInv, ThreadShapeStep, SlotShapeStep, QueuedPolledStep, CancelTrailStep, CancelledStep
     DEF ShapeInv, IInv

\* With punctual threads, also what the slots rely on.
LEMMA PunctualStep == Punctual /\ PunctualInv /\ [Next]_vars => PunctualInv'
  BY ShapeStep, ClosedStep, HeldStep, SilentStep, AwaitEndsStep, OneJobStep, CancelReachesStep
     DEF PunctualInv, ShapeInv, IInv

\* Hence the shapes hold in every reachable state,
LEMMA ShapesHold == Spec => []ShapeInv
<1>1. Init => ShapeInv
  BY InitThreads DEF PunctualInv
<1>2. QED
  BY <1>1, ShapeStep, PTL DEF Spec

\* the rest where the events of threads are punctual.
LEMMA PunctualHolds == ASSUME Punctual PROVE Spec => []PunctualInv
<1>1. Init => PunctualInv
  BY InitThreads
<1>2. PunctualInv /\ [Next]_vars => PunctualInv'
  BY PunctualStep
<1>3. QED
  BY <1>1, <1>2, PTL DEF Spec

\* A caller is told "cancelled" only if its token was, or the runner is closed:
\* whatever the order of events, no thread answers for a request nobody
\* cancelled (rejectCancelled, dispose and the handler's cancelled set).
THEOREM CancelledWhenAsked == Spec => []CancelledOnRequest
  BY ShapesHold, PTL DEF ShapeInv

\* No live thread is forgotten by the runner, through respawns, lost threads,
\* given-up starts and dispose().
THEOREM ThreadsNotLeaked == ASSUME Punctual PROVE Spec => []NoLeakedThread
  BY PunctualHolds, LeaksNothing, PTL

\* A caller whose request a slot holds can still be answered.
THEOREM BusySlotsAnswered == ASSUME Punctual PROVE Spec => []CurrentInFlight
  BY PunctualHolds, BusyInFlight, PTL

\* No live thread works for a caller that has been told of a failure.
THEOREM WorkIsWanted == ASSUME Punctual PROVE Spec => []NoGhostWork
  BY PunctualHolds, NoGhosts, PTL

\* The missing id guard of the progress listener does no harm.
THEOREM ProgressIsOwned == ASSUME Punctual PROVE Spec => []ProgressReachesOwner
  BY PunctualHolds, ProgressOwned, PTL

\* The cancellation of a running request is never lost on its way to the thread.
THEOREM CancelsArrive == ASSUME Punctual PROVE Spec => []CancelReachesThread
  BY PunctualHolds, PTL DEF PunctualInv

\* A thread works with stale settings only because they changed while it was
\* starting (reconfigure() reaches every thread in service and mends what it
\* missed, a new thread is given the current ones, and no message undoes that).
THEOREM SettingsMissedAtStart == Spec => MissedOnlyWhileStarting
<1>1. Init => ShapeInv /\ Definite
  BY InitThreads DEF PunctualInv
<1>2. ShapeInv /\ Definite /\ [Next]_vars => ShapeInv' /\ Definite'
  BY ShapeStep, EvolutionStep, DefiniteStep DEF ShapeInv, IInv
<1>3. ShapeInv /\ ShapeInv' /\ Definite /\ [Next]_vars =>
        \A t \in Threads : Alive(t)' /\ ConfigOf(t)' # config' =>
          IF config' = config THEN Alive(t) /\ ConfigOf(t) # config ELSE ~InService(t)
  BY EvolutionStep, MissedStep DEF ShapeInv, IInv
<1>4. QED
  BY <1>1, <1>2, <1>3, PTL DEF Spec, MissedOnlyWhileStarting
=============================================================================
