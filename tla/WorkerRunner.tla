---------------------------- MODULE WorkerRunner ----------------------------
(***************************************************************************)
(* The archive worker pool: the host-side WorkerThreadRunner               *)
(* (engines/worker/runner.ts), the message loop of each worker thread      *)
(* (engines/worker/handler.ts) and the two message channels between them.  *)
(*                                                                         *)
(* The host is single-threaded JavaScript.  An action of the host is one   *)
(* event callback, and no event interrupts drain(): while pc is "loop",    *)
(* "ready" or "fail" the host is inside drain() and only drain() may step; *)
(* while pc is "wait" drain() is suspended in "await ensureSlotReady" and  *)
(* every other callback may run.  Worker threads run concurrently.         *)
(***************************************************************************)
EXTENDS Naturals, Sequences, FiniteSets, SequencesExt

CONSTANTS
  MaxRequests,       \* bound: requests submitted in one life of the runner
  PoolSize,          \* the smart-archiver.worker.poolSize setting
  MaxThreads,        \* bound: threads ever created (more are never needed)
  MaxFaults,         \* bound: threads that crash, exit or are given up
  MaxConfig,         \* bound: configuration changes
  Cancellable,       \* requests submitted with a cancellation token
  Polled,            \* those whose token has no onCancellationRequested
  Reporting,         \* bound: requests whose progress messages are modelled
  Punctual           \* do thread events reach the host in time and in order?

ASSUME RunnerAssumption ==
  /\ MaxRequests \in Nat \ {0}
  /\ PoolSize \in Nat \ {0}
  /\ MaxThreads \in Nat \ {0}
  /\ MaxFaults \in Nat
  /\ MaxConfig \in Nat
  /\ Cancellable \subseteq 1 .. MaxRequests
  /\ Polled \subseteq Cancellable
  /\ Reporting \subseteq 1 .. MaxRequests
  /\ Punctual \in BOOLEAN

Requests == 1 .. MaxRequests   \* PendingRequest.id, from nextId++
Slots == 1 .. PoolSize
Threads == 1 .. MaxThreads
Configs == 0 .. MaxConfig
None == 0                      \* null: no thread, slot or request

VARIABLES
  queue,      \* this.queue
  open,       \* this.slots.length
  worker,     \* slot.worker
  ready,      \* slot.ready
  failed,     \* slot.failed
  current,    \* slot.current
  pc,         \* where drain() is
  growing,    \* drain() waits for a new slot (case 3), not a dead one (case 2)
  waitSlot,   \* the slot drain() waits for
  starting,   \* the thread whose ready message ensureSlotReady awaits
  status,     \* each request's promise, as its caller sees it
  cancelReq,  \* requests whose token is cancelled
  config,     \* version of the workspace configuration
  disposed,   \* dispose() has run
  doomed,     \* threads with a delayed terminate() scheduled by dispose()
  slotOf,     \* the slot object a thread's listeners close over
  phase,      \* life of each thread
  inbox,      \* messages posted to a thread and not yet taken
  outbox,     \* messages a thread posted and the host has not yet handled
  cfg,        \* configuration a thread has applied
  chain,      \* requestChain of a thread, the running request first
  cancelled   \* the handler's set of cancelled ids

slotVars == <<open, worker, ready, failed, current>>
drainVars == <<pc, growing, waitSlot, starting>>
callerVars == <<status, cancelReq>>
hostVars == <<queue, slotVars, drainVars, callerVars>>
envVars == <<config, disposed, doomed>>
workVars == <<cfg, chain, cancelled>>
threadVars == <<slotOf, phase, inbox, outbox, workVars>>
vars == <<hostVars, envVars, threadVars>>

HostMessages ==
  [type : {"init", "reconfigure"}, config : Configs]
    \cup [type : {"request", "cancel"}, id : Requests]
    \cup [type : {"shutdown"}]

WorkerMessages ==
  [type : {"ready"}]
    \cup [type : {"done", "error", "cancelled", "progress"}, id : Requests]

Phases == {"unborn", "boot", "live", "crashed", "stopped", "gone"}
Answers == {"done", "error", "cancelled", "crashed", "spawnFailed"}

TypeOK ==
  /\ queue \in Seq(Requests)
  /\ open \in 0 .. PoolSize
  /\ worker \in [Slots -> Threads \cup {None}]
  /\ ready \in [Slots -> BOOLEAN]
  /\ failed \in [Slots -> BOOLEAN]
  /\ current \in [Slots -> Requests \cup {None}]
  /\ pc \in {"idle", "loop", "wait", "ready", "fail"}
  /\ growing \in BOOLEAN
  /\ waitSlot \in Slots \cup {None}
  /\ starting \in Threads \cup {None}
  /\ status \in [Requests -> {"new", "pending"} \cup Answers]
  /\ cancelReq \subseteq Requests
  /\ config \in Configs
  /\ disposed \in BOOLEAN
  /\ doomed \subseteq Threads
  /\ slotOf \in [Threads -> Slots \cup {None}]
  /\ phase \in [Threads -> Phases]
  /\ inbox \in [Threads -> Seq(HostMessages)]
  /\ outbox \in [Threads -> Seq(WorkerMessages)]
  /\ cfg \in [Threads -> Configs]
  /\ chain \in [Threads -> Seq(Requests)]
  /\ cancelled \in [Threads -> SUBSET Requests]

Init ==
  /\ queue = <<>>
  /\ open = 0
  /\ worker = [s \in Slots |-> None]
  /\ ready = [s \in Slots |-> FALSE]
  /\ failed = [s \in Slots |-> FALSE]
  /\ current = [s \in Slots |-> None]
  /\ pc = "idle"
  /\ growing = FALSE
  /\ waitSlot = None
  /\ starting = None
  /\ status = [r \in Requests |-> "new"]
  /\ cancelReq = {}
  /\ config = 0
  /\ disposed = FALSE
  /\ doomed = {}
  /\ slotOf = [t \in Threads |-> None]
  /\ phase = [t \in Threads |-> "unborn"]
  /\ inbox = [t \in Threads |-> <<>>]
  /\ outbox = [t \in Threads |-> <<>>]
  /\ cfg = [t \in Threads |-> 0]
  /\ chain = [t \in Threads |-> <<>>]
  /\ cancelled = [t \in Threads |-> {}]

-----------------------------------------------------------------------------
(* Threads and channels                                                    *)

Alive(t) == phase[t] \in {"boot", "live"}
Dying(t) == phase[t] \in {"crashed", "stopped"}

\* Threads lost so far: what MaxFaults bounds.
Faults == Cardinality({t \in Threads : Dying(t) \/ phase[t] = "gone"})

\* postTo: a message to a null or dead worker is silently dropped.
Posted(T, m) ==
  [t \in Threads |-> IF t \in T /\ Alive(t) THEN Append(inbox[t], m) ELSE inbox[t]]

\* Mutant: a thread that did not become ready in time is not reclaimed.
TerminatedNever(T) == [t \in Threads |-> phase[t]]

\* worker.terminate(): what the thread has already posted still arrives.
Terminated(T) ==
  [t \in Threads |-> IF t \in T /\ Alive(t) THEN "stopped" ELSE phase[t]]

\* The host's event loop runs its next callback.
HostFree == pc \in {"idle", "wait"}

\* A call of drain(): it returns at once while another call is active.
CallDrain == pc' = IF pc = "idle" THEN "loop" ELSE pc

-----------------------------------------------------------------------------
(* The callers of the runner                                               *)

\* run(): requests are numbered in the order of their submission.
RunGuard(r) ==
  /\ HostFree
  /\ ~disposed
  /\ status[r] = "new"
  /\ \A q \in Requests : q < r => status[q] # "new"

RunCancelled(r) ==
  /\ RunGuard(r)
  /\ r \in cancelReq
  /\ status' = [status EXCEPT ![r] = "cancelled"]
  /\ UNCHANGED <<queue, slotVars, drainVars, cancelReq, envVars, threadVars>>

Run(r) ==
  /\ RunGuard(r)
  /\ r \notin cancelReq
  /\ queue' = Append(queue, r)
  /\ status' = [status EXCEPT ![r] = "pending"]
  /\ CallDrain
  /\ UNCHANGED <<slotVars, growing, waitSlot, starting, cancelReq, envVars, threadVars>>

\* The user cancels: the token's flag is set and its listener runs.
CancelGuard(r) ==
  /\ HostFree
  /\ r \in Cancellable \ cancelReq
  /\ cancelReq' = cancelReq \cup {r}

\* No listener is registered before run() or on a token without the event.
CancelUnheard(r) ==
  /\ CancelGuard(r)
  /\ status[r] = "new" \/ (status[r] = "pending" /\ r \in Polled)
  /\ UNCHANGED <<queue, slotVars, drainVars, status, envVars, threadVars>>

CancelQueued(r) ==
  /\ CancelGuard(r)
  /\ r \notin Polled
  /\ \E i \in 1 .. Len(queue) : queue[i] = r /\ queue' = RemoveAt(queue, i)
  /\ status' = [status EXCEPT ![r] = "cancelled"]
  /\ UNCHANGED <<slotVars, drainVars, envVars, threadVars>>

\* Mutant: cancelling a running request rejects it without the worker's reply.
CancelRejects(r) ==
  /\ CancelGuard(r)
  /\ r \notin Polled
  /\ \E s \in 1 .. open : current[s] = r /\ current' = [current EXCEPT ![s] = None]
  /\ status' = [status EXCEPT ![r] = "cancelled"]
  /\ UNCHANGED <<queue, open, worker, ready, failed, drainVars, envVars, threadVars>>

\* Mutant: the listener only looks in the queue.
CancelIgnored(r) ==
  /\ CancelGuard(r)
  /\ r \notin Polled
  /\ \E s \in 1 .. open : current[s] = r
  /\ UNCHANGED <<queue, slotVars, drainVars, status, envVars, threadVars>>

CancelAssigned(r) ==
  /\ CancelGuard(r)
  /\ r \notin Polled
  /\ \E s \in 1 .. open :
       /\ current[s] = r
       /\ inbox' = Posted({worker[s]}, [type |-> "cancel", id |-> r])
  /\ UNCHANGED <<queue, slotVars, drainVars, status, envVars, slotOf, phase, outbox, workVars>>

\* Mutant: only idle workers are told.
IdleWorkers == {worker[s] : s \in {u \in 1 .. open : ready[u] /\ current[u] = None}}

\* onDidChangeConfiguration: reconfigure() reaches the ready workers only.
ReadyWorkers == {worker[s] : s \in {u \in 1 .. open : ready[u]}}

Reconfigure ==
  /\ HostFree
  /\ config < MaxConfig
  /\ config' = config + 1
  /\ inbox' = Posted(ReadyWorkers, [type |-> "reconfigure", config |-> config'])
  /\ UNCHANGED <<hostVars, disposed, doomed, slotOf, phase, outbox, workVars>>

\* Mutant: a thread that is still starting is forgotten.
ReadyDisposable == {worker[s] : s \in {u \in 1 .. open : ready[u]}} \ {None}

Disposable == {worker[s] : s \in 1 .. open} \ {None}

\* dispose(): everything queued or assigned is rejected.  The drain() calls
\* its rejections trigger find an empty queue and return.
Dispose ==
  /\ HostFree
  /\ ~disposed
  /\ disposed' = TRUE
  /\ doomed' = Disposable
  /\ inbox' = Posted(Disposable, [type |-> "shutdown"])
  /\ worker' = [s \in Slots |-> None]
  /\ ready' = [s \in Slots |-> FALSE]
  /\ current' = [s \in Slots |-> None]
  /\ queue' = <<>>
  /\ status' = [r \in Requests |-> IF status[r] = "pending" THEN "cancelled" ELSE status[r]]
  /\ UNCHANGED <<open, failed, drainVars, cancelReq, config, slotOf, phase, outbox, workVars>>

-----------------------------------------------------------------------------
(* drain(): one action per turn of its loop                                *)

\* Mutant: a ready slot is taken although it is busy.
AnyReady == {s \in 1 .. open : ready[s]}

IdleReady == {s \in 1 .. open : current[s] = None /\ ready[s]}

\* Mutant: a slot whose worker crashed is not rebuilt.
DeadButNotFailed == {s \in 1 .. open : current[s] = None /\ ~ready[s] /\ ~failed[s]}

Dead == {s \in 1 .. open : current[s] = None /\ ~ready[s]}

\* Array.find: the first slot of a set.
First(s, S) == s \in S /\ \A u \in S : s <= u

\* What the loop does with the head of the queue, if it is not cancelled.
Serving == pc = "loop" /\ queue # <<>> /\ Head(queue) \notin cancelReq

\* assign(): note that a worker lost in the meantime drops the message.
Assign(s) ==
  /\ current' = [current EXCEPT ![s] = Head(queue)]
  /\ queue' = Tail(queue)
  /\ inbox' = Posted({worker[s]}, [type |-> "request", id |-> Head(queue)])

DrainEmpty ==
  /\ pc = "loop"
  /\ queue = <<>>
  /\ pc' = "idle"
  /\ UNCHANGED <<queue, slotVars, growing, waitSlot, starting, callerVars, envVars, threadVars>>

DrainDropCancelled ==
  /\ pc = "loop"
  /\ queue # <<>>
  /\ Head(queue) \in cancelReq
  /\ queue' = Tail(queue)
  /\ status' = [status EXCEPT ![Head(queue)] = "cancelled"]
  /\ UNCHANGED <<slotVars, drainVars, cancelReq, envVars, threadVars>>

DrainAssign ==
  /\ Serving
  /\ \E s \in Slots : First(s, IdleReady) /\ Assign(s)
  /\ UNCHANGED <<open, worker, ready, failed, drainVars, callerVars, envVars,
                 slotOf, phase, outbox, workVars>>

\* ensureSlotReady up to its await: a fresh thread with fresh configuration.
Spawn(s) ==
  \E t \in Threads :
    /\ phase[t] = "unborn"
    /\ \A u \in Threads : phase[u] = "unborn" => t <= u
    /\ phase' = [Terminated({worker[s]}) EXCEPT ![t] = "boot"]
    /\ slotOf' = [slotOf EXCEPT ![t] = s]
    /\ inbox' = [inbox EXCEPT ![t] = <<[type |-> "init", config |-> config]>>]
    /\ worker' = [worker EXCEPT ![s] = t]
    /\ ready' = [ready EXCEPT ![s] = FALSE]
    /\ failed' = [failed EXCEPT ![s] = FALSE]
    /\ waitSlot' = s
    /\ starting' = t
    /\ pc' = "wait"
    /\ UNCHANGED <<queue, current, callerVars, envVars, outbox, workVars>>

DrainRespawn ==
  /\ Serving
  /\ IdleReady = {}
  /\ \E s \in Slots : First(s, Dead) /\ Spawn(s)
  /\ growing' = FALSE
  /\ UNCHANGED open

DrainGrow ==
  /\ Serving
  /\ IdleReady = {}
  /\ Dead = {}
  /\ open < PoolSize
  /\ Spawn(open + 1)
  /\ open' = open + 1
  /\ growing' = TRUE

DrainAllBusy ==
  /\ Serving
  /\ IdleReady = {}
  /\ Dead = {}
  /\ open = PoolSize
  /\ pc' = "idle"
  /\ UNCHANGED <<queue, slotVars, growing, waitSlot, starting, callerVars, envVars, threadVars>>

\* The await returned: the slot is ready, since the same message set its flag.
ResumeEmpty ==
  /\ pc = "ready"
  /\ queue = <<>>
  /\ pc' = "idle"
  /\ waitSlot' = None
  /\ starting' = None
  /\ UNCHANGED <<queue, slotVars, growing, callerVars, envVars, threadVars>>

ResumeAssign ==
  /\ pc = "ready"
  /\ queue # <<>>
  /\ Assign(waitSlot)
  /\ pc' = "loop"
  /\ waitSlot' = None
  /\ starting' = None
  /\ UNCHANGED <<open, worker, ready, failed, growing, callerVars, envVars,
                 slotOf, phase, outbox, workVars>>

\* Mutant: pop() instead of shift().
RejectLast ==
  IF queue = <<>>
    THEN UNCHANGED <<queue, status>>
    ELSE /\ queue' = Front(queue)
         /\ status' = [status EXCEPT ![Last(queue)] = "spawnFailed"]

\* The await threw: give the thread up and reject the oldest request.
RejectHead ==
  IF queue = <<>>
    THEN UNCHANGED <<queue, status>>
    ELSE /\ queue' = Tail(queue)
         /\ status' = [status EXCEPT ![Head(queue)] = "spawnFailed"]

SpawnFailed ==
  /\ pc = "fail"
  /\ phase' = Terminated({worker[waitSlot]})
  /\ worker' = [worker EXCEPT ![waitSlot] = None]
  /\ RejectHead
  /\ pc' = "loop"
  /\ waitSlot' = None
  /\ starting' = None
  /\ UNCHANGED <<growing, cancelReq, envVars, inbox, outbox, workVars>>

RespawnFailed ==
  /\ ~growing
  /\ SpawnFailed
  /\ UNCHANGED <<open, ready, failed, current, slotOf>>

\* slots.pop(): the thread's listeners keep the dropped slot object.
GrowFailed ==
  /\ growing
  /\ SpawnFailed
  /\ open' = open - 1
  /\ ready' = [ready EXCEPT ![waitSlot] = FALSE]
  /\ failed' = [failed EXCEPT ![waitSlot] = FALSE]
  /\ current' = [current EXCEPT ![waitSlot] = None]
  /\ slotOf' = [slotOf EXCEPT ![starting] = None]

-----------------------------------------------------------------------------
(* Events of a thread, as the host's listeners handle them                 *)

Receive(t, m) ==
  /\ HostFree
  /\ outbox[t] # <<>>
  /\ m = Head(outbox[t])
  /\ outbox' = [outbox EXCEPT ![t] = Tail(@)]

\* The slot whose current request a message of t would be about.
CurrentOf(t) == IF slotOf[t] = None THEN None ELSE current[slotOf[t]]

\* "ready" ends the await of ensureSlotReady when it is still in progress.
OnReady(t) ==
  /\ Receive(t, [type |-> "ready"])
  /\ ready' = [s \in Slots |-> IF s = slotOf[t] THEN TRUE ELSE ready[s]]
  /\ pc' = IF starting = t THEN "ready" ELSE pc
  /\ UNCHANGED <<queue, open, worker, failed, current, growing, waitSlot, starting,
                 callerVars, envVars, slotOf, phase, inbox, workVars>>

\* progress goes to whatever request is current, whoever reported it.
OnProgress(t) ==
  /\ \E r \in Requests : Receive(t, [type |-> "progress", id |-> r])
  /\ UNCHANGED <<hostVars, envVars, slotOf, phase, inbox, workVars>>

\* A reply to the current request settles it; finally() frees the slot and
\* calls drain() before the next event.
OnReply(t) ==
  \E r \in Requests, answer \in {"done", "error", "cancelled"} :
    /\ Receive(t, [type |-> answer, id |-> r])
    /\ CurrentOf(t) = r
    /\ status' = [status EXCEPT ![r] = answer]
    /\ current' = [current EXCEPT ![slotOf[t]] = None]
    /\ CallDrain
    /\ UNCHANGED <<queue, open, worker, ready, failed, growing, waitSlot, starting,
                   cancelReq, envVars, slotOf, phase, inbox, workVars>>

\* The id guard: any other reply is ignored.
OnStaleReply(t) ==
  \E r \in Requests, answer \in {"done", "error", "cancelled"} :
    /\ Receive(t, [type |-> answer, id |-> r])
    /\ CurrentOf(t) # r
    /\ UNCHANGED <<hostVars, envVars, slotOf, phase, inbox, workVars>>

\* Mutant: the slot is freed and its request never rejected.
LoseSlotSilently(s) ==
  /\ worker' = [worker EXCEPT ![s] = None]
  /\ ready' = [ready EXCEPT ![s] = FALSE]
  /\ failed' = [failed EXCEPT ![s] = TRUE]
  /\ current' = [current EXCEPT ![s] = None]
  /\ UNCHANGED status

\* What the error and exit listeners do to the slot they close over.
LoseSlot(s) ==
  /\ worker' = [worker EXCEPT ![s] = None]
  /\ ready' = [ready EXCEPT ![s] = FALSE]
  /\ failed' = [failed EXCEPT ![s] = TRUE]
  /\ current' = [current EXCEPT ![s] = None]
  /\ status' = [r \in Requests |-> IF r = current[s] THEN "crashed" ELSE status[r]]

\* The error event, on a port of its own: it may overtake messages.
OnError(t) ==
  /\ HostFree
  /\ phase[t] = "crashed"
  /\ Punctual => outbox[t] = <<>>
  /\ phase' = [phase EXCEPT ![t] = "stopped"]
  /\ IF slotOf[t] = None THEN UNCHANGED <<worker, ready, failed, current, status>>
                         ELSE LoseSlot(slotOf[t])
  /\ IF starting = t THEN pc' = "fail" ELSE CallDrain
  /\ UNCHANGED <<queue, open, growing, waitSlot, starting, cancelReq, envVars,
                 slotOf, inbox, outbox, workVars>>

\* The exit event comes after every message of the thread.
ExitGuard(t) ==
  /\ HostFree
  /\ phase[t] = "stopped"
  /\ outbox[t] = <<>>
  /\ phase' = [phase EXCEPT ![t] = "gone"]

\* Mutant: only an idle worker's exit is looked at.
IdleExitConcerns(t) ==
  slotOf[t] # None /\ ready[slotOf[t]] /\ ~failed[slotOf[t]] /\ current[slotOf[t]] = None

ExitConcerns(t) == slotOf[t] # None /\ ready[slotOf[t]] /\ ~failed[slotOf[t]]

OnUnexpectedExit(t) ==
  /\ ExitGuard(t)
  /\ ExitConcerns(t)
  /\ LoseSlot(slotOf[t])
  /\ CallDrain
  /\ UNCHANGED <<queue, open, growing, waitSlot, starting, cancelReq, envVars,
                 slotOf, inbox, outbox, workVars>>

OnIgnoredExit(t) ==
  /\ ExitGuard(t)
  /\ ~ExitConcerns(t)
  /\ UNCHANGED <<hostVars, envVars, slotOf, inbox, outbox, workVars>>

\* WORKER_READY_TIMEOUT_MS elapsed.  A punctual host has handled whatever
\* the thread posted before the timer fires.
ReadyTimeout ==
  /\ pc = "wait"
  /\ phase[starting] = "gone" \/ Faults < MaxFaults
  /\ Punctual => phase[starting] \in {"boot", "gone"}
  /\ pc' = "fail"
  /\ UNCHANGED <<queue, slotVars, growing, waitSlot, starting, callerVars, envVars, threadVars>>

\* The timer has fired, and drain()'s catch, which runs right after it, is about
\* to terminate the thread: a punctual thread does nothing in between.
GivenUp(t) == pc = "fail" /\ starting = t

\* The delayed terminate() of dispose().
TerminateDoomed(t) ==
  /\ HostFree
  /\ t \in doomed
  /\ Alive(t)
  /\ phase' = Terminated({t})
  /\ UNCHANGED <<hostVars, envVars, slotOf, inbox, outbox, workVars>>

-----------------------------------------------------------------------------
(* Worker threads                                                          *)

Take(t, m) ==
  /\ Alive(t)
  /\ inbox[t] # <<>>
  /\ m = Head(inbox[t])
  /\ inbox' = [inbox EXCEPT ![t] = Tail(@)]

Reply(t, m) == outbox' = [outbox EXCEPT ![t] = Append(@, m)]

\* A replaced thread of a punctual host is gone before its successor is up.
PredecessorsGone(t) ==
  \A u \in Threads \ {t} : slotOf[t] # None /\ slotOf[u] = slotOf[t] => phase[u] = "gone"

TakeInit(t) ==
  /\ phase[t] = "boot"
  /\ Punctual => PredecessorsGone(t) /\ ~GivenUp(t)
  /\ \E c \in Configs :
       /\ Take(t, [type |-> "init", config |-> c])
       /\ cfg' = [cfg EXCEPT ![t] = c]
  /\ Reply(t, [type |-> "ready"])
  /\ phase' = [phase EXCEPT ![t] = "live"]
  /\ UNCHANGED <<hostVars, envVars, slotOf, chain, cancelled>>

TakeReconfigure(t) ==
  /\ \E c \in Configs :
       /\ Take(t, [type |-> "reconfigure", config |-> c])
       /\ cfg' = [cfg EXCEPT ![t] = c]
  /\ UNCHANGED <<hostVars, envVars, slotOf, phase, outbox, chain, cancelled>>

TakeRequest(t) ==
  /\ \E r \in Requests :
       /\ Take(t, [type |-> "request", id |-> r])
       /\ chain' = [chain EXCEPT ![t] = Append(@, r)]
  /\ UNCHANGED <<hostVars, envVars, slotOf, phase, outbox, cfg, cancelled>>

TakeCancel(t) ==
  /\ \E r \in Requests :
       /\ Take(t, [type |-> "cancel", id |-> r])
       /\ cancelled' = [cancelled EXCEPT ![t] = @ \cup {r}]
  /\ UNCHANGED <<hostVars, envVars, slotOf, phase, outbox, cfg, chain>>

\* port.close(): nothing the thread posts from here on is sent.
TakeShutdown(t) ==
  /\ Take(t, [type |-> "shutdown"])
  /\ phase' = [phase EXCEPT ![t] = "stopped"]
  /\ UNCHANGED <<hostVars, envVars, slotOf, outbox, workVars>>

\* handleRequest reports progress (one unhandled report stands for many).
Report(t) ==
  /\ Alive(t)
  /\ chain[t] # <<>> /\ Head(chain[t]) \in Reporting
  /\ \A i \in 1 .. Len(outbox[t]) : outbox[t][i].type # "progress"
  /\ Reply(t, [type |-> "progress", id |-> Head(chain[t])])
  /\ UNCHANGED <<hostVars, envVars, slotOf, phase, inbox, workVars>>

\* Mutant: the token looks at the whole set instead of its own id.
OutcomesOfAny(t, r) == {"done", "error"} \cup (IF cancelled[t] # {} THEN {"cancelled"} ELSE {})

\* Mutant: a failure is reported with a type the host does not know.
OutcomesMistyped(t, r) == {"done", "failed"}

\* What dispatchOp may come to.  It sees a cancel only at its polling points,
\* so it may as well end as if there were none.
Outcomes(t, r) == {"done", "error"} \cup (IF r \in cancelled[t] THEN {"cancelled"} ELSE {})

\* handleRequest ends: dispatchOp returned or threw.
Finish(t) ==
  /\ Alive(t)
  /\ chain[t] # <<>>
  /\ LET r == Head(chain[t])
     IN /\ \E answer \in Outcomes(t, r) : Reply(t, [type |-> answer, id |-> r])
        /\ chain' = [chain EXCEPT ![t] = Tail(@)]
        /\ cancelled' = [cancelled EXCEPT ![t] = @ \ {r}]
  /\ UNCHANGED <<hostVars, envVars, slotOf, phase, inbox, cfg>>

\* An uncaught exception, or the process ends the thread without one.
Crash(t) ==
  /\ Alive(t)
  /\ Faults < MaxFaults
  /\ Punctual => ~GivenUp(t)
  /\ \E end \in {"crashed", "stopped"} : phase' = [phase EXCEPT ![t] = end]
  /\ UNCHANGED <<hostVars, envVars, slotOf, inbox, outbox, workVars>>

-----------------------------------------------------------------------------
Callers ==
  \/ \E r \in Requests :
       \/ RunCancelled(r) \/ Run(r)
       \/ CancelUnheard(r) \/ CancelQueued(r) \/ CancelAssigned(r)
  \/ Reconfigure
  \/ Dispose

Drain ==
  \/ DrainEmpty \/ DrainDropCancelled \/ DrainAssign
  \/ DrainRespawn \/ DrainGrow \/ DrainAllBusy
  \/ ResumeEmpty \/ ResumeAssign \/ RespawnFailed \/ GrowFailed

Listen(t) ==
  \/ OnReady(t) \/ OnProgress(t) \/ OnReply(t) \/ OnStaleReply(t)
  \/ OnError(t) \/ OnUnexpectedExit(t) \/ OnIgnoredExit(t)

Timers == ReadyTimeout \/ \E t \in Threads : TerminateDoomed(t)

Handler(t) ==
  TakeInit(t) \/ TakeReconfigure(t) \/ TakeRequest(t) \/ TakeCancel(t) \/ TakeShutdown(t)

\* All requests are settled: the runner may stay idle for good.
Finished ==
  /\ pc = "idle"
  /\ \A r \in Requests : status[r] # "pending"
  /\ disposed \/ \A r \in Requests : status[r] # "new"
  /\ UNCHANGED vars

Next ==
  \/ Callers
  \/ Drain
  \/ Timers
  \/ \E t \in Threads : Listen(t) \/ Handler(t) \/ Report(t) \/ Finish(t) \/ Crash(t)
  \/ Finished

\* The event loops of the host and of each thread never stop turning, the
\* timers fire, and an archive operation ends.  Callers and faults are free.
Fairness ==
  /\ WF_vars(Drain)
  /\ WF_vars(Timers)
  /\ \A t \in Threads : WF_vars(Listen(t)) /\ WF_vars(Handler(t)) /\ WF_vars(Finish(t))

Spec == Init /\ [][Next]_vars

FairSpec == Spec /\ Fairness

-----------------------------------------------------------------------------
(* Safety                                                                  *)

Queued(r) == \E i \in 1 .. Len(queue) : queue[i] = r
Assigned(r) == \E s \in Slots : current[s] = r
QueuedOnce == \A i, j \in 1 .. Len(queue) : queue[i] = queue[j] => i = j
AssignedOnce == \A s, u \in Slots : current[s] = current[u] /\ current[s] # None => s = u

\* A request is never lost and never held twice: until its promise settles it
\* stands in the queue, at one place, or is the current request of one slot;
\* from then on nothing holds it (run, drain, assign and the listeners all
\* move requests between the two).
RequestConserved ==
  /\ \A r \in Requests : (status[r] = "pending") <=> (Queued(r) \/ Assigned(r))
  /\ \A r \in Requests : ~(Queued(r) /\ Assigned(r))
  /\ QueuedOnce /\ AssignedOnce

\* No lost wakeup: when drain() is not running and requests wait, the pool is
\* full and every slot has a request whose end will call drain() again
\* (drain returns at once while another call is suspended in its await).
NoLostWakeup ==
  pc = "idle" /\ queue # <<>> =>
    /\ open = PoolSize
    /\ \A s \in Slots : current[s] # None

\* Requests in the hands of a thread.
InHand(t) ==
  {chain[t][i] : i \in 1 .. Len(chain[t])}
    \cup {inbox[t][i].id : i \in {j \in 1 .. Len(inbox[t]) : inbox[t][j].type = "request"}}

\* The reply to r is on its way to the host.
ReplySent(t, r) ==
  \E i \in 1 .. Len(outbox[t]) : outbox[t][i].type # "ready" /\ outbox[t][i].type # "progress" /\ outbox[t][i].id = r

\* Nobody waits for an answer that cannot come: the thread of a busy slot has
\* the request in hand, has replied to it, or is dying with an event still to
\* be delivered that the slot will not ignore.
CurrentInFlight ==
  \A s \in Slots : current[s] # None =>
    LET t == worker[s]
    IN /\ t # None
       /\ slotOf[t] = s
       /\ \/ Alive(t) /\ current[s] \in InHand(t)
          \/ phase[t] # "gone" /\ ReplySent(t, current[s])
          \/ phase[t] = "crashed"
          \/ phase[t] = "stopped" /\ ready[s] /\ ~failed[s]

\* The same without reading the messages: a busy slot has some thread whose
\* events can still settle its request.
SomeoneAnswers ==
  \A s \in Slots : current[s] # None => \E t \in Threads : slotOf[t] = s /\ phase[t] # "gone"

\* A settled request is not still being worked on: no live thread goes on
\* compressing or extracting for a caller who has been told that it failed.
NoGhostWork ==
  ~disposed => \A t \in Threads : Alive(t) => \A r \in InHand(t) : status[r] = "pending"

\* No thread leaks: a live thread belongs to a slot or is about to be
\* terminated by dispose() (drain terminates a thread it gives up).
NoLeakedThread ==
  \A t \in Threads : Alive(t) => t \in doomed \/ \E s \in 1 .. open : worker[s] = t

\* The configuration a thread has or will have when it takes the messages
\* already posted to it.
ConfigOf(t) ==
  LET sent == {i \in 1 .. Len(inbox[t]) : inbox[t][i].type \in {"init", "reconfigure"}}
  IN IF sent = {} THEN cfg[t]
                  ELSE inbox[t][CHOOSE i \in sent : \A j \in sent : j <= i].config

\* Settings are never stale: a request posted now to an idle worker runs with
\* the current workspace configuration, as the comments of applyConfig() and
\* reconfigureArchiveWorker() have it.
FreshConfig ==
  \A s \in 1 .. open : ready[s] /\ worker[s] # None /\ Alive(worker[s]) => ConfigOf(worker[s]) = config

\* The thread of a ready slot: reconfigure() reaches it.
InService(t) == \E s \in 1 .. open : worker[s] = t /\ ready[s]

\* A caller sees a cancellation only if its token is cancelled or the runner
\* was disposed.
CancelledOnRequest ==
  \A r \in Requests : status[r] = "cancelled" => r \in cancelReq \/ disposed

\* A cancel is never lost on its way: once the token of a running request is
\* cancelled, the thread knows, will know, has replied or is dying.
CancelReachesThread ==
  \A s \in Slots : current[s] # None /\ current[s] \in cancelReq \ Polled =>
    LET t == worker[s]
    IN \/ ~Alive(t)
       \/ ReplySent(t, current[s])
       \/ current[s] \in cancelled[t]
       \/ \E i \in 1 .. Len(inbox[t]) : inbox[t][i] = [type |-> "cancel", id |-> current[s]]

\* Progress is shown to the caller who asked for the work: the handler of a
\* progress message has no id guard, so it relies on the order of messages.
ProgressReachesOwner ==
  \A t \in Threads : outbox[t] # <<>> /\ Head(outbox[t]).type = "progress"
    => CurrentOf(t) \in {None, Head(outbox[t]).id}

-----------------------------------------------------------------------------
(* Action properties, liveness, refinement                                 *)

\* What the code keeps of FreshConfig: a thread comes to stale settings only by
\* a change made while it was starting.  Its first ones are those of its start,
\* no message taken in between brings older ones back, and the next change
\* mends every thread in service, also one that had missed the last.
MissedOnlyWhileStarting ==
  [][\A t \in Threads : Alive(t)' /\ ConfigOf(t)' # config' =>
       IF config' = config THEN Alive(t) /\ ConfigOf(t) # config ELSE ~InService(t)]_vars

\* The caller of run() always gets an answer.
EveryRequestSettles == \A r \in Requests : status[r] = "pending" ~> status[r] # "pending"

\* Once the runner is disposed, all of its threads end.
ThreadsReclaimed == disposed ~> [](\A t \in Threads : ~Alive(t))

Jobs == INSTANCE JobService WITH
  Jobs <- Requests,
  Capacity <- PoolSize,
  waiting <- queue,
  running <- {current[s] : s \in Slots} \ {None},
  closed <- disposed

\* The runner implements the job service.
ImplementsJobService == Jobs!Spec
=============================================================================
