------------------------------ MODULE Pipeline ------------------------------
(***************************************************************************)
(* One archive operation from its call to its end: the meaning of Steps.   *)
(* What the programs act on is the file system of the thread's 7-Zip       *)
(* instance, temporary files and directories, a child process, and the     *)
(* output.  Around them: the user cancels, processes end or hang, the      *)
(* worker thread is lost, and whatever can fail fails.                     *)
(***************************************************************************)
EXTENDS Steps, Naturals

\* Each operation: its steps; how the caller can cancel it ("never", by a
\* "token" that calls late listeners too, or by an AbortSignal, whose late
\* listeners are never called); what it promises (see the properties).
CONSTANT Programs

VARIABLES
  op,      \* the operation
  todo,    \* the steps still to take
  scopes,  \* the enclosing try blocks and worker, innermost last
  vfs,     \* files of the 7-Zip instance since the last reset
  temps,   \* temporary files and directories on disk
  child,   \* the awaited process or promise
  asked,   \* has the caller cancelled?
  out,     \* the output: the old one, a part of the new one, the new one
  staged,  \* the copy being written elsewhere, or "none"
  result,
  notes    \* what happened on the way

vars == <<op, todo, scopes, vfs, temps, child, asked, out, staged, result, notes>>

Promises == {"delivers", "keeps", "keepsIfFailed", "tidies", "copiesOut"}

ASSUME PipelineAssumption ==
  \A p \in DOMAIN Programs :
    /\ Programs[p].token \in {"never", "token", "signal"}
    /\ Programs[p].promises \subseteq Promises

Init ==
  /\ op \in DOMAIN Programs
  /\ todo = Programs[op].steps
  /\ scopes = << >>
  /\ vfs = {} /\ temps = {} /\ notes = {}
  /\ child = "none"
  /\ asked = FALSE
  /\ out = "old" /\ staged = "none"
  /\ result = "running"

Now == Head(todo)
Next1(kind) == result = "running" /\ todo # << >> /\ Now.do = kind
Go(steps) == todo' = steps \o Tail(todo)
Continue == Go(<< >>) /\ UNCHANGED <<scopes, result>>

\* An exception leaves the blocks that do not take it.  The innermost that does
\* runs its handler; a finally block then passes the exception on.
Takes(s, kind) == s.do = "finally" \/ kind \in s.kinds
Raise(kind, from) ==
  \/ /\ \A i \in 1 .. from : ~Takes(scopes[i], kind)
     /\ result' = IF kind = "cancelled" THEN "cancelled" ELSE "failed"
     /\ todo' = << >>
     /\ scopes' = << >>
  \/ \E i \in 1 .. from :
       /\ Takes(scopes[i], kind)
       /\ \A j \in i + 1 .. from : ~Takes(scopes[j], kind)
       /\ scopes' = SubSeq(scopes, 1, i - 1)
       /\ todo' = scopes[i].handler
                    \o (IF scopes[i].do = "finally" THEN << Throw(kind) >> ELSE scopes[i].rest)
       /\ UNCHANGED result
Fail == Raise("failed", Len(scopes))
Cancel == Raise("cancelled", Len(scopes))
Note(n) == notes' = notes \cup {n}

Files == UNCHANGED <<vfs, temps>>
Target == UNCHANGED <<out, staged>>
Outside == UNCHANGED <<op, child, asked>>

WriteTarget(v) ==
  IF staged = "none" THEN out' = v /\ UNCHANGED staged
                     ELSE staged' = v /\ UNCHANGED out

----------------------------------------------------------------------------
\* Calls, control.

RunCheck ==
  /\ Next1("check")
  /\ Continue \/ Fail
  /\ Files /\ Target /\ Outside /\ UNCHANGED notes
RunPoll ==
  /\ Next1("poll")
  /\ IF asked THEN Cancel /\ Note("cancelThrown") ELSE Continue /\ UNCHANGED notes
  /\ Files /\ Target /\ Outside
RunThrow ==
  /\ Next1("throw")
  /\ Raise(Now.kind, Len(scopes))
  /\ Files /\ Target /\ Outside /\ UNCHANGED notes
Choose ==
  /\ Next1("either")
  /\ \E i \in DOMAIN Now.alternatives : Go(Now.alternatives[i])
  /\ Files /\ Target /\ Outside /\ UNCHANGED <<scopes, result, notes>>
Enter ==
  /\ \E kind \in {"finally", "catch", "worker"} : Next1(kind)
  /\ scopes' = Append(scopes, [do |-> Now.do, kinds |-> Now.kinds,
                               handler |-> Now.handler, rest |-> Tail(todo)])
  /\ todo' = Now.body \o << Leave >>
  /\ Files /\ Target /\ Outside /\ UNCHANGED <<result, notes>>
ExitScope ==
  /\ Next1("leave")
  /\ LET s == scopes[Len(scopes)]
     IN todo' = (IF s.do = "finally" THEN s.handler ELSE << >>) \o s.rest
  /\ scopes' = SubSeq(scopes, 1, Len(scopes) - 1)
  /\ Files /\ Target /\ Outside /\ UNCHANGED <<result, notes>>
Finish ==
  /\ result = "running" /\ todo = << >>
  /\ result' = "ok"
  /\ Files /\ Target /\ Outside /\ UNCHANGED <<todo, scopes, notes>>

----------------------------------------------------------------------------
\* The 7-Zip instance.  A file that is read and not there fails the step.

RunReset ==
  /\ Next1("reset")
  /\ \/ Continue /\ vfs' = {}
     \/ Fail /\ UNCHANGED vfs
  /\ Target /\ Outside /\ UNCHANGED <<temps, notes>>
RunPut ==
  /\ Next1("put")
  /\ \/ Continue /\ vfs' = vfs \cup {Now.file}
     \/ Fail /\ UNCHANGED vfs
  /\ Target /\ Outside /\ UNCHANGED <<temps, notes>>
RunGet ==
  /\ Next1("get")
  /\ IF Now.file \in vfs THEN Continue /\ UNCHANGED notes ELSE Fail /\ Note("lost")
  /\ Files /\ Target /\ Outside
RunMain ==
  /\ Next1("main")
  /\ IF Now.reads \subseteq vfs
     THEN /\ UNCHANGED notes
          /\ \/ Continue /\ vfs' = vfs \cup Now.makes
             \/ Fail /\ UNCHANGED vfs
     ELSE Fail /\ Note("lost") /\ UNCHANGED vfs
  /\ Target /\ Outside /\ UNCHANGED temps

----------------------------------------------------------------------------
\* Temporary files and the output.

RunTemp ==
  /\ Next1("temp")
  /\ \/ Continue /\ temps' = temps \cup {Now.dir}
     \/ Fail /\ UNCHANGED temps
  /\ Target /\ Outside /\ UNCHANGED <<vfs, notes>>
RunDrop ==
  /\ Next1("drop") \/ Next1("dropAfter")
  /\ temps' = IF Now.do = "drop" THEN temps \ {Now.dir}
              ELSE IF Now.file \in temps THEN temps \ {Now.file, Now.dir} ELSE temps
  /\ IF Now.do = "dropAfter" /\ Now.file \notin temps THEN Note("leaked") ELSE UNCHANGED notes
  /\ Continue
  /\ Target /\ Outside /\ UNCHANGED vfs

RunWrite ==
  /\ Next1("write")
  /\ \/ WriteTarget("new") /\ Continue
     \/ WriteTarget("torn") /\ Fail
  /\ Files /\ Outside /\ UNCHANGED notes
\* The loop polls the token between two entries.
RunWriteTree ==
  /\ Next1("tree")
  /\ \/ WriteTarget("new") /\ Continue /\ UNCHANGED notes
     \/ WriteTarget("torn") /\ Fail /\ UNCHANGED notes
     \/ asked /\ WriteTarget("torn") /\ Cancel /\ Note("cancelThrown")
  /\ Files /\ Outside
RunReplace ==
  /\ Next1("replace")
  /\ \/ WriteTarget("new") /\ Continue
     \/ Target /\ Fail
  /\ Files /\ Outside /\ UNCHANGED notes
RunRemove ==
  /\ Next1("remove")
  /\ WriteTarget(IF staged = "none" THEN "gone" ELSE "empty") /\ Continue
  /\ Files /\ Outside /\ UNCHANGED notes
RunStage ==
  /\ Next1("stage")
  /\ staged' = "empty" /\ Continue
  /\ Files /\ Outside /\ UNCHANGED <<out, notes>>
RunPublish ==
  /\ Next1("publish")
  /\ \/ out' = staged /\ staged' = "none" /\ Continue
     \/ Target /\ Fail
  /\ Files /\ Outside /\ UNCHANGED notes
RunUnstage ==
  /\ Next1("unstage")
  /\ staged' = "none" /\ Continue
  /\ Files /\ Outside /\ UNCHANGED <<out, notes>>

----------------------------------------------------------------------------
\* Child processes.

\* Once the caller has cancelled, no listener is called any more.
SpawnUnheard ==
  /\ Next1("child") /\ child = "none"
  /\ child' = IF Now.wired /\ ~asked THEN "running" ELSE "deaf"
  /\ Files /\ Target /\ UNCHANGED <<op, todo, scopes, asked, result, notes>>
\* An AbortSignal that was aborted before the process started never tells it.
Spawn ==
  /\ Next1("child") /\ child = "none"
  /\ \/ /\ child' = IF Now.wired /\ ~(asked /\ Programs[op].token = "signal")
                    THEN "running" ELSE "deaf"
        /\ UNCHANGED <<todo, scopes, result>>
     \/ Fail /\ UNCHANGED child
  /\ Files /\ Target /\ UNCHANGED <<op, asked, notes>>
\* The close event: the exit code does not count once the token is cancelled.
ChildCloses(code) ==
  /\ Next1("child") /\ child \in {"running", "deaf"}
  /\ child' = "none"
  /\ CASE Now.writes = "none" -> Target
       [] Now.writes = "create" -> WriteTarget(IF code = 0 THEN "new" ELSE "torn")
       [] Now.writes = "replace" -> IF code = 0 THEN WriteTarget("new") ELSE Target
  /\ IF Now.wired /\ asked THEN Cancel /\ Note("cancelThrown")
     ELSE /\ UNCHANGED notes
          /\ IF code # 0 /\ Now.strict THEN Fail ELSE Continue
  /\ Files /\ UNCHANGED <<op, asked>>
KillChild ==
  /\ Next1("child") /\ child = "running" /\ asked
  /\ child' = "killed"
  /\ Files /\ Target /\ UNCHANGED <<op, todo, scopes, asked, result, notes>>
KilledChildCloses ==
  /\ Next1("child") /\ child = "killed"
  /\ child' = "none"
  /\ IF Now.writes = "create" THEN WriteTarget("torn") ELSE Target
  /\ Cancel /\ Note("cancelThrown")
  /\ Files /\ UNCHANGED <<op, asked>>
\* The timer or the output limit settles the promise and does not wait for the
\* process to end.
GiveUp ==
  /\ Next1("child") /\ child # "none" /\ Now.timed
  /\ child' = "none"
  /\ Note("gaveUp")
  /\ IF Now.writes = "create" THEN WriteTarget("torn") ELSE Target
  /\ Fail
  /\ Files /\ UNCHANGED <<op, asked>>

\* A promise of the binding; the signal is checked when it is created.
CallBinding ==
  /\ Next1("binding") /\ child = "none"
  /\ child' = "binding"
  /\ Files /\ Target /\ UNCHANGED <<op, todo, scopes, asked, result, notes>>
BindingSettles ==
  /\ Next1("binding") /\ child = "binding"
  /\ child' = "none"
  /\ \/ (IF Now.writes THEN WriteTarget("new") ELSE Target) /\ Continue /\ UNCHANGED notes
     \/ (IF Now.writes THEN WriteTarget("torn") ELSE Target) /\ Fail /\ UNCHANGED notes
     \/ /\ asked /\ Now.wired
        /\ IF Now.writes THEN WriteTarget("torn") ELSE Target
        /\ Cancel /\ Note("cancelThrown")
  /\ Files /\ UNCHANGED <<op, asked>>

----------------------------------------------------------------------------
\* The caller, and the loss of the worker thread: it crashes, or the runner is
\* disposed of and terminates it.  None of its finally blocks run.

Ask ==
  /\ result = "running" /\ ~asked /\ Programs[op].token # "never"
  /\ asked' = TRUE
  /\ Files /\ Target /\ UNCHANGED <<op, todo, scopes, child, result, notes>>
LoseWorker ==
  /\ result = "running"
  /\ \E i \in DOMAIN scopes, kind \in {"failed", "cancelled"} :
       scopes[i].do = "worker" /\ Raise(kind, i - 1)
  /\ vfs' = {} /\ child' = "none"
  /\ IF todo # << >> /\ Now.do \in {"write", "tree"} THEN WriteTarget("torn") ELSE Target
  /\ Note("workerLost")
  /\ UNCHANGED <<op, temps, asked>>

Rest == result # "running" /\ UNCHANGED vars

Step ==
  \/ RunCheck \/ RunPoll \/ RunThrow \/ Choose \/ Enter \/ ExitScope \/ Finish
  \/ RunReset \/ RunPut \/ RunGet \/ RunMain
  \/ RunTemp \/ RunDrop \/ RunWrite \/ RunWriteTree \/ RunReplace \/ RunRemove
  \/ RunStage \/ RunPublish \/ RunUnstage
  \/ Spawn \/ CallBinding \/ BindingSettles \/ KilledChildCloses

Next ==
  \/ Step \/ KillChild \/ GiveUp \/ (\E code \in {0, 2} : ChildCloses(code))
  \/ Ask \/ LoseWorker \/ Rest

Spec == Init /\ [][Next]_vars

\* The code runs on; a killed process and an aborted promise end.  A process
\* the token cannot kill ends by itself or by its timer.  Nothing is assumed
\* of the others: only the token ends a process that hangs.
Unkillable == child = "deaf" /\ Now.wired = FALSE
Fairness ==
  /\ WF_vars(Step) /\ WF_vars(KillChild)
  /\ WF_vars(Unkillable /\ ((\E code \in {0, 2} : ChildCloses(code)) \/ GiveUp))

FairSpec == Spec /\ Fairness

----------------------------------------------------------------------------
\* Properties.

Over == result # "running"
Promised(p) == p \in Programs[op].promises
Undisturbed == {"gaveUp", "workerLost"} \cap notes = {}

\* No operation reads a file of the 7-Zip instance that a later JS7z() call, its
\* own or a codec's, has removed: all "instances" of a thread share one file
\* system (js7z-factory.ts resetFS).
CopiedOutFirst == "lost" \notin notes

\* It is so for every operation but the preview of an archive with two inner tars
\* (modify-core.ts:778), whichever of the fallbacks and codecs it runs through.
VirtualFilesKept == Promised("copiesOut") => CopiedOutFirst

\* However an operation ends, it awaits nothing any more, no staged copy is left
\* and its temporary files and directories are gone, unless the thread was lost,
\* or the tar of a wrapped format was never written: then the unlink of the tar
\* throws before the directory is removed.
NothingLeftBehind ==
  Over =>
    /\ child = "none" /\ staged = "none"
    /\ {"workerLost", "leaked"} \cap notes = {} => temps = {}

\* An operation that reports success has written all of its output, whatever
\* engine and fallback produced it.
OkMeansWhole == result = "ok" /\ Promised("delivers") => out = "new"

\* A modification or conversion that fails or is cancelled leaves the archive
\* as it was.  A deletion by 7-Zip may be done when it is reported cancelled.
FailedKeepsArchive ==
  /\ Undisturbed
  /\ \/ result = "failed" /\ (Promised("keeps") \/ Promised("keepsIfFailed"))
     \/ result = "cancelled" /\ Promised("keeps")
  => out = "old"

\* The compress command leaves no part of an archive that is one file behind.
NoPartialOutput == Over /\ Promised("tidies") => out # "torn"

\* A cancellation once thrown is what the caller sees: no fallback to another
\* engine and no error handler turns it into anything else.  (A thread lost before
\* it has answered may fail the request instead.)
CancelIsFinal ==
  "cancelThrown" \in notes /\ "workerLost" \notin notes => result \in {"running", "cancelled"}

\* A cancelled operation ends, without waiting for a 7-Zip process that hangs.
\* (Callers of the API that abort a signal wait for the timer.)
CancelEnds == (asked /\ Programs[op].token = "token") ~> Over
=============================================================================
