------------------------------- MODULE Panel -------------------------------
(***************************************************************************)
(* One archive shown in one webview panel (providers/webview).  Messages   *)
(* of the page start handlers; each handler keeps the HandlerState it was  *)
(* dispatched with across its awaits, while setupWebview() may replace the *)
(* panel's state under it.  Starting an operation cancels the one before,  *)
(* a mutating one refreshes the panel when it is through, and an accepted  *)
(* password is kept in the vault for the session.                          *)
(*                                                                         *)
(* The archive is encrypted and can be edited.  A listing is the version of the file it was  *)
(* read from, a HandlerState is named by the operation whose setup made it *)
(* and a cancellation source by the operation that created it.             *)
(***************************************************************************)
EXTENDS Naturals, FiniteSets

CONSTANTS
  Ops,          \* messages the page may send, one operation each
  Open,         \* the setup that opens the panel
  HiddenNames,  \* the names in the archive are encrypted too
  SevenZip      \* a .7z, whose passwords are not tested

Owners == Ops \cup {Open}
Nobody == "nobody"

ASSUME PanelAssumption ==
  /\ Open \notin Ops
  /\ Nobody \notin Owners
  /\ {HiddenNames, SevenZip} \subseteq BOOLEAN

VARIABLES
  file,       \* version of the archive on disk, 0 when it was erased
  current,    \* whose HandlerState the panel has, Nobody before the first
  states,     \* the HandlerStates: password, listing and cancelSource
  html,       \* the page and the listing it shows
  view,       \* viewState of the page, set by the messages it is posted; "locked"
              \* is the "loading" that the page sets itself when it sends delSel
  vault,      \* the password kept for the session
  op,         \* the running operations
  cancelled,  \* sources whose token is cancelled
  disposed    \* sources that were disposed

vars == <<file, current, states, html, view, vault, op, cancelled, disposed>>
-----------------------------------------------------------------------------
(***************************************************************************)
(* The handlers.  asks: the user is prompted before or after the operation *)
(* is started; token: it is started at all; busy: it posts the overlay     *)
(* while it works; idle: its finally takes the overlay away; dismissed: so *)
(* does a dismissed prompt; says: it posts its outcome; heeds: its work is *)
(* given the token; edits: its work changes the archive.                   *)
(***************************************************************************)
Reader == [asks |-> "never", token |-> TRUE, busy |-> FALSE, idle |-> FALSE,
           dismissed |-> FALSE, says |-> TRUE, heeds |-> FALSE,
           edits |-> FALSE, keys |-> FALSE]
Writer == [Reader EXCEPT !.asks = "after", !.busy = TRUE, !.idle = TRUE,
                         !.heeds = TRUE, !.dismissed = TRUE]
Editor == [Reader EXCEPT !.asks = "before", !.busy = TRUE, !.idle = TRUE,
                         !.edits = TRUE]

handleExtractAll == Reader
handleExtractSelected == [Reader EXCEPT !.keys = TRUE]
handleTest == [Reader EXCEPT !.busy = TRUE]
handlePreview == [Reader EXCEPT !.says = FALSE]
handleConvert == Writer
handleEncrypt == Writer
handleDecrypt == Writer
handleMerge == Writer
handleSplit == Writer
\* Mutant: a dismissed confirmation does not unlock the tree.
handleDeleteLocked == [Editor EXCEPT !.keys = TRUE]
handleDelete == [Editor EXCEPT !.dismissed = TRUE, !.keys = TRUE]
handleRename == [Editor EXCEPT !.says = FALSE, !.keys = TRUE]
handleNewFolder == [Editor EXCEPT !.dismissed = TRUE]
runAddToArchive == [Editor EXCEPT !.token = FALSE, !.dismissed = TRUE]

HANDLERS ==
  {handleExtractAll, handleExtractSelected, handleTest, handlePreview,
   handleConvert, handleEncrypt, handleDecrypt, handleMerge, handleSplit,
   handleDelete, handleRename, handleNewFolder, runAddToArchive}

\* Handlers whose message names entries, and handlers whose message names a
\* directory of the archive.
Addressed == {handleExtractSelected, handlePreview, handleDelete, handleRename}
Directed == {handleNewFolder, runAddToArchive}

\* Shortcuts work under the overlay, the toolbar and the tree do not.  Messages
\* that name entries come from a page that shows some.
CanSend(h) ==
  /\ view \in {"content", "empty"} \/ h.keys
  /\ h \in Addressed => html.page = "content"
-----------------------------------------------------------------------------
Idle == [pc |-> "idle", does |-> Reader, state |-> Open, password |-> "none",
         blind |-> FALSE, listing |-> 0]

Init ==
  /\ file = 1
  /\ current = Nobody
  /\ states = [o \in Owners |->
       [password |-> "none", entries |-> 0, source |-> Nobody]]
  /\ html = [page |-> "loading", shown |-> 0]
  /\ view = "loading"
  /\ vault \in {"none", "right"}
  /\ op = [o \in Owners |->
       IF o = Open THEN [Idle EXCEPT !.pc = "detect"] ELSE Idle]
  /\ cancelled = {}
  /\ disposed = {}

Goes(o, pc) == op' = [op EXCEPT ![o].pc = pc]

\* The page takes ok, err and loading: false all as "show the content".
Posted(message) ==
  CASE message \in {"ok", "err", "idle"} -> "content"
    [] message = "busy" -> "loading"
    [] OTHER -> view

Page(page, shown) == html' = [page |-> page, shown |-> shown]

\* fetchFileList() answers: with the right password or when names are open.
Lists(pw) == pw = "right" \/ ~HiddenNames
-----------------------------------------------------------------------------
(* state.ts *)

\* Mutant: the source that is replaced is not cancelled.
startOperationQuietly(o, s) ==
  /\ cancelled' = cancelled
  /\ states' = [states EXCEPT ![s].source = o]

startOperation(o, s) ==
  /\ cancelled' = cancelled \cup ({states[s].source} \ {Nobody})
  /\ states' = [states EXCEPT ![s].source = o]

endOperation(s) ==
  /\ disposed' = disposed \cup ({states[s].source} \ {Nobody})
  /\ states' = [states EXCEPT ![s].source = Nobody]

\* The operation is over: its handler's locals are gone.  One that had no
\* source is dropped, an edit that was superseded has left the panel alone,
\* and a password that was accepted has unlocked it.
Over(o, how) == op' = [op EXCEPT ![o] = [Idle EXCEPT !.pc = how]]

Ends(o) ==
  /\ Over(o, IF ~op[o].does.token THEN "dropped"
             ELSE CASE op[o].pc = "worked" /\ op[o].does.edits /\ o \in cancelled
                         -> "left"
                    [] op[o].pc = "expand" /\ ~op[o].does.edits -> "unlocked"
                    [] OTHER -> "ended")
  /\ IF op[o].does.token THEN endOperation(op[o].state)
     ELSE UNCHANGED <<states, disposed>>

\* The finally block, after a message was or was not posted.
Finally(o, messages) ==
  /\ Ends(o)
  /\ view' = IF op[o].does.idle THEN Posted("idle")
             ELSE IF messages = {} THEN view
             ELSE Posted(CHOOSE m \in messages : TRUE)
-----------------------------------------------------------------------------
(* The router and the handlers but password *)

Starts(o, h, message) ==
  /\ startOperation(o, current)
  /\ view' = Posted(message)
  /\ op' = [op EXCEPT ![o].does = h, ![o].state = current,
                      ![o].pc = IF h.asks = "after" THEN "ask" ELSE "work"]

\* The tree shows entries whose paths isValidMsg() rejects, such as "../evil": the
\* router drops the message and posts nothing.
Refuse(o) ==
  /\ op[o].pc = "idle"
  /\ current # Nobody
  /\ \E h \in Addressed :
       /\ CanSend(h)
       /\ IF h = handleDelete THEN Over(o, "refused") /\ view' = "locked"
          ELSE Over(o, "dropped") /\ UNCHANGED view
  /\ UNCHANGED <<file, current, states, html, vault, cancelled, disposed>>

\* sanitizeTargetDir() rejects the directory, and the handler says so.
Misdirect(o) ==
  /\ op[o].pc = "idle"
  /\ current # Nobody
  /\ \E h \in Directed : CanSend(h)
  /\ Over(o, "dropped")
  /\ view' = Posted("err")
  /\ UNCHANGED <<file, current, states, html, vault, cancelled, disposed>>

\* A message of the page is dispatched with the state the panel has now.
Dispatch(o) ==
  /\ op[o].pc = "idle"
  /\ current # Nobody
  /\ \E h \in HANDLERS :
       /\ CanSend(h)
       /\ \/ /\ h.asks # "before"
             /\ Starts(o, h, IF h.asks = "never" /\ h.busy THEN "busy" ELSE "none")
          \/ /\ h.asks = "before"
             /\ op' = [op EXCEPT ![o].does = h, ![o].state = current,
                                 ![o].pc = "ask"]
             \* delSel locks the tree, addFiles posts loading: true
             /\ view' = CASE h = handleDelete -> "locked"
                          [] h = runAddToArchive -> "loading"
                          [] OTHER -> view
             /\ UNCHANGED <<states, cancelled>>
  /\ UNCHANGED <<file, current, html, vault, disposed>>

\* The prompt is dismissed.  The handlers that had started also end here.
Dismiss(o) ==
  /\ op[o].pc = "ask"
  /\ IF op[o].does.asks = "after"
     THEN Over(o, "ended") /\ endOperation(op[o].state)
     ELSE Over(o, "dropped") /\ UNCHANGED <<states, disposed>>
  /\ view' = IF op[o].does.dismissed THEN Posted("idle") ELSE view
  /\ UNCHANGED <<file, current, html, vault, cancelled>>

\* The prompt is answered: now, or before it, the operation was started.
Accept(o) ==
  /\ op[o].pc = "ask"
  /\ LET h == op[o].does
         late == h.asks = "after" /\ o \in cancelled IN
     IF late THEN Finally(o, {}) /\ UNCHANGED cancelled
     ELSE /\ Goes(o, "work")
          /\ view' = Posted("busy")
          /\ IF h.asks = "before" /\ h.token
             THEN startOperation(o, op[o].state) ELSE UNCHANGED <<states, cancelled>>
          /\ UNCHANGED disposed
  /\ UNCHANGED <<file, current, html, vault>>

\* A RAR archive is erased with its last entry.
Outcomes(h) ==
  IF h = handleDelete THEN {0, file + 1}
  ELSE IF h.edits THEN {file + 1} ELSE {file}

\* The engine is done with an archive; an edit is on disk from here on.
Work(o) ==
  /\ op[o].pc = "work"
  /\ file # 0
  /\ Goes(o, "worked")
  /\ file' \in Outcomes(op[o].does)
  /\ UNCHANGED <<current, states, html, view, vault, cancelled, disposed>>

\* The engine fails, or gives up for a cancelled token.
WorkFails(o) ==
  /\ op[o].pc = "work"
  /\ \/ Finally(o, IF op[o].does.says THEN {"err"} ELSE {})
     \/ op[o].does.heeds /\ o \in cancelled /\ Finally(o, {})
  /\ UNCHANGED <<file, current, html, vault, cancelled>>

\* The handler goes on: superseded it says nothing and leaves the panel.
Worked(o) ==
  /\ op[o].pc = "worked"
  /\ LET h == op[o].does
         superseded == h.token /\ ~h.heeds /\ o \in cancelled
         refresh == h.edits /\ ~superseded IN
     \/ /\ refresh
        /\ ~(h = handleDelete /\ file = 0)
        /\ Goes(o, "setup")
        /\ UNCHANGED <<states, html, view, disposed>>
     \/ /\ refresh
        /\ h = handleDelete /\ file = 0
        /\ Page("empty", 0)
        /\ Finally(o, {})
     \/ /\ ~refresh
        /\ Finally(o, IF h.says /\ ~superseded THEN {"ok"} ELSE {})
        /\ UNCHANGED html
  /\ UNCHANGED <<file, current, vault, cancelled>>
-----------------------------------------------------------------------------
(* setupWebview() *)

Setup(o) ==
  /\ op[o].pc = "setup"
  /\ op' = [op EXCEPT ![o].pc = "detect",
                      ![o].password = states[current].password]
  /\ Page("loading", 0)
  /\ view' = "loading"
  /\ UNCHANGED <<file, current, states, vault, cancelled, disposed>>

\* The setup is over; a handler that waited for it ends with it.
SetupEnds(o, s, page, shown) ==
  /\ Page(page, shown)
  /\ Over(o, IF o = Open \/ op[o].does.token THEN "ended" ELSE "dropped")
  /\ LET h == op[o].does
         waited == o # Open
         source == IF waited /\ h.token THEN s[op[o].state].source ELSE Nobody
     IN /\ disposed' = disposed \cup ({source} \ {Nobody})
        /\ states' = IF waited /\ h.token
                     THEN [s EXCEPT ![op[o].state].source = Nobody] ELSE s
        /\ view' = IF waited THEN Posted("idle") ELSE page

\* The panel gets a state of its own, without a cancel source.
NewState(o, pw, entries) ==
  [states EXCEPT ![o] = [password |-> pw, entries |-> entries,
                         source |-> Nobody]]

PasswordPage(o, pw) ==
  /\ current' = o
  /\ SetupEnds(o, NewState(o, pw, 0), "password", 0)

\* isEncrypted() returns, or fails and leaves the setup blind.
Detect(o) ==
  /\ op[o].pc = "detect"
  /\ \E blind \in BOOLEAN :
       /\ file = 0 => blind
       /\ op' = [op EXCEPT ![o].blind = blind,
            ![o].pc = IF op[o].password = "none" THEN "recall" ELSE "retry"]
  /\ UNCHANGED <<file, current, states, html, view, vault, cancelled, disposed>>

renderOversizeMessage(o) ==
  /\ op[o].pc = "detect"
  /\ SetupEnds(o, states, "empty", 0)
  /\ UNCHANGED <<file, current, vault, cancelled>>

\* getCachedArchivePassword()
Recall(o) ==
  /\ op[o].pc = "recall"
  /\ IF vault = "none" THEN PasswordPage(o, "none")
     ELSE /\ op' = [op EXCEPT ![o].pc = "retry", ![o].password = vault]
          /\ UNCHANGED <<current, states, html, view, disposed>>
  /\ UNCHANGED <<file, vault, cancelled>>

\* The password at hand is tried by listing with it.
Retry(o) ==
  /\ op[o].pc = "retry"
  /\ \/ /\ file # 0
        /\ Lists(op[o].password)
        /\ Goes(o, "list")
        /\ UNCHANGED <<current, states, html, view, disposed>>
     \/ /\ op[o].blind
        /\ Goes(o, "list")
        /\ UNCHANGED <<current, states, html, view, disposed>>
     \/ /\ ~op[o].blind
        /\ PasswordPage(o, op[o].password)
  /\ UNCHANGED <<file, vault, cancelled>>

\* Mutant: the listing the panel already has is taken.
ListKnown(o) ==
  /\ op[o].pc = "list"
  /\ file # 0
  /\ Lists(op[o].password)
  /\ op' = [op EXCEPT ![o].pc = "install",
        ![o].listing = IF current = Nobody THEN file ELSE states[current].entries]
  /\ UNCHANGED <<file, current, states, html, view, vault, cancelled, disposed>>

\* The listing is read, and arrives in a later step.
List(o) ==
  /\ op[o].pc = "list"
  /\ file # 0
  /\ Lists(op[o].password)
  /\ op' = [op EXCEPT ![o].pc = "install", ![o].listing = file]
  /\ UNCHANGED <<file, current, states, html, view, vault, cancelled, disposed>>

ListFails(o) ==
  /\ op[o].pc = "list"
  /\ SetupEnds(o, states, "empty", 0)
  /\ UNCHANGED <<file, current, vault, cancelled>>

Install(o) ==
  /\ op[o].pc = "install"
  /\ current' = o
  /\ states' = NewState(o, op[o].password, op[o].listing)
  /\ Page("content", op[o].listing)
  /\ view' = "content"
  /\ Goes(o, "expand")
  /\ UNCHANGED <<file, vault, cancelled, disposed>>

\* loadExpandedPaths() returned, and with it the handler's last await.
Expand(o) ==
  /\ op[o].pc = "expand"
  /\ IF o = Open THEN Over(o, "ended") /\ UNCHANGED <<states, view, disposed>>
     ELSE Finally(o, {})
  /\ UNCHANGED <<file, current, html, vault, cancelled>>
-----------------------------------------------------------------------------
(* handlePassword() *)

handlePassword == Reader

Submit(o) ==
  /\ op[o].pc = "idle"
  /\ view = "password"
  /\ startOperation(o, current)
  /\ \E pw \in {"right", "wrong"} :
       op' = [op EXCEPT ![o].does = handlePassword, ![o].state = current,
                        ![o].password = pw, ![o].pc = "try"]
  /\ UNCHANGED <<file, current, html, view, vault, disposed>>

Try(o) ==
  /\ op[o].pc = "try"
  /\ file # 0
  /\ Lists(op[o].password)
  /\ op' = [op EXCEPT ![o].pc = "tried", ![o].listing = file]
  /\ UNCHANGED <<file, current, states, html, view, vault, cancelled, disposed>>

\* A wrong password leaves the page, any other failure is posted as err.
TryFails(o) ==
  /\ op[o].pc = "try"
  /\ \E message \in {"pwerr", "err"} : Finally(o, {message})
  /\ UNCHANGED <<file, current, html, vault, cancelled>>

\* The state takes the password before verifyArchivePassword() tests it.
Tried(o) ==
  /\ op[o].pc = "tried"
  /\ IF o \in cancelled
     THEN Finally(o, {})
     ELSE /\ states' = [states EXCEPT ![op[o].state].password = op[o].password]
          /\ Goes(o, IF SevenZip THEN "save" ELSE "verify")
          /\ UNCHANGED <<view, disposed>>
  /\ UNCHANGED <<file, current, html, vault, cancelled>>

\* Mutant: a test that could not be made passes.
verifyArchivePasswordLax(o) ==
  /\ op[o].pc = "verify"
  /\ Goes(o, "save")
  /\ UNCHANGED <<file, current, states, html, view, vault, cancelled, disposed>>

verifyArchivePassword(o) ==
  /\ op[o].pc = "verify"
  /\ \/ /\ op[o].password = "right"
        /\ Goes(o, "save")
        /\ UNCHANGED <<states, view, disposed>>
     \/ Finally(o, {"pwerr"})
  /\ UNCHANGED <<file, current, html, vault, cancelled>>

saveArchivePassword(o) ==
  /\ op[o].pc = "save"
  /\ vault' = op[o].password
  /\ Goes(o, "saved")
  /\ UNCHANGED <<file, current, states, html, view, cancelled, disposed>>

Saved(o) ==
  /\ op[o].pc = "saved"
  /\ IF o \in cancelled
     THEN Finally(o, {}) /\ UNCHANGED html
     ELSE /\ states' = [states EXCEPT ![op[o].state].entries = op[o].listing]
          /\ Page("content", op[o].listing)
          /\ view' = "content"
          /\ Goes(o, "expand")
          /\ UNCHANGED disposed
  /\ UNCHANGED <<file, current, vault, cancelled>>
-----------------------------------------------------------------------------
Handler(o) ==
  \/ Refuse(o) \/ Misdirect(o) \/ Dispatch(o) \/ Dismiss(o) \/ Accept(o)
  \/ Work(o) \/ WorkFails(o) \/ Worked(o)

Refresh(o) ==
  \/ Setup(o) \/ Detect(o) \/ renderOversizeMessage(o) \/ Recall(o) \/ Retry(o)
  \/ List(o) \/ ListFails(o) \/ Install(o) \/ Expand(o)

Unlock(o) ==
  \/ Submit(o) \/ Try(o) \/ TryFails(o) \/ Tried(o)
  \/ verifyArchivePassword(o) \/ saveArchivePassword(o) \/ Saved(o)

Next == \E o \in Owners : Handler(o) \/ Refresh(o) \/ Unlock(o)

Spec == Init /\ [][Next]_vars
-----------------------------------------------------------------------------
Done == {"ended", "dropped", "refused", "left", "unlocked"}
Quiet == \A o \in Owners : op[o].pc \in Done \cup {"idle"}

\* Only a password the archive was tested with is kept for the session, in
\* whatever order attempts, cancellations and failing engines are mixed
\* (password.ts; the vault is read again by every later setup).
OnlyVerifiedKept == vault # "wrong"

\* The cancellation source of an operation that is over was cancelled by its
\* successor or disposed, even when the panel's state, or the source in it,
\* was replaced in between (state.ts).
SourcesSettled ==
  \A o \in Ops : op[o].pc \in Done \ {"dropped", "refused"} => o \in cancelled \cup disposed

\* The overlay that hides the tree does not outlive the operations: the one
\* that put it up, or the one that silenced it, takes it away.
OverlayClears == Quiet => view \notin {"loading", "locked"}

\* Only the lock of a delSel message that the router refused outlives them: every
\* overlay the host posted is gone, and so is that of every message it took,
\* however the operations supersede and silence each other.
OverlayAccounted ==
  Quiet =>
    /\ view # "loading"
    /\ view = "locked" => \E o \in Ops : op[o].pc = "refused"

\* An archive that was edited once, by an operation nothing superseded, is
\* shown as edited, unless an unlock has rendered the listing it had read.
EditShown ==
  /\ Quiet
  /\ html.page = "content"
  /\ file = 2
  /\ \A o \in Ops : op[o].pc \notin {"left", "unlocked"}
  => html.shown = file

\* Operations that have been started and still look at their token.
Pending(o) ==
  /\ op[o].does.token
  /\ op[o].pc \in {"work", "worked", "try", "tried", "verify", "save", "saved"}

\* A new operation cancels every pending one of the panel.
OneLiveOperation == Cardinality({o \in Ops : Pending(o)} \ cancelled) <= 1
=============================================================================
